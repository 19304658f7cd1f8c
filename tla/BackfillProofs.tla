--------------------------- MODULE BackfillProofs ---------------------------
(* Proofs about backfills, and about the suite MCPipelines that the plan of *)
(* a backfill is a part of (the second half of the module).                 *)
(*                                                                          *)
(* The argument about Backfill has three layers: types, what the row of a   *)
(* partition says of its workflow and of its mark (RunInv), and what the    *)
(* statuses say (VerdictInv).  The concurrency bound needs a fourth one,    *)
(* SlotInv, and holds for one dispatcher only.  The theorems about the      *)
(* suite carry those of PipelineProofs over to the instances it runs.       *)
EXTENDS Backfill, MCPipelines, FiniteSetTheorems, TLAPS

USE DEF OpenJob, Active, Terminal, Stages

RunInv ==
    /\ \A p \in Partition : p \in alive => row[p] = "running"
    /\ \A p \in Partition : mark[p] # "none" => row[p] \in Terminal

VerdictInv ==
    /\ CompletedRangeIsReal
    /\ JobCompletedIsWhole
    /\ CancelledJobIsDrained

Inv == TypeOK /\ RunInv /\ VerdictInv

-----------------------------------------------------------------------------

(* Every record the dispatcher moves to is a dispatcher state.              *)
LEMMA AtType == \A s \in Stages, p \in Partition : At(s, p) \in DispatcherState
  BY DEF At, DispatcherState

(* So is the idle one: a backfill has a first partition.                    *)
LEMMA IdleType == Idle \in DispatcherState
  BY CountsAssumption, AtType DEF Idle, Partition

(* A new job is well typed.                                                 *)
LEMMA TypeInit == Init => TypeOK
  BY CountsAssumption, IdleType DEF Init, TypeOK

(* No step leaves the types; MarkExecution writes the phase of the row,     *)
(* which RunInv says is terminal by then.                                   *)
LEMMA TypeStep == TypeOK /\ RunInv /\ [Next]_vars => TypeOK'
  <1> SUFFICES ASSUME TypeOK, RunInv, [Next]_vars PROVE TypeOK'
    OBVIOUS
  <1> USE DEF TypeOK
  <1>0. /\ \A d \in Dispatcher : disp[d].stage \in Stages /\ disp[d].part \in Partition
        /\ \A d \in Dispatcher : disp[d].pending \in SUBSET Partition
    BY DEF DispatcherState
  <1>1. ASSUME NEW d \in Dispatcher, ClaimSnapshot(d) PROVE TypeOK'
    <2>1. part' \in [Partition -> {"pending"} \cup Active \cup Terminal]
      BY <1>1 DEF ClaimSnapshot, Reset, Expired
    <2>2. disp' \in [Dispatcher -> DispatcherState]
      BY <1>1, CountsAssumption DEF ClaimSnapshot, DispatcherState, Partition
    <2> QED
      BY <1>1, <2>1, <2>2 DEF ClaimSnapshot, runVars, bounds
  <1>2. ASSUME NEW d \in Dispatcher, ClaimLock(d) PROVE TypeOK'
    <2>1. PICK p \in Candidates(d) :
            /\ part' = [part EXCEPT ![p] = "starting"]
            /\ old' = old \ {p}
            /\ disp' = [disp EXCEPT ![d] = At("fire", p)]
      BY <1>2 DEF ClaimLock
    <2>2. p \in Partition
      BY <1>0 DEF Candidates
    <2> QED
      BY <1>2, <2>1, <2>2, AtType DEF ClaimLock, runVars, bounds
  <1>3. ASSUME NEW d \in Dispatcher, ClaimNothing(d) PROVE TypeOK'
    BY <1>3, IdleType DEF ClaimNothing, runVars, bounds
  <1>4. ASSUME NEW d \in Dispatcher, FireFails(d) \/ FireStarts(d) PROVE TypeOK'
    BY <1>0, <1>4, AtType DEF FireFails, FireStarts, GoTo, runVars, bounds
  <1>5. ASSUME NEW d \in Dispatcher, InsertExecution(d) PROVE TypeOK'
    BY <1>0, <1>5, IdleType DEF InsertExecution, Inserted, bounds
  <1>6. ASSUME NEW d \in Dispatcher, InsertRefused(d) PROVE TypeOK'
    <2>1. faults' \in 0..MaxFaults /\ retries' = retries
      BY <1>6, CountsAssumption DEF InsertRefused, Fault, bounds
    <2> QED
      BY <1>0, <1>6, <2>1, AtType DEF InsertRefused, GoTo, runVars
  <1>7. ASSUME NEW d \in Dispatcher, InsertUnknown(d) PROVE TypeOK'
    <2>1. faults' \in 0..MaxFaults /\ retries' = retries
      BY <1>7, CountsAssumption DEF InsertUnknown, Fault
    <2>2. disp' \in [Dispatcher -> DispatcherState]
      BY <1>0, <1>7, AtType DEF InsertUnknown, GoTo
    <2> QED
      BY <1>0, <1>7, <2>1, <2>2 DEF InsertUnknown, Inserted
  <1>8. ASSUME NEW d \in Dispatcher, PartitionFailed(d) PROVE TypeOK'
    BY <1>0, <1>8, IdleType DEF PartitionFailed, runVars, bounds
  <1>9. ASSUME NEW d \in Dispatcher, PartitionUpdateFails(d) \/ Crash(d) PROVE TypeOK'
    <2>1. faults' \in 0..MaxFaults /\ retries' = retries
      BY <1>9, CountsAssumption DEF PartitionUpdateFails, Crash, Fault
    <2> QED
      BY <1>9, <2>1, IdleType DEF PartitionUpdateFails, Crash, runVars
  <1>10. ASSUME NEW p \in Partition, Ages(p) PROVE TypeOK'
    BY <1>10 DEF Ages, runVars, bounds
  <1>11. ASSUME NEW p \in Partition, RunLost(p) PROVE TypeOK'
    BY <1>11, CountsAssumption DEF RunLost, Fault
  <1>12. ASSUME NEW p \in Partition, NEW phase \in Terminal, RunEnds(p, phase) PROVE TypeOK'
    BY <1>12 DEF RunEnds, bounds
  <1>13. ASSUME NEW p \in Partition, MarkBackfill(p) PROVE TypeOK'
    <2>1. row[p] \in Terminal
      BY <1>13 DEF MarkBackfill, RunInv
    <2>2. job' \in OpenJob \cup Terminal
      BY <1>13 DEF MarkBackfill, Verdict
    <2> QED
      BY <1>13, <2>1, <2>2 DEF MarkBackfill, MarkedPhase, bounds
  <1>14. ASSUME NEW p \in Partition, MarkIgnored(p) \/ MarkRepeated(p) PROVE TypeOK'
    BY <1>14, CountsAssumption DEF MarkIgnored, MarkRepeated, Fault
  <1>15. CASE BackfillCancel
    BY <1>15 DEF BackfillCancel, runVars, bounds
  <1>16. CASE BackfillRetry
    BY <1>16, CountsAssumption DEF BackfillRetry, Retriable, runVars
  <1>17. CASE UNCHANGED vars
    BY <1>17 DEF vars
  <1> QED
    BY <1>1, <1>2, <1>3, <1>4, <1>5, <1>6, <1>7, <1>8, <1>9, <1>10, <1>11, <1>12,
       <1>13, <1>14, <1>15, <1>16, <1>17 DEF Next, Dispatch

-----------------------------------------------------------------------------
(* The row of a partition, its workflow and its mark.                       *)

(* No step revives an ended run or marks one that has not ended.            *)
LEMMA RunStep == TypeOK /\ RunInv /\ [Next]_vars => RunInv'
  <1> SUFFICES ASSUME TypeOK, RunInv, [Next]_vars PROVE RunInv'
    OBVIOUS
  <1> USE DEF TypeOK, RunInv
  <1>0. \A d \in Dispatcher : disp[d].part \in Partition
    BY DEF DispatcherState
  <1>1. CASE UNCHANGED runVars
    BY <1>1 DEF runVars
  <1>2. ASSUME NEW d \in Dispatcher, InsertExecution(d) PROVE RunInv'
    BY <1>0, <1>2 DEF InsertExecution, Inserted, Unique
  <1>3. ASSUME NEW d \in Dispatcher, InsertUnknown(d) PROVE RunInv'
    BY <1>0, <1>3 DEF InsertUnknown, Inserted, Unique
  <1>4. ASSUME NEW p \in Partition, RunLost(p) PROVE RunInv'
    BY <1>4 DEF RunLost
  <1>5. ASSUME NEW p \in Partition, NEW phase \in Terminal, RunEnds(p, phase) PROVE RunInv'
    BY <1>5 DEF RunEnds
  <1>6. ASSUME NEW p \in Partition, MarkBackfill(p) PROVE RunInv'
    BY <1>6 DEF MarkBackfill
  <1>7. ASSUME NEW p \in Partition, MarkIgnored(p) \/ MarkRepeated(p) PROVE RunInv'
    BY <1>7 DEF MarkIgnored, MarkRepeated
  <1> QED
    BY <1>1, <1>2, <1>3, <1>4, <1>5, <1>6, <1>7
    DEF Next, Dispatch, vars, ClaimSnapshot, ClaimLock, ClaimNothing, FireFails, FireStarts,
        InsertRefused, PartitionFailed, PartitionUpdateFails, Crash, Ages,
        BackfillCancel, BackfillRetry, runVars

-----------------------------------------------------------------------------
(* What the statuses say of the rows.                                       *)

(* A step that keeps completed rows, completes no partition, leaves a       *)
(* completed or cancelled job no other way than by reopening it and makes   *)
(* no partition of a cancelled job pending or starting is harmless.         *)
LEMMA VerdictFrame ==
  ASSUME VerdictInv, TypeOK,
         \A p \in Partition : row[p] = "completed" => row'[p] = "completed",
         \A p \in Partition : part'[p] = "completed" => part[p] = "completed",
         job' = job \/ job' = "running" \/ job' = "cancelled",
         job' = "cancelled" => \A p \in Partition : part'[p] \notin {"pending", "starting"}
  PROVE  VerdictInv'
  <1>1. CompletedRangeIsReal'
    BY DEF VerdictInv, CompletedRangeIsReal
  <1>2. JobCompletedIsWhole'
    BY DEF VerdictInv, JobCompletedIsWhole
  <1>3. CancelledJobIsDrained'
    BY DEF CancelledJobIsDrained, InStatus
  <1> QED
    BY <1>1, <1>2, <1>3 DEF VerdictInv

(* No step shows more as completed than was moved, or gives a cancelled job *)
(* something to launch.                                                     *)
LEMMA VerdictStep == Inv /\ [Next]_vars => VerdictInv'
  <1> SUFFICES ASSUME Inv, [Next]_vars PROVE VerdictInv'
    OBVIOUS
  <1> USE DEF Inv, TypeOK
  <1>0. /\ \A d \in Dispatcher : disp[d].part \in Partition
        /\ \A d \in Dispatcher : disp[d].pending \in SUBSET Partition
        /\ job = "cancelled" => \A p \in Partition : part[p] \notin {"pending", "starting"}
    BY DEF DispatcherState, VerdictInv, CancelledJobIsDrained, InStatus
  <1>1. CASE UNCHANGED <<job, part, row>>
    BY <1>0, <1>1, VerdictFrame
  <1>2. ASSUME NEW d \in Dispatcher, ClaimSnapshot(d) PROVE VerdictInv'
    BY <1>0, <1>2, VerdictFrame DEF ClaimSnapshot, Reset, Expired, runVars
  <1>3. ASSUME NEW d \in Dispatcher, ClaimLock(d) PROVE VerdictInv'
    BY <1>0, <1>3, VerdictFrame DEF ClaimLock, Candidates, Rechecked, runVars
  <1>4. ASSUME NEW d \in Dispatcher, InsertExecution(d) PROVE VerdictInv'
    BY <1>0, <1>4, VerdictFrame DEF InsertExecution, Inserted, Unique
  <1>5. ASSUME NEW d \in Dispatcher, InsertUnknown(d) PROVE VerdictInv'
    BY <1>0, <1>5, VerdictFrame DEF InsertUnknown, Inserted, Unique
  <1>6. ASSUME NEW d \in Dispatcher, PartitionFailed(d) PROVE VerdictInv'
    BY <1>0, <1>6, VerdictFrame DEF PartitionFailed, runVars
  <1>7. ASSUME NEW p \in Partition, NEW phase \in Terminal, RunEnds(p, phase) PROVE VerdictInv'
    BY <1>0, <1>7, VerdictFrame DEF RunEnds
  <1>8. ASSUME NEW p \in Partition, MarkBackfill(p) PROVE VerdictInv'
    <2>1. row[p] \in Terminal
      BY <1>8 DEF MarkBackfill, RunInv
    <2>2. CompletedRangeIsReal'
      BY <1>8 DEF MarkBackfill, MarkedPhase, VerdictInv, CompletedRangeIsReal
    <2>3. JobCompletedIsWhole'
      <3>1. CASE InStatus(Unfinished) = {}
        <4>1. \A q \in Partition : part[q] \notin Unfinished
          BY <3>1 DEF InStatus
        <4>2. ASSUME Verdict = "completed" PROVE \A q \in Partition : part[q] = "completed"
          BY <4>1, <4>2 DEF Verdict, Unfinished
        <4>3. job' = Verdict /\ row' = row
          BY <1>8, <3>1 DEF MarkBackfill
        <4> QED
          BY <4>2, <4>3 DEF VerdictInv, CompletedRangeIsReal, JobCompletedIsWhole
      <3>2. CASE InStatus(Unfinished) # {}
        BY <1>8, <3>2 DEF MarkBackfill, VerdictInv, JobCompletedIsWhole
      <3> QED
        BY <3>1, <3>2
    <2>4. CancelledJobIsDrained'
      <3>1. \A q \in Partition : part[q] \notin {"pending", "starting"} =>
                                  part'[q] \notin {"pending", "starting"}
        BY <1>8, <2>1 DEF MarkBackfill, MarkedPhase
      <3>2. InStatus(Unfinished) = {} => \A q \in Partition : part[q] \notin {"pending", "starting"}
        BY DEF InStatus, Unfinished
      <3>3. InStatus(Unfinished) # {} => job' = job
        BY <1>8 DEF MarkBackfill
      <3> QED
        BY <1>0, <3>1, <3>2, <3>3 DEF CancelledJobIsDrained, InStatus
    <2> QED
      BY <2>2, <2>3, <2>4 DEF VerdictInv
  <1>9. CASE BackfillCancel
    BY <1>9, VerdictFrame DEF BackfillCancel, runVars
  <1>10. CASE BackfillRetry
    BY <1>10, VerdictFrame DEF BackfillRetry, Retriable, runVars
  <1> QED
    BY <1>1, <1>2, <1>3, <1>4, <1>5, <1>6, <1>7, <1>8, <1>9, <1>10
    DEF Next, Dispatch, vars, ClaimNothing, FireFails, FireStarts, InsertRefused,
        PartitionUpdateFails, Crash, Ages, RunLost, MarkIgnored, MarkRepeated, runVars

-----------------------------------------------------------------------------

(* Types, rows and statuses of a backfill agree in every reachable state,   *)
(* for any number of partitions, replicas, failures and retries.            *)
THEOREM BackfillInvariance == Spec => []Inv
  <1>1. Init => Inv
    <2>1. Init => RunInv
      BY DEF Init, RunInv
    <2>2. Init => VerdictInv
      BY DEF Init, VerdictInv, CompletedRangeIsReal, JobCompletedIsWhole, CancelledJobIsDrained
    <2> QED
      BY <2>1, <2>2, TypeInit DEF Inv
  <1>2. Inv /\ [Next]_vars => Inv'
    BY TypeStep, RunStep, VerdictStep DEF Inv
  <1> QED
    BY <1>1, <1>2, PTL DEF Spec

(* Every variable of Backfill keeps its type.                               *)
THEOREM BackfillTypes == Spec => []TypeOK
  BY BackfillInvariance, PTL DEF Inv

(* A partition shown as completed has a completed execution: MarkExecution  *)
(* writes the phase that the row returned.                                  *)
THEOREM RangesReal == Spec => []CompletedRangeIsReal
  <1>1. Inv => CompletedRangeIsReal
    BY DEF Inv, VerdictInv
  <1> QED
    BY <1>1, BackfillInvariance, PTL

(* A job shown as completed has had every range moved, although             *)
(* MarkExecution computes the verdict from a snapshot.                      *)
THEOREM JobsWhole == Spec => []JobCompletedIsWhole
  <1>1. Inv => JobCompletedIsWhole
    BY DEF Inv, VerdictInv
  <1> QED
    BY <1>1, BackfillInvariance, PTL

(* MarkExecution never shows a partition or a job as completed wrongly.     *)
THEOREM CompletedSound == Spec => []CompletedIsReal
  <1>1. CompletedRangeIsReal /\ JobCompletedIsWhole => CompletedIsReal
    BY DEF CompletedIsReal
  <1> QED
    BY <1>1, RangesReal, JobsWhole, PTL

(* After backfillCancel nothing is left that a dispatcher may claim.        *)
THEOREM CancelDrains == Spec => []CancelledJobIsDrained
  <1>1. Inv => CancelledJobIsDrained
    BY DEF Inv, VerdictInv
  <1> QED
    BY <1>1, BackfillInvariance, PTL

(* No step gives a moved range a second execution: the unique index keeps   *)
(* expired claims and retries of fireExecution out.                         *)
THEOREM RangesMovedOnce == Spec => CompletedRangeNotRerun
  <1>1. Inv /\ Inv' /\ [Next]_vars =>
          [\A p \in Partition : row[p] = "completed" => row'[p] = "completed" /\ p \notin alive']_vars
    <2> SUFFICES ASSUME Inv, Inv', [Next]_vars, NEW p \in Partition, row[p] = "completed"
                 PROVE  row'[p] = "completed" /\ p \notin alive'
      OBVIOUS
    <2>1. row'[p] = "completed"
      BY DEF Inv, TypeOK, DispatcherState, Next, Dispatch, vars, runVars, ClaimSnapshot, ClaimLock,
             ClaimNothing, FireFails, FireStarts, InsertExecution, Inserted, Unique, InsertRefused,
             InsertUnknown, PartitionFailed, PartitionUpdateFails, Crash, Ages, RunEnds, RunLost,
             MarkBackfill, MarkIgnored, MarkRepeated, BackfillCancel, BackfillRetry
    <2> QED
      BY <2>1 DEF Inv, RunInv
  <1> QED
    BY <1>1, BackfillInvariance, PTL DEF Spec, CompletedRangeNotRerun

-----------------------------------------------------------------------------
(* The slots of the job, for one dispatcher d.                              *)

(* The partitions that hold a slot: a run whose INSERT went unanswered      *)
(* holds none.                                                              *)
Holders == (InStatus(Active) \cup alive) \ unknown

(* The partition being launched, which a cancel may have taken out of       *)
(* 'starting'.                                                              *)
Launching(d) == IF disp[d].stage \in {"fire", "insert"} THEN {disp[d].part} ELSE {}

(* The bound with the launch counted; the snapshot of a claim covers the    *)
(* holders; a live run holds a 'running' partition, and never the one that  *)
(* is being launched or is about to be failed.                              *)
SlotInv(d) ==
    /\ Cardinality(Holders \cup Launching(d)) <= MaxConcurrency
    /\ disp[d].stage = "claim" => Holders \subseteq disp[d].active
    /\ \A p \in Partition : p \in alive \ unknown => part[p] = "running"
    /\ disp[d].stage \in {"fire", "insert", "fail"} => disp[d].part \notin alive \ unknown

(* Sets of partitions can be counted.                                       *)
LEMMA PartitionFinite ==
  ASSUME NEW S, S \subseteq Partition
  PROVE  IsFiniteSet(S) /\ Cardinality(S) \in Nat
  <1>1. PartitionCount \in Int
    BY CountsAssumption
  <1>2. IsFiniteSet(Partition)
    BY <1>1, FS_Interval DEF Partition
  <1>3. IsFiniteSet(S)
    BY <1>2, FS_Subset
  <1> QED
    BY <1>3, FS_CardinalityType

(* Giving up slots keeps the bound.                                         *)
LEMMA SmallerSlots ==
  ASSUME NEW S, NEW T, T \subseteq Partition, S \subseteq T, Cardinality(T) <= MaxConcurrency
  PROVE  Cardinality(S) <= MaxConcurrency
  <1>1. IsFiniteSet(T) /\ Cardinality(T) \in Nat /\ Cardinality(S) \in Nat
    BY PartitionFinite
  <1>2. Cardinality(S) <= Cardinality(T)
    BY <1>1, FS_Subset
  <1> QED
    BY <1>1, <1>2, CountsAssumption

(* So does taking one when one is free.                                     *)
LEMMA OneMoreSlot ==
  ASSUME NEW T, NEW p, T \subseteq Partition, Cardinality(T) < MaxConcurrency
  PROVE  Cardinality(T \cup {p}) <= MaxConcurrency
  <1>1. IsFiniteSet(T) /\ Cardinality(T) \in Nat
    BY PartitionFinite
  <1>2. Cardinality(T \cup {p}) \in {Cardinality(T), Cardinality(T) + 1}
    BY <1>1, FS_AddElement
  <1> QED
    BY <1>1, <1>2, CountsAssumption

(* A step that takes no new slot and touches neither the launch nor a live  *)
(* run keeps SlotInv.                                                       *)
LEMMA SlotFrame ==
  ASSUME NEW d \in Dispatcher, TypeOK, SlotInv(d),
         Holders' \cup Launching(d)' \subseteq Holders \cup Launching(d),
         disp'[d].stage = "claim" => Holders' \subseteq disp'[d].active,
         \A p \in Partition : p \in alive' \ unknown' => part'[p] = "running",
         disp'[d].stage \in {"fire", "insert", "fail"} => disp'[d].part \notin alive' \ unknown'
  PROVE  SlotInv(d)'
  <1>1. Holders \cup Launching(d) \subseteq Partition
    BY DEF Holders, Launching, InStatus, TypeOK, DispatcherState
  <1>2. Cardinality(Holders' \cup Launching(d)') <= MaxConcurrency
    BY <1>1, SmallerSlots DEF SlotInv
  <1> QED
    BY <1>2 DEF SlotInv

(* Every step of a system with the one dispatcher d keeps SlotInv.          *)
LEMMA SlotStep ==
  ASSUME NEW d, Dispatcher = {d}, Inv, SlotInv(d), [Next]_vars
  PROVE  SlotInv(d)'
  <1> USE DEF TypeOK
  <1>0. /\ TypeOK /\ RunInv /\ d \in Dispatcher
        /\ disp[d].part \in Partition
        /\ disp[d].pending \in SUBSET Partition /\ disp[d].active \in SUBSET Partition
        /\ \A e \in Dispatcher : e = d
        /\ Holders \cup Launching(d) \subseteq Partition
    BY DEF Inv, DispatcherState, Holders, Launching, InStatus
  <1>s. /\ disp[d].stage = "claim" => Holders \subseteq disp[d].active
        /\ \A p \in Partition : p \in alive \ unknown => part[p] = "running"
        /\ disp[d].stage \in {"fire", "insert", "fail"} => disp[d].part \notin alive \ unknown
        /\ Cardinality(Holders \cup Launching(d)) <= MaxConcurrency
    BY DEF SlotInv
  <1>1. CASE ClaimSnapshot(d)
    <2>1. /\ disp'[d] = [stage |-> "claim", part |-> 1,
                         pending |-> {p \in Partition : part'[p] = "pending"},
                         active |-> {p \in Partition : part'[p] \in Active}]
          /\ alive' = alive /\ unknown' = unknown
      BY <1>0, <1>1 DEF ClaimSnapshot, runVars
    <2>2. \A p \in Partition : /\ part'[p] \in Active => part[p] \in Active
                               /\ part[p] = "running" => part'[p] = "running"
      BY <1>1 DEF ClaimSnapshot, Reset, Expired
    <2>3. disp'[d].stage = "claim" /\ disp'[d].active = {p \in Partition : part'[p] \in Active}
      BY <2>1
    <2>4. Holders' \subseteq disp'[d].active
      BY <1>0, <1>s, <2>1, <2>2, <2>3 DEF Holders, InStatus
    <2>5. Holders' \cup Launching(d)' \subseteq Holders \cup Launching(d)
      BY <2>1, <2>2, <2>3 DEF Holders, Launching, InStatus
    <2> QED
      BY <1>0, <1>s, <2>1, <2>2, <2>3, <2>4, <2>5, SlotFrame
  <1>2. CASE ClaimLock(d)
    <2>1. PICK p \in Candidates(d) :
            /\ part' = [part EXCEPT ![p] = "starting"]
            /\ disp' = [disp EXCEPT ![d] = At("fire", p)]
      BY <1>2 DEF ClaimLock
    <2>2. /\ p \in Partition /\ part[p] = "pending"
          /\ Cardinality(disp[d].active) < MaxConcurrency
      BY <1>0, <2>1 DEF Candidates, Rechecked, FreeSlot
    <2>3. /\ disp'[d].stage = "fire" /\ disp'[d].part = p
          /\ alive' = alive /\ unknown' = unknown
      BY <1>0, <1>2, <2>1 DEF At, ClaimLock, runVars
    <2>4. Holders' \cup Launching(d)' \subseteq disp[d].active \cup {p}
      BY <1>0, <1>2, <1>s, <2>1, <2>2, <2>3 DEF Holders, Launching, InStatus, ClaimLock
    <2>5. Cardinality(disp[d].active \cup {p}) <= MaxConcurrency
      BY <1>0, <2>2, OneMoreSlot
    <2>6. Cardinality(Holders' \cup Launching(d)') <= MaxConcurrency
      BY <1>0, <2>2, <2>4, <2>5, SmallerSlots
    <2>7. \A q \in Partition : q \in alive' \ unknown' => part'[q] = "running"
      BY <1>s, <2>1, <2>2, <2>3
    <2>8. p \notin alive \ unknown
      BY <1>s, <2>2
    <2> QED
      BY <2>3, <2>6, <2>7, <2>8 DEF SlotInv
  <1>3. CASE ClaimNothing(d) \/ Crash(d) \/ PartitionUpdateFails(d)
    <2>1. /\ disp'[d].stage = "idle"
          /\ part' = part /\ alive' = alive /\ unknown' = unknown
      BY <1>0, <1>3 DEF ClaimNothing, Crash, PartitionUpdateFails, Idle, At, runVars
    <2>2. Holders' \cup Launching(d)' \subseteq Holders \cup Launching(d)
      BY <2>1 DEF Holders, Launching, InStatus
    <2> QED
      BY <1>0, <1>s, <2>1, <2>2, SlotFrame
  <1>4. CASE FireFails(d) \/ FireStarts(d) \/ InsertRefused(d)
    <2>1. /\ disp[d].stage \in {"fire", "insert"}
          /\ disp'[d].stage \in {"fail", "insert"} /\ disp'[d].part = disp[d].part
          /\ part' = part /\ alive' = alive /\ unknown' = unknown
      BY <1>0, <1>4 DEF FireFails, FireStarts, InsertRefused, GoTo, At, runVars
    <2>2. Holders' \cup Launching(d)' \subseteq Holders \cup Launching(d)
      BY <2>1 DEF Holders, Launching, InStatus
    <2> QED
      BY <1>0, <1>s, <2>1, <2>2, SlotFrame
  <1>5. CASE InsertExecution(d)
    <2>1. /\ disp[d].stage = "insert" /\ disp'[d].stage = "idle"
          /\ part' = [part EXCEPT ![disp[d].part] = "running"]
          /\ alive' = alive \cup {disp[d].part} /\ unknown' = unknown
      BY <1>0, <1>5 DEF InsertExecution, Inserted, Idle, At
    <2>2. Holders' \cup Launching(d)' \subseteq Holders \cup Launching(d)
      BY <1>0, <2>1 DEF Holders, Launching, InStatus
    <2> QED
      BY <1>0, <1>s, <2>1, <2>2, SlotFrame
  <1>6. CASE InsertUnknown(d)
    <2>1. /\ disp[d].stage = "insert"
          /\ disp'[d].stage = "fail" /\ disp'[d].part = disp[d].part
          /\ part' = [part EXCEPT ![disp[d].part] = "running"]
          /\ alive' \subseteq alive \cup {disp[d].part}
          /\ unknown' = unknown \cup {disp[d].part}
      BY <1>0, <1>6 DEF InsertUnknown, Inserted, GoTo, At
    <2>2. Holders' \cup Launching(d)' \subseteq Holders \cup Launching(d)
      BY <1>0, <2>1 DEF Holders, Launching, InStatus
    <2> QED
      BY <1>0, <1>s, <2>1, <2>2, SlotFrame
  <1>7. CASE PartitionFailed(d)
    <2>1. /\ disp[d].stage = "fail" /\ disp'[d].stage = "idle"
          /\ part' = [part EXCEPT ![disp[d].part] = "failed"]
          /\ alive' = alive /\ unknown' = unknown
      BY <1>0, <1>7 DEF PartitionFailed, Idle, At, runVars
    <2>2. Holders' \cup Launching(d)' \subseteq Holders \cup Launching(d)
      BY <1>0, <2>1 DEF Holders, Launching, InStatus
    <2> QED
      BY <1>0, <1>s, <2>1, <2>2, SlotFrame
  <1>8. ASSUME disp' = disp, unknown' = unknown, alive' \subseteq alive,
               \A p \in Partition : part'[p] \in Active => part[p] \in Active,
               \A p \in Partition : p \in alive' => part'[p] = part[p] \/ part[p] # "running"
        PROVE  SlotInv(d)'
    <2>1. Holders' \cup Launching(d)' \subseteq Holders \cup Launching(d)
      BY <1>8 DEF Holders, Launching, InStatus
    <2>2. \A p \in Partition : p \in alive' \ unknown' => part'[p] = "running"
      BY <1>s, <1>8
    <2>3. Holders' \subseteq Holders
      BY <1>8 DEF Holders, InStatus
    <2> QED
      BY <1>0, <1>s, <1>8, <2>1, <2>2, <2>3, SlotFrame
  <1>9. ASSUME NEW p \in Partition, MarkBackfill(p) PROVE SlotInv(d)'
    <2>1. row[p] \in Terminal /\ p \notin alive
      BY <1>0, <1>9 DEF MarkBackfill, RunInv
    <2> QED
      BY <1>8, <1>9, <2>1 DEF MarkBackfill, MarkedPhase
  <1>10. ASSUME NEW p \in Partition, NEW phase \in Terminal,
                \/ Ages(p) \/ RunLost(p) \/ MarkIgnored(p) \/ MarkRepeated(p)
                \/ RunEnds(p, phase)
         PROVE  SlotInv(d)'
    BY <1>8, <1>10 DEF Ages, RunLost, MarkIgnored, MarkRepeated, RunEnds, runVars
  <1>11. CASE BackfillCancel \/ BackfillRetry
    BY <1>8, <1>11 DEF BackfillCancel, BackfillRetry, Retriable, runVars
  <1>12. CASE UNCHANGED vars
    BY <1>8, <1>12 DEF vars
  <1> QED
    BY <1>0, <1>1, <1>2, <1>3, <1>4, <1>5, <1>6, <1>7, <1>9, <1>10, <1>11, <1>12
    DEF Next, Dispatch

(* With one API replica, as the Helm chart deploys it, a backfill never     *)
(* has more than max_concurrency partitions in work, whatever crashes,      *)
(* cancels and retries happen around the claims.                            *)
THEOREM SlotsKept ==
  ASSUME NEW d, Dispatcher = {d}
  PROVE  Spec => []ConcurrencyKept
  <1>1. Init => SlotInv(d)
    <2> SUFFICES ASSUME Init PROVE SlotInv(d)
      OBVIOUS
    <2>1. disp[d].stage = "idle"
      BY DEF Init, Idle, At
    <2>2. Holders \cup Launching(d) = {} /\ alive = {}
      BY <2>1 DEF Init, Holders, Launching, InStatus
    <2>3. Cardinality(Holders \cup Launching(d)) = 0
      BY <2>2, FS_EmptySet
    <2> QED
      BY <2>1, <2>2, <2>3, CountsAssumption DEF SlotInv
  <1>2. Inv /\ SlotInv(d) /\ [Next]_vars => SlotInv(d)'
    BY SlotStep
  <1>3. Inv /\ SlotInv(d) => ConcurrencyKept
    <2> SUFFICES ASSUME Inv, SlotInv(d) PROVE ConcurrencyKept
      OBVIOUS
    <2>1. Holders \cup Launching(d) \subseteq Partition
      BY DEF Inv, TypeOK, DispatcherState, Holders, Launching, InStatus
    <2>2. Cardinality(Holders) <= MaxConcurrency
      BY <2>1, SmallerSlots DEF SlotInv
    <2> QED
      BY <2>2 DEF ConcurrencyKept, Holders
  <1> QED
    BY <1>1, <1>2, <1>3, BackfillInvariance, PTL DEF Spec

-----------------------------------------------------------------------------
(* The pipelines suite: a step of it is a step of the component that its   *)
(* behaviour is about, and it begins where the component begins.           *)
LEMMA PipelineSteps ==
  ASSUME [PipelinesNext]_pipelinesVars
  PROVE  /\ scenario' = scenario
         /\ scenario = "plan" => [Plan!Next]_(Plan!vars)
         /\ scenario = "sharing" => [Sharing!Next]_(Sharing!vars)
         /\ scenario = "concurrent" => [Concurrent!Next]_(Concurrent!vars)
         /\ scenario = "promotions" => [Promotions!Next]_(Promotions!vars)
         /\ scenario = "schedules" => [Schedules!Next]_(Schedules!vars)
         /\ scenario = "shapes" => [Shapes!Next]_(Shapes!vars)
         /\ scenario = "engines" => [Engines!Next]_(Engines!vars)
         /\ scenario = "versions" => [Versions!Next]_(Versions!vars)
         /\ scenario = "currents" => [Currents!Next]_(Currents!vars)
         /\ scenario = "lineage" => [Lineage!Next]_(Lineage!vars)
  <1>1. CASE PipelinesNext
    <2> USE <1>1 DEF PipelinesNext, PlanStep, LifecycleStep, GraphStep, ContractStep, PageStep
    <2>1. scenario' = scenario
      BY Zenon
    <2>2. scenario = "plan" => Plan!Next
      BY Zenon
    <2>3. scenario = "sharing" => Sharing!Next
      BY Zenon
    <2>4. scenario = "concurrent" => Concurrent!Next
      BY Zenon
    <2>5. scenario = "promotions" => Promotions!Next
      BY Zenon
    <2>6. scenario = "schedules" => Schedules!Next
      BY Zenon
    <2>7. scenario = "shapes" => Shapes!Next
      BY Zenon
    <2>8. scenario = "engines" => Engines!Next
      BY Zenon
    <2>9. scenario = "versions" => Versions!Next
      BY Zenon
    <2>10. scenario = "currents" => Currents!Next
      BY Zenon
    <2>11. scenario = "lineage" => Lineage!Next
      BY Zenon
    <2> QED BY <2>1, <2>2, <2>3, <2>4, <2>5, <2>6, <2>7, <2>8, <2>9, <2>10, <2>11, Zenon
  <1>2. CASE UNCHANGED pipelinesVars
    BY <1>2, Zenon DEF pipelinesVars, planVars, lifecycleVars, pageVars, graphVars,
       Plan!request, Plan!vars, Sharing!vars, Concurrent!vars, Promotions!vars, Schedules!vars, Shapes!vars,
       Engines!vars, Versions!vars, Currents!vars, Lineage!vars
  <1> QED BY <1>1, <1>2

LEMMA PipelineStarts ==
  PipelinesInit => /\ scenario = "plan" => Plan!Init
                   /\ scenario = "sharing" => Sharing!Init
                   /\ scenario = "concurrent" => Concurrent!Init
                   /\ scenario = "promotions" => Promotions!Init
                   /\ scenario = "schedules" => Schedules!Init
                   /\ scenario = "shapes" => Shapes!Init
                   /\ scenario = "engines" => Engines!Init
                   /\ scenario = "versions" => Versions!Init
                   /\ scenario = "currents" => Currents!Init
                   /\ scenario = "lineage" => Lineage!Init
  BY Zenon DEF PipelinesInit

-----------------------------------------------------------------------------
Team == INSTANCE PipelineProofs WITH
    row <- pipelineRow, job <- saveJob, rows <- pageRows, clock <- pageClock, cursor <- pageCursor,
    User <- {"u1", "u2"}, Owner <- {}, Request <- {"q1"}, Definition <- Plain,
    Existing <- FALSE, Grants <- {0, 2}, Reliable <- FALSE, MaxRows <- 2,
    Route <- "pipelines", Keys <- {"k1"}, MaxId <- 3, MaxTime <- 2, Limit <- 1,
    Instant <- SomeInstants, DaysRequested <- SomeDays, DayHours <- 2, MaxDays <- 4, MaxPartitions <- 5,
    Definitions <- ShapeGraphs

LEMMA SharingSame ==
  /\ Sharing!Init <=> Team!Init
  /\ [Sharing!Next]_(Sharing!vars) <=> [Team!Next]_(Team!vars)
  /\ Sharing!TypeOK <=> Team!TypeOK
  /\ Sharing!CarriesSharing <=> Team!CarriesSharing
  /\ Sharing!CarriesRoles <=> Team!CarriesRoles
  <1>1. Sharing!Init <=> Team!Init
    BY SMT DEF
      Sharing!Init, Team!Init, Sharing!Draft, Team!Draft, Sharing!Env, Team!Env, Sharing!Idle, Team!Idle,
      Sharing!Cardinality, Team!Cardinality
  <1>2. [Sharing!Next]_(Sharing!vars) <=> [Team!Next]_(Team!vars)
    BY Zenon DEF
      Sharing!Next, Team!Next, Sharing!vars, Team!vars, Sharing!Handle, Team!Handle, Sharing!Versions, Team!Versions,
      Sharing!RunCompletes, Team!RunCompletes, Sharing!PipelineAccessGrant, Team!PipelineAccessGrant,
      Sharing!SaveBegin, Team!SaveBegin, Sharing!PipelineActivate, Team!PipelineActivate, Sharing!PipelinePromote,
      Team!PipelinePromote, Sharing!PipelineStage, Team!PipelineStage, Sharing!SaveCommit, Team!SaveCommit,
      Sharing!ActivateArchives, Team!ActivateArchives, Sharing!ActivateCommits, Team!ActivateCommits,
      Sharing!PromoteGate, Team!PromoteGate, Sharing!PromoteArchives, Team!PromoteArchives, Sharing!PromoteCommits,
      Team!PromoteCommits, Sharing!Unschedule, Team!Unschedule, Sharing!Schedule, Team!Schedule, Sharing!Fails,
      Team!Fails, Sharing!Allows, Team!Allows, Sharing!Latest, Team!Latest, Sharing!Tests, Team!Tests, Sharing!Go,
      Team!Go, Sharing!Idle, Team!Idle, Sharing!Load, Team!Load, Sharing!DeriveStage, Team!DeriveStage,
      Sharing!Draft, Team!Draft, Sharing!Carried, Team!Carried, Sharing!Archive, Team!Archive, Sharing!Syncs,
      Team!Syncs, Sharing!OnlyActive, Team!OnlyActive, Sharing!Retired, Team!Retired, Sharing!Promotable,
      Team!Promotable, Sharing!Active, Team!Active, Sharing!Breaks, Team!Breaks, Sharing!Promoted, Team!Promoted,
      Sharing!NoneScheduled, Team!NoneScheduled, Sharing!Role, Team!Role, Sharing!Cardinality, Team!Cardinality
  <1>3. Sharing!TypeOK <=> Team!TypeOK
    BY Zenon DEF
      Sharing!TypeOK, Team!TypeOK, Sharing!Row, Team!Row, Sharing!Env, Team!Env, Sharing!Cardinality,
      Team!Cardinality
  <1>4. Sharing!CarriesSharing <=> Team!CarriesSharing
    BY Zenon DEF
      Sharing!CarriesSharing, Team!CarriesSharing, Sharing!Added, Team!Added, Sharing!Latest, Team!Latest,
      Sharing!Tests, Team!Tests, Sharing!Allows, Team!Allows, Sharing!Newest, Team!Newest, Sharing!Versions,
      Team!Versions, Sharing!Role, Team!Role, Sharing!Cardinality, Team!Cardinality
  <1>5. Sharing!CarriesRoles <=> Team!CarriesRoles
    BY Zenon DEF
      Sharing!CarriesRoles, Team!CarriesRoles, Sharing!Added, Team!Added, Sharing!Allows, Team!Allows,
      Sharing!Newest, Team!Newest, Sharing!Role, Team!Role, Sharing!Cardinality, Team!Cardinality
  <1> QED BY <1>1, <1>2, <1>3, <1>4, <1>5

LEMMA VersionsSame ==
  /\ Versions!Init <=> Team!Pages!Init
  /\ [Versions!Next]_(Versions!vars) <=> [Team!Pages!Next]_(Team!Pages!vars)
  /\ Versions!TypeOK <=> Team!Pages!TypeOK
  /\ Versions!WalkComplete <=> Team!Pages!WalkComplete
  /\ Versions!ListedOnce <=> Team!Pages!ListedOnce
  <1>1. Versions!Init <=> Team!Pages!Init
    BY Zenon DEF
      Versions!Init, Team!Pages!Init, Versions!None, Team!Pages!None, Versions!Ids, Team!Pages!Ids,
      Versions!Cardinality, Team!Pages!Cardinality
  <1>2. [Versions!Next]_(Versions!vars) <=> [Team!Pages!Next]_(Team!Pages!vars)
    BY Zenon DEF
      Versions!Next, Team!Pages!Next, Versions!vars, Team!Pages!vars, Versions!Ids, Team!Pages!Ids, Versions!Insert,
      Team!Pages!Insert, Versions!Refilter, Team!Pages!Refilter, Versions!Tick, Team!Pages!Tick, Versions!Begin,
      Team!Pages!Begin, Versions!ReadPage, Team!Pages!ReadPage, Versions!FreeIds, Team!Pages!FreeIds,
      Versions!Subject, Team!Pages!Subject, Versions!Subjects, Team!Pages!Subjects, Versions!Page, Team!Pages!Page,
      Versions!Top, Team!Pages!Top, Versions!HasMore, Team!Pages!HasMore, Versions!NextCursor, Team!Pages!NextCursor,
      Versions!None, Team!Pages!None, Versions!Listing, Team!Pages!Listing, Versions!PipelinePage,
      Team!Pages!PipelinePage, Versions!ExecutionPage, Team!Pages!ExecutionPage, Versions!RuntimeRunsPage,
      Team!Pages!RuntimeRunsPage, Versions!Less, Team!Pages!Less, Versions!Last, Team!Pages!Last, Versions!Current,
      Team!Pages!Current, Versions!After, Team!Pages!After, Versions!Cardinality, Team!Pages!Cardinality
  <1>3. Versions!TypeOK <=> Team!Pages!TypeOK
    BY Zenon DEF
      Versions!TypeOK, Team!Pages!TypeOK, Versions!Ids, Team!Pages!Ids, Versions!None, Team!Pages!None,
      Versions!Cardinality, Team!Pages!Cardinality
  <1>4. Versions!WalkComplete <=> Team!Pages!WalkComplete
    BY Zenon DEF
      Versions!WalkComplete, Team!Pages!WalkComplete, Versions!Subject, Team!Pages!Subject, Versions!Cardinality,
      Team!Pages!Cardinality
  <1>5. Versions!ListedOnce <=> Team!Pages!ListedOnce
    BY Zenon DEF
      Versions!ListedOnce, Team!Pages!ListedOnce, Versions!Ids, Team!Pages!Ids, Versions!Cardinality,
      Team!Pages!Cardinality
  <1> QED BY <1>1, <1>2, <1>3, <1>4, <1>5

LEMMA ShapesSame ==
  /\ Shapes!Init <=> Team!Graph!Init
  /\ [Shapes!Next]_(Shapes!vars) <=> [Team!Graph!Next]_(Team!Graph!vars)
  /\ Shapes!TypeOK <=> Team!Graph!TypeOK
  /\ Shapes!CycleExact <=> Team!Graph!CycleExact
  /\ Shapes!SavedCanBePlanned <=> Team!Graph!SavedCanBePlanned
  /\ Shapes!PlanOrdered <=> Team!Graph!PlanOrdered
  <1>1. Shapes!Init <=> Team!Graph!Init
    BY Zenon DEF
      Shapes!Init, Team!Graph!Init, Shapes!Cardinality, Team!Graph!Cardinality, Shapes!ToSet, Team!Graph!ToSet,
      Shapes!SetToSeqs, Team!Graph!SetToSeqs, Shapes!Max, Team!Graph!Max
  <1>2. [Shapes!Next]_(Shapes!vars) <=> [Team!Graph!Next]_(Team!Graph!vars)
    BY Zenon DEF
      Shapes!Next, Team!Graph!Next, Shapes!vars, Team!Graph!vars, Shapes!Check, Team!Graph!Check, Shapes!Pop,
      Team!Graph!Pop, Shapes!Decide, Team!Graph!Decide, Shapes!StartPlan, Team!Graph!StartPlan, Shapes!AddLevel,
      Team!Graph!AddLevel, Shapes!ReturnPlan, Team!Graph!ReturnPlan, Shapes!FirstRefusal, Team!Graph!FirstRefusal,
      Shapes!Refuse, Team!Graph!Refuse, Shapes!InDegrees, Team!Graph!InDegrees, Shapes!Roots, Team!Graph!Roots,
      Shapes!LowerTargets, Team!Graph!LowerTargets, Shapes!Ready, Team!Graph!Ready, Shapes!EngineAccepts,
      Team!Graph!EngineAccepts, Shapes!AgentAdmission, Team!Graph!AgentAdmission, Shapes!NodePolicies,
      Team!Graph!NodePolicies, Shapes!NodesValid, Team!Graph!NodesValid, Shapes!EdgesKnown, Team!Graph!EdgesKnown,
      Shapes!Ids, Team!Graph!Ids, Shapes!Incoming, Team!Graph!Incoming, Shapes!Lowered, Team!Graph!Lowered,
      Shapes!validateStreamDirect, Team!Graph!validateStreamDirect, Shapes!validateSparkSQL,
      Team!Graph!validateSparkSQL, Shapes!validateFlinkSQL, Team!Graph!validateFlinkSQL, Shapes!NodeSet,
      Team!Graph!NodeSet, Shapes!IsAgent, Team!Graph!IsAgent, Shapes!AgentNodeValid, Team!Graph!AgentNodeValid,
      Shapes!OwnEngine, Team!Graph!OwnEngine, Shapes!Edges, Team!Graph!Edges, Shapes!StreamActivities,
      Team!Graph!StreamActivities, Shapes!OneSourceOneSink, Team!Graph!OneSourceOneSink, Shapes!NodesOf,
      Team!Graph!NodesOf, Shapes!Cardinality, Team!Graph!Cardinality, Shapes!ToSet, Team!Graph!ToSet,
      Shapes!SetToSeqs, Team!Graph!SetToSeqs, Shapes!Max, Team!Graph!Max
  <1>3. Shapes!TypeOK <=> Team!Graph!TypeOK
    BY Zenon DEF
      Shapes!TypeOK, Team!Graph!TypeOK, Shapes!Ids, Team!Graph!Ids, Shapes!NodeSet, Team!Graph!NodeSet,
      Shapes!Cardinality, Team!Graph!Cardinality, Shapes!ToSet, Team!Graph!ToSet, Shapes!SetToSeqs,
      Team!Graph!SetToSeqs, Shapes!Max, Team!Graph!Max
  <1>4. Shapes!CycleExact <=> Team!Graph!CycleExact
    BY Zenon DEF
      Shapes!CycleExact, Team!Graph!CycleExact, Shapes!Cyclic, Team!Graph!Cyclic, Shapes!Ids, Team!Graph!Ids,
      Shapes!Edges, Team!Graph!Edges, Shapes!NodeSet, Team!Graph!NodeSet, Shapes!Cardinality, Team!Graph!Cardinality,
      Shapes!ToSet, Team!Graph!ToSet, Shapes!SetToSeqs, Team!Graph!SetToSeqs, Shapes!Max, Team!Graph!Max
  <1>5. Shapes!SavedCanBePlanned <=> Team!Graph!SavedCanBePlanned
    BY Zenon DEF
      Shapes!SavedCanBePlanned, Team!Graph!SavedCanBePlanned, Shapes!Cardinality, Team!Graph!Cardinality,
      Shapes!ToSet, Team!Graph!ToSet, Shapes!SetToSeqs, Team!Graph!SetToSeqs, Shapes!Max, Team!Graph!Max
  <1>6. Shapes!PlanOrdered <=> Team!Graph!PlanOrdered
    BY Zenon DEF
      Shapes!PlanOrdered, Team!Graph!PlanOrdered, Shapes!Ids, Team!Graph!Ids, Shapes!Places, Team!Graph!Places,
      Shapes!LevelOf, Team!Graph!LevelOf, Shapes!Incoming, Team!Graph!Incoming, Shapes!NodeSet, Team!Graph!NodeSet,
      Shapes!Edges, Team!Graph!Edges, Shapes!Cardinality, Team!Graph!Cardinality, Shapes!ToSet, Team!Graph!ToSet,
      Shapes!SetToSeqs, Team!Graph!SetToSeqs, Shapes!Max, Team!Graph!Max
  <1> QED BY <1>1, <1>2, <1>3, <1>4, <1>5, <1>6

LEMMA PlanSame ==
  /\ Plan!Init <=> Team!Plan!Init
  /\ [Plan!Next]_(Plan!vars) <=> [Team!Plan!Next]_(Team!Plan!vars)
  /\ Plan!PlanCoversRange <=> Team!Plan!PlanCoversRange
  /\ Plan!PlanSizeExact <=> Team!Plan!PlanSizeExact
  <1>1. Plan!Init <=> Team!Plan!Init
    BY Zenon DEF
      Plan!Init, Team!Plan!Init
  <1>2. [Plan!Next]_(Plan!vars) <=> [Team!Plan!Next]_(Team!Plan!vars)
    BY Zenon DEF
      Plan!Next, Team!Plan!Next, Plan!vars, Team!Plan!vars, Plan!Validate, Team!Plan!Validate, Plan!AppendPartition,
      Team!Plan!AppendPartition, Plan!Return, Team!Plan!Return, Plan!request, Team!Plan!request, Plan!Valid,
      Team!Plan!Valid, Plan!PartitionEnd, Team!Plan!PartitionEnd, Plan!AddDays, Team!Plan!AddDays, Plan!TooMany,
      Team!Plan!TooMany
  <1>3. Plan!PlanCoversRange <=> Team!Plan!PlanCoversRange
    BY Zenon DEF
      Plan!PlanCoversRange, Team!Plan!PlanCoversRange, Plan!Holds, Team!Plan!Holds
  <1>4. Plan!PlanSizeExact <=> Team!Plan!PlanSizeExact
    BY Zenon DEF
      Plan!PlanSizeExact, Team!Plan!PlanSizeExact, Plan!Needed, Team!Plan!Needed
  <1> QED BY <1>1, <1>2, <1>3, <1>4

LEMMA TeamParameters ==
  /\ Team!OwnerAssumption /\ Team!Pages!ListPagesAssumption
  /\ Team!OneByOne /\ Team!Plan!PlanAssumption /\ Team!Graph!DefinitionsAssumption
  <1>1. Team!OwnerAssumption
    BY DEF Team!OwnerAssumption
  <1>2. Team!Pages!ListPagesAssumption
    BY DEF Team!Pages!ListPagesAssumption
  <1>3. Team!OneByOne
    BY DEF Team!OneByOne
  <1>4. Team!Plan!PlanAssumption
    BY DEF Team!Plan!PlanAssumption, SomeInstants, SomeDays
  <1>5. Team!Graph!DefinitionsAssumption
    BY PipelinesAssumption, Zenon DEF PipelinesAssumption,
      Team!Graph!DefinitionsAssumption, Shapes!DefinitionsAssumption, Team!Graph!IsSequence, Shapes!IsSequence
  <1> QED BY <1>1, <1>2, <1>3, <1>4, <1>5

-----------------------------------------------------------------------------
Racing == INSTANCE PipelineProofs WITH
    row <- pipelineRow, job <- saveJob, rows <- pageRows, clock <- pageClock, cursor <- pageCursor,
    User <- {"o1"}, Owner <- {"o1"}, Request <- {"q1", "q2"}, Definition <- Cron,
    Existing <- TRUE, Grants <- {}, Reliable <- FALSE, MaxRows <- 3,
    Route <- "current", Keys <- {"k1", "k2"}, MaxId <- 3, MaxTime <- 2, Limit <- 1,
    Instant <- SomeInstants, DaysRequested <- SomeDays, DayHours <- 2, MaxDays <- 4, MaxPartitions <- 5,
    Definitions <- EngineGraphs

LEMMA ConcurrentSame ==
  /\ Concurrent!Init <=> Racing!Init
  /\ [Concurrent!Next]_(Concurrent!vars) <=> [Racing!Next]_(Racing!vars)
  /\ Concurrent!OneActive <=> Racing!OneActive
  /\ Concurrent!ProductionWasTested <=> Racing!ProductionWasTested
  <1>1. Concurrent!Init <=> Racing!Init
    BY SMT DEF
      Concurrent!Init, Racing!Init, Concurrent!Draft, Racing!Draft, Concurrent!Env, Racing!Env, Concurrent!Idle,
      Racing!Idle, Concurrent!Cardinality, Racing!Cardinality
  <1>2. [Concurrent!Next]_(Concurrent!vars) <=> [Racing!Next]_(Racing!vars)
    BY Zenon DEF
      Concurrent!Next, Racing!Next, Concurrent!vars, Racing!vars, Concurrent!Handle, Racing!Handle,
      Concurrent!Versions, Racing!Versions, Concurrent!RunCompletes, Racing!RunCompletes,
      Concurrent!PipelineAccessGrant, Racing!PipelineAccessGrant, Concurrent!SaveBegin, Racing!SaveBegin,
      Concurrent!PipelineActivate, Racing!PipelineActivate, Concurrent!PipelinePromote, Racing!PipelinePromote,
      Concurrent!PipelineStage, Racing!PipelineStage, Concurrent!SaveCommit, Racing!SaveCommit,
      Concurrent!ActivateArchives, Racing!ActivateArchives, Concurrent!ActivateCommits, Racing!ActivateCommits,
      Concurrent!PromoteGate, Racing!PromoteGate, Concurrent!PromoteArchives, Racing!PromoteArchives,
      Concurrent!PromoteCommits, Racing!PromoteCommits, Concurrent!Unschedule, Racing!Unschedule,
      Concurrent!Schedule, Racing!Schedule, Concurrent!Fails, Racing!Fails, Concurrent!Allows, Racing!Allows,
      Concurrent!Latest, Racing!Latest, Concurrent!Tests, Racing!Tests, Concurrent!Go, Racing!Go, Concurrent!Idle,
      Racing!Idle, Concurrent!Load, Racing!Load, Concurrent!DeriveStage, Racing!DeriveStage, Concurrent!Draft,
      Racing!Draft, Concurrent!Carried, Racing!Carried, Concurrent!Archive, Racing!Archive, Concurrent!Syncs,
      Racing!Syncs, Concurrent!OnlyActive, Racing!OnlyActive, Concurrent!Retired, Racing!Retired,
      Concurrent!Promotable, Racing!Promotable, Concurrent!Active, Racing!Active, Concurrent!Breaks, Racing!Breaks,
      Concurrent!Promoted, Racing!Promoted, Concurrent!NoneScheduled, Racing!NoneScheduled, Concurrent!Role,
      Racing!Role, Concurrent!Cardinality, Racing!Cardinality
  <1>3. Concurrent!OneActive <=> Racing!OneActive
    BY Zenon DEF
      Concurrent!OneActive, Racing!OneActive, Concurrent!Env, Racing!Env, Concurrent!Active, Racing!Active,
      Concurrent!Versions, Racing!Versions, Concurrent!Cardinality, Racing!Cardinality
  <1>4. Concurrent!ProductionWasTested <=> Racing!ProductionWasTested
    BY Zenon DEF
      Concurrent!ProductionWasTested, Racing!ProductionWasTested, Concurrent!Versions, Racing!Versions,
      Concurrent!Cardinality, Racing!Cardinality
  <1> QED BY <1>1, <1>2, <1>3, <1>4

LEMMA CurrentsSame ==
  /\ Currents!Init <=> Racing!Pages!Init
  /\ [Currents!Next]_(Currents!vars) <=> [Racing!Pages!Next]_(Racing!Pages!vars)
  /\ Currents!WalkComplete <=> Racing!Pages!WalkComplete
  /\ Currents!ListedOnce <=> Racing!Pages!ListedOnce
  <1>1. Currents!Init <=> Racing!Pages!Init
    BY Zenon DEF
      Currents!Init, Racing!Pages!Init, Currents!None, Racing!Pages!None, Currents!Ids, Racing!Pages!Ids,
      Currents!Cardinality, Racing!Pages!Cardinality
  <1>2. [Currents!Next]_(Currents!vars) <=> [Racing!Pages!Next]_(Racing!Pages!vars)
    BY Zenon DEF
      Currents!Next, Racing!Pages!Next, Currents!vars, Racing!Pages!vars, Currents!Ids, Racing!Pages!Ids,
      Currents!Insert, Racing!Pages!Insert, Currents!Refilter, Racing!Pages!Refilter, Currents!Tick,
      Racing!Pages!Tick, Currents!Begin, Racing!Pages!Begin, Currents!ReadPage, Racing!Pages!ReadPage,
      Currents!FreeIds, Racing!Pages!FreeIds, Currents!Subject, Racing!Pages!Subject, Currents!Subjects,
      Racing!Pages!Subjects, Currents!Page, Racing!Pages!Page, Currents!Top, Racing!Pages!Top, Currents!HasMore,
      Racing!Pages!HasMore, Currents!NextCursor, Racing!Pages!NextCursor, Currents!None, Racing!Pages!None,
      Currents!Listing, Racing!Pages!Listing, Currents!PipelinePage, Racing!Pages!PipelinePage,
      Currents!ExecutionPage, Racing!Pages!ExecutionPage, Currents!RuntimeRunsPage, Racing!Pages!RuntimeRunsPage,
      Currents!Less, Racing!Pages!Less, Currents!Last, Racing!Pages!Last, Currents!Current, Racing!Pages!Current,
      Currents!After, Racing!Pages!After, Currents!Cardinality, Racing!Pages!Cardinality
  <1>3. Currents!WalkComplete <=> Racing!Pages!WalkComplete
    BY Zenon DEF
      Currents!WalkComplete, Racing!Pages!WalkComplete, Currents!Subject, Racing!Pages!Subject, Currents!Cardinality,
      Racing!Pages!Cardinality
  <1>4. Currents!ListedOnce <=> Racing!Pages!ListedOnce
    BY Zenon DEF
      Currents!ListedOnce, Racing!Pages!ListedOnce, Currents!Ids, Racing!Pages!Ids, Currents!Cardinality,
      Racing!Pages!Cardinality
  <1> QED BY <1>1, <1>2, <1>3, <1>4

LEMMA EnginesSame ==
  /\ Engines!Init <=> Racing!Graph!Init
  /\ [Engines!Next]_(Engines!vars) <=> [Racing!Graph!Next]_(Racing!Graph!vars)
  /\ Engines!PlannedIsRunnable <=> Racing!Graph!PlannedIsRunnable
  <1>1. Engines!Init <=> Racing!Graph!Init
    BY Zenon DEF
      Engines!Init, Racing!Graph!Init, Engines!Cardinality, Racing!Graph!Cardinality, Engines!ToSet,
      Racing!Graph!ToSet, Engines!SetToSeqs, Racing!Graph!SetToSeqs, Engines!Max, Racing!Graph!Max
  <1>2. [Engines!Next]_(Engines!vars) <=> [Racing!Graph!Next]_(Racing!Graph!vars)
    BY Zenon DEF
      Engines!Next, Racing!Graph!Next, Engines!vars, Racing!Graph!vars, Engines!Check, Racing!Graph!Check,
      Engines!Pop, Racing!Graph!Pop, Engines!Decide, Racing!Graph!Decide, Engines!StartPlan, Racing!Graph!StartPlan,
      Engines!AddLevel, Racing!Graph!AddLevel, Engines!ReturnPlan, Racing!Graph!ReturnPlan, Engines!FirstRefusal,
      Racing!Graph!FirstRefusal, Engines!Refuse, Racing!Graph!Refuse, Engines!InDegrees, Racing!Graph!InDegrees,
      Engines!Roots, Racing!Graph!Roots, Engines!LowerTargets, Racing!Graph!LowerTargets, Engines!Ready,
      Racing!Graph!Ready, Engines!EngineAccepts, Racing!Graph!EngineAccepts, Engines!AgentAdmission,
      Racing!Graph!AgentAdmission, Engines!NodePolicies, Racing!Graph!NodePolicies, Engines!NodesValid,
      Racing!Graph!NodesValid, Engines!EdgesKnown, Racing!Graph!EdgesKnown, Engines!Ids, Racing!Graph!Ids,
      Engines!Incoming, Racing!Graph!Incoming, Engines!Lowered, Racing!Graph!Lowered, Engines!validateStreamDirect,
      Racing!Graph!validateStreamDirect, Engines!validateSparkSQL, Racing!Graph!validateSparkSQL,
      Engines!validateFlinkSQL, Racing!Graph!validateFlinkSQL, Engines!NodeSet, Racing!Graph!NodeSet,
      Engines!IsAgent, Racing!Graph!IsAgent, Engines!AgentNodeValid, Racing!Graph!AgentNodeValid, Engines!OwnEngine,
      Racing!Graph!OwnEngine, Engines!Edges, Racing!Graph!Edges, Engines!StreamActivities,
      Racing!Graph!StreamActivities, Engines!OneSourceOneSink, Racing!Graph!OneSourceOneSink, Engines!NodesOf,
      Racing!Graph!NodesOf, Engines!Cardinality, Racing!Graph!Cardinality, Engines!ToSet, Racing!Graph!ToSet,
      Engines!SetToSeqs, Racing!Graph!SetToSeqs, Engines!Max, Racing!Graph!Max
  <1>3. Engines!PlannedIsRunnable <=> Racing!Graph!PlannedIsRunnable
    BY Zenon DEF
      Engines!PlannedIsRunnable, Racing!Graph!PlannedIsRunnable, Engines!NodeSet, Racing!Graph!NodeSet,
      Engines!Cardinality, Racing!Graph!Cardinality, Engines!ToSet, Racing!Graph!ToSet, Engines!SetToSeqs,
      Racing!Graph!SetToSeqs, Engines!Max, Racing!Graph!Max
  <1> QED BY <1>1, <1>2, <1>3

LEMMA RacingParameters ==
  /\ Racing!OwnerAssumption /\ Racing!Pages!ListPagesAssumption
  /\ Racing!Graph!DefinitionsAssumption
  <1>1. Racing!OwnerAssumption
    BY DEF Racing!OwnerAssumption
  <1>2. Racing!Pages!ListPagesAssumption
    BY DEF Racing!Pages!ListPagesAssumption
  <1>3. Racing!Graph!DefinitionsAssumption
    BY PipelinesAssumption, Zenon DEF PipelinesAssumption,
      Racing!Graph!DefinitionsAssumption, Engines!DefinitionsAssumption, Racing!Graph!IsSequence, Engines!IsSequence
  <1> QED BY <1>1, <1>2, <1>3

-----------------------------------------------------------------------------
Releases == INSTANCE PipelineProofs WITH
    row <- pipelineRow, job <- saveJob, rows <- pageRows, clock <- pageClock, cursor <- pageCursor,
    User <- {"o1"}, Owner <- {"o1"}, Request <- {"q1"}, Definition <- Promising,
    Existing <- TRUE, Grants <- {}, Reliable <- TRUE, MaxRows <- 4,
    Route <- "lineage", Keys <- {"k1"}, MaxId <- 3, MaxTime <- 2, Limit <- 1,
    Instant <- SomeInstants, DaysRequested <- SomeDays, DayHours <- 2, MaxDays <- 4, MaxPartitions <- 5,
    Definitions <- EmptyGraph

LEMMA PromotionsSame ==
  /\ Promotions!Init <=> Releases!Init
  /\ [Promotions!Next]_(Promotions!vars) <=> [Releases!Next]_(Releases!vars)
  /\ Promotions!KeepsContract <=> Releases!KeepsContract
  <1>1. Promotions!Init <=> Releases!Init
    BY SMT DEF
      Promotions!Init, Releases!Init, Promotions!Draft, Releases!Draft, Promotions!Env, Releases!Env,
      Promotions!Idle, Releases!Idle, Promotions!Cardinality, Releases!Cardinality
  <1>2. [Promotions!Next]_(Promotions!vars) <=> [Releases!Next]_(Releases!vars)
    BY Zenon DEF
      Promotions!Next, Releases!Next, Promotions!vars, Releases!vars, Promotions!Handle, Releases!Handle,
      Promotions!Versions, Releases!Versions, Promotions!RunCompletes, Releases!RunCompletes,
      Promotions!PipelineAccessGrant, Releases!PipelineAccessGrant, Promotions!SaveBegin, Releases!SaveBegin,
      Promotions!PipelineActivate, Releases!PipelineActivate, Promotions!PipelinePromote, Releases!PipelinePromote,
      Promotions!PipelineStage, Releases!PipelineStage, Promotions!SaveCommit, Releases!SaveCommit,
      Promotions!ActivateArchives, Releases!ActivateArchives, Promotions!ActivateCommits, Releases!ActivateCommits,
      Promotions!PromoteGate, Releases!PromoteGate, Promotions!PromoteArchives, Releases!PromoteArchives,
      Promotions!PromoteCommits, Releases!PromoteCommits, Promotions!Unschedule, Releases!Unschedule,
      Promotions!Schedule, Releases!Schedule, Promotions!Fails, Releases!Fails, Promotions!Allows, Releases!Allows,
      Promotions!Latest, Releases!Latest, Promotions!Tests, Releases!Tests, Promotions!Go, Releases!Go,
      Promotions!Idle, Releases!Idle, Promotions!Load, Releases!Load, Promotions!DeriveStage, Releases!DeriveStage,
      Promotions!Draft, Releases!Draft, Promotions!Carried, Releases!Carried, Promotions!Archive, Releases!Archive,
      Promotions!Syncs, Releases!Syncs, Promotions!OnlyActive, Releases!OnlyActive, Promotions!Retired,
      Releases!Retired, Promotions!Promotable, Releases!Promotable, Promotions!Active, Releases!Active,
      Promotions!Breaks, Releases!Breaks, Promotions!Promoted, Releases!Promoted, Promotions!NoneScheduled,
      Releases!NoneScheduled, Promotions!Role, Releases!Role, Promotions!Cardinality, Releases!Cardinality
  <1>3. Promotions!KeepsContract <=> Releases!KeepsContract
    BY Zenon DEF
      Promotions!KeepsContract, Releases!KeepsContract, Promotions!Newest, Releases!Newest, Promotions!Added,
      Releases!Added, Promotions!Active,
      Releases!Active, Promotions!Versions, Releases!Versions, Promotions!Cardinality, Releases!Cardinality
  <1> QED BY <1>1, <1>2, <1>3

LEMMA LineageSame ==
  /\ Lineage!Init <=> Releases!Pages!Init
  /\ [Lineage!Next]_(Lineage!vars) <=> [Releases!Pages!Next]_(Releases!Pages!vars)
  /\ Lineage!WalkComplete <=> Releases!Pages!WalkComplete
  <1>1. Lineage!Init <=> Releases!Pages!Init
    BY Zenon DEF
      Lineage!Init, Releases!Pages!Init, Lineage!None, Releases!Pages!None, Lineage!Ids, Releases!Pages!Ids,
      Lineage!Cardinality, Releases!Pages!Cardinality
  <1>2. [Lineage!Next]_(Lineage!vars) <=> [Releases!Pages!Next]_(Releases!Pages!vars)
    BY Zenon DEF
      Lineage!Next, Releases!Pages!Next, Lineage!vars, Releases!Pages!vars, Lineage!Ids, Releases!Pages!Ids,
      Lineage!Insert, Releases!Pages!Insert, Lineage!Refilter, Releases!Pages!Refilter, Lineage!Tick,
      Releases!Pages!Tick, Lineage!Begin, Releases!Pages!Begin, Lineage!ReadPage, Releases!Pages!ReadPage,
      Lineage!FreeIds, Releases!Pages!FreeIds, Lineage!Subject, Releases!Pages!Subject, Lineage!Subjects,
      Releases!Pages!Subjects, Lineage!Page, Releases!Pages!Page, Lineage!Top, Releases!Pages!Top, Lineage!HasMore,
      Releases!Pages!HasMore, Lineage!NextCursor, Releases!Pages!NextCursor, Lineage!None, Releases!Pages!None,
      Lineage!Listing, Releases!Pages!Listing, Lineage!PipelinePage, Releases!Pages!PipelinePage,
      Lineage!ExecutionPage, Releases!Pages!ExecutionPage, Lineage!RuntimeRunsPage, Releases!Pages!RuntimeRunsPage,
      Lineage!Less, Releases!Pages!Less, Lineage!Last, Releases!Pages!Last, Lineage!Current, Releases!Pages!Current,
      Lineage!After, Releases!Pages!After, Lineage!Cardinality, Releases!Pages!Cardinality
  <1>3. Lineage!WalkComplete <=> Releases!Pages!WalkComplete
    BY Zenon DEF
      Lineage!WalkComplete, Releases!Pages!WalkComplete, Lineage!Subject, Releases!Pages!Subject,
      Lineage!Cardinality, Releases!Pages!Cardinality
  <1> QED BY <1>1, <1>2, <1>3

LEMMA ReleasesParameters ==
  /\ Releases!OwnerAssumption /\ Releases!Pages!ListPagesAssumption
  /\ Releases!OneByOne
  <1>1. Releases!OwnerAssumption
    BY DEF Releases!OwnerAssumption
  <1>2. Releases!Pages!ListPagesAssumption
    BY DEF Releases!Pages!ListPagesAssumption
  <1>3. Releases!OneByOne
    BY DEF Releases!OneByOne
  <1> QED BY <1>1, <1>2, <1>3

-----------------------------------------------------------------------------
Timed == INSTANCE PipelineProofs WITH
    row <- pipelineRow, job <- saveJob, rows <- pageRows, clock <- pageClock, cursor <- pageCursor,
    User <- {"o1"}, Owner <- {"o1"}, Request <- {"q1"}, Definition <- Cron,
    Existing <- TRUE, Grants <- {}, Reliable <- TRUE, MaxRows <- 4,
    Route <- "pipelines", Keys <- {"k1"}, MaxId <- 3, MaxTime <- 2, Limit <- 1,
    Instant <- SomeInstants, DaysRequested <- SomeDays, DayHours <- 2, MaxDays <- 4, MaxPartitions <- 5,
    Definitions <- EmptyGraph

LEMMA SchedulesSame ==
  /\ Schedules!Init <=> Timed!Init
  /\ [Schedules!Next]_(Schedules!vars) <=> [Timed!Next]_(Timed!vars)
  /\ Schedules!ScheduleFollowsActive <=> Timed!ScheduleFollowsActive
  <1>1. Schedules!Init <=> Timed!Init
    BY SMT DEF
      Schedules!Init, Timed!Init, Schedules!Draft, Timed!Draft, Schedules!Env, Timed!Env, Schedules!Idle, Timed!Idle,
      Schedules!Cardinality, Timed!Cardinality
  <1>2. [Schedules!Next]_(Schedules!vars) <=> [Timed!Next]_(Timed!vars)
    BY Zenon DEF
      Schedules!Next, Timed!Next, Schedules!vars, Timed!vars, Schedules!Handle, Timed!Handle, Schedules!Versions,
      Timed!Versions, Schedules!RunCompletes, Timed!RunCompletes, Schedules!PipelineAccessGrant,
      Timed!PipelineAccessGrant, Schedules!SaveBegin, Timed!SaveBegin, Schedules!PipelineActivate,
      Timed!PipelineActivate, Schedules!PipelinePromote, Timed!PipelinePromote, Schedules!PipelineStage,
      Timed!PipelineStage, Schedules!SaveCommit, Timed!SaveCommit, Schedules!ActivateArchives,
      Timed!ActivateArchives, Schedules!ActivateCommits, Timed!ActivateCommits, Schedules!PromoteGate,
      Timed!PromoteGate, Schedules!PromoteArchives, Timed!PromoteArchives, Schedules!PromoteCommits,
      Timed!PromoteCommits, Schedules!Unschedule, Timed!Unschedule, Schedules!Schedule, Timed!Schedule,
      Schedules!Fails, Timed!Fails, Schedules!Allows, Timed!Allows, Schedules!Latest, Timed!Latest, Schedules!Tests,
      Timed!Tests, Schedules!Go, Timed!Go, Schedules!Idle, Timed!Idle, Schedules!Load, Timed!Load,
      Schedules!DeriveStage, Timed!DeriveStage, Schedules!Draft, Timed!Draft, Schedules!Carried, Timed!Carried,
      Schedules!Archive, Timed!Archive, Schedules!Syncs, Timed!Syncs, Schedules!OnlyActive, Timed!OnlyActive,
      Schedules!Retired, Timed!Retired, Schedules!Promotable, Timed!Promotable, Schedules!Active, Timed!Active,
      Schedules!Breaks, Timed!Breaks, Schedules!Promoted, Timed!Promoted, Schedules!NoneScheduled,
      Timed!NoneScheduled, Schedules!Role, Timed!Role, Schedules!Cardinality, Timed!Cardinality
  <1>3. Schedules!ScheduleFollowsActive <=> Timed!ScheduleFollowsActive
    BY Zenon DEF
      Schedules!ScheduleFollowsActive, Timed!ScheduleFollowsActive, Schedules!AtRest, Timed!AtRest, Schedules!Env,
      Timed!Env, Schedules!Cardinality, Timed!Cardinality
  <1> QED BY <1>1, <1>2, <1>3

LEMMA TimedParameters ==
  /\ Timed!OwnerAssumption /\ Timed!Pages!ListPagesAssumption
  /\ Timed!OneByOne /\ Timed!OnlyCron
  <1>1. Timed!OwnerAssumption
    BY DEF Timed!OwnerAssumption
  <1>2. Timed!Pages!ListPagesAssumption
    BY DEF Timed!Pages!ListPagesAssumption
  <1>3. Timed!OneByOne
    BY DEF Timed!OneByOne
  <1>4. Timed!OnlyCron
    BY DEF Timed!OnlyCron, Cron
  <1> QED BY <1>1, <1>2, <1>3, <1>4

-----------------------------------------------------------------------------
(* planBackfill: the partitions of a plan cover the requested range, each  *)
(* instant once, and a range is refused for its size exactly when it needs *)
(* more partitions than the limit.                                         *)
THEOREM PlansAlwaysExact == PipelinesSpec => []PlanExact
  <1> DEFINE SuiteInv == scenario = "plan" => Team!PlanInv /\ Team!SizeInv
  <1>1. PipelinesInit => SuiteInv
    BY PipelineStarts, PlanSame, TeamParameters, Team!PlanInit, Team!SizeInit
  <1>2. SuiteInv /\ [PipelinesNext]_pipelinesVars => SuiteInv'
    BY PipelineSteps, PlanSame, TeamParameters, Team!PlanStep, Team!SizeStep
  <1>3. SuiteInv => PlanExact
    BY PlanSame, TeamParameters, Team!PlanCovers, Team!PlanSized DEF PlanExact
  <1> QED BY <1>1, <1>2, <1>3, PTL DEF PipelinesSpec

(* pipelineActivate, pipelinePromote: however two requests interleave and  *)
(* fail, one version is active in an environment and a production version  *)
(* is a tested version, unchanged; syncSchedule: one request at a time and *)
(* while Temporal answers, at rest a schedule runs an active version.      *)
THEOREM VersionsAlwaysConsistent == PipelinesSpec => []VersionsConsistent
  <1> DEFINE SuiteInv ==
               /\ scenario = "sharing" => Team!SharingInv
               /\ scenario = "concurrent" => Racing!SafeInv
               /\ scenario = "schedules" => Timed!FollowInv
  <1>1. PipelinesInit => SuiteInv
    BY PipelineStarts, SharingSame, ConcurrentSame, SchedulesSame, TeamParameters, RacingParameters, TimedParameters,
       Team!InitSharing, Racing!InitSafe, Timed!InitFollows
  <1>2. SuiteInv /\ [PipelinesNext]_pipelinesVars => SuiteInv'
    <2> SUFFICES ASSUME SuiteInv, [PipelinesNext]_pipelinesVars PROVE SuiteInv'
      OBVIOUS
    <2>1. CASE scenario = "sharing"
      BY <2>1, PipelineSteps, SharingSame, TeamParameters, Team!SharingStep
    <2>2. CASE scenario = "concurrent"
      BY <2>2, PipelineSteps, ConcurrentSame, RacingParameters, Racing!SafeStep
    <2>3. CASE scenario = "schedules"
      BY <2>3, PipelineSteps, SchedulesSame, TimedParameters, Timed!FollowStep
    <2> QED BY <2>1, <2>2, <2>3, PipelineSteps
  <1>3. SuiteInv => VersionsConsistent
    <2>1. Team!SharingInv => Sharing!TypeOK
      BY SharingSame, TeamParameters, Team!TypesShown DEF Team!SharingInv
    <2>2. Racing!SafeInv => Concurrent!OneActive /\ Concurrent!ProductionWasTested
      BY ConcurrentSame, RacingParameters, Racing!SafeShown
    <2>3. Timed!FollowInv => Schedules!ScheduleFollowsActive
      BY SchedulesSame, TimedParameters, Timed!FollowShown
    <2> QED BY <2>1, <2>2, <2>3 DEF VersionsConsistent
  <1> QED BY <1>1, <1>2, <1>3, PTL DEF PipelinesSpec

(* validatePipeline, buildPlan: a graph is refused as cyclic exactly when  *)
(* it has a cycle, what was accepted is planned, every node right after    *)
(* the last of its predecessors, and what is planned can run as defined.   *)
THEOREM DefinitionsAlwaysExact == PipelinesSpec => []DefinitionsExact
  <1> DEFINE SuiteInv ==
               /\ scenario = "shapes" => Team!GraphInv /\ Team!LevelInv
               /\ scenario = "engines" => Racing!GraphInv
  <1>1. PipelinesInit => SuiteInv
    <2>1. Team!Graph!Init => Team!LevelInv
      BY DEF Team!LevelInv, Team!Graph!Init
    <2> QED BY <2>1, PipelineStarts, ShapesSame, EnginesSame, TeamParameters, RacingParameters, Team!GraphInit,
       Racing!GraphInit
  <1>2. SuiteInv /\ [PipelinesNext]_pipelinesVars => SuiteInv'
    <2> SUFFICES ASSUME SuiteInv, [PipelinesNext]_pipelinesVars PROVE SuiteInv'
      OBVIOUS
    <2>1. CASE scenario = "shapes"
      BY <2>1, PipelineSteps, ShapesSame, TeamParameters, Team!GraphStep, Team!LevelStep
    <2>2. CASE scenario = "engines"
      BY <2>2, PipelineSteps, EnginesSame, RacingParameters, Racing!GraphStep
    <2> QED BY <2>1, <2>2, PipelineSteps
  <1>3. SuiteInv => DefinitionsExact
    <2>1. Team!GraphInv /\ Team!LevelInv =>
            Shapes!TypeOK /\ Shapes!CycleExact /\ Shapes!SavedCanBePlanned /\ Shapes!PlanOrdered
      BY ShapesSame, TeamParameters, Team!GraphTyped, Team!PlanShown
    <2>2. Racing!GraphInv => Engines!PlannedIsRunnable
      BY EnginesSame, RacingParameters, Racing!RunShown
    <2> QED BY <2>1, <2>2 DEF DefinitionsExact
  <1> QED BY <1>1, <1>2, <1>3, PTL DEF PipelinesSpec

(* updatePipeline, createProductionVersion, one request at a time: whoever *)
(* could use the latest version can use the one saved after it, roles mean *)
(* the same for a production version, and without an override it keeps the *)
(* fields of the version it replaces.                                      *)
THEOREM VersionsAlwaysCarryOver == PipelinesSpec => VersionsCarryOver
  <1> DEFINE SuiteInv ==
               /\ scenario = "sharing" => Team!SharingInv
               /\ scenario = "promotions" => Releases!ContractInv
             Kept == /\ scenario = "sharing" => Sharing!CarriesSharing /\ Sharing!CarriesRoles
                     /\ scenario = "promotions" => Promotions!KeepsContract
  <1>1. PipelinesInit => SuiteInv
    BY PipelineStarts, SharingSame, PromotionsSame, TeamParameters, ReleasesParameters, Team!InitSharing,
       Releases!InitContract
  <1>2. SuiteInv /\ [PipelinesNext]_pipelinesVars => SuiteInv' /\ [Kept]_pipelinesVars
    <2> SUFFICES ASSUME SuiteInv, [PipelinesNext]_pipelinesVars PROVE SuiteInv' /\ Kept
      OBVIOUS
    <2>1. CASE scenario = "sharing"
      BY <2>1, PipelineSteps, SharingSame, TeamParameters, Team!SharingStep, Team!SharingMoves
    <2>2. CASE scenario = "promotions"
      BY <2>2, PipelineSteps, PromotionsSame, ReleasesParameters, Releases!ContractStep, Releases!ContractMoves
    <2> QED BY <2>1, <2>2, PipelineSteps
  <1> QED BY <1>1, <1>2, PTL DEF PipelinesSpec, VersionsCarryOver

(* pipelineList, runtimeLineageRuns: a walk that has ended listed every    *)
(* row that was there all along, and no row is in two of its pages.        *)
THEOREM WalksAlwaysComplete == PipelinesSpec => []WalksComplete
  <1> DEFINE SuiteInv ==
               /\ scenario = "versions" => Team!PageTypes /\ Team!ListedBehind /\ Team!KeptAhead
               /\ scenario = "currents" => Racing!PageTypes /\ Racing!ListedBehind /\ Racing!KeptAhead
               /\ scenario = "lineage" => Releases!PageTypes /\ Releases!KeptAhead
  <1>1. PipelinesInit => SuiteInv
    BY PipelineStarts, VersionsSame, CurrentsSame, LineageSame, TeamParameters, RacingParameters, ReleasesParameters,
       Team!PageInit, Racing!PageInit, Releases!PageInit, Team!BehindInit, Racing!BehindInit, Releases!BehindInit
  <1>2. SuiteInv /\ [PipelinesNext]_pipelinesVars => SuiteInv'
    <2> SUFFICES ASSUME SuiteInv, [PipelinesNext]_pipelinesVars PROVE SuiteInv'
      OBVIOUS
    <2>1. CASE scenario = "versions"
      <3>1. [Team!Pages!Next]_(Team!Pages!vars) /\ Team!PageTypes /\ Team!ListedBehind /\ Team!KeptAhead
        BY <2>1, PipelineSteps, VersionsSame
      <3>2. Team!PageTypes'
        BY <3>1, TeamParameters, Team!PageStep
      <3> QED BY <2>1, <3>1, <3>2, PipelineSteps, TeamParameters, Team!BehindStep, Team!AheadStep
    <2>2. CASE scenario = "currents"
      <3>1. [Racing!Pages!Next]_(Racing!Pages!vars) /\ Racing!PageTypes /\ Racing!ListedBehind /\ Racing!KeptAhead
        BY <2>2, PipelineSteps, CurrentsSame
      <3>2. Racing!PageTypes'
        BY <3>1, RacingParameters, Racing!PageStep
      <3> QED BY <2>2, <3>1, <3>2, PipelineSteps, RacingParameters, Racing!BehindStep, Racing!AheadStep
    <2>3. CASE scenario = "lineage"
      <3>1. [Releases!Pages!Next]_(Releases!Pages!vars) /\ Releases!PageTypes /\ Releases!KeptAhead
        BY <2>3, PipelineSteps, LineageSame
      <3> QED BY <2>3, <3>1, PipelineSteps, ReleasesParameters, Releases!PageStep, Releases!AheadStep
    <2> QED BY <2>1, <2>2, <2>3, PipelineSteps
  <1>3. SuiteInv => WalksComplete
    <2>1. Team!PageTypes /\ Team!ListedBehind /\ Team!KeptAhead =>
          Versions!TypeOK /\ Versions!WalkComplete /\ Versions!ListedOnce
      BY VersionsSame, Team!PagesTyped DEF Team!ListedBehind, Team!KeptAhead
    <2>2. Racing!ListedBehind /\ Racing!KeptAhead => Currents!WalkComplete /\ Currents!ListedOnce
      BY CurrentsSame DEF Racing!ListedBehind, Racing!KeptAhead
    <2>3. Releases!KeptAhead => Lineage!WalkComplete
      BY LineageSame DEF Releases!KeptAhead
    <2> QED BY <2>1, <2>2, <2>3 DEF WalksComplete
  <1> QED BY <1>1, <1>2, <1>3, PTL DEF PipelinesSpec

=============================================================================
