------------------------------ MODULE FlinkJob ------------------------------
(***************************************************************************)
(* The flink-sql engine: FlinkJobWorkflow deploys a job through Cohestra,  *)
(* polls it, turns signals into actions, and continues as a new run after  *)
(* ContinueAfter polls.  Cohestra is external: it performs a request with  *)
(* an Idempotency-Key once, and answers a repeated key as the first time.  *)
(***************************************************************************)
EXTENDS Integers, FiniteSets

CONSTANTS
    ContinueAfter,  \* flinkContinueAfter: 100
    MaxSignals,     \* bound: signals sent
    MaxFaults       \* bound: activities that exhaust their attempts, and ignored errors

FlinkAssumption ==
    ContinueAfter \in Nat \ {0} /\ MaxSignals \in Nat /\ MaxFaults \in Nat

VARIABLES
    job,        \* the job at Cohestra: "none", "running", "suspended" or "failed"
    keys,       \* Idempotency-Keys Cohestra has seen
    pc, poll,   \* the workflow: its step and its polls in this run
    action,     \* the signal the selector has taken
    desired,    \* state.DesiredState, carried over to the next run
    deployed,   \* state.CohestraID is set, carried over
    pending,    \* signals in the channels of the open run
    row,        \* phase and desired_state of the executions row
    sent, faults

vars == <<job, keys, pc, poll, action, desired, deployed, pending, row, sent, faults>>

Signals == {"pause", "resume", "rollback", "cancel"}
NoSignals == [s \in Signals |-> 0]

Init ==
    /\ job = "none" /\ keys = {} /\ pc = "deploy" /\ poll = 0 /\ action = ""
    /\ desired = "running" /\ deployed = FALSE /\ pending = NoSignals
    /\ row = [phase |-> "running", desired |-> "", error |-> FALSE]
    /\ sent = 0 /\ faults = 0

Fault == faults < MaxFaults /\ faults' = faults + 1

-----------------------------------------------------------------------------
(* cohestraRequest with a key: the job's state afterwards.                 *)
Perform(key, result) == IF key \in keys THEN job ELSE result

(* DeployFlinkJob: registration and deployment; a failed attempt may have  *)
(* reached Cohestra or not.  The activity's last failure fails the         *)
(* workflow; the error of the row's update is ignored.                     *)
Deploy ==
    /\ pc = "deploy"
    /\ \/ /\ ~deployed
          /\ \/ /\ job' = Perform("deploy", "running") /\ keys' = keys \cup {"deploy"}
                /\ \/ deployed' = TRUE /\ pc' = "poll" /\ row' = [row EXCEPT !.desired = "running"]
                      /\ UNCHANGED faults
                   \/ Fault /\ deployed' = TRUE /\ pc' = "poll" /\ UNCHANGED row
                   \/ Fault /\ pc' = "ended" /\ UNCHANGED <<deployed, row>>
             \/ Fault /\ pc' = "ended" /\ UNCHANGED <<job, keys, deployed, row>>
       \/ deployed /\ pc' = "poll" /\ UNCHANGED <<job, keys, deployed, row, faults>>
    /\ UNCHANGED <<poll, action, desired, pending, sent>>

JobStatus == IF job = "failed" THEN "FAILED" ELSE "RUNNING"

(* The errors of markExecution and recordFlinkError are ignored.           *)
Status ==
    /\ pc = "poll" /\ poll < ContinueAfter
    /\ \/ JobStatus = "RUNNING" /\ pc' = "select" /\ UNCHANGED <<row, faults>>
       \/ /\ JobStatus = "FAILED" /\ pc' = "ended"
          /\ \/ row' = [row EXCEPT !.phase = "failed", !.error = TRUE] /\ UNCHANGED faults
             \/ Fault /\ UNCHANGED row
       \/ Fault /\ pc' = "ended" /\ row' = [row EXCEPT !.error = TRUE]
    /\ UNCHANGED <<job, keys, poll, action, desired, deployed, pending, sent>>

(* The selector takes the first channel, in the order of registration,     *)
(* that holds a signal, or else the timer.                                 *)
OrderCancelFirst == <<"pause", "resume", "cancel", "rollback">>
Order == <<"pause", "resume", "rollback", "cancel">>

Taken ==
    IF pending = NoSignals THEN ""
    ELSE Order[CHOOSE i \in 1..4 : pending[Order[i]] > 0 /\ \A j \in 1..(i - 1) : pending[Order[j]] = 0]

Select ==
    /\ pc = "select"
    /\ action' = Taken
    /\ pending' = IF Taken = "" THEN pending ELSE [pending EXCEPT ![Taken] = @ - 1]
    /\ pc' = IF Taken = "" THEN "poll" ELSE "act"
    /\ poll' = IF Taken = "" THEN poll + 1 ELSE poll
    /\ UNCHANGED <<job, keys, desired, deployed, row, sent, faults>>

(* FlinkJobAction: cancel suspends, like pause, under a key of its own.    *)
ResultCancelKeeps == [pause |-> "suspended", cancel |-> "running", resume |-> "running", rollback |-> "running"]
Result == [pause |-> "suspended", cancel |-> "suspended", resume |-> "running", rollback |-> "running"]

ActCancelled ==
    /\ pc = "act"
    /\ job' = Perform(action, Result[action]) /\ keys' = keys \cup {action}
    /\ pc' = "poll" /\ poll' = poll + 1
    /\ UNCHANGED <<action, desired, deployed, pending, row, sent, faults>>

Act ==
    /\ pc = "act"
    /\ \/ /\ job' = Perform(action, Result[action]) /\ keys' = keys \cup {action}
          /\ pc' = IF action = "cancel" THEN "ended" ELSE "poll"
          /\ desired' = CASE action = "cancel" -> "cancelled" [] action = "pause" -> "paused"
                          [] OTHER -> "running"
          /\ \/ /\ row' = [row EXCEPT !.desired = action, !.error = FALSE,
                                      !.phase = IF action = "cancel" THEN "cancelled" ELSE @]
                /\ UNCHANGED faults
             \/ Fault /\ row' = [row EXCEPT !.desired = action, !.error = FALSE]
          /\ poll' = poll + 1
       \/ /\ Fault /\ pc' = "ended" /\ UNCHANGED <<desired, row, poll>>
          /\ \/ UNCHANGED <<job, keys>>
             \/ job' = Perform(action, Result[action]) /\ keys' = keys \cup {action}
    /\ UNCHANGED <<action, deployed, pending, sent>>

ContinueAsNewForgetful ==
    /\ pc = "poll" /\ poll = ContinueAfter
    /\ pc' = "deploy" /\ poll' = 0 /\ action' = "" /\ pending' = NoSignals /\ desired' = "running"
    /\ UNCHANGED <<job, keys, deployed, row, sent, faults>>
ContinueAsNew ==
    /\ pc = "poll" /\ poll = ContinueAfter
    /\ pc' = "deploy" /\ poll' = 0 /\ action' = "" /\ pending' = NoSignals
    /\ UNCHANGED <<job, keys, desired, deployed, row, sent, faults>>

Workflow == Deploy \/ Status \/ Select \/ Act \/ ContinueAsNew

-----------------------------------------------------------------------------
(* Signals from the API and its dispatcher, and a job that breaks.         *)
Signal(s) ==
    /\ pc # "ended" /\ sent < MaxSignals
    /\ pending' = [pending EXCEPT ![s] = @ + 1] /\ sent' = sent + 1
    /\ UNCHANGED <<job, keys, pc, poll, action, desired, deployed, row, faults>>

Break ==
    /\ job = "running" /\ Fault /\ job' = "failed"
    /\ UNCHANGED <<keys, pc, poll, action, desired, deployed, pending, row, sent>>

Next == Workflow \/ Break \/ \E s \in Signals : Signal(s)

Spec == Init /\ [][Next]_vars
FairSpec == Spec /\ WF_vars(Workflow)

-----------------------------------------------------------------------------

(* Types; a run after the first never deploys again.                       *)
TypeOK ==
    /\ job \in {"none", "running", "suspended", "failed"}
    /\ poll \in 0..ContinueAfter /\ pending \in [Signals -> Nat]
    /\ desired \in {"running", "paused", "cancelled"}
    /\ pc \notin {"deploy", "ended"} => deployed /\ job # "none"

(* A cancelled execution leaves no job running: the phase is written only  *)
(* after Cohestra has suspended the job.                                   *)
CancelledIsSuspended == row.phase = "cancelled" => job \in {"suspended", "failed"}

(* A rollback that is queued when the workflow looks at its signals is     *)
(* performed before a cancel that is queued with it.                       *)
RollbackFirst == pc = "select" /\ pc' = "act" /\ action' = "cancel" => pending["rollback"] = 0

(* What the status query answers outlives a continue-as-new: a job that    *)
(* was paused is not reported as running by the next run.                  *)
KeepsDesired == desired = "paused" /\ desired' = "running" => action \in {"resume", "rollback"}

(* A cancel that is queued ends the workflow when the run has polls left   *)
(* for all that is queued with it: one poll takes up one signal.           *)
Queued == pending["pause"] + pending["resume"] + pending["rollback"] + pending["cancel"]
CancelEnds ==
    (pending["cancel"] > 0 /\ sent = MaxSignals /\ poll + Queued + 1 < ContinueAfter) ~> pc = "ended"

=============================================================================
