------------------------------ MODULE SparkJob ------------------------------
(***************************************************************************)
(* The spark-sql engine with an Iceberg source and sink: SparkJobWorkflow  *)
(* and its activities.  The source table's snapshots are numbered from 1;  *)
(* connector_state holds the last snapshot processed (0: none).  An        *)
(* application is named after its execution, so creating it twice is a     *)
(* conflict.  Kubernetes, Spark and Iceberg are external.                  *)
(***************************************************************************)
EXTENDS Integers, FiniteSets

CONSTANTS
    Execution,
    MaxSnapshot,    \* bound: snapshots of the source table
    MaxAttempts,    \* MaximumAttempts of the activities: 5
    MaxLost,        \* bound: submissions whose answer is lost
    MaxFaults       \* bound: other failures, and ignored errors

SparkAssumption ==
    /\ MaxSnapshot \in Nat /\ MaxAttempts \in Nat \ {0} /\ MaxLost \in Nat /\ MaxFaults \in Nat

VARIABLES
    table,      \* current snapshot of the source
    sink,       \* current snapshot of the sink
    written,    \* snapshots of the source whose rows are in the sink
    state,      \* connector_state of the source node
    app,        \* the SparkApplication of each execution
    wf,         \* SparkJobWorkflow of each execution
    phase, lost, faults

vars == <<table, sink, written, state, app, wf, phase, lost, faults>>
world == <<table, sink, written>>

NoApp == [state |-> "none", from |-> 0, upto |-> 0]
Start == [pc |-> "submit", attempt |-> 1, from |-> 0, input |-> 0, before |-> 0,
          cancel |-> FALSE, error |-> ""]

Init ==
    /\ table \in 1..MaxSnapshot /\ sink = 0 /\ written = {} /\ state = 0
    /\ app = [e \in Execution |-> NoApp]
    /\ wf = [e \in Execution |-> Start]
    /\ phase = [e \in Execution |-> "running"]
    /\ lost = 0 /\ faults = 0

Move(e, pc) == wf' = [wf EXCEPT ![e].pc = pc]
Fault == faults < MaxFaults /\ faults' = faults + 1

-----------------------------------------------------------------------------
(* The outside: the source table grows, applications complete or fail.     *)
Ingest == table < MaxSnapshot /\ table' = table + 1
          /\ UNCHANGED <<sink, written, state, app, wf, phase, lost, faults>>

ReadsFromLatest(a) == IF a.from # 0 THEN (a.upto + 1)..table ELSE 1..table

(* sourceSQL: the increment (from, upto], or without an earlier snapshot   *)
(* the table as it is when the query runs.                                 *)
Reads(a) == IF a.from # 0 THEN (a.from + 1)..a.upto ELSE 1..table

Complete(e) ==
    /\ app[e].state = "RUNNING"
    /\ app' = [app EXCEPT ![e].state = "COMPLETED"]
    /\ written' = written \cup Reads(app[e]) /\ sink' = sink + 1
    /\ UNCHANGED <<table, state, wf, phase, lost, faults>>

Fail(e) ==
    /\ app[e].state = "RUNNING" /\ Fault
    /\ app' = [app EXCEPT ![e].state = "FAILED"]
    /\ UNCHANGED <<world, state, wf, phase, lost>>

-----------------------------------------------------------------------------
(* SubmitSparkJob, the part before the POST: every attempt reads the       *)
(* cursor, the source's and the sink's current snapshots anew.  When the   *)
(* cursor or the sink's snapshot cannot be read it goes on without.        *)
Reading(e, from, before) ==
    wf' = [wf EXCEPT ![e].pc = "create", ![e].from = from, ![e].input = table, ![e].before = before]

ReadSnapshots(e) ==
    /\ wf[e].pc = "submit"
    /\ \/ state # 0 /\ state = table /\ Move(e, "noop") /\ UNCHANGED faults
       \/ (state = 0 \/ state # table) /\ Reading(e, state, sink) /\ UNCHANGED faults
       \/ (state = 0 \/ state # table) /\ Fault /\ Reading(e, state, 0)
       \/ Fault /\ Reading(e, 0, sink)
    /\ UNCHANGED <<world, state, app, phase, lost>>

(* BuildApplication: the query covers what this attempt has read.          *)
Application(e) == [state |-> "RUNNING", from |-> wf[e].from, upto |-> wf[e].input]

(* An execution's own application that is already there is attached to.    *)
CreateOrAttach(e) ==
    IF app[e].state = "none"
    THEN [app EXCEPT ![e] = Application(e)]
    ELSE app

AttemptFails(e) ==
    wf' = [wf EXCEPT ![e].attempt = @ + 1,
                     ![e].pc = IF wf[e].attempt = MaxAttempts THEN "ended" ELSE "submit",
                     ![e].error = IF wf[e].attempt = MaxAttempts THEN "submit" ELSE ""]

(* A request that fails has created the application or not.                *)
Create(e) ==
    /\ wf[e].pc = "create"
    /\ \/ app' = CreateOrAttach(e) /\ Move(e, "poll") /\ UNCHANGED <<lost, faults>>
       \/ /\ app' = CreateOrAttach(e) /\ AttemptFails(e)
          /\ lost < MaxLost /\ lost' = lost + 1 /\ UNCHANGED faults
       \/ Fault /\ AttemptFails(e) /\ UNCHANGED <<app, lost>>
    /\ UNCHANGED <<world, state, phase>>

Status(e) == app[e].state

PollLenient(e) ==
    /\ wf[e].pc = "poll"
    /\ \/ Status(e) = "COMPLETED" /\ Move(e, "commit")
       \/ Status(e) = "FAILED" /\ Move(e, "mark")
    /\ UNCHANGED <<world, state, app, phase, lost, faults>>
PollCompletedOnly(e) ==
    /\ wf[e].pc = "poll" /\ Status(e) = "COMPLETED" /\ Move(e, "commit")
    /\ UNCHANGED <<world, state, app, phase, lost, faults>>

Poll(e) ==
    /\ wf[e].pc = "poll"
    /\ \/ Status(e) = "COMPLETED" /\ Move(e, "commit") /\ UNCHANGED <<phase, faults>>
       \/ /\ Status(e) = "FAILED"
          /\ wf' = [wf EXCEPT ![e].pc = "ended", ![e].error = "failed"]
          /\ \/ phase' = [phase EXCEPT ![e] = "failed"] /\ UNCHANGED faults
             \/ Fault /\ UNCHANGED phase
       \/ Status(e) = "RUNNING" /\ wf[e].cancel /\ Move(e, "cancel") /\ UNCHANGED <<phase, faults>>
       \/ /\ Fault /\ UNCHANGED phase       \* sparkJobStatus exhausts its attempts
          /\ wf' = [wf EXCEPT ![e].pc = "ended", ![e].error = "status"]
    /\ UNCHANGED <<world, state, app, lost>>

(* Neither the deletion's nor the row's error stops the workflow.          *)
CancelSparkJob(e) ==
    /\ wf[e].pc = "cancel"
    /\ Move(e, "ended")
    /\ \/ app' = [app EXCEPT ![e] = NoApp] /\ phase' = [phase EXCEPT ![e] = "cancelled"] /\ UNCHANGED faults
       \/ Fault /\ UNCHANGED app /\ phase' = [phase EXCEPT ![e] = "cancelled"]
       \/ Fault /\ app' = [app EXCEPT ![e] = NoApp] /\ UNCHANGED phase
    /\ UNCHANGED <<world, state, lost>>

CommitSparkJob(e) ==
    /\ wf[e].pc = "commit"
    /\ \/ /\ sink # 0 /\ sink # wf[e].before
          /\ state' = wf[e].input /\ Move(e, "mark") /\ UNCHANGED faults
       \/ /\ sink = 0 \/ sink = wf[e].before
          /\ wf' = [wf EXCEPT ![e].pc = "ended", ![e].error = "no output"]
          /\ UNCHANGED <<state, faults>>
       \/ /\ Fault /\ UNCHANGED state
          /\ wf' = [wf EXCEPT ![e].pc = "ended", ![e].error = "commit"]
    /\ UNCHANGED <<world, app, phase, lost>>

MarkCompleted(e) ==
    /\ wf[e].pc \in {"mark", "noop"}
    /\ Move(e, "ended")
    /\ \/ phase' = [phase EXCEPT ![e] = "completed"] /\ UNCHANGED faults
       \/ Fault /\ UNCHANGED phase
    /\ UNCHANGED <<world, state, app, lost>>

RequestCancel(e) ==
    /\ ~wf[e].cancel /\ wf[e].pc # "ended"
    /\ wf' = [wf EXCEPT ![e].cancel = TRUE]
    /\ UNCHANGED <<world, state, app, phase, lost, faults>>

Workflow(e) ==
    \/ ReadSnapshots(e) \/ Create(e) \/ Poll(e) \/ CancelSparkJob(e) \/ CommitSparkJob(e)
    \/ MarkCompleted(e)

Next ==
    \/ Ingest
    \/ \E e \in Execution : Workflow(e) \/ RequestCancel(e) \/ Complete(e) \/ Fail(e)

Spec == Init /\ [][Next]_vars
FairSpec == Spec /\ \A e \in Execution : WF_vars(Workflow(e)) /\ WF_vars(Complete(e) \/ Fail(e))

-----------------------------------------------------------------------------

(* Types; the workflow polls only an application of its execution.         *)
TypeOK ==
    /\ table \in 1..MaxSnapshot /\ written \subseteq 1..table /\ state \in 0..table
    /\ \A e \in Execution :
        /\ wf[e].attempt \in 1..(MaxAttempts + 1)
        /\ wf[e].pc \in {"poll", "commit"} => app[e].state # "none"

(* The cursor is safe: every snapshot up to the committed one has been     *)
(* written to the sink, although executions of the pipeline overlap and    *)
(* commit in any order.                                                    *)
NothingSkipped == \A s \in 1..state : s \in written

(* An execution that says it completed leaves everything of the snapshot   *)
(* it read, and before it, in the sink.                                    *)
CompletedHasOutput ==
    \A e \in Execution : phase[e] = "completed" => \A s \in 1..wf[e].input : s \in written

(* Every workflow comes to an end once its application does.               *)
EveryJobEnds == \A e \in Execution : <>(wf[e].pc = "ended")

=============================================================================
