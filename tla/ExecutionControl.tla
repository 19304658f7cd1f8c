-------------------------- MODULE ExecutionControl --------------------------
(***************************************************************************)
(* Durable pause/resume/cancel of one controlled DAG execution.            *)
(*                                                                         *)
(* Actors: the API (launch and control requests), the dispatcher of the    *)
(* activity worker, the Temporal workflow (main coroutine, watcher, one    *)
(* coroutine per node), the activity worker (control reads, admission,     *)
(* external effects, commits, finalization).  They share the `executions`  *)
(* row.                                                                    *)
(*                                                                         *)
(* Abstractions:                                                           *)
(*  - one row is one execution; tenants, authorization, audit text and     *)
(*    payloads are left out;                                               *)
(*  - a control read is two steps, the SELECT ... FOR SHARE and the moment *)
(*    the workflow applies the answer, so answers may be applied late and  *)
(*    out of order; its ten bounded retries are one success or one         *)
(*    failure;                                                             *)
(*  - a signal channel holds a wake-up or not: each one only causes a      *)
(*    re-read, which the 30s poll may cause too;                           *)
(*  - clocks are left out: a timer may fire whenever it is armed, and a    *)
(*    delivery that failed is tried again at some later tick.              *)
(***************************************************************************)
EXTENDS Integers, Sequences, FiniteSets

CONSTANTS
    Node,             \* the nodes of the pipeline definition
    Batches,          \* buildPlan's levels, cut into runs of maxParallelNodes
    Upstream,         \* Upstream[n]: sources of the in-edges of n
    Kind,             \* Kind[n]: "source", "merge", "fork" or "dispatch"
    Conditions,       \* Conditions[n]: how many in-edges carry a condition
    MaximumAttempts,  \* MaximumAttempts[n]: retry budget of one activity of n
    MaxPages,         \* maxSourcePagesPerRun
    Resumable,        \* source nodes for which resumableSource holds
    Commits,          \* which of "cursors" and "dedupe" the run has to commit
    NonfatalRefresh,  \* the history carries control-watch-nonfatal-refresh-v1
    MaxRevision,      \* bound on the accepted control requests
    MaxFaults         \* bound on failed reads, RPCs and finalizations

ControlState == {"active", "paused", "cancel_requested"}
TerminalPhase == {"completed", "failed", "cancelled"}
NodeKind == {"source", "merge", "fork", "dispatch"}
Revision == 0..MaxRevision

ASSUME BatchesAssumption ==
    /\ Batches \in Seq(SUBSET Node)
    /\ UNION {Batches[i] : i \in 1..Len(Batches)} = Node
    /\ \A i, j \in 1..Len(Batches) : i # j => Batches[i] \cap Batches[j] = {}
ASSUME NodesAssumption ==
    /\ IsFiniteSet(Node)
    /\ Upstream \in [Node -> SUBSET Node]
    /\ Kind \in [Node -> NodeKind]
    /\ Conditions \in [Node -> Nat]
    /\ Resumable \subseteq Node
(* ValidateNodePolicies rejects 0, Temporal's "unlimited"; the default is 5. *)
ASSUME AttemptsAssumption == MaximumAttempts \in [Node -> Nat \ {0}]
ASSUME BoundsAssumption ==
    /\ MaxPages \in Nat \ {0}
    /\ MaxRevision \in Nat
    /\ MaxFaults \in Nat
    /\ Commits \subseteq {"cursors", "dedupe"}
    /\ NonfatalRefresh \in BOOLEAN

Main == "main"
Watcher == "watch"
Reader == Node \cup {Main, Watcher}
ASSUME ReaderAssumption == Main \notin Node /\ Watcher \notin Node

VARIABLES
    launch,      \* API launch: "starting", "inserted" or "failed"
    phase,       \* executions.phase
    control,     \* executions.control_state and control_revision
    delivered,   \* executions.control_delivered_revision
    dispatcher,  \* the dispatcher's stage and the revision it snapshotted
    signals,     \* the signal channels of the workflow that hold a wake-up
    read,        \* read[r]: answer waiting for coroutine r, or none yet
    view,        \* executionController.control
    flags,       \* which of Paused, Cancelled and the controller's failure are set
    watcher,     \* coroutine watch: "off", "select", "read" or "stopped"
    main,        \* coroutine controlledDAGWorkflow
    step,        \* batch the main coroutine is at; Len+1 cursors, Len+2 dedupe
    want,        \* the phase finalization asks for
    status,      \* the phase in the ExecutionStatus the workflow returns
    node,        \* node[n]: where the coroutine of n is
    op,          \* op[n]: the activity call of n, its name and its number
    attempt,     \* attempt[n]: Temporal's attempt number of that call
    remaining,   \* remaining[n] of executeNodeActivity
    blocked,     \* blocked[n]: state in the ExecutionControlBlocked error
    result,      \* result[n]: NodeResult.Status
    zombies,     \* zombies[n]: attempts given up by Temporal, not yet admitted
    committing,  \* commit activities that may still run
    committed,   \* commits that are in the database
    faults,      \* failures that happened (bounded by MaxFaults)
    \* History variables, read by properties only.
    log,         \* log[v]: the intent that was committed as revision v
    admits,      \* admits[n]: external calls of n that were admitted
    budget,      \* budget[n]: sum of the budgets of the calls n has made
    fails,       \* fails[n]: failed attempts of the current call of n
    why          \* why[n]: what made n fail

rowVars == <<launch, phase, control, delivered, log>>
deliveryVars == <<dispatcher, signals>>
viewVars == <<view, flags>>
mainVars == <<main, step, want, status>>
callVars == <<op, attempt, remaining, blocked, budget, fails>>
nodeVars == <<node, callVars, result, why, zombies, admits>>
commitVars == <<committing, committed>>
vars == <<rowVars, deliveryVars, read, viewVars, watcher, mainVars, nodeVars,
          commitVars, faults>>

(* The answer to a control read: none yet, an error, or the row's columns. *)
Answer(a, s, v, p) == [answer |-> a, state |-> s, revision |-> v, phase |-> p]
Answers == [answer : {"none", "error", "control"}, state : ControlState,
            revision : Revision, phase : TerminalPhase \cup {"running"}]
NoRead == Answer("none", "active", 0, "running")
ReadFailed == Answer("error", "active", 0, "running")
Steps == 1..(Len(Batches) + 2)
OpName == {"eval", "fetch", "merge", "dispatch"}
Calling == {"gate", "await", "sched", "effect", "blocked"}
Ended == {"closed", "lost", "terminated"}
SignalName == {"pause", "resume", "cancel"}

Paused == "paused" \in flags
Cancelled == "cancelled" \in flags
Failure == "failure" \in flags

TypeOK ==
    /\ launch \in {"starting", "inserted", "failed"}
    /\ phase \in TerminalPhase \cup {"running"}
    /\ control \in [state : ControlState, revision : Revision]
    /\ delivered \in Revision
    /\ dispatcher \in [stage : {"idle", "signal", "ack"}, signal : SignalName,
                      revision : Revision]
    /\ signals \subseteq SignalName
    /\ read \in [Reader -> Answers]
    /\ view \in [state : ControlState, revision : Revision]
    /\ flags \subseteq {"paused", "cancelled", "failure"}
    /\ watcher \in {"off", "select", "read", "stopped"}
    /\ main \in {"init", "gate", "await", "run", "commit", "final", "mark"} \cup Ended
    /\ step \in Steps
    /\ want \in TerminalPhase \cup {"none"}
    /\ status \in TerminalPhase \cup {"running"}
    /\ node \in [Node -> {"idle", "done"} \cup Calling]
    /\ op \in [Node -> [name : OpName, i : Nat]]
    /\ attempt \in [Node -> Nat] /\ remaining \in [Node -> Nat]
    /\ blocked \in [Node -> ControlState]
    /\ result \in [Node -> {"none", "success", "failed", "skipped"}]
    /\ zombies \in [Node -> Nat]
    /\ committing \subseteq {"cursors", "dedupe"}
    /\ committed \subseteq {"cursors", "dedupe"}
    /\ faults \in 0..MaxFaults
    /\ log \in [Revision -> ControlState]
    /\ admits \in [Node -> Nat] /\ budget \in [Node -> Nat] /\ fails \in [Node -> Nat]
    /\ why \in [Node -> {"none", "exhausted", "fatal", "gate", "cancel", "pages", "invalid"}]

TerminalExecutionPhase(p) == p \in TerminalPhase

Init ==
    /\ launch = "starting" /\ phase = "running"
    /\ control = [state |-> "active", revision |-> 0]
    /\ delivered = 0
    /\ dispatcher = [stage |-> "idle", signal |-> "resume", revision |-> 0]
    /\ signals = {}
    /\ read = [r \in Reader |-> NoRead]
    /\ view = [state |-> "active", revision |-> 0]
    /\ flags = {}
    /\ watcher = "off"
    /\ main = "init" /\ step = 1 /\ want = "none" /\ status = "running"
    /\ node = [n \in Node |-> "idle"]
    /\ op = [n \in Node |-> [name |-> "eval", i |-> 0]]
    /\ attempt = [n \in Node |-> 0] /\ remaining = [n \in Node |-> 0]
    /\ blocked = [n \in Node |-> "active"]
    /\ result = [n \in Node |-> "none"]
    /\ zombies = [n \in Node |-> 0]
    /\ committing = {} /\ committed = {}
    /\ faults = 0
    /\ log = [v \in Revision |-> "active"]
    /\ admits = [n \in Node |-> 0] /\ budget = [n \in Node |-> 0]
    /\ fails = [n \in Node |-> 0]
    /\ why = [n \in Node |-> "none"]

Fault == faults < MaxFaults /\ faults' = faults + 1

-----------------------------------------------------------------------------
(* The API.                                                                *)

(* fireExecution starts the workflow before it inserts the row.            *)
InsertExecution ==
    /\ launch = "starting"
    /\ launch' = "inserted"
    /\ UNCHANGED <<phase, control, delivered, log, deliveryVars, read, viewVars,
                   watcher, mainVars, nodeVars, commitVars, faults>>

(* The insert fails or the API stops first: the workflow is terminated, or *)
(* left alone when that call fails too.                                    *)
LaunchFails ==
    /\ launch = "starting"
    /\ launch' = "failed"
    /\ main' \in IF main \in Ended THEN {main} ELSE {main, "terminated"}
    /\ watcher' = IF main' = "terminated" THEN "stopped" ELSE watcher
    /\ UNCHANGED <<phase, control, delivered, log, deliveryVars, read, viewVars,
                   step, want, status, nodeVars, commitVars, faults>>

(* One committed control request; refused requests change nothing.         *)
ExecutionSignal(target) ==
    /\ launch = "inserted"
    /\ ~TerminalExecutionPhase(phase)
    /\ control.state = "cancel_requested" => target = "cancel_requested"
    /\ ~(control.state = target /\ control.revision > 0)
    /\ control.revision < MaxRevision
    /\ control' = [state |-> target, revision |-> control.revision + 1]
    /\ log' = [log EXCEPT ![control.revision + 1] = target]
    /\ UNCHANGED <<launch, phase, delivered, deliveryVars, read, viewVars, watcher,
                   mainVars, nodeVars, commitVars, faults>>

-----------------------------------------------------------------------------
(* The dispatcher: snapshot, signal RPC, conditional acknowledgement.      *)

dispatcherOthers == <<launch, phase, control, log, read, viewVars, watcher, mainVars,
                      nodeVars, commitVars>>

SignalOf(state) == CASE state = "active" -> "resume"
                     [] state = "paused" -> "pause"
                     [] OTHER -> "cancel"

(* A workflow that ended gets no signal.                                   *)
Accepted == IF main \in Ended THEN {} ELSE {dispatcher.signal}

NextToDeliver == delivered + 1 = control.revision
Undelivered == delivered < control.revision

DispatchScan ==
    /\ dispatcher.stage = "idle"
    /\ launch = "inserted"
    /\ Undelivered
    /\ ~TerminalExecutionPhase(phase)
    /\ dispatcher' = [stage |-> "signal", signal |-> SignalOf(control.state),
                      revision |-> control.revision]
    /\ UNCHANGED <<dispatcherOthers, delivered, signals, faults>>

(* SignalWorkflow answers: accepted, or NotFound for a workflow that ended.*)
DispatchSignal ==
    /\ dispatcher.stage = "signal"
    /\ signals' = signals \cup Accepted
    /\ dispatcher' = [dispatcher EXCEPT !.stage = "ack"]
    /\ UNCHANGED <<dispatcherOthers, delivered, faults>>

(* A newer intent stays pending even if the RPC for an older one succeeded.*)
AckedLatest == control.revision
Acked == IF control.revision = dispatcher.revision /\ delivered < dispatcher.revision
         THEN dispatcher.revision ELSE delivered

DispatchAck ==
    /\ dispatcher.stage = "ack"
    /\ delivered' = Acked
    /\ dispatcher' = [dispatcher EXCEPT !.stage = "idle"]
    /\ UNCHANGED <<dispatcherOthers, signals, faults>>

(* The RPC fails or times out (Temporal may have accepted the signal), the *)
(* update fails, or the worker stops: a later tick takes a new snapshot.   *)
DispatchFails ==
    /\ dispatcher.stage # "idle"
    /\ Fault
    /\ signals' \in {signals, signals \cup Accepted}
    /\ dispatcher' = [dispatcher EXCEPT !.stage = "idle"]
    /\ UNCHANGED <<dispatcherOthers, delivered>>

Dispatcher == DispatchScan \/ DispatchSignal \/ DispatchAck \/ DispatchFails

-----------------------------------------------------------------------------
(* Control reads.                                                          *)

Awaiting(r) ==
    /\ read[r].answer = "none"
    /\ CASE r = Main -> main \in {"init", "gate"}
         [] r = Watcher -> watcher = "read"
         [] OTHER -> node[r] = "gate"

readOthers == <<rowVars, deliveryVars, viewVars, watcher, mainVars, nodeVars, commitVars>>

ReadExecutionControl(r) ==
    /\ Awaiting(r)
    /\ launch = "inserted"
    /\ read' = [read EXCEPT ![r] = Answer("control", control.state, control.revision, phase)]
    /\ UNCHANGED <<readOthers, faults>>

(* All retries of the read fail, for want of the row or of the database.   *)
ReadFails(r) ==
    /\ Awaiting(r)
    /\ IF launch = "inserted" THEN Fault ELSE UNCHANGED faults
    /\ read' = [read EXCEPT ![r] = ReadFailed]
    /\ UNCHANGED readOthers

(* executionController.refresh with the answer v.                          *)
NeverStale(v) == FALSE
Stale(v) == v.revision < view.revision
CancelsRun(v) == v.state = "cancel_requested" \/ TerminalExecutionPhase(v.phase)
PausedByAnyAnswer(v) == v.state = "paused"
PausedAfter(v) == IF Stale(v) THEN Paused ELSE v.state = "paused"
CancelledAfter(v) == Cancelled \/ (~Stale(v) /\ CancelsRun(v))
Refresh(v) ==
    /\ view' = IF Stale(v) THEN view ELSE [state |-> v.state, revision |-> v.revision]
    /\ flags' = {f \in {"paused", "cancelled", "failure"} :
                   CASE f = "paused" -> PausedAfter(v)
                     [] f = "cancelled" -> CancelledAfter(v)
                     [] OTHER -> Failure}

(* cancelBusiness() has been called while the run is still open.           *)
BusinessCancelled == Cancelled \/ Failure
(* waitActive returns an error after its refresh.                          *)
StoppedByFailure == Failure'
Stopped == BusinessCancelled'

-----------------------------------------------------------------------------
(* The watcher coroutine.                                                  *)

watchOthers == <<rowVars, dispatcher, mainVars, nodeVars, commitVars, faults>>

WatchSignal ==
    /\ watcher = "select"
    /\ \E s \in signals : signals' = signals \ {s}
    /\ watcher' = "read"
    /\ UNCHANGED <<watchOthers, read, viewVars>>

WatchPoll ==
    /\ watcher = "select"
    /\ watcher' = "read"
    /\ UNCHANGED <<watchOthers, signals, read, viewVars>>

WatchApply ==
    /\ watcher = "read"
    /\ read[Watcher].answer = "control"
    /\ Refresh(read[Watcher])
    /\ read' = [read EXCEPT ![Watcher] = NoRead]
    /\ watcher' = IF Cancelled' THEN "stopped" ELSE "select"
    /\ UNCHANGED <<watchOthers, signals>>

StopAfterReadError == "stopped"
AfterReadError == IF NonfatalRefresh THEN "select" ELSE "stopped"

WatchError ==
    /\ watcher = "read"
    /\ read[Watcher].answer = "error"
    /\ read' = [read EXCEPT ![Watcher] = NoRead]
    /\ flags' = IF NonfatalRefresh THEN flags ELSE flags \cup {"failure"}
    /\ watcher' = AfterReadError
    /\ UNCHANGED <<watchOthers, signals, view>>

Watch == WatchSignal \/ WatchPoll \/ WatchApply \/ WatchError

-----------------------------------------------------------------------------
(* The node coroutines: runNode, runSource and executeNodeActivity.        *)

nodeOthers == <<rowVars, deliveryVars, watcher, mainVars, commitVars, faults>>

(* fetchSourcePage and dispatchNode pass admission; the two others do not. *)
Gated(o) == o.name \in {"fetch", "dispatch"}

(* An activity of n is scheduled or running.                               *)
Running(n) == node[n] \in {"sched", "effect"}
(* It can return its value: past admission, or not subject to it.          *)
Executing(n) == node[n] = (IF Gated(op[n]) THEN "effect" ELSE "sched")

Body(n) ==
    CASE Kind[n] = "source" -> [name |-> "fetch", i |-> 1]
      [] Kind[n] = "merge" -> [name |-> "merge", i |-> 0]
      [] OTHER -> [name |-> "dispatch", i |-> 0]

(* runNode goes from the edge conditions to the body; a fork has none.     *)
FirstOp(n) == IF Conditions[n] > 0 THEN [name |-> "eval", i |-> 1] ELSE Body(n)
Passthrough(n) == Kind[n] = "fork" /\ Conditions[n] = 0

NodeEnds(n, r, w) ==
    /\ node' = [node EXCEPT ![n] = "done"]
    /\ result' = [result EXCEPT ![n] = r]
    /\ why' = [why EXCEPT ![n] = w]
    /\ UNCHANGED callVars

NodeFails(n, w) == NodeEnds(n, "failed", w)

(* A new executeNodeActivity: a fresh budget, and waitActive first.        *)
NodeCalls(n, o) ==
    /\ node' = [node EXCEPT ![n] = "gate"]
    /\ op' = [op EXCEPT ![n] = o]
    /\ remaining' = [remaining EXCEPT ![n] = MaximumAttempts[n]]
    /\ budget' = [budget EXCEPT ![n] = @ + MaximumAttempts[n]]
    /\ fails' = [fails EXCEPT ![n] = 0]
    /\ UNCHANGED <<attempt, blocked, result, why>>

Schedule(n) ==
    /\ node' = [node EXCEPT ![n] = "sched"]
    /\ attempt' = [attempt EXCEPT ![n] = 1]
    /\ UNCHANGED <<op, remaining, blocked, budget, fails, result, why>>

(* waitActive of n, the read having been answered.                         *)
NodeGate(n) ==
    /\ node[n] = "gate"
    /\ read[n].answer = "control"
    /\ Refresh(read[n])
    /\ read' = [read EXCEPT ![n] = NoRead]
    /\ IF Stopped THEN NodeFails(n, "cancel")
       ELSE IF Paused'
            THEN /\ node' = [node EXCEPT ![n] = "await"]
                 /\ UNCHANGED <<callVars, result, why>>
            ELSE Schedule(n)
    /\ UNCHANGED <<nodeOthers, zombies, admits>>

NodeGateError(n) ==
    /\ node[n] = "gate"
    /\ read[n].answer = "error"
    /\ read' = [read EXCEPT ![n] = NoRead]
    /\ NodeFails(n, "gate")
    /\ UNCHANGED <<nodeOthers, viewVars, zombies, admits>>

NodeResumes(n) ==
    /\ node[n] = "await"
    /\ ~Paused /\ ~BusinessCancelled
    /\ Schedule(n)
    /\ UNCHANGED <<nodeOthers, viewVars, read, zombies, admits>>

(* cancelBusiness() resolves what n waits for with a CanceledError at once;*)
(* the worker may not know yet that its attempt was given up.              *)
NodeCancelled(n) ==
    /\ node[n] \in {"gate", "await", "sched", "effect"}
    /\ BusinessCancelled
    /\ read' = [read EXCEPT ![n] = NoRead]
    /\ NodeFails(n, "cancel")
    /\ zombies' = [zombies EXCEPT ![n] = @ + IF node[n] = "sched" /\ Gated(op[n])
                                             THEN 1 ELSE 0]
    /\ UNCHANGED <<nodeOthers, viewVars, admits>>

(* admitControlledActivity: the shared-lock read is the admission point.   *)
AdmissibleUnlessCancelled == launch = "inserted" /\ control.state # "cancel_requested"
Admissible ==
    /\ launch = "inserted"
    /\ control.state = "active"
    /\ ~TerminalExecutionPhase(phase)

Admit(n) ==
    /\ node[n] = "sched" /\ Gated(op[n])
    /\ Admissible
    /\ node' = [node EXCEPT ![n] = "effect"]
    /\ admits' = [admits EXCEPT ![n] = @ + 1]
    /\ UNCHANGED <<nodeOthers, viewVars, read, callVars, result, why, zombies>>

BlockedAsCancel == "cancel_requested"
BlockedState == IF TerminalExecutionPhase(phase) THEN "cancel_requested" ELSE control.state

Block(n) ==
    /\ node[n] = "sched" /\ Gated(op[n])
    /\ launch = "inserted"
    /\ ~Admissible
    /\ node' = [node EXCEPT ![n] = "blocked"]
    /\ blocked' = [blocked EXCEPT ![n] = BlockedState]
    /\ UNCHANGED <<nodeOthers, viewVars, read, op, attempt, remaining, budget, fails,
                   result, why, zombies, admits>>

(* What is left of the budget when an attempt is blocked: the attempts     *)
(* before it are spent, the blocked one is not.                            *)
LeftUncharged(n) == remaining[n]
LeftChargingBlocked(n) == remaining[n] - attempt[n]
LeftOffByTwo(n) == remaining[n] - attempt[n] - 1
Left(n) == remaining[n] - (attempt[n] - 1)

(* The workflow takes the ExecutionControlBlocked error.                   *)
BlockedAttempt(n) ==
    /\ node[n] = "blocked"
    /\ IF blocked[n] = "cancel_requested"
       THEN flags' = flags \cup {"cancelled"} /\ NodeFails(n, "cancel")
       ELSE /\ UNCHANGED flags
            /\ IF blocked[n] # "paused" \/ attempt[n] < 1 \/ attempt[n] > remaining[n]
               THEN NodeFails(n, "invalid")
               ELSE /\ remaining' = [remaining EXCEPT ![n] = Left(n)]
                    /\ node' = [node EXCEPT ![n] = "gate"]
                    /\ UNCHANGED <<op, attempt, blocked, budget, fails, result, why>>
    /\ UNCHANGED <<nodeOthers, read, view, zombies, admits>>

(* Temporal's retry policy: MaximumAttempts = 0 means without limit.       *)
Retries(n) == remaining[n] = 0 \/ attempt[n] < remaining[n]

(* A retryable error or a timeout.  After a timeout the worker may still   *)
(* hold an attempt that has not reached admission.                         *)
AttemptFails(n) ==
    /\ Running(n)
    /\ fails' = [fails EXCEPT ![n] = @ + 1]
    /\ IF Retries(n)
       THEN /\ node' = [node EXCEPT ![n] = "sched"]
            /\ attempt' = [attempt EXCEPT ![n] = @ + 1]
            /\ UNCHANGED <<result, why>>
       ELSE /\ node' = [node EXCEPT ![n] = "done"]
            /\ result' = [result EXCEPT ![n] = "failed"]
            /\ why' = [why EXCEPT ![n] = "exhausted"]
            /\ UNCHANGED attempt
    /\ \E late \in IF node[n] = "sched" /\ Gated(op[n]) THEN {0, 1} ELSE {0} :
          zombies' = [zombies EXCEPT ![n] = @ + late]
    /\ UNCHANGED <<nodeOthers, viewVars, read, op, remaining, blocked, budget, admits>>

(* A non-retryable error of the activity.                                  *)
AttemptRejected(n) ==
    /\ Running(n)
    /\ NodeFails(n, "fatal")
    /\ UNCHANGED <<nodeOthers, viewVars, read, zombies, admits>>

(* An attempt that Temporal gave up on gets to admission, or dies.         *)
ZombieAdmitted(n) ==
    /\ zombies[n] > 0
    /\ Admissible
    /\ zombies' = [zombies EXCEPT ![n] = @ - 1]
    /\ admits' = [admits EXCEPT ![n] = @ + 1]
    /\ UNCHANGED <<nodeOthers, viewVars, read, node, callVars, result, why>>

ZombieEnds(n) ==
    /\ zombies[n] > 0
    /\ zombies' = [zombies EXCEPT ![n] = @ - 1]
    /\ UNCHANGED <<nodeOthers, viewVars, read, node, callVars, result, why, admits>>

returnOthers == <<nodeOthers, viewVars, read, zombies, admits>>

(* evalEdgeCondition: one call for each conditional in-edge.               *)
EvalReturns(n, allowed) ==
    /\ Executing(n) /\ op[n].name = "eval"
    /\ IF ~allowed THEN NodeEnds(n, "skipped", "none")
       ELSE IF op[n].i < Conditions[n] THEN NodeCalls(n, [name |-> "eval", i |-> op[n].i + 1])
       ELSE IF Kind[n] = "fork" THEN NodeEnds(n, "success", "none")
       ELSE NodeCalls(n, Body(n))
    /\ UNCHANGED returnOthers

(* runSource: pages until the last one or the cap, then one merge of many. *)
FetchReturns(n, hasMore) ==
    /\ Executing(n) /\ op[n].name = "fetch"
    /\ IF hasMore /\ op[n].i < MaxPages
       THEN NodeCalls(n, [name |-> "fetch", i |-> op[n].i + 1])
       ELSE IF hasMore /\ n \notin Resumable THEN NodeFails(n, "pages")
       ELSE IF op[n].i > 1 THEN NodeCalls(n, [name |-> "merge", i |-> 0])
       ELSE NodeEnds(n, "success", "none")
    /\ UNCHANGED returnOthers

WorkReturns(n) ==
    /\ Executing(n) /\ op[n].name \in {"merge", "dispatch"}
    /\ NodeEnds(n, "success", "none")
    /\ UNCHANGED returnOthers

Returns(n) ==
    \/ \E allowed \in BOOLEAN : EvalReturns(n, allowed)
    \/ \E hasMore \in BOOLEAN : FetchReturns(n, hasMore)
    \/ WorkReturns(n)

NodeStep(n) ==
    \/ NodeGate(n) \/ NodeGateError(n) \/ NodeResumes(n) \/ NodeCancelled(n)
    \/ Admit(n) \/ Block(n) \/ BlockedAttempt(n)
    \/ AttemptFails(n) \/ AttemptRejected(n) \/ Returns(n)

Zombie(n) == ZombieAdmitted(n) \/ ZombieEnds(n)

-----------------------------------------------------------------------------
(* The main coroutine: controlledDAGWorkflow.                              *)

mainOthers == <<rowVars, deliveryVars, faults>>

(* runNode skips a node none of whose upstream nodes succeeded.            *)
Skips(n) == Upstream[n] # {} /\ \A u \in Upstream[n] : result[u] # "success"
Starts(n) == ~Skips(n) /\ ~Passthrough(n)

StartBatch(batch) ==
    /\ main' = "run"
    /\ node' = [n \in Node |-> IF n \notin batch THEN node[n]
                               ELSE IF Starts(n) THEN "gate" ELSE "done"]
    /\ result' = [n \in Node |-> IF n \notin batch \/ Starts(n) THEN result[n]
                                 ELSE IF Skips(n) THEN "skipped" ELSE "success"]
    /\ op' = [n \in Node |-> IF n \in batch THEN FirstOp(n) ELSE op[n]]
    /\ remaining' = [n \in Node |-> IF n \in batch THEN MaximumAttempts[n] ELSE remaining[n]]
    /\ budget' = [n \in Node |-> IF n \in batch /\ Starts(n) THEN budget[n] + MaximumAttempts[n]
                                 ELSE budget[n]]
    /\ UNCHANGED <<step, want, status, attempt, blocked, fails, why, zombies, admits,
                   commitVars, watcher>>

NoneFailed == FALSE
LastBatchFailed == \E n \in Batches[Len(Batches)] : result[n] = "failed"
AnyFailed == \E n \in Node : result[n] = "failed"

(* The deferred finalization: outcome is how the body returned.  The flags *)
(* are arguments because the same step may just have set them.             *)
Finalize(outcome, isCancelled, isFailure) ==
    /\ want' = IF isCancelled \/ (outcome = "canceled" /\ ~isFailure) THEN "cancelled"
               ELSE IF outcome = "error" \/ isFailure \/ AnyFailed THEN "failed"
               ELSE "completed"
    /\ main' = "final"
    /\ watcher' = "stopped"
    /\ UNCHANGED <<step, status, nodeVars, commitVars>>

NextGate ==
    /\ main' = "gate"
    /\ step' = step + 1
    /\ UNCHANGED <<want, status, nodeVars, commitVars, watcher>>

StartCommit(c) ==
    /\ main' = "commit"
    /\ committing' = committing \cup {c}
    /\ UNCHANGED <<step, want, status, nodeVars, committed, watcher>>

AtCursors == step = Len(Batches) + 1
AtDedupe == step = Len(Batches) + 2

(* What follows a waitActive that let the main coroutine pass.             *)
Proceed ==
    \/ step <= Len(Batches) /\ StartBatch(Batches[step])
    \/ AtCursors /\ "cursors" \in Commits /\ StartCommit("cursors")
    \/ AtCursors /\ "cursors" \notin Commits /\ "dedupe" \in Commits /\ NextGate
    \/ AtCursors /\ Commits = {} /\ Finalize("ok", FALSE, FALSE)
    \/ AtDedupe /\ StartCommit("dedupe")

(* The first read must succeed before anything is scheduled.               *)
MainInit ==
    /\ main = "init"
    /\ read[Main].answer = "control"
    /\ Refresh(read[Main])
    /\ read' = [read EXCEPT ![Main] = NoRead]
    /\ main' = "gate"
    /\ watcher' = "select"
    /\ UNCHANGED <<mainOthers, step, want, status, nodeVars, commitVars>>

(* Leaving for finalization, the main coroutine drops the pending reads.   *)
DropReads == read' = [read EXCEPT ![Main] = NoRead, ![Watcher] = NoRead]

MainReadError ==
    /\ main \in {"init", "gate"}
    /\ read[Main].answer = "error"
    /\ DropReads
    /\ Finalize("error", Cancelled, Failure)
    /\ UNCHANGED <<mainOthers, viewVars>>

MainGate ==
    /\ main = "gate"
    /\ read[Main].answer = "control"
    /\ Refresh(read[Main])
    /\ IF Stopped
       THEN DropReads /\ Finalize("canceled", Cancelled', Failure')
       ELSE IF Paused'
            THEN /\ main' = "await"
                 /\ read' = [read EXCEPT ![Main] = NoRead]
                 /\ UNCHANGED <<step, want, status, nodeVars, commitVars, watcher>>
            ELSE /\ Proceed
                 /\ IF main' = "final" THEN DropReads
                    ELSE read' = [read EXCEPT ![Main] = NoRead]
    /\ UNCHANGED mainOthers

MainResumes ==
    /\ main = "await"
    /\ ~Paused /\ ~BusinessCancelled
    /\ Proceed
    /\ IF main' = "final" THEN DropReads ELSE UNCHANGED read
    /\ UNCHANGED <<mainOthers, viewVars>>

MainCancelled ==
    /\ main \in {"gate", "await", "commit"}
    /\ BusinessCancelled
    /\ DropReads
    /\ Finalize("canceled", Cancelled, Failure)
    /\ UNCHANGED <<mainOthers, viewVars>>

(* All futures of the batch are ready.                                     *)
BatchDone ==
    /\ main = "run"
    /\ \A n \in Batches[step] : node[n] = "done"
    /\ IF BusinessCancelled THEN DropReads /\ Finalize("canceled", Cancelled, Failure)
       ELSE IF step = Len(Batches) /\ AnyFailed
            THEN DropReads /\ Finalize("ok", Cancelled, Failure)
            ELSE UNCHANGED read /\ NextGate
    /\ UNCHANGED <<mainOthers, viewVars>>

CurrentCommit == IF AtCursors THEN "cursors" ELSE "dedupe"

(* CommitSourceCursors and CommitDedupeKeys reach the database, perhaps    *)
(* after the workflow gave them up; both are idempotent.                   *)
CommitInDatabase(c) ==
    /\ c \in committing \ committed
    /\ committed' = committed \cup {c}
    /\ UNCHANGED <<mainOthers, read, viewVars, watcher, mainVars, nodeVars, committing>>

CommitReturns ==
    /\ main = "commit"
    /\ CurrentCommit \in committed
    /\ IF AtCursors /\ "dedupe" \in Commits
       THEN UNCHANGED read /\ NextGate
       ELSE DropReads /\ Finalize("ok", Cancelled, Failure)
    /\ UNCHANGED <<mainOthers, viewVars>>

CommitFails ==
    /\ main = "commit"
    /\ DropReads
    /\ Finalize("error", Cancelled, Failure)
    /\ UNCHANGED <<mainOthers, viewVars>>

-----------------------------------------------------------------------------
(* FinalizeExecutionControl: the UPDATE, then MarkExecution.               *)

finalOthers == <<launch, control, delivered, log, deliveryVars, read, viewVars,
                 watcher, step, want, nodeVars, commitVars>>

FinalPhaseAsWanted == IF TerminalExecutionPhase(phase) THEN phase ELSE want
FinalPhase ==
    IF TerminalExecutionPhase(phase) THEN phase
    ELSE IF control.state = "cancel_requested" THEN "cancelled" ELSE want

FinalizeExecutionControl ==
    /\ main = "final"
    /\ launch = "inserted"
    /\ phase' = FinalPhase
    /\ main' = "mark"
    /\ UNCHANGED <<finalOthers, status, faults>>

WantedPhase == want
ReturnedPhase == phase'

(* MarkExecution repeats the terminal phase, and the workflow returns it.  *)
MarkExecution ==
    /\ main = "mark"
    /\ phase' = IF TerminalExecutionPhase(phase) THEN phase ELSE want
    /\ status' = ReturnedPhase
    /\ main' = "closed"
    /\ UNCHANGED <<finalOthers, faults>>

(* An attempt fails after its UPDATE: the next one starts over.            *)
FinalizeRetried ==
    /\ main = "mark"
    /\ Fault
    /\ main' = "final"
    /\ UNCHANGED <<finalOthers, phase, status>>

(* The bounded cleanup gives up: the workflow returns an error.            *)
FinalizeLost ==
    /\ main \in {"final", "mark"}
    /\ IF launch = "inserted" THEN Fault ELSE UNCHANGED faults
    /\ status' = want
    /\ main' = "lost"
    /\ UNCHANGED <<finalOthers, phase>>

MainStep ==
    \/ MainInit \/ MainReadError \/ MainGate \/ MainResumes \/ MainCancelled
    \/ BatchDone \/ CommitReturns \/ CommitFails
    \/ FinalizeExecutionControl \/ MarkExecution \/ FinalizeRetried \/ FinalizeLost

(* Nothing is left to do once the run has ended.                           *)
Finished == main \in Ended /\ UNCHANGED vars

Next ==
    \/ InsertExecution \/ LaunchFails
    \/ \E target \in ControlState : ExecutionSignal(target)
    \/ Dispatcher
    \/ \E r \in Reader : ReadExecutionControl(r) \/ ReadFails(r)
    \/ Watch
    \/ \E n \in Node : NodeStep(n) \/ Zombie(n)
    \/ \E c \in {"cursors", "dedupe"} : CommitInDatabase(c)
    \/ MainStep
    \/ Finished

Spec == Init /\ [][Next]_vars

(***************************************************************************)
(* Fairness.  Temporal retries and times out every activity and replays    *)
(* every workflow task, so each coroutine and each worker step that stays  *)
(* possible is taken; the dispatcher ticks every two seconds and the       *)
(* watcher polls every thirty.  Users and failures are under no obligation.*)
(***************************************************************************)
NodeProgress(n) ==
    \/ NodeGate(n) \/ NodeGateError(n) \/ NodeResumes(n) \/ NodeCancelled(n)
    \/ Admit(n) \/ Block(n) \/ BlockedAttempt(n) \/ Returns(n)

MainProgress ==
    \/ MainInit \/ MainReadError \/ MainGate \/ MainResumes \/ MainCancelled
    \/ BatchDone \/ CommitReturns
    \/ FinalizeExecutionControl \/ MarkExecution

Fairness ==
    /\ WF_vars(InsertExecution \/ LaunchFails)
    /\ WF_vars(DispatchScan \/ DispatchSignal \/ DispatchAck)
    /\ WF_vars(Watch)
    /\ \A r \in Reader : WF_vars(ReadExecutionControl(r))
    /\ \A n \in Node : WF_vars(NodeProgress(n))
    /\ \A c \in {"cursors", "dedupe"} : WF_vars(CommitInDatabase(c))
    /\ WF_vars(MainProgress)
    \* Without the row the bounded retries of reads and of finalization run out.
    /\ \A r \in Reader : WF_vars(launch # "inserted" /\ ReadFails(r))
    /\ WF_vars(launch # "inserted" /\ FinalizeLost)

FairSpec == Spec /\ Fairness

-----------------------------------------------------------------------------
(* Properties.                                                             *)

(* The workflow's copy of the control row is always an intent that some    *)
(* request committed, never a mixture, and Paused is what that intent says:*)
(* answers of concurrent refresh calls applied out of order cannot tear it.*)
ViewIsCommitted ==
    /\ view.revision <= control.revision
    /\ view.state = log[view.revision]
    /\ Paused <=> view.state = "paused"

(* Late answers of refresh never take the workflow back to an older intent,*)
(* and a cancellation it has seen is never forgotten.                      *)
ViewNeverRegresses ==
    [][view'.revision >= view.revision /\ (Cancelled => Cancelled')]_vars

(* The workflow cancels business work only if the operator asked for it:   *)
(* not because of a late read, of a blocked retry or of a finished run.    *)
CancelIsIntended == Cancelled => control.state = "cancel_requested"

(* executionController: what the workflow believes is what was asked for.  *)
ViewSound == ViewIsCommitted /\ CancelIsIntended

(* FinalizeExecutionControl: a cancel committed before finalization wins   *)
(* over completion and over failure, whatever the workflow had seen of it. *)
CommittedCancelWins ==
    phase \in {"completed", "failed"} => control.state # "cancel_requested"

(* executeNodeActivity: however often its attempts are blocked, timed out  *)
(* and rescheduled, a call is admitted at most MaximumAttempts times,      *)
(* attempts that outlive Temporal's patience included.                     *)
AttemptBudgetKept == \A n \in Node : admits[n] + zombies[n] <= budget[n]

(* executeNodeActivity: waiting for a resume does not use up the budget.  A*)
(* call gives up for want of attempts only after MaximumAttempts failures. *)
ExhaustionIsReal == \A n \in Node : why[n] = "exhausted" => fails[n] = MaximumAttempts[n]

(* executeNodeActivity: "invalid blocked activity attempt" is unreachable, *)
(* and remaining never becomes 0, which Temporal reads as "no limit".      *)
BlockedAttemptValid ==
    \A n \in Node : why[n] # "invalid" /\ (node[n] \in Calling => remaining[n] >= 1)

(* executeNodeActivity: the attempts of a call are accounted for exactly,  *)
(* none too many, none lost by waiting, and the account is never void.     *)
AttemptsAccounted == AttemptBudgetKept /\ ExhaustionIsReal /\ BlockedAttemptValid

(* A run recorded as completed lost nothing: every node succeeded or was   *)
(* skipped, and its cursors and dedupe keys are in the database.           *)
CompletedRunIsWhole ==
    phase = "completed" => /\ \A n \in Node : result[n] \in {"success", "skipped"}
                           /\ Commits \subseteq committed

(* Cursors and dedupe keys reach the database only for a run whose nodes   *)
(* all ended without failure, and dedupe keys never before the cursors.    *)
CommitsAfterSuccess ==
    committed # {} =>
        /\ \A n \in Node : result[n] \in {"success", "skipped"}
        /\ "cursors" \in Commits => "cursors" \in committed

(* The phase the workflow returns is the phase in the database, also when  *)
(* a cancel or an earlier finalization attempt decided it.                 *)
StatusMatchesRow == main = "closed" => status = phase /\ TerminalExecutionPhase(phase)

(* controlledDAGWorkflow: how a run is recorded is how it ended, for the   *)
(* cancel, for the nodes, for the commits and for the caller.              *)
RunsEndWhole == CommittedCancelWins /\ CompletedRunIsWhole /\ CommitsAfterSuccess /\ StatusMatchesRow

(* Once the workflow knows of the cancel, no node that has not begun begins*)
(* ("prevents downstream nodes").                                          *)
CancelStopsDownstream ==
    [][Cancelled => \A n \in Node : node[n] = "idle" => node'[n] = "idle"]_vars

(* control_delivered_revision says that a wake-up for that very revision   *)
(* reached the workflow: while no read has failed, either the workflow has *)
(* the intent or its watcher is about to read it.                          *)
AcknowledgedWakeup ==
    /\ delivered = control.revision
    /\ view.revision < control.revision
    /\ main \notin Ended \cup {"final", "mark"}
    /\ faults = 0
    => \/ signals # {}
       \/ watcher = "read" /\ (read[Watcher].answer = "control" =>
                                   read[Watcher].revision = control.revision)

(* The controlled run keeps the API's promise: ExecutionIntent, with the   *)
(* row's control state as the intent and admissions as the calls begun.    *)
Intent == INSTANCE ExecutionIntent WITH intent <- control.state, effects <- admits
ImplementsIntent == Intent!Spec

(* A run that is not left paused ends, a cancelled one too, which nothing  *)
(* can pause again: lost wake-ups, blocked retries and failed polls strand *)
(* neither the main coroutine nor a node.                                  *)
RunSettles == <>[](control.state # "paused") => <>(main \in Ended)

(* An intent is delivered or superseded: failed RPCs and dispatcher        *)
(* restarts never leave it pending for ever while the run is open.         *)
IntentDelivered ==
    delivered < control.revision ~> delivered = control.revision \/ main \in Ended
                                    \/ TerminalExecutionPhase(phase)

=============================================================================
