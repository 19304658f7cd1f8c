----------------------- MODULE ExecutionControlProofs -----------------------
(***************************************************************************)
(* Proofs about ExecutionControl, for every pipeline, retry budget, number *)
(* of control requests and number of faults.                               *)
(***************************************************************************)
EXTENDS ExecutionControl, TLAPS

(* TypeOK is inductive together with the facts that keep the main          *)
(* coroutine's step and the wanted phase in range.                         *)
TypeInv ==
    /\ TypeOK
    /\ main = "run" => step <= Len(Batches)
    /\ main \in {"final", "mark"} => want # "none"

(* The plan is finite. *)
LEMMA LenBatches == Len(Batches) \in Nat
  BY BatchesAssumption

(* A new execution is well typed. *)
LEMMA TypeInit == Init => TypeInv
  BY LenBatches, BoundsAssumption, AttemptsAssumption
     DEF Init, TypeInv, TypeOK, Steps, Revision, ControlState, TerminalPhase, Answers, Answer, NoRead,
         OpName, Calling, Ended, SignalName

(* Launch and control requests keep the types. *)
LEMMA TypeApi ==
  ASSUME TypeInv, InsertExecution \/ LaunchFails \/ \E target \in ControlState : ExecutionSignal(target)
  PROVE  TypeInv'
<1> USE BoundsAssumption, LenBatches DEF TypeInv, TypeOK, rowVars, deliveryVars, viewVars, mainVars, nodeVars, callVars, commitVars
<1>1. CASE InsertExecution
  BY <1>1 DEF InsertExecution
<1>2. CASE LaunchFails
  BY <1>2 DEF LaunchFails, Ended
<1>3. ASSUME NEW target \in ControlState, ExecutionSignal(target) PROVE TypeInv'
  BY <1>3 DEF ExecutionSignal, Revision
<1> QED BY <1>1, <1>2, <1>3

(* So do the steps of the dispatcher. *)
LEMMA TypeDispatcher ==
  ASSUME TypeInv, Dispatcher
  PROVE  TypeInv'
<1> USE BoundsAssumption DEF TypeInv, TypeOK, rowVars, deliveryVars, viewVars, mainVars, nodeVars, callVars, commitVars, dispatcherOthers, Fault
<1> DEFINE Dispatch == [stage : {"idle", "signal", "ack"}, signal : SignalName, revision : Revision]
<1>1. CASE DispatchScan BY <1>1 DEF DispatchScan, SignalOf, SignalName
<1>2. CASE DispatchSignal
  <2>1. dispatcher' \in Dispatch /\ signals' \subseteq SignalName
    BY <1>2 DEF DispatchSignal, Accepted
  <2> QED BY <1>2, <2>1 DEF DispatchSignal
<1>3. CASE DispatchAck
  <2>1. dispatcher' \in Dispatch /\ delivered' \in Revision
    BY <1>3 DEF DispatchAck, Acked
  <2> QED BY <1>3, <2>1 DEF DispatchAck
<1>4. CASE DispatchFails
  <2>1. dispatcher' \in Dispatch /\ signals' \subseteq SignalName
    BY <1>4 DEF DispatchFails, Accepted
  <2> QED BY <1>4, <2>1 DEF DispatchFails
<1> QED BY <1>1, <1>2, <1>3, <1>4 DEF Dispatcher

(* A control read, answered or failed, keeps the types. *)
LEMMA TypeRead ==
  ASSUME TypeInv, NEW r \in Reader, ReadExecutionControl(r) \/ ReadFails(r)
  PROVE  TypeInv'
<1> USE BoundsAssumption DEF TypeInv, TypeOK, rowVars, deliveryVars, viewVars, mainVars, nodeVars, callVars, commitVars, readOthers, Fault, Answers, Answer
<1>1. CASE ReadExecutionControl(r) BY <1>1 DEF ReadExecutionControl
<1>2. CASE ReadFails(r) BY <1>2 DEF ReadFails, ReadFailed, Revision, ControlState
<1> QED BY <1>1, <1>2

(* So do the steps of the watcher. *)
LEMMA TypeWatch ==
  ASSUME TypeInv, Watch
  PROVE  TypeInv'
<1> USE BoundsAssumption DEF TypeInv, TypeOK, rowVars, deliveryVars, viewVars, mainVars, nodeVars, callVars, commitVars, watchOthers, Answers, Answer, Reader
<1>1. CASE WatchSignal BY <1>1 DEF WatchSignal
<1>2. CASE WatchPoll BY <1>2 DEF WatchPoll
<1>3. CASE WatchApply BY <1>3 DEF WatchApply, Refresh, NoRead, Revision, ControlState
<1>4. CASE WatchError BY <1>4 DEF WatchError, AfterReadError, NoRead, Revision, ControlState
<1> QED BY <1>1, <1>2, <1>3, <1>4 DEF Watch

(* The helpers of the node coroutines keep the types of what they assign.  *)
NodeTypes ==
    /\ node \in [Node -> {"idle", "done"} \cup Calling]
    /\ op \in [Node -> [name : OpName, i : Nat]]
    /\ attempt \in [Node -> Nat] /\ remaining \in [Node -> Nat]
    /\ blocked \in [Node -> ControlState]
    /\ result \in [Node -> {"none", "success", "failed", "skipped"}]
    /\ budget \in [Node -> Nat] /\ fails \in [Node -> Nat]
    /\ why \in [Node -> {"none", "exhausted", "fatal", "gate", "cancel", "pages", "invalid"}]

(* A node that ends leaves typed results behind. *)
LEMMA NodeEndsTypes ==
  ASSUME NodeTypes, NEW n \in Node, NEW r \in {"none", "success", "failed", "skipped"},
         NEW w \in {"none", "exhausted", "fatal", "gate", "cancel", "pages", "invalid"},
         NodeEnds(n, r, w)
  PROVE  NodeTypes'
  BY DEF NodeTypes, NodeEnds, callVars

(* A new executeNodeActivity starts with a typed account. *)
LEMMA NodeCallsTypes ==
  ASSUME NodeTypes, NEW n \in Node, NEW o \in [name : OpName, i : Nat], NodeCalls(n, o)
  PROVE  NodeTypes'
<1>1. op' \in [Node -> [name : OpName, i : Nat]]
  BY DEF NodeTypes, NodeCalls
<1>2. remaining' \in [Node -> Nat] /\ budget' \in [Node -> Nat] /\ fails' \in [Node -> Nat]
  <2>1. MaximumAttempts[n] \in Nat BY AttemptsAssumption
  <2>2. budget[n] + MaximumAttempts[n] \in Nat BY <2>1 DEF NodeTypes
  <2> QED BY <2>1, <2>2 DEF NodeTypes, NodeCalls
<1>3. node' \in [Node -> {"idle", "done"} \cup Calling]
  BY DEF NodeTypes, NodeCalls, Calling
<1> QED BY <1>1, <1>2, <1>3 DEF NodeTypes, NodeCalls

(* Scheduling a first attempt keeps the types of the node. *)
LEMMA ScheduleTypes ==
  ASSUME NodeTypes, NEW n \in Node, Schedule(n)
  PROVE  NodeTypes'
  BY DEF NodeTypes, Schedule, Calling

(* The body of a node is an activity call. *)
LEMMA BodyType == ASSUME NEW n \in Node PROVE Body(n) \in [name : OpName, i : Nat]
  BY DEF Body, OpName

(* So is the first call of a node. *)
LEMMA FirstOpType == ASSUME NEW n \in Node PROVE FirstOp(n) \in [name : OpName, i : Nat]
  BY BodyType DEF FirstOp, OpName

(* refresh with a typed answer gives a typed copy of the row. *)
LEMMA RefreshTypes ==
  ASSUME TypeOK, NEW r \in Reader, Refresh(read[r])
  PROVE  /\ view' \in [state : ControlState, revision : Revision]
         /\ flags' \subseteq {"paused", "cancelled", "failure"}
  BY DEF TypeOK, Refresh, Answers

(* No answer and a failed one are answers. *)
LEMMA NoReadType == NoRead \in Answers /\ ReadFailed \in Answers
  BY BoundsAssumption DEF NoRead, ReadFailed, Answer, Answers, ControlState, Revision

(* The steps of a node, and of attempts that outlive Temporal, keep the types. *)
LEMMA TypeNode ==
  ASSUME TypeInv, NEW n \in Node, NodeStep(n) \/ Zombie(n)
  PROVE  TypeInv'
<1> USE DEF TypeInv
<1>a. n \in Reader /\ NodeTypes
  BY DEF Reader, TypeOK, NodeTypes
<1>b. ASSUME UNCHANGED nodeOthers, NodeTypes',
             /\ view' \in [state : ControlState, revision : Revision]
             /\ flags' \subseteq {"paused", "cancelled", "failure"},
             read' \in [Reader -> Answers],
             zombies' \in [Node -> Nat], admits' \in [Node -> Nat]
      PROVE  TypeInv'
  <2>1. UNCHANGED <<launch, phase, control, delivered, log, dispatcher, signals, watcher,
                    main, step, want, status, committing, committed, faults>>
    BY <1>b DEF nodeOthers, rowVars, deliveryVars, mainVars, commitVars
  <2>2. TypeOK' BY <1>b, <2>1, ZenonT(30) DEF TypeOK, NodeTypes
  <2> QED BY <2>1, <2>2
<1>c. /\ UNCHANGED read => read' \in [Reader -> Answers]
      /\ read' = [read EXCEPT ![n] = NoRead] => read' \in [Reader -> Answers]
      /\ UNCHANGED viewVars => /\ view' \in [state : ControlState, revision : Revision]
                               /\ flags' \subseteq {"paused", "cancelled", "failure"}
      /\ UNCHANGED zombies => zombies' \in [Node -> Nat]
      /\ UNCHANGED admits => admits' \in [Node -> Nat]
  <2>1. read \in [Reader -> Answers] BY DEF TypeOK
  <2>2. read' = [read EXCEPT ![n] = NoRead] => read' \in [Reader -> Answers]
    BY <2>1, <1>a, NoReadType
  <2> QED BY <2>1, <2>2 DEF TypeOK, viewVars
<1>1. CASE NodeGate(n)
  <2>1. NodeTypes'
    <3>1. CASE NodeFails(n, "cancel") BY <3>1, <1>a, NodeEndsTypes DEF NodeFails
    <3>2. CASE node' = [node EXCEPT ![n] = "await"] /\ UNCHANGED <<callVars, result, why>>
      BY <3>2, <1>a DEF NodeTypes, callVars, Calling
    <3>3. CASE Schedule(n) BY <3>3, <1>a, ScheduleTypes
    <3> QED BY <1>1, <3>1, <3>2, <3>3 DEF NodeGate
  <2> QED BY <1>1, <2>1, <1>a, <1>b, <1>c, RefreshTypes DEF NodeGate
<1>2. CASE NodeGateError(n)
  BY <1>2, <1>a, <1>b, <1>c, NodeEndsTypes DEF NodeGateError, NodeFails
<1>3. CASE NodeResumes(n)
  BY <1>3, <1>a, <1>b, <1>c, ScheduleTypes DEF NodeResumes
<1>4. CASE NodeCancelled(n)
  <2>1. zombies' \in [Node -> Nat] BY <1>4 DEF NodeCancelled, TypeOK
  <2> QED BY <1>4, <2>1, <1>a, <1>b, <1>c, NodeEndsTypes DEF NodeCancelled, NodeFails
<1>5. CASE Admit(n)
  <2>1. NodeTypes' BY <1>5, <1>a DEF Admit, NodeTypes, callVars, Calling
  <2>2. admits' \in [Node -> Nat] BY <1>5 DEF Admit, TypeOK
  <2> QED BY <1>5, <2>1, <2>2, <1>b, <1>c DEF Admit
<1>6. CASE Block(n)
  <2>1. BlockedState \in ControlState BY DEF BlockedState, TypeOK, ControlState
  <2>2. NodeTypes' BY <1>6, <2>1, <1>a DEF Block, NodeTypes, Calling
  <2> QED BY <1>6, <2>2, <1>b, <1>c DEF Block
<1>7. CASE BlockedAttempt(n)
  <2>1. CASE blocked[n] = "cancel_requested"
    <3>1. NodeTypes' BY <1>7, <2>1, <1>a, NodeEndsTypes DEF BlockedAttempt, NodeFails
    <3>2. flags' \subseteq {"paused", "cancelled", "failure"} BY <1>7, <2>1 DEF BlockedAttempt, TypeOK
    <3>3. view' \in [state : ControlState, revision : Revision] BY <1>7 DEF BlockedAttempt, TypeOK
    <3> QED BY <1>7, <3>1, <3>2, <3>3, <1>b, <1>c DEF BlockedAttempt
  <2>2. CASE blocked[n] # "cancel_requested"
    <3>1. CASE NodeFails(n, "invalid")
      BY <1>7, <2>2, <3>1, <1>a, <1>b, <1>c, NodeEndsTypes DEF BlockedAttempt, NodeFails, viewVars
    <3>2. CASE ~(blocked[n] # "paused" \/ attempt[n] < 1 \/ attempt[n] > remaining[n])
      <4>1. Left(n) \in Nat BY <3>2, <1>a DEF Left, NodeTypes
      <4>2. NodeTypes' BY <1>7, <2>2, <3>2, <4>1, <1>a DEF BlockedAttempt, NodeTypes, Calling
      <4> QED BY <1>7, <2>2, <4>2, <1>b, <1>c DEF BlockedAttempt, viewVars
    <3> QED BY <1>7, <2>2, <3>1, <3>2 DEF BlockedAttempt
  <2> QED BY <2>1, <2>2
<1>8. CASE AttemptFails(n)
  <2>1. NodeTypes'
    <3>0. /\ fails' \in [Node -> Nat]
          /\ UNCHANGED <<op, remaining, blocked, budget>>
      <4>1. fails[n] + 1 \in Nat BY <1>a DEF NodeTypes
      <4> QED BY <1>8, <4>1, <1>a DEF AttemptFails, NodeTypes
    <3>1. CASE Retries(n)
      <4>1. attempt[n] + 1 \in Nat BY <1>a DEF NodeTypes
      <4>2. attempt' \in [Node -> Nat] /\ node' \in [Node -> {"idle", "done"} \cup Calling]
        BY <1>8, <3>1, <4>1, <1>a DEF AttemptFails, NodeTypes, Calling
      <4> QED BY <1>8, <3>0, <3>1, <4>2, <1>a DEF AttemptFails, NodeTypes
    <3>2. CASE ~Retries(n)
      <4>1. node' \in [Node -> {"idle", "done"} \cup Calling]
        BY <1>8, <3>2, <1>a DEF AttemptFails, NodeTypes
      <4> QED BY <1>8, <3>0, <3>2, <4>1, <1>a DEF AttemptFails, NodeTypes
    <3> QED BY <3>1, <3>2
  <2>2. zombies' \in [Node -> Nat]
    BY <1>8 DEF AttemptFails, TypeOK
  <2> QED BY <1>8, <2>1, <2>2, <1>b, <1>c DEF AttemptFails
<1>9. CASE AttemptRejected(n)
  BY <1>9, <1>a, <1>b, <1>c, NodeEndsTypes DEF AttemptRejected, NodeFails
<1>10. CASE Returns(n)
  <2>1. NodeTypes'
    <3>0. op[n].i \in Nat BY <1>a DEF NodeTypes
    <3>1. ASSUME NEW allowed \in BOOLEAN, EvalReturns(n, allowed) PROVE NodeTypes'
      <4>1. [name |-> "eval", i |-> op[n].i + 1] \in [name : OpName, i : Nat]
        BY <3>0 DEF OpName
      <4> QED BY <3>1, <4>1, <1>a, NodeEndsTypes, NodeCallsTypes, BodyType DEF EvalReturns
    <3>2. ASSUME NEW hasMore \in BOOLEAN, FetchReturns(n, hasMore) PROVE NodeTypes'
      <4>1. /\ [name |-> "fetch", i |-> op[n].i + 1] \in [name : OpName, i : Nat]
            /\ [name |-> "merge", i |-> 0] \in [name : OpName, i : Nat]
        BY <3>0 DEF OpName
      <4> QED BY <3>2, <4>1, <1>a, NodeEndsTypes, NodeCallsTypes DEF FetchReturns, NodeFails
    <3>3. CASE WorkReturns(n) BY <3>3, <1>a, NodeEndsTypes DEF WorkReturns
    <3> QED BY <1>10, <3>1, <3>2, <3>3 DEF Returns
  <2>2. UNCHANGED returnOthers
    BY <1>10 DEF Returns, EvalReturns, FetchReturns, WorkReturns
  <2> QED BY <2>1, <2>2, <1>b, <1>c DEF returnOthers
<1>11. CASE Zombie(n)
  <2>1. NodeTypes' BY <1>11, <1>a DEF Zombie, ZombieAdmitted, ZombieEnds, NodeTypes, callVars
  <2>2. zombies' \in [Node -> Nat] /\ admits' \in [Node -> Nat]
    <3>1. zombies[n] \in Nat /\ admits[n] \in Nat BY DEF TypeOK
    <3>2. zombies[n] > 0 => zombies[n] - 1 \in Nat BY <3>1
    <3>3. admits[n] + 1 \in Nat BY <3>1
    <3>4. zombies \in [Node -> Nat] /\ admits \in [Node -> Nat] BY DEF TypeOK
    <3>5. CASE ZombieAdmitted(n) BY <3>2, <3>3, <3>4, <3>5 DEF ZombieAdmitted
    <3>6. CASE ZombieEnds(n) BY <3>2, <3>4, <3>6 DEF ZombieEnds
    <3> QED BY <1>11, <3>5, <3>6 DEF Zombie
  <2> QED BY <1>11, <2>1, <2>2, <1>b, <1>c DEF Zombie, ZombieAdmitted, ZombieEnds
<1> QED
  BY <1>1, <1>2, <1>3, <1>4, <1>5, <1>6, <1>7, <1>8, <1>9, <1>10, <1>11 DEF NodeStep

(* The same for the helpers of the main coroutine.                         *)
MainTypes ==
    /\ main \in {"init", "gate", "await", "run", "commit", "final", "mark"} \cup Ended
    /\ step \in Steps
    /\ want \in TerminalPhase \cup {"none"}
    /\ status \in TerminalPhase \cup {"running"}
    /\ watcher \in {"off", "select", "read", "stopped"}
    /\ committing \subseteq {"cursors", "dedupe"}
    /\ committed \subseteq {"cursors", "dedupe"}
    /\ zombies \in [Node -> Nat] /\ admits \in [Node -> Nat]
    /\ NodeTypes
    /\ main = "run" => step <= Len(Batches)
    /\ main \in {"final", "mark"} => want # "none"

(* What the main coroutine changes is part of the type invariant. *)
LEMMA MainTypesHold == TypeInv => MainTypes
  BY DEF TypeInv, TypeOK, MainTypes, NodeTypes

(* Steps that leave the nodes alone keep their types. *)
LEMMA NodeTypesUnchanged == ASSUME NodeTypes, UNCHANGED nodeVars PROVE NodeTypes'
  BY DEF NodeTypes, nodeVars, callVars

(* Going on to finalization keeps the types of the main coroutine. *)
LEMMA FinalizeTypes ==
  ASSUME MainTypes, NEW outcome, NEW isCancelled, NEW isFailure,
         Finalize(outcome, isCancelled, isFailure)
  PROVE  MainTypes'
<1>1. NodeTypes' BY NodeTypesUnchanged DEF MainTypes, Finalize
<1>2. want' \in TerminalPhase /\ want' # "none" BY DEF Finalize, TerminalPhase
<1> QED BY <1>1, <1>2 DEF MainTypes, Finalize, nodeVars, commitVars

(* So does going on to the next gate. *)
LEMMA NextGateTypes ==
  ASSUME MainTypes, step <= Len(Batches) + 1, NextGate
  PROVE  MainTypes'
<1>1. NodeTypes' BY NodeTypesUnchanged DEF MainTypes, NextGate
<1>2. step' \in Steps BY LenBatches DEF MainTypes, NextGate, Steps
<1> QED BY <1>1, <1>2 DEF MainTypes, NextGate, nodeVars, commitVars

(* So does starting a commit activity. *)
LEMMA StartCommitTypes ==
  ASSUME MainTypes, NEW c \in {"cursors", "dedupe"}, StartCommit(c)
  PROVE  MainTypes'
<1>1. NodeTypes' BY NodeTypesUnchanged DEF MainTypes, StartCommit
<1> QED BY <1>1 DEF MainTypes, StartCommit, nodeVars

(* Starting a batch gives every node of it a typed account. *)
LEMMA StartBatchTypes ==
  ASSUME MainTypes, step <= Len(Batches), NEW batch, StartBatch(batch)
  PROVE  MainTypes'
<1>1. NodeTypes'
  <2>1. node' \in [Node -> {"idle", "done"} \cup Calling]
    BY DEF MainTypes, NodeTypes, StartBatch, Calling
  <2>2. op' \in [Node -> [name : OpName, i : Nat]]
    BY FirstOpType DEF MainTypes, NodeTypes, StartBatch
  <2>3. remaining' \in [Node -> Nat] /\ budget' \in [Node -> Nat]
    <3>1. \A n \in Node : MaximumAttempts[n] \in Nat /\ budget[n] \in Nat
      BY AttemptsAssumption DEF MainTypes, NodeTypes
    <3>2. \A n \in Node : budget[n] + MaximumAttempts[n] \in Nat BY <3>1
    <3> QED BY <3>1, <3>2 DEF MainTypes, NodeTypes, StartBatch
  <2>4. result' \in [Node -> {"none", "success", "failed", "skipped"}]
    BY DEF MainTypes, NodeTypes, StartBatch
  <2> QED BY <2>1, <2>2, <2>3, <2>4 DEF MainTypes, NodeTypes, StartBatch
<1> QED BY <1>1 DEF MainTypes, StartBatch, commitVars

(* What follows waitActive in the main coroutine keeps the types. *)
LEMMA ProceedTypes == ASSUME MainTypes, Proceed PROVE MainTypes'
<1>1. CASE step <= Len(Batches) /\ StartBatch(Batches[step]) BY <1>1, StartBatchTypes
<1>2. CASE AtCursors /\ StartCommit("cursors") BY <1>2, StartCommitTypes
<1>3. CASE AtCursors /\ NextGate BY <1>3, NextGateTypes, LenBatches DEF AtCursors
<1>4. CASE AtCursors /\ Finalize("ok", FALSE, FALSE) BY <1>4, FinalizeTypes
<1>5. CASE AtDedupe /\ StartCommit("dedupe") BY <1>5, StartCommitTypes
<1> QED BY <1>1, <1>2, <1>3, <1>4, <1>5 DEF Proceed

(* The steps of the main coroutine and of the commits keep the types. *)
LEMMA TypeMain ==
  ASSUME TypeInv, MainStep \/ \E c \in {"cursors", "dedupe"} : CommitInDatabase(c)
  PROVE  TypeInv'
<1>a. MainTypes BY MainTypesHold
<1>b. ASSUME UNCHANGED mainOthers, MainTypes', read' \in [Reader -> Answers],
             /\ view' \in [state : ControlState, revision : Revision]
             /\ flags' \subseteq {"paused", "cancelled", "failure"}
      PROVE  TypeInv'
  <2>1. UNCHANGED <<launch, phase, control, delivered, log, dispatcher, signals, faults>>
    BY <1>b DEF mainOthers, rowVars, deliveryVars
  <2>2. TypeOK' BY <1>b, <2>1, ZenonT(30) DEF TypeInv, TypeOK, MainTypes, NodeTypes
  <2> QED BY <1>b, <2>2 DEF TypeInv, MainTypes
<1>c. /\ UNCHANGED read \/ DropReads \/ read' = [read EXCEPT ![Main] = NoRead]
         => read' \in [Reader -> Answers]
      /\ UNCHANGED viewVars => /\ view' \in [state : ControlState, revision : Revision]
                               /\ flags' \subseteq {"paused", "cancelled", "failure"}
  <2>1. read \in [Reader -> Answers] BY DEF TypeInv, TypeOK
  <2>2. DropReads \/ read' = [read EXCEPT ![Main] = NoRead] => read' \in [Reader -> Answers]
    BY <2>1, NoReadType DEF DropReads, Reader
  <2> QED BY <2>1, <2>2 DEF TypeInv, TypeOK, viewVars
<1>d. Main \in Reader BY DEF Reader
<1>1. CASE MainInit
  <2>1. MainTypes' BY <1>1, <1>a, NodeTypesUnchanged DEF MainInit, MainTypes, nodeVars, commitVars
  <2> QED BY <1>1, <2>1, <1>b, <1>c, <1>d, RefreshTypes DEF MainInit, TypeInv
<1>2. CASE MainReadError
  BY <1>2, <1>a, <1>b, <1>c, FinalizeTypes DEF MainReadError
<1>3. CASE MainGate
  <2>1. MainTypes'
    <3>1. CASE Finalize("canceled", Cancelled', Failure') BY <3>1, <1>a, FinalizeTypes
    <3>2. CASE main' = "await" /\ UNCHANGED <<step, want, status, nodeVars, commitVars, watcher>>
      BY <3>2, <1>a, NodeTypesUnchanged DEF MainTypes, nodeVars, commitVars
    <3>3. CASE Proceed BY <3>3, <1>a, ProceedTypes
    <3> QED BY <1>3, <3>1, <3>2, <3>3 DEF MainGate
  <2>2. read' \in [Reader -> Answers] BY <1>3, <1>c DEF MainGate
  <2> QED BY <1>3, <2>1, <2>2, <1>b, <1>d, RefreshTypes DEF MainGate, TypeInv
<1>4. CASE MainResumes
  BY <1>4, <1>a, <1>b, <1>c, ProceedTypes DEF MainResumes
<1>5. CASE MainCancelled
  BY <1>5, <1>a, <1>b, <1>c, FinalizeTypes DEF MainCancelled
<1>6. CASE BatchDone
  <2>1. step <= Len(Batches) + 1 BY <1>6, LenBatches DEF BatchDone, TypeInv, TypeOK, Steps
  <2>2. MainTypes' BY <1>6, <2>1, <1>a, FinalizeTypes, NextGateTypes DEF BatchDone
  <2> QED BY <1>6, <2>2, <1>b, <1>c DEF BatchDone
<1>7. CASE CommitReturns
  <2>1. AtCursors => step <= Len(Batches) + 1 BY LenBatches DEF AtCursors
  <2>2. MainTypes' BY <1>7, <2>1, <1>a, FinalizeTypes, NextGateTypes DEF CommitReturns
  <2> QED BY <1>7, <2>2, <1>b, <1>c DEF CommitReturns
<1>8. CASE CommitFails
  BY <1>8, <1>a, <1>b, <1>c, FinalizeTypes DEF CommitFails
<1>9. ASSUME NEW c \in {"cursors", "dedupe"}, CommitInDatabase(c) PROVE TypeInv'
  <2>1. MainTypes'
    BY <1>9, <1>a, NodeTypesUnchanged DEF CommitInDatabase, MainTypes, mainVars, nodeVars
  <2> QED BY <1>9, <2>1, <1>b, <1>c DEF CommitInDatabase
<1>10. ASSUME FinalizeExecutionControl \/ MarkExecution \/ FinalizeRetried \/ FinalizeLost
       PROVE  TypeInv'
  <2>1. UNCHANGED finalOthers /\ main \in {"final", "mark"} /\ want \in TerminalPhase
    BY <1>10, <1>a DEF FinalizeExecutionControl, MarkExecution, FinalizeRetried, FinalizeLost, MainTypes
  <2>2. phase' \in TerminalPhase \cup {"running"} /\ status' \in TerminalPhase \cup {"running"}
    BY <1>10, <2>1 DEF FinalizeExecutionControl, MarkExecution, FinalizeRetried, FinalizeLost,
       FinalPhase, ReturnedPhase, TypeInv, TypeOK, TerminalExecutionPhase, TerminalPhase
  <2>3. faults' \in 0..MaxFaults
    BY <1>10, BoundsAssumption DEF FinalizeExecutionControl, MarkExecution, FinalizeRetried,
       FinalizeLost, TypeInv, TypeOK, Fault
  <2>4. main' \in {"final", "mark"} \cup Ended
    BY <1>10 DEF FinalizeExecutionControl, MarkExecution, FinalizeRetried, FinalizeLost, Ended
  <2>5. UNCHANGED <<launch, control, delivered, log, dispatcher, signals, read, view, flags,
                    watcher, step, want, node, op, attempt, remaining, blocked, budget, fails,
                    result, why, zombies, admits, committing, committed>>
    BY <2>1 DEF finalOthers, deliveryVars, viewVars, nodeVars, callVars, commitVars
  <2>6. TypeOK' BY <2>2, <2>3, <2>4, <2>5 DEF TypeInv, TypeOK
  <2> QED BY <2>1, <2>4, <2>5, <2>6 DEF TypeInv, TerminalPhase, Ended
<1> QED
  BY <1>1, <1>2, <1>3, <1>4, <1>5, <1>6, <1>7, <1>8, <1>9, <1>10 DEF MainStep

(* Every variable keeps its type in every run, and a batch index is always *)
(* one of the plan's while the workflow runs a batch.                      *)
THEOREM TypeCorrect == Spec => []TypeInv
<1>1. Init => TypeInv BY TypeInit
<1>2. TypeInv /\ [Next]_vars => TypeInv'
  <2> SUFFICES ASSUME TypeInv, [Next]_vars PROVE TypeInv' OBVIOUS
  <2>1. CASE UNCHANGED vars
    BY <2>1 DEF TypeInv, TypeOK, vars, rowVars, deliveryVars, viewVars, mainVars, nodeVars,
       callVars, commitVars
  <2>2. CASE Finished
    BY <2>1, <2>2 DEF Finished
  <2>3. CASE Next /\ ~Finished
    BY <2>3, TypeApi, TypeDispatcher, TypeRead, TypeWatch, TypeNode, TypeMain DEF Next
  <2> QED BY <2>1, <2>2, <2>3
<1> QED BY <1>1, <1>2, PTL DEF Spec

-----------------------------------------------------------------------------
(***************************************************************************)
(* The inductive invariant.  None of the safety properties is inductive by *)
(* itself: each rests on where the coroutines can be when the row, the     *)
(* answers in flight and the budgets change.                               *)
(***************************************************************************)
Open == main \notin {"final", "mark"} \cup Ended

(* Who can be where: nodes run only inside their batch, answers wait only  *)
(* for a coroutine that asked, nothing runs before the row exists or after *)
(* the run went on to finalization.                                        *)
StructureInv ==
    /\ \A n \in Node : node[n] \in Calling => main = "run" /\ n \in Batches[step]
    /\ ~Open => watcher \in {"off", "stopped"}
    /\ main = "init" => watcher = "off"
    /\ \A n \in Node : read[n].answer = "control" => node[n] = "gate"
    /\ read[Main].answer = "control" => main \in {"init", "gate"}
    /\ read[Watcher].answer = "control" => watcher = "read"
    /\ launch # "inserted" => /\ main \in {"init", "final", "lost", "terminated"}
                              /\ watcher \in {"off", "stopped"}
                              /\ read[Main].answer # "control"
    /\ TerminalExecutionPhase(phase) => ~Open
    /\ main \in {"mark", "closed"} => TerminalExecutionPhase(phase)
    /\ main = "closed" => status = phase

(* The coroutines that read the row are the nodes and two others. *)
LEMMA ReaderCases ==
  /\ Main \in Reader /\ Watcher \in Reader /\ Node \subseteq Reader /\ Main # Watcher
  /\ \A n \in Node : n # Main /\ n # Watcher
  BY ReaderAssumption DEF Reader, Main, Watcher

(* No answer and a failed one carry no control row. *)
LEMMA NoReadAnswer == NoRead.answer = "none" /\ ReadFailed.answer = "error"
  BY DEF NoRead, ReadFailed, Answer

(* Before the launch no coroutine runs. *)
LEMMA StructureInit == Init => StructureInv
  BY ReaderCases, NoReadAnswer
     DEF Init, StructureInv, Calling, Open, Ended, TerminalExecutionPhase, TerminalPhase

(* What a step has to leave alone for StructureInv to be undisturbed.      *)
structureVars == <<node, main, step, watcher, read, launch, phase, status>>

(* StructureInv where nothing it speaks of changes. *)
LEMMA StructureFrame == ASSUME StructureInv, UNCHANGED structureVars PROVE StructureInv'
  BY DEF StructureInv, structureVars, Open

(* A launch that fails may terminate the workflow, which stops its watcher. *)
LEMMA StructureApi ==
  ASSUME TypeInv, StructureInv,
         InsertExecution \/ LaunchFails \/ \E target \in ControlState : ExecutionSignal(target)
  PROVE  StructureInv'
<1> USE DEF rowVars, deliveryVars, viewVars, mainVars, nodeVars, callVars, commitVars
<1>1. CASE InsertExecution
  BY <1>1 DEF InsertExecution, StructureInv, Open
<1>2. CASE LaunchFails
  BY <1>2 DEF LaunchFails, StructureInv, Open, Ended
<1>3. ASSUME NEW target \in ControlState, ExecutionSignal(target) PROVE StructureInv'
  BY <1>3, StructureFrame DEF ExecutionSignal, structureVars
<1> QED BY <1>1, <1>2, <1>3

(* The dispatcher moves no coroutine. *)
LEMMA StructureDispatcher == ASSUME TypeInv, StructureInv, Dispatcher PROVE StructureInv'
  BY StructureFrame DEF Dispatcher, DispatchScan, DispatchSignal, DispatchAck, DispatchFails,
     dispatcherOthers, structureVars, mainVars, nodeVars

(* An answer goes to a coroutine that waits for it. *)
LEMMA StructureRead ==
  ASSUME TypeInv, StructureInv, NEW r \in Reader, ReadExecutionControl(r) \/ ReadFails(r)
  PROVE  StructureInv'
<1> USE ReaderCases, NoReadAnswer DEF rowVars, mainVars, nodeVars, readOthers
<1>0. read \in [Reader -> Answers] BY DEF TypeInv, TypeOK
<1>1. CASE ReadExecutionControl(r)
  BY <1>0, <1>1 DEF ReadExecutionControl, Awaiting, StructureInv, Open
<1>2. CASE ReadFails(r)
  BY <1>0, <1>2 DEF ReadFails, StructureInv, Open
<1> QED BY <1>1, <1>2

(* The watcher reads only while the run is open. *)
LEMMA StructureWatch == ASSUME TypeInv, StructureInv, Watch PROVE StructureInv'
<1> USE ReaderCases, NoReadAnswer DEF rowVars, mainVars, nodeVars, watchOthers
<1>0. read \in [Reader -> Answers] BY DEF TypeInv, TypeOK
<1>1. CASE WatchSignal BY <1>1 DEF WatchSignal, StructureInv, Open
<1>2. CASE WatchPoll BY <1>2 DEF WatchPoll, StructureInv, Open
<1>3. CASE WatchApply BY <1>0, <1>3 DEF WatchApply, StructureInv, Open
<1>4. CASE WatchError BY <1>0, <1>4 DEF WatchError, AfterReadError, StructureInv, Open
<1> QED BY <1>1, <1>2, <1>3, <1>4 DEF Watch

(* A node stays inside its batch. *)
LEMMA StructureNode ==
  ASSUME TypeInv, StructureInv, NEW n \in Node, NodeStep(n) \/ Zombie(n)
  PROVE  StructureInv'
<1> USE ReaderCases, NoReadAnswer
<1>0. /\ read \in [Reader -> Answers]
      /\ node \in [Node -> {"idle", "done"} \cup Calling]
  BY DEF TypeInv, TypeOK
<1>a. ASSUME UNCHANGED nodeOthers, UNCHANGED node \/ (\E s : node' = [node EXCEPT ![n] = s]),
             node'[n] \in Calling => node[n] \in Calling,
             \/ UNCHANGED read /\ (node[n] = "gate" => node'[n] = "gate")
             \/ read' = [read EXCEPT ![n] = NoRead]
      PROVE  StructureInv'
  <2>1. UNCHANGED <<main, step, watcher, launch, phase, status>>
    BY <1>a DEF nodeOthers, rowVars, mainVars
  <2> QED BY <1>0, <1>a, <2>1 DEF StructureInv, Open
<1>1. CASE NodeGate(n)
  BY <1>0, <1>1, <1>a DEF NodeGate, NodeFails, NodeEnds, Schedule, Calling
<1>2. CASE NodeGateError(n)
  BY <1>0, <1>2, <1>a DEF NodeGateError, NodeFails, NodeEnds, Calling
<1>3. CASE NodeResumes(n)
  BY <1>0, <1>3, <1>a DEF NodeResumes, Schedule, Calling
<1>4. CASE NodeCancelled(n)
  BY <1>0, <1>4, <1>a DEF NodeCancelled, NodeFails, NodeEnds, Calling
<1>5. CASE Admit(n) \/ Block(n)
  BY <1>0, <1>5, <1>a DEF Admit, Block, Calling
<1>6. CASE BlockedAttempt(n)
  BY <1>0, <1>6, <1>a DEF BlockedAttempt, NodeFails, NodeEnds, Calling
<1>7. CASE AttemptFails(n) \/ AttemptRejected(n)
  BY <1>0, <1>7, <1>a DEF AttemptFails, AttemptRejected, Running, NodeFails, NodeEnds, Calling
<1>8. CASE Returns(n)
  <2>1. Running(n) /\ UNCHANGED <<nodeOthers, read>>
    BY <1>8 DEF Returns, EvalReturns, FetchReturns, WorkReturns, Executing, Running, returnOthers
  <2>2. \E s : node' = [node EXCEPT ![n] = s]
    BY <1>8 DEF Returns, EvalReturns, FetchReturns, WorkReturns, NodeFails, NodeEnds, NodeCalls
  <2> QED BY <1>0, <2>1, <2>2, <1>a DEF Running, Calling
<1>9. CASE Zombie(n)
  BY <1>9, <1>a DEF Zombie, ZombieAdmitted, ZombieEnds
<1> QED
  BY <1>1, <1>2, <1>3, <1>4, <1>5, <1>6, <1>7, <1>8, <1>9 DEF NodeStep

(* The main coroutine stops the watcher before it finalizes. *)
LEMMA StructureMain ==
  ASSUME TypeInv, StructureInv, MainStep \/ \E c \in {"cursors", "dedupe"} : CommitInDatabase(c)
  PROVE  StructureInv'
<1> USE ReaderCases, NoReadAnswer
<1>0. /\ read \in [Reader -> Answers]
      /\ node \in [Node -> {"idle", "done"} \cup Calling]
      /\ main = "run" => step \in 1..Len(Batches)
  BY DEF TypeInv, TypeOK, Steps
<1>a. ASSUME UNCHANGED mainOthers, DropReads, NEW outcome, NEW c, NEW f, Finalize(outcome, c, f),
             main # "run" \/ \A n \in Batches[step] : node[n] = "done",
             main \notin Ended \cup {"final", "mark"}
      PROVE  StructureInv'
  <2>1. UNCHANGED <<node, step, launch, phase, status>> /\ main' = "final" /\ watcher' = "stopped"
    BY <1>a DEF Finalize, mainOthers, rowVars, nodeVars
  <2>2. \A n \in Node : read'[n] = read[n] BY <1>0, <1>a DEF DropReads
  <2>3. read'[Main] = NoRead /\ read'[Watcher] = NoRead BY <1>0, <1>a DEF DropReads
  <2>4. \A n \in Node : node[n] \notin Calling BY <1>0, <1>a DEF StructureInv, Calling
  <2> QED BY <2>1, <2>2, <2>3, <2>4, <1>a DEF StructureInv, Open, Ended
<1>b. ASSUME NEW batch, StartBatch(batch), batch = Batches[step], UNCHANGED mainOthers,
             main \in {"gate", "await"},
             read' = [read EXCEPT ![Main] = NoRead] \/ (UNCHANGED read /\ main = "await")
      PROVE  StructureInv'
  <2>1. UNCHANGED <<step, launch, phase, status, watcher>> /\ main' = "run"
    BY <1>b DEF StartBatch, mainOthers, rowVars
  <2>2. \A n \in Node : read'[n] = read[n] BY <1>0, <1>b
  <2>3. \A n \in Node : node[n] \notin Calling BY <1>b DEF StructureInv
  <2>4. \A n \in Node : node'[n] = node[n] \/ n \in batch BY <1>b DEF StartBatch
  <2>5. read'[Watcher] = read[Watcher] /\ read'[Main].answer # "control"
    BY <1>0, <1>b DEF StructureInv
  <2> QED BY <2>1, <2>2, <2>3, <2>4, <2>5, <1>b DEF StructureInv, Open, Ended, Calling
<1>c. ASSUME NextGate \/ \E c : StartCommit(c), UNCHANGED mainOthers,
             \/ main \in {"gate", "await", "commit"}
             \/ main = "run" /\ \A n \in Batches[step] : node[n] = "done",
             read' = [read EXCEPT ![Main] = NoRead] \/ (UNCHANGED read /\ main # "gate")
      PROVE  StructureInv'
  <2>1. UNCHANGED <<node, launch, phase, status, watcher>> /\ main' \in {"gate", "commit"}
    BY <1>c DEF NextGate, StartCommit, mainOthers, rowVars, nodeVars
  <2>2. \A n \in Node : read'[n] = read[n] BY <1>0, <1>c
  <2>3. \A n \in Node : node[n] \notin Calling BY <1>0, <1>c DEF StructureInv, Calling
  <2>4. read'[Watcher] = read[Watcher] /\ read'[Main].answer # "control"
    BY <1>0, <1>c DEF StructureInv
  <2> QED BY <2>1, <2>2, <2>3, <2>4, <1>c DEF StructureInv, Open, Ended
<1>d. ASSUME Proceed, main \in {"gate", "await"}, UNCHANGED mainOthers,
             main' = "final" => DropReads,
             main' # "final" => \/ read' = [read EXCEPT ![Main] = NoRead]
                                \/ (UNCHANGED read /\ main = "await")
      PROVE  StructureInv'
  <2>1. CASE StartBatch(Batches[step])
    <3>1. main' # "final" BY <2>1 DEF StartBatch
    <3>2. read' = [read EXCEPT ![Main] = NoRead] \/ (UNCHANGED read /\ main = "await")
      BY <1>d, <3>1
    <3> QED BY <1>b, <1>d, <2>1, <3>2, Zenon
  <2>2. CASE NextGate \/ \E c : StartCommit(c)
    <3>1. main' # "final" BY <2>2 DEF NextGate, StartCommit
    <3>2. read' = [read EXCEPT ![Main] = NoRead] \/ (UNCHANGED read /\ main # "gate")
      BY <1>d, <3>1
    <3>3. main \in {"gate", "await", "commit"} BY <1>d
    <3> QED BY <1>c, <1>d, <2>2, <3>2, <3>3, Zenon
  <2>3. CASE Finalize("ok", FALSE, FALSE) BY <1>a, <1>d, <2>3 DEF Finalize, Ended
  <2> QED BY <1>d, <2>1, <2>2, <2>3 DEF Proceed
<1>1. CASE MainInit
  <2>1. \A r \in Reader \ {Main} : read'[r] = read[r] BY <1>0, <1>1 DEF MainInit
  <2>2. read'[Main] = NoRead BY <1>0, <1>1 DEF MainInit
  <2>3. UNCHANGED <<node, launch, phase, status, step>> /\ main' = "gate" /\ watcher' = "select"
    BY <1>1 DEF MainInit, mainOthers, rowVars, nodeVars
  <2> QED BY <1>1, <2>1, <2>2, <2>3 DEF MainInit, StructureInv, Open, Ended
<1>2. CASE MainReadError BY <1>2, <1>a DEF MainReadError, Ended
<1>3. CASE MainGate
  <2>1. CASE Stopped BY <1>3, <1>a, <2>1 DEF MainGate, Ended
  <2>2. CASE ~Stopped /\ Paused'
    <3>1. \A r \in Reader \ {Main} : read'[r] = read[r] BY <1>0, <1>3, <2>2 DEF MainGate
    <3>2. read'[Main] = NoRead BY <1>0, <1>3, <2>2 DEF MainGate
    <3>3. UNCHANGED <<node, launch, phase, status, step, watcher>> /\ main' = "await" /\ main = "gate"
      BY <1>3, <2>2 DEF MainGate, mainOthers, rowVars, nodeVars
    <3> QED BY <3>1, <3>2, <3>3 DEF StructureInv, Open, Ended
  <2>3. CASE ~Stopped /\ ~Paused'
    <3>1. Proceed /\ UNCHANGED mainOthers /\ main = "gate"
      BY <1>3, <2>3 DEF MainGate
    <3>2. main' = "final" => DropReads
      BY <1>3, <2>3 DEF MainGate, DropReads
    <3>3. main' # "final" => read' = [read EXCEPT ![Main] = NoRead]
      BY <1>3, <2>3 DEF MainGate
    <3> QED BY <3>1, <3>2, <3>3, <1>d
  <2> QED BY <2>1, <2>2, <2>3
<1>4. CASE MainResumes BY <1>4, <1>d DEF MainResumes
<1>5. CASE MainCancelled BY <1>5, <1>a DEF MainCancelled, Ended
<1>6. CASE BatchDone BY <1>6, <1>a, <1>c DEF BatchDone, Ended
<1>7. CASE CommitReturns \/ CommitFails BY <1>7, <1>a, <1>c DEF CommitReturns, CommitFails, Ended
<1>8. ASSUME NEW c \in {"cursors", "dedupe"}, CommitInDatabase(c) PROVE StructureInv'
  BY <1>8, StructureFrame
     DEF CommitInDatabase, structureVars, mainOthers, rowVars, mainVars, nodeVars
<1>9. CASE FinalizeExecutionControl \/ MarkExecution \/ FinalizeRetried \/ FinalizeLost
  <2>1. UNCHANGED <<launch, read, watcher, step, node>> /\ want \in TerminalPhase
    BY <1>9 DEF FinalizeExecutionControl, MarkExecution, FinalizeRetried, FinalizeLost,
       finalOthers, nodeVars, TypeInv, TypeOK
  <2>2. main \in {"final", "mark"} /\ main' \in {"final", "mark"} \cup Ended
    BY <1>9 DEF FinalizeExecutionControl, MarkExecution, FinalizeRetried, FinalizeLost, Ended
  <2>3. /\ main' \in {"mark", "closed"} => TerminalExecutionPhase(phase')
        /\ main' = "closed" => status' = phase'
        /\ launch # "inserted" => main' = "lost"
    BY <1>9, <2>1 DEF FinalizeExecutionControl, MarkExecution, FinalizeRetried, FinalizeLost,
       FinalPhase, ReturnedPhase, TerminalExecutionPhase, TerminalPhase, StructureInv
  <2> QED BY <2>1, <2>2, <2>3 DEF StructureInv, Open, Ended, Calling
<1> QED
  BY <1>1, <1>2, <1>3, <1>4, <1>5, <1>6, <1>7, <1>8, <1>9 DEF MainStep

(* A committed cancel is for ever, and nothing else looks like one.        *)
CancelInv ==
    /\ CancelIsIntended
    /\ CommittedCancelWins
    /\ \A r \in Reader : read[r].answer = "control" =>
          /\ ~TerminalExecutionPhase(read[r].phase)
          /\ read[r].state = "cancel_requested" => control.state = "cancel_requested"
    /\ \A n \in Node : node[n] = "blocked" /\ blocked[n] = "cancel_requested"
          => control.state = "cancel_requested"

(* Whatever the workflow holds or is about to apply was committed.         *)
ViewInv ==
    /\ ViewIsCommitted
    /\ control.state = log[control.revision]
    /\ \A r \in Reader : read[r].answer = "control" =>
          /\ read[r].revision <= control.revision
          /\ read[r].state = log[read[r].revision]

IntentInv == CancelInv /\ ViewInv

(* At first the intent is revision 0, which is active. *)
LEMMA IntentInit == Init => IntentInv
<1>1. Init => CancelInv
  BY NoReadAnswer DEF Init, CancelInv, CancelIsIntended, CommittedCancelWins, Cancelled, Calling
<1>2. Init => ViewInv
  BY NoReadAnswer, BoundsAssumption DEF Init, ViewInv, ViewIsCommitted, Paused, Revision
<1> QED BY <1>1, <1>2 DEF IntentInv

(* Most steps only drop answers and blocked errors.                        *)
ReadsKept == \A r \in Reader : read'[r].answer = "control" => read'[r] = read[r]
BlocksKept == \A n \in Node : node'[n] = "blocked" => node[n] = "blocked" /\ blocked'[n] = blocked[n]

(* Dropping the answers that wait for a coroutine adds none. *)
LEMMA ReadsDropped ==
  ASSUME TypeInv,
         UNCHANGED read \/ DropReads \/ \E r \in Reader : read' = [read EXCEPT ![r] = NoRead]
  PROVE  ReadsKept
<1>1. read \in [Reader -> Answers] BY DEF TypeInv, TypeOK
<1> QED BY <1>1, NoReadAnswer, ReaderCases DEF ReadsKept, DropReads

(* IntentInv where the row stays, once the two facts about the copy are shown. *)
LEMMA IntentKept ==
  ASSUME IntentInv, UNCHANGED <<control, log, phase>>, ReadsKept, BlocksKept,
         CancelIsIntended', ViewIsCommitted'
  PROVE  IntentInv'
  BY DEF IntentInv, CancelInv, ViewInv, CommittedCancelWins, ReadsKept, BlocksKept

(* ViewIsCommitted where neither the row nor the copy changes. *)
LEMMA ViewKept ==
  ASSUME IntentInv, UNCHANGED <<control, log, view, flags>>
  PROVE  CancelIsIntended' /\ ViewIsCommitted'
  BY DEF IntentInv, CancelInv, ViewInv, CancelIsIntended, ViewIsCommitted, Cancelled, Paused

(* refresh with a committed answer, late or not, leaves a committed copy. *)
LEMMA ViewRefreshed ==
  ASSUME TypeInv, IntentInv, UNCHANGED <<control, log>>,
         NEW r \in Reader, read[r].answer = "control", Refresh(read[r])
  PROVE  CancelIsIntended' /\ ViewIsCommitted'
<1>1. Paused' <=> PausedAfter(read[r]) BY DEF Refresh, Paused
<1>2. Cancelled' <=> CancelledAfter(read[r]) BY DEF Refresh, Cancelled
<1>3. CancelIsIntended'
  BY <1>2 DEF CancelledAfter, CancelsRun, IntentInv, CancelInv, CancelIsIntended
<1>4. CASE Stale(read[r])
  BY <1>1, <1>3, <1>4 DEF PausedAfter, Refresh, IntentInv, ViewInv, ViewIsCommitted
<1>5. CASE ~Stale(read[r])
  <2>1. view' = [state |-> read[r].state, revision |-> read[r].revision]
    BY <1>5 DEF Refresh
  <2> QED BY <1>1, <1>3, <1>5, <2>1 DEF PausedAfter, IntentInv, ViewInv, ViewIsCommitted
<1> QED BY <1>4, <1>5

(* A new request is logged, and never takes a cancel back. *)
LEMMA IntentApi ==
  ASSUME TypeInv, StructureInv, IntentInv,
         InsertExecution \/ LaunchFails \/ \E target \in ControlState : ExecutionSignal(target)
  PROVE  IntentInv'
<1> USE DEF rowVars, viewVars, nodeVars, callVars
<1>1. CASE InsertExecution \/ LaunchFails
  <2>1. UNCHANGED <<control, log, phase, view, flags, read, node, blocked>>
    BY <1>1 DEF InsertExecution, LaunchFails
  <2> QED BY <2>1, IntentKept, ViewKept, ReadsDropped DEF BlocksKept
<1>2. ASSUME NEW target \in ControlState, ExecutionSignal(target) PROVE IntentInv'
  <2>1. UNCHANGED <<phase, view, flags, read, node, blocked>>
    BY <1>2 DEF ExecutionSignal
  <2>2. control.revision \in Nat /\ view.revision \in Nat /\ control.revision + 1 \in Revision
    BY <1>2, BoundsAssumption DEF ExecutionSignal, TypeInv, TypeOK, Revision
  <2>3. /\ log'[control.revision + 1] = target
        /\ \A v \in Revision : v <= control.revision => log'[v] = log[v]
    BY <1>2, <2>2 DEF ExecutionSignal, TypeInv, TypeOK, Revision
  <2>4. control'.revision = control.revision + 1 /\ control'.state = target
    BY <1>2 DEF ExecutionSignal
  <2>5. control.state = "cancel_requested" => target = "cancel_requested"
    BY <1>2 DEF ExecutionSignal
  <2>6. CancelInv'
    BY <1>2, <2>1, <2>4, <2>5 DEF IntentInv, CancelInv, CancelIsIntended, CommittedCancelWins,
       Cancelled, ExecutionSignal, TerminalExecutionPhase, TerminalPhase
  <2>7. ViewInv'
    <3>1. \A r \in Reader : read[r].revision \in Revision BY DEF TypeInv, TypeOK, Answers
    <3>2. view.revision \in Revision BY DEF TypeInv, TypeOK
    <3> QED BY <2>1, <2>2, <2>3, <2>4, <3>1, <3>2
        DEF IntentInv, ViewInv, ViewIsCommitted, Paused, Revision
  <2> QED BY <2>6, <2>7 DEF IntentInv
<1> QED BY <1>1, <1>2

(* The dispatcher does not touch the intent. *)
LEMMA IntentDispatcher == ASSUME TypeInv, IntentInv, Dispatcher PROVE IntentInv'
<1>1. UNCHANGED <<control, log, phase, view, flags, read, node, blocked>>
  BY DEF Dispatcher, DispatchScan, DispatchSignal, DispatchAck, DispatchFails, dispatcherOthers,
     viewVars, nodeVars, callVars
<1> QED BY <1>1, IntentKept, ViewKept, ReadsDropped DEF BlocksKept

(* A read answers with what is committed, and not after the end of the run. *)
LEMMA IntentRead ==
  ASSUME TypeInv, StructureInv, IntentInv, NEW r \in Reader, ReadExecutionControl(r) \/ ReadFails(r)
  PROVE  IntentInv'
<1>0. UNCHANGED <<control, log, phase, view, flags, node, blocked>>
  BY DEF ReadExecutionControl, ReadFails, readOthers, rowVars, viewVars, nodeVars, callVars
<1>1. /\ read \in [Reader -> Answers]
      /\ control.revision \in Nat
  BY BoundsAssumption DEF TypeInv, TypeOK, Revision
<1>2. CASE ReadExecutionControl(r)
  <2>1. ~TerminalExecutionPhase(phase)
    BY <1>2, ReaderCases DEF ReadExecutionControl, Awaiting, StructureInv, Open, Ended, Reader, Calling
  <2>2. \A s \in Reader \ {r} : read'[s] = read[s] BY <1>1, <1>2 DEF ReadExecutionControl
  <2>3. read'[r] = Answer("control", control.state, control.revision, phase)
    BY <1>1, <1>2 DEF ReadExecutionControl
  <2>4. /\ read'[r].state = control.state /\ read'[r].revision = control.revision
        /\ read'[r].phase = phase
    BY <2>3 DEF Answer
  <2>5. CancelIsIntended' /\ ViewIsCommitted' BY <1>0, ViewKept
  <2>6. CancelInv'
    BY <1>0, <2>1, <2>2, <2>4, <2>5 DEF IntentInv, CancelInv, CommittedCancelWins
  <2>7. ViewInv' BY <1>0, <1>1, <2>2, <2>4, <2>5 DEF IntentInv, ViewInv
  <2> QED BY <2>6, <2>7 DEF IntentInv
<1>3. CASE ReadFails(r)
  <2>1. ReadsKept BY <1>1, <1>3, NoReadAnswer DEF ReadFails, ReadsKept
  <2> QED BY <1>0, <2>1, IntentKept, ViewKept DEF BlocksKept
<1> QED BY <1>2, <1>3

(* The watcher applies only committed answers. *)
LEMMA IntentWatch == ASSUME TypeInv, IntentInv, Watch PROVE IntentInv'
<1>0. UNCHANGED <<control, log, phase, node, blocked>>
  BY DEF Watch, WatchSignal, WatchPoll, WatchApply, WatchError, watchOthers, rowVars, nodeVars, callVars
<1>1. ReadsKept
  BY ReadsDropped, ReaderCases DEF Watch, WatchSignal, WatchPoll, WatchApply, WatchError
<1>2. CancelIsIntended' /\ ViewIsCommitted'
  <2>1. CASE WatchSignal \/ WatchPoll
    BY <1>0, <2>1, ViewKept DEF WatchSignal, WatchPoll, viewVars
  <2>2. CASE WatchApply BY <1>0, <2>2, ViewRefreshed, ReaderCases DEF WatchApply
  <2>3. CASE WatchError
    <3>1. (Cancelled' <=> Cancelled) /\ (Paused' <=> Paused) /\ UNCHANGED view
      BY <2>3 DEF WatchError, Cancelled, Paused
    <3> QED BY <1>0, <3>1 DEF IntentInv, CancelInv, ViewInv, CancelIsIntended, ViewIsCommitted
  <2> QED BY <2>1, <2>2, <2>3 DEF Watch
<1> QED BY <1>0, <1>1, <1>2, IntentKept DEF BlocksKept

(* A gate applies a committed answer; a blocked attempt reports a committed intent. *)
LEMMA IntentNode ==
  ASSUME TypeInv, StructureInv, IntentInv, NEW n \in Node, NodeStep(n) \/ Zombie(n)
  PROVE  IntentInv'
<1>0. UNCHANGED <<control, log, phase>>
  BY DEF NodeStep, Zombie, NodeGate, NodeGateError, NodeResumes, NodeCancelled, Admit, Block,
     BlockedAttempt, AttemptFails, AttemptRejected, Returns, EvalReturns, FetchReturns, WorkReturns,
     ZombieAdmitted, ZombieEnds, returnOthers, nodeOthers, rowVars
<1>1. /\ node \in [Node -> {"idle", "done"} \cup Calling]
      /\ blocked \in [Node -> ControlState]
      /\ n \in Reader
  BY ReaderCases DEF TypeInv, TypeOK
<1>a. ASSUME NEW r, NEW w, NodeEnds(n, r, w) PROVE BlocksKept
  BY <1>1, <1>a DEF NodeEnds, callVars, BlocksKept
<1>b. ASSUME NEW o, NodeCalls(n, o) PROVE BlocksKept
  BY <1>1, <1>b DEF NodeCalls, BlocksKept
<1>c. Schedule(n) => BlocksKept
  BY <1>1 DEF Schedule, BlocksKept
<1>d. ASSUME BlocksKept, UNCHANGED viewVars,
             UNCHANGED read \/ read' = [read EXCEPT ![n] = NoRead]
      PROVE  IntentInv'
  BY <1>0, <1>1, <1>d, IntentKept, ViewKept, ReadsDropped DEF viewVars
<1>2. CASE NodeGate(n)
  <2>1. BlocksKept
    BY <1>1, <1>2, <1>a, <1>c DEF NodeGate, NodeFails, callVars, BlocksKept
  <2>2. ReadsKept BY <1>1, <1>2, ReadsDropped DEF NodeGate
  <2> QED BY <1>0, <1>1, <1>2, <2>1, <2>2, ViewRefreshed, IntentKept DEF NodeGate
<1>3. CASE NodeGateError(n) BY <1>3, <1>a, <1>d DEF NodeGateError, NodeFails
<1>4. CASE NodeResumes(n) BY <1>4, <1>c, <1>d DEF NodeResumes
<1>5. CASE NodeCancelled(n) BY <1>5, <1>a, <1>d DEF NodeCancelled, NodeFails
<1>6. CASE Admit(n)
  <2>1. BlocksKept BY <1>1, <1>6 DEF Admit, callVars, BlocksKept
  <2> QED BY <1>6, <2>1, <1>d DEF Admit
<1>7. CASE Block(n)
  <2>1. ~TerminalExecutionPhase(phase)
    BY <1>7 DEF Block, StructureInv, Open, Ended, Calling
  <2>2. UNCHANGED <<view, flags, read>> BY <1>7 DEF Block, viewVars
  <2>3. /\ blocked'[n] = control.state
        /\ \A m \in Node \ {n} : node'[m] = node[m] /\ blocked'[m] = blocked[m]
    BY <1>1, <1>7, <2>1 DEF Block, BlockedState
  <2>4. CancelIsIntended' /\ ViewIsCommitted' BY <1>0, <2>2, ViewKept
  <2>5. CancelInv'
    BY <1>0, <2>2, <2>3, <2>4 DEF IntentInv, CancelInv, CommittedCancelWins
  <2>6. ViewInv' BY <1>0, <2>2, <2>4 DEF IntentInv, ViewInv
  <2> QED BY <2>5, <2>6 DEF IntentInv
<1>8. CASE BlockedAttempt(n)
  <2>1. BlocksKept BY <1>1, <1>8, <1>a DEF BlockedAttempt, NodeFails, BlocksKept
  <2>2. CASE blocked[n] = "cancel_requested"
    <3>1. /\ flags' = flags \cup {"cancelled"} /\ UNCHANGED <<view, read>>
          /\ control.state = "cancel_requested"
      BY <1>8, <2>2 DEF BlockedAttempt, IntentInv, CancelInv
    <3>2. CancelIsIntended' /\ ViewIsCommitted'
      BY <1>0, <3>1 DEF IntentInv, ViewInv, ViewIsCommitted, CancelIsIntended, Paused
    <3> QED BY <1>0, <2>1, <3>1, <3>2, IntentKept, ReadsDropped
  <2>3. CASE blocked[n] # "cancel_requested"
    <3>1. UNCHANGED <<flags, view, read>> BY <1>8, <2>3 DEF BlockedAttempt
    <3> QED BY <2>1, <3>1, <1>d DEF viewVars
  <2> QED BY <2>2, <2>3
<1>9. CASE AttemptFails(n)
  <2>1. BlocksKept BY <1>1, <1>9 DEF AttemptFails, BlocksKept
  <2> QED BY <1>9, <2>1, <1>d DEF AttemptFails
<1>10. CASE AttemptRejected(n) BY <1>10, <1>a, <1>d DEF AttemptRejected, NodeFails
<1>11. CASE Returns(n)
  <2>1. BlocksKept
    BY <1>11, <1>a, <1>b DEF Returns, EvalReturns, FetchReturns, WorkReturns, NodeFails
  <2>2. UNCHANGED viewVars /\ UNCHANGED read
    BY <1>11 DEF Returns, EvalReturns, FetchReturns, WorkReturns, returnOthers
  <2> QED BY <2>1, <2>2, <1>d
<1>12. CASE Zombie(n)
  <2>1. BlocksKept BY <1>12 DEF Zombie, ZombieAdmitted, ZombieEnds, callVars, BlocksKept
  <2> QED BY <1>12, <2>1, <1>d DEF Zombie, ZombieAdmitted, ZombieEnds
<1> QED
  BY <1>2, <1>3, <1>4, <1>5, <1>6, <1>7, <1>8, <1>9, <1>10, <1>11, <1>12 DEF NodeStep

(* Finalization lets a committed cancel win. *)
LEMMA IntentMain ==
  ASSUME TypeInv, StructureInv, IntentInv,
         MainStep \/ \E c \in {"cursors", "dedupe"} : CommitInDatabase(c)
  PROVE  IntentInv'
<1>a. ASSUME UNCHANGED nodeVars PROVE BlocksKept
  BY <1>a DEF nodeVars, callVars, BlocksKept
<1>b. ASSUME NEW o, NEW c, NEW f, Finalize(o, c, f) PROVE BlocksKept
  BY <1>a, <1>b DEF Finalize
<1>c. NextGate => BlocksKept BY <1>a DEF NextGate
<1>d. ASSUME NEW c, StartCommit(c) PROVE BlocksKept BY <1>a, <1>d DEF StartCommit
<1>e. ASSUME NEW batch, StartBatch(batch) PROVE BlocksKept
  BY <1>e DEF StartBatch, BlocksKept
<1>f. Proceed => BlocksKept BY <1>b, <1>c, <1>d, <1>e DEF Proceed
<1>g. ASSUME BlocksKept, ReadsKept, UNCHANGED mainOthers, UNCHANGED viewVars PROVE IntentInv'
  BY <1>g, IntentKept, ViewKept DEF mainOthers, rowVars, viewVars
<1>h. ASSUME BlocksKept, ReadsKept, UNCHANGED mainOthers, read[Main].answer = "control", Refresh(read[Main])
      PROVE IntentInv'
  BY <1>h, IntentKept, ViewRefreshed, ReaderCases DEF mainOthers, rowVars
<1>1. CASE MainInit
  <2>1. ReadsKept BY <1>1, ReadsDropped, ReaderCases DEF MainInit
  <2> QED BY <1>1, <2>1, <1>a, <1>h DEF MainInit
<1>2. CASE MainReadError \/ MainCancelled \/ CommitFails
  <2>1. ReadsKept BY <1>2, ReadsDropped DEF MainReadError, MainCancelled, CommitFails
  <2> QED BY <1>2, <2>1, <1>b, <1>g DEF MainReadError, MainCancelled, CommitFails
<1>3. CASE MainGate
  <2>1. ReadsKept BY <1>3, ReadsDropped, ReaderCases DEF MainGate, DropReads
  <2>2. BlocksKept BY <1>3, <1>a, <1>b, <1>f DEF MainGate
  <2> QED BY <1>3, <2>1, <2>2, <1>h DEF MainGate
<1>4. CASE MainResumes
  <2>1. ReadsKept BY <1>4, ReadsDropped DEF MainResumes
  <2> QED BY <1>4, <2>1, <1>f, <1>g DEF MainResumes
<1>5. CASE BatchDone
  <2>1. ReadsKept BY <1>5, ReadsDropped DEF BatchDone
  <2> QED BY <1>5, <2>1, <1>b, <1>c, <1>g DEF BatchDone
<1>6. CASE CommitReturns
  <2>1. ReadsKept BY <1>6, ReadsDropped DEF CommitReturns
  <2> QED BY <1>6, <2>1, <1>b, <1>c, <1>g DEF CommitReturns
<1>7. ASSUME NEW c \in {"cursors", "dedupe"}, CommitInDatabase(c) PROVE IntentInv'
  <2>1. ReadsKept BY <1>7, ReadsDropped DEF CommitInDatabase
  <2> QED BY <1>7, <2>1, <1>a, <1>g DEF CommitInDatabase
<1>8. CASE FinalizeExecutionControl \/ MarkExecution \/ FinalizeRetried \/ FinalizeLost
  <2>1. UNCHANGED <<control, log, read, view, flags, node, blocked>>
    BY <1>8 DEF FinalizeExecutionControl, MarkExecution, FinalizeRetried, FinalizeLost,
       finalOthers, viewVars, nodeVars, callVars
  <2>2. CommittedCancelWins'
    BY <1>8, <2>1 DEF FinalizeExecutionControl, MarkExecution, FinalizeRetried, FinalizeLost,
       FinalPhase, StructureInv, TerminalExecutionPhase, TerminalPhase, IntentInv, CancelInv,
       CommittedCancelWins
  <2>3. CancelIsIntended' /\ ViewIsCommitted' BY <2>1, ViewKept
  <2> QED BY <2>1, <2>2, <2>3 DEF IntentInv, CancelInv, ViewInv
<1> QED BY <1>1, <1>2, <1>3, <1>4, <1>5, <1>6, <1>7, <1>8 DEF MainStep

(* What a call of n may still be admitted for, and has failed so far.      *)
Attempted(n) == node[n] \in {"sched", "effect", "blocked"}
Unspent(n) ==
    CASE node[n] \in {"gate", "await"} -> remaining[n]
      [] node[n] \in {"sched", "blocked"} -> remaining[n] - attempt[n] + 1
      [] node[n] = "effect" -> remaining[n] - attempt[n]
      [] OTHER -> 0
BudgetOf(n) ==
    /\ node[n] \in Calling => remaining[n] \in 1..MaximumAttempts[n]
    /\ Attempted(n) => attempt[n] \in 1..remaining[n]
    /\ node[n] = "blocked" => blocked[n] # "active"
    /\ admits[n] + zombies[n] + Unspent(n) <= budget[n]
    /\ node[n] \in Calling => fails[n] = MaximumAttempts[n] - remaining[n]
                                         + (IF Attempted(n) THEN attempt[n] - 1 ELSE 0)
    /\ node[n] = "idle" => fails[n] = 0
    /\ node[n] # "done" => why[n] = "none"
    /\ why[n] = "exhausted" => fails[n] = MaximumAttempts[n]
    /\ why[n] # "invalid"
BudgetInv == \A n \in Node : BudgetOf(n)

(* How far the plan has come, and what the commits and the phase rest on.  *)
ToCome(i) == i > step \/ (i = step /\ main \in {"init", "gate", "await"})
PlanInv ==
    /\ \A i \in 1..Len(Batches) : ToCome(i) => \A n \in Batches[i] : node[n] = "idle"
    /\ \A i \in 1..Len(Batches) : i < step => \A n \in Batches[i] : node[n] = "done"
    /\ \A n \in Node : node[n] = "done" => result[n] # "none"
    /\ step > Len(Batches) => \A n \in Node : result[n] \in {"success", "skipped"}
    /\ committing \cup committed # {} => step > Len(Batches)
    /\ "dedupe" \in committing \cup committed => step = Len(Batches) + 2
    /\ step = Len(Batches) + 2 /\ "cursors" \in Commits => "cursors" \in committed
    /\ main = "commit" => step > Len(Batches)
    /\ want = "completed" => /\ step > Len(Batches)
                             /\ Commits \subseteq committed
                             /\ ~Open
    /\ phase = "completed" => want = "completed"

(* At first every batch is to come. *)
LEMMA PlanInit == Init => PlanInv
<1> SUFFICES ASSUME Init PROVE PlanInv OBVIOUS
<1>1. step > Len(Batches) => Node = {}
  BY LenBatches, BatchesAssumption DEF Init
<1>2. /\ step = 1 /\ want = "none" /\ phase = "running" /\ main = "init"
      /\ committing = {} /\ committed = {}
      /\ \A n \in Node : node[n] = "idle"
  BY DEF Init
<1>3. \A i \in 1..Len(Batches) : Batches[i] \subseteq Node BY BatchesAssumption
<1> QED BY <1>1, <1>2, <1>3, LenBatches DEF PlanInv, ToCome

planVars == <<node, main, step, result, committing, committed, want, phase>>

(* PlanInv where nothing it speaks of changes. *)
LEMMA PlanFrame == ASSUME PlanInv, UNCHANGED planVars PROVE PlanInv'
  BY DEF PlanInv, planVars, ToCome, Open

(* A step of one node coroutine, as the plan sees it.                      *)
Moves(n) ==
    /\ node[n] \in Calling
    /\ \A m \in Node \ {n} : node'[m] = node[m] /\ result'[m] = result[m]
    /\ \/ node'[n] \in Calling /\ result'[n] = result[n]
       \/ node'[n] = "done" /\ result'[n] \in {"success", "failed", "skipped"}

(* A step of one node moves no other and starts no idle one. *)
LEMMA NodeMoves ==
  ASSUME TypeInv, NEW n \in Node, NodeStep(n)
  PROVE  Moves(n)
<1>0. /\ node \in [Node -> {"idle", "done"} \cup Calling]
      /\ result \in [Node -> {"none", "success", "failed", "skipped"}]
  BY DEF TypeInv, TypeOK
<1>a. ASSUME node[n] \in Calling, NEW r \in {"success", "failed", "skipped"}, NEW w, NodeEnds(n, r, w)
      PROVE  Moves(n)
  BY <1>0, <1>a DEF NodeEnds, Moves
<1>b. ASSUME node[n] \in Calling, NEW s \in Calling, node' = [node EXCEPT ![n] = s], UNCHANGED result
      PROVE  Moves(n)
  BY <1>0, <1>b DEF Moves
<1>1. CASE NodeGate(n)
  BY <1>1, <1>a, <1>b DEF NodeGate, NodeFails, Schedule, Calling
<1>2. CASE NodeGateError(n) \/ NodeCancelled(n)
  BY <1>2, <1>a DEF NodeGateError, NodeCancelled, NodeFails, Calling
<1>3. CASE NodeResumes(n) \/ Admit(n) \/ Block(n)
  BY <1>3, <1>b DEF NodeResumes, Schedule, Admit, Block, Calling
<1>4. CASE BlockedAttempt(n)
  BY <1>4, <1>a, <1>b DEF BlockedAttempt, NodeFails, Calling
<1>5. CASE AttemptFails(n)
  BY <1>0, <1>5 DEF AttemptFails, Running, Moves, Calling
<1>6. CASE AttemptRejected(n)
  BY <1>6, <1>a DEF AttemptRejected, Running, NodeFails, Calling
<1>7. CASE Returns(n)
  <2>1. node[n] \in Calling
    BY <1>7 DEF Returns, EvalReturns, FetchReturns, WorkReturns, Executing, Calling
  <2>2. ASSUME NEW o, NodeCalls(n, o) PROVE Moves(n)
    BY <2>1, <2>2, <1>b DEF NodeCalls, Calling
  <2> QED BY <1>7, <2>1, <2>2, <1>a DEF Returns, EvalReturns, FetchReturns, WorkReturns, NodeFails
<1> QED BY <1>1, <1>2, <1>3, <1>4, <1>5, <1>6, <1>7 DEF NodeStep

(* A node of the current batch changes neither the batches before nor after it. *)
LEMMA PlanNode ==
  ASSUME TypeInv, StructureInv, PlanInv, NEW n \in Node, NodeStep(n) \/ Zombie(n)
  PROVE  PlanInv'
<1>0. UNCHANGED nodeOthers
  BY DEF NodeStep, Zombie, NodeGate, NodeGateError, NodeResumes, NodeCancelled, Admit, Block,
     BlockedAttempt, AttemptFails, AttemptRejected, Returns, EvalReturns, FetchReturns, WorkReturns,
     ZombieAdmitted, ZombieEnds, returnOthers
<1>1. UNCHANGED <<main, step, committing, committed, want, phase>>
  BY <1>0 DEF nodeOthers, rowVars, mainVars, commitVars
<1>2. CASE Zombie(n)
  BY <1>1, <1>2, PlanFrame DEF Zombie, ZombieAdmitted, ZombieEnds, planVars
<1>3. CASE NodeStep(n)
  <2>1. Moves(n) BY <1>3, NodeMoves
  <2>2. main = "run" /\ n \in Batches[step] /\ step \in 1..Len(Batches)
    BY <2>1, LenBatches DEF Moves, StructureInv, TypeInv, TypeOK, Steps
  <2>3. \A i \in 1..Len(Batches) : i # step => n \notin Batches[i]
    BY <2>2, BatchesAssumption
  <2>4. \A i \in 1..Len(Batches) : \A m \in Batches[i] : m \in Node
    BY BatchesAssumption
  <2>5. \A i \in 1..Len(Batches) : ToCome(i)' => \A m \in Batches[i] : node'[m] = "idle"
    BY <1>1, <2>1, <2>2, <2>3, <2>4 DEF Moves, PlanInv, ToCome
  <2>6. \A i \in 1..Len(Batches) : i < step' => \A m \in Batches[i] : node'[m] = "done"
    BY <1>1, <2>1, <2>2, <2>3, <2>4 DEF Moves, PlanInv
  <2>7. \A m \in Node : node'[m] = "done" => result'[m] # "none"
    BY <2>1 DEF Moves, PlanInv, Calling
  <2>8. ~(step' > Len(Batches)) BY <1>1, <2>2, LenBatches
  <2> QED BY <1>1, <2>5, <2>6, <2>7, <2>8 DEF PlanInv, Open
<1> QED BY <1>2, <1>3

(* API, dispatcher, reads and watcher do not disturb the plan. *)
LEMMA PlanOthers ==
  ASSUME PlanInv,
         \/ InsertExecution \/ LaunchFails \/ \E target \in ControlState : ExecutionSignal(target)
         \/ Dispatcher \/ Watch \/ \E r \in Reader : ReadExecutionControl(r) \/ ReadFails(r)
  PROVE  PlanInv'
<1> USE DEF planVars, rowVars, mainVars, nodeVars, commitVars
<1>1. CASE InsertExecution \/ \E target \in ControlState : ExecutionSignal(target)
  BY <1>1, PlanFrame DEF InsertExecution, ExecutionSignal
<1>2. CASE LaunchFails
  <2>1. UNCHANGED <<node, step, result, committing, committed, want, phase>>
    BY <1>2 DEF LaunchFails
  <2>2. main' = main \/ main' = "terminated" BY <1>2 DEF LaunchFails
  <2> QED BY <2>1, <2>2 DEF PlanInv, ToCome, Open, Ended
<1>3. CASE Dispatcher
  BY <1>3, PlanFrame DEF Dispatcher, DispatchScan, DispatchSignal, DispatchAck, DispatchFails,
     dispatcherOthers
<1>4. CASE Watch
  BY <1>4, PlanFrame DEF Watch, WatchSignal, WatchPoll, WatchApply, WatchError, watchOthers
<1>5. CASE \E r \in Reader : ReadExecutionControl(r) \/ ReadFails(r)
  BY <1>5, PlanFrame DEF ReadExecutionControl, ReadFails, readOthers
<1> QED BY <1>1, <1>2, <1>3, <1>4, <1>5

(* The main coroutine goes on only when a batch is done, and commits only after success. *)
LEMMA PlanMain ==
  ASSUME TypeInv, StructureInv, PlanInv,
         MainStep \/ \E c \in {"cursors", "dedupe"} : CommitInDatabase(c)
  PROVE  PlanInv'
<1>0. /\ step \in 1..(Len(Batches) + 2) /\ Len(Batches) \in Nat
      /\ Open => phase # "completed"
      /\ committing \subseteq {"cursors", "dedupe"} /\ committed \subseteq {"cursors", "dedupe"}
      /\ Commits \subseteq {"cursors", "dedupe"}
      /\ \A n \in Node : result[n] \in {"none", "success", "failed", "skipped"}
  BY LenBatches, BoundsAssumption
     DEF TypeInv, TypeOK, Steps, StructureInv, TerminalExecutionPhase, TerminalPhase
<1>a. ASSUME NEW o, NEW c, NEW f, Finalize(o, c, f), UNCHANGED mainOthers, Open,
             want' = "completed" => step > Len(Batches) /\ Commits \subseteq committed
      PROVE  PlanInv'
  <2>1. UNCHANGED <<node, step, result, committing, committed, phase>> /\ main' = "final"
    BY <1>a DEF Finalize, mainOthers, rowVars, nodeVars, commitVars
  <2> QED BY <1>0, <1>a, <2>1 DEF PlanInv, ToCome, Open, Ended
<1>b. ASSUME NEW o, NEW c, NEW f, Finalize(o, c, f), AnyFailed \/ o \in {"error", "canceled"}
      PROVE  want' # "completed"
  BY <1>b DEF Finalize, AnyFailed
<1>c. ASSUME NextGate, UNCHANGED mainOthers, Open, step <= Len(Batches) + 1,
             \/ main = "run" /\ \A n \in Batches[step] : node[n] = "done"
             \/ step > Len(Batches),
             step = Len(Batches) => ~AnyFailed,
             step = Len(Batches) + 1 /\ "cursors" \in Commits => "cursors" \in committed
      PROVE  PlanInv'
  <2>1. UNCHANGED <<node, result, committing, committed, want, phase>> /\ main' = "gate"
        /\ step' = step + 1
    BY <1>c DEF NextGate, mainOthers, rowVars, nodeVars, commitVars
  <2>2. \A i \in 1..Len(Batches) : i < step' => \A n \in Batches[i] : node[n] = "done"
    BY <1>0, <1>c, <2>1 DEF PlanInv
  <2>3. \A i \in 1..Len(Batches) : ToCome(i)' => \A n \in Batches[i] : node[n] = "idle"
    BY <1>0, <2>1 DEF PlanInv, ToCome
  <2>4. step' > Len(Batches) => \A n \in Node : result[n] \in {"success", "skipped"}
    <3>1. CASE step = Len(Batches)
      <4>1. \A n \in Node : \E i \in 1..Len(Batches) : n \in Batches[i] BY BatchesAssumption
      <4>2. \A n \in Node : node[n] = "done" BY <1>0, <2>1, <2>2, <3>1, <4>1
      <4> QED BY <1>0, <1>c, <3>1, <4>2 DEF PlanInv, AnyFailed
    <3>2. CASE step # Len(Batches) BY <1>0, <2>1, <3>2 DEF PlanInv
    <3> QED BY <3>1, <3>2
  <2>5. committing \cup committed # {} => step' > Len(Batches) BY <1>0, <2>1 DEF PlanInv
  <2>6. "dedupe" \notin committing \cup committed BY <1>0, <1>c DEF PlanInv
  <2>7. step' = Len(Batches) + 2 /\ "cursors" \in Commits => "cursors" \in committed
    BY <1>0, <1>c, <2>1
  <2> QED BY <1>0, <1>c, <2>1, <2>2, <2>3, <2>4, <2>5, <2>6, <2>7 DEF PlanInv, Open, Ended
<1>d. ASSUME NEW c \in {"cursors", "dedupe"}, StartCommit(c), UNCHANGED mainOthers, Open,
             step > Len(Batches), c = "dedupe" => step = Len(Batches) + 2
      PROVE  PlanInv'
  <2>1. UNCHANGED <<node, step, result, committed, want, phase>> /\ main' = "commit"
        /\ committing' = committing \cup {c}
    BY <1>d DEF StartCommit, mainOthers, rowVars, nodeVars
  <2> QED BY <1>0, <1>d, <2>1 DEF PlanInv, ToCome, Open, Ended
<1>e. ASSUME StartBatch(Batches[step]), UNCHANGED mainOthers, main \in {"gate", "await"},
             step <= Len(Batches)
      PROVE  PlanInv'
  <2>0. Open BY <1>e DEF Open, Ended
  <2>1. UNCHANGED <<step, committing, committed, want, phase>> /\ main' = "run"
    BY <1>e DEF StartBatch, mainOthers, rowVars, commitVars
  <2>2. \A i \in 1..Len(Batches) : i # step => \A n \in Batches[i] : n \in Node /\ node'[n] = node[n]
    <3>1. \A i \in 1..Len(Batches) : i # step => \A n \in Batches[i] : n \in Node /\ n \notin Batches[step]
      BY <1>0, <1>e, BatchesAssumption
    <3> QED BY <1>e, <3>1 DEF StartBatch
  <2>3. \A i \in 1..Len(Batches) : ToCome(i)' => \A n \in Batches[i] : node'[n] = "idle"
    BY <1>0, <2>1, <2>2 DEF PlanInv, ToCome
  <2>4. \A i \in 1..Len(Batches) : i < step => \A n \in Batches[i] : node'[n] = "done"
    BY <1>0, <2>2 DEF PlanInv
  <2>5. \A n \in Node : node'[n] = "done" => result'[n] # "none"
    <3>1. \A n \in Batches[step] : node[n] = "idle" BY <1>0, <1>e DEF PlanInv, ToCome
    <3> QED BY <1>e, <3>1 DEF StartBatch, PlanInv
  <2> QED BY <1>0, <1>e, <2>0, <2>1, <2>3, <2>4, <2>5 DEF PlanInv, Open, Ended
<1>f. ASSUME Proceed, UNCHANGED mainOthers, main \in {"gate", "await"} PROVE PlanInv'
  <2>0. Open BY <1>f DEF Open, Ended
  <2>1. CASE step <= Len(Batches) /\ StartBatch(Batches[step]) BY <1>e, <1>f, <2>1
  <2>2. CASE AtCursors /\ StartCommit("cursors") BY <1>0, <1>d, <1>f, <2>0, <2>2 DEF AtCursors
  <2>3. CASE AtCursors /\ "cursors" \notin Commits /\ NextGate
    BY <1>0, <1>c, <1>f, <2>0, <2>3 DEF AtCursors
  <2>4. CASE AtCursors /\ Commits = {} /\ Finalize("ok", FALSE, FALSE)
    <3>1. step > Len(Batches) /\ Commits \subseteq committed BY <1>0, <2>4 DEF AtCursors
    <3>2. Finalize("ok", FALSE, FALSE) BY <2>4
    <3> QED BY <1>a, <1>f, <2>0, <3>1, <3>2, Zenon
  <2>5. CASE AtDedupe /\ StartCommit("dedupe") BY <1>0, <1>d, <1>f, <2>0, <2>5 DEF AtDedupe
  <2> QED BY <1>f, <2>1, <2>2, <2>3, <2>4, <2>5 DEF Proceed
<1>1. CASE MainInit
  <2>1. UNCHANGED <<node, step, result, committing, committed, want, phase>>
        /\ main = "init" /\ main' = "gate"
    BY <1>1 DEF MainInit, mainOthers, rowVars, nodeVars, commitVars
  <2> QED BY <1>0, <2>1 DEF PlanInv, ToCome, Open, Ended
<1>2. CASE MainReadError \/ MainCancelled \/ CommitFails
  BY <1>2, <1>a, <1>b DEF MainReadError, MainCancelled, CommitFails, Open, Ended
<1>3. CASE MainGate
  <2>0. Open /\ UNCHANGED mainOthers /\ main = "gate" BY <1>3 DEF MainGate, Open, Ended
  <2>1. CASE Stopped BY <1>3, <1>a, <1>b, <2>0, <2>1 DEF MainGate
  <2>2. CASE ~Stopped /\ Paused'
    <3>1. UNCHANGED <<node, step, result, committing, committed, want, phase>> /\ main' = "await"
      BY <1>3, <2>2 DEF MainGate, mainOthers, rowVars, nodeVars, commitVars
    <3> QED BY <1>0, <2>0, <3>1 DEF PlanInv, ToCome, Open, Ended
  <2>3. CASE ~Stopped /\ ~Paused' BY <1>3, <1>f, <2>0, <2>3 DEF MainGate
  <2> QED BY <2>1, <2>2, <2>3
<1>4. CASE MainResumes BY <1>4, <1>f DEF MainResumes
<1>5. CASE BatchDone
  <2>0. /\ Open /\ UNCHANGED mainOthers /\ main = "run" /\ step <= Len(Batches)
        /\ \A n \in Batches[step] : node[n] = "done"
    BY <1>5 DEF BatchDone, Open, Ended, TypeInv
  <2>1. CASE BusinessCancelled BY <1>5, <1>a, <1>b, <2>0, <2>1 DEF BatchDone
  <2>2. CASE ~BusinessCancelled /\ step = Len(Batches) /\ AnyFailed
    BY <1>5, <1>a, <1>b, <2>0, <2>2 DEF BatchDone
  <2>3. CASE ~BusinessCancelled /\ ~(step = Len(Batches) /\ AnyFailed)
    <3>1. NextGate BY <1>5, <2>3 DEF BatchDone
    <3> QED BY <1>0, <1>c, <2>0, <2>3, <3>1
  <2> QED BY <2>1, <2>2, <2>3
<1>6. CASE CommitReturns
  <2>0. Open /\ UNCHANGED mainOthers /\ main = "commit" /\ step > Len(Batches)
    BY <1>6 DEF CommitReturns, Open, Ended, PlanInv
  <2>1. CASE AtCursors /\ "dedupe" \in Commits
    <3>1. NextGate /\ "cursors" \in committed BY <1>6, <2>1 DEF CommitReturns, CurrentCommit
    <3> QED BY <1>0, <1>c, <2>0, <2>1, <3>1 DEF AtCursors
  <2>2. CASE ~(AtCursors /\ "dedupe" \in Commits)
    <3>1. Finalize("ok", Cancelled, Failure) BY <1>6, <2>2 DEF CommitReturns
    <3>2. Commits \subseteq committed
      BY <1>0, <1>6, <2>0, <2>2 DEF CommitReturns, CurrentCommit, AtCursors, PlanInv
    <3> QED BY <1>a, <2>0, <3>1, <3>2
  <2> QED BY <2>1, <2>2
<1>7. ASSUME NEW c \in {"cursors", "dedupe"}, CommitInDatabase(c) PROVE PlanInv'
  <2>1. UNCHANGED <<node, main, step, result, committing, want, phase>>
        /\ committed' = committed \cup {c} /\ c \in committing
    BY <1>7 DEF CommitInDatabase, mainOthers, rowVars, mainVars, nodeVars
  <2> QED BY <1>0, <2>1 DEF PlanInv, ToCome, Open
<1>8. CASE FinalizeExecutionControl \/ MarkExecution \/ FinalizeRetried \/ FinalizeLost
  <2>1. UNCHANGED <<node, step, result, committing, committed, want>>
        /\ main \in {"final", "mark"} /\ main' \in {"final", "mark"} \cup Ended
    BY <1>8 DEF FinalizeExecutionControl, MarkExecution, FinalizeRetried, FinalizeLost,
       finalOthers, nodeVars, commitVars, Ended
  <2>2. phase' \in {phase, want, "cancelled"}
    BY <1>8 DEF FinalizeExecutionControl, MarkExecution, FinalizeRetried, FinalizeLost, FinalPhase
  <2> QED BY <1>0, <2>1, <2>2 DEF PlanInv, ToCome, Open, Ended
<1> QED BY <1>1, <1>2, <1>3, <1>4, <1>5, <1>6, <1>7, <1>8 DEF MainStep

budgetVars == <<node, attempt, remaining, blocked, budget, fails, why, zombies, admits>>

(* At first all accounts are empty. *)
LEMMA BudgetInit == Init => BudgetInv
  BY DEF Init, BudgetInv, BudgetOf, Unspent, Attempted, Calling

(* BudgetInv where no account changes. *)
LEMMA BudgetFrame == ASSUME BudgetInv, UNCHANGED budgetVars PROVE BudgetInv'
  BY DEF BudgetInv, BudgetOf, Unspent, Attempted, budgetVars

(* Only the accounts of one node change in a step of its coroutine.        *)
SameAccount(m) ==
    /\ node'[m] = node[m] /\ attempt'[m] = attempt[m] /\ remaining'[m] = remaining[m]
    /\ blocked'[m] = blocked[m] /\ budget'[m] = budget[m] /\ fails'[m] = fails[m]
    /\ why'[m] = why[m] /\ zombies'[m] = zombies[m] /\ admits'[m] = admits[m]

(* A step of one node leaves the accounts of the others alone. *)
LEMMA BudgetLocal ==
  ASSUME BudgetInv, NEW n \in Node, \A m \in Node \ {n} : SameAccount(m), BudgetOf(n)'
  PROVE  BudgetInv'
<1>1. ASSUME NEW m \in Node \ {n} PROVE BudgetOf(m)'
  BY <1>1 DEF BudgetInv, BudgetOf, Unspent, Attempted, SameAccount
<1> QED BY <1>1 DEF BudgetInv

(* Admissions, failures, blocks and late attempts balance in every account. *)
LEMMA BudgetNode ==
  ASSUME TypeInv, StructureInv, BudgetInv, NEW n \in Node, NodeStep(n) \/ Zombie(n)
  PROVE  BudgetInv'
<1>0. /\ node \in [Node -> {"idle", "done"} \cup Calling]
      /\ attempt \in [Node -> Nat] /\ remaining \in [Node -> Nat]
      /\ blocked \in [Node -> ControlState]
      /\ zombies \in [Node -> Nat] /\ admits \in [Node -> Nat]
      /\ budget \in [Node -> Nat] /\ fails \in [Node -> Nat]
      /\ why \in [Node -> {"none", "exhausted", "fatal", "gate", "cancel", "pages", "invalid"}]
  BY DEF TypeInv, TypeOK
<1>1. /\ attempt[n] \in Nat /\ remaining[n] \in Nat /\ zombies[n] \in Nat /\ admits[n] \in Nat
      /\ budget[n] \in Nat /\ fails[n] \in Nat /\ MaximumAttempts[n] \in Nat \ {0}
  BY <1>0, AttemptsAssumption
<1>2. BudgetOf(n) BY DEF BudgetInv
<1>3. SUFFICES /\ \A m \in Node \ {n} : SameAccount(m)
               /\ BudgetOf(n)'
  BY BudgetLocal
<1> USE DEF Calling
<1>a. ASSUME NEW r, NEW w \in {"none", "fatal", "gate", "cancel", "pages"}, NodeEnds(n, r, w),
             UNCHANGED admits,
             \A m \in Node \ {n} : zombies'[m] = zombies[m],
             zombies'[n] = zombies[n] \/ (zombies'[n] = zombies[n] + 1 /\ node[n] = "sched"),
             node[n] \in Calling
      PROVE  (\A m \in Node \ {n} : SameAccount(m)) /\ BudgetOf(n)'
  <2>1. \A m \in Node \ {n} : SameAccount(m)
    BY <1>0, <1>a DEF NodeEnds, callVars, SameAccount
  <2>2. /\ node'[n] = "done" /\ why'[n] = w /\ budget'[n] = budget[n] /\ admits'[n] = admits[n]
        /\ zombies'[n] = zombies[n] \/ (zombies'[n] = zombies[n] + 1 /\ node[n] = "sched")
    BY <1>0, <1>a DEF NodeEnds, callVars
  <2> QED BY <1>1, <1>2, <2>1, <2>2, <1>a DEF BudgetOf, Unspent, Attempted
<1>b. ASSUME NEW o, NodeCalls(n, o), UNCHANGED <<zombies, admits>>, node[n] \in Calling
      PROVE  (\A m \in Node \ {n} : SameAccount(m)) /\ BudgetOf(n)'
  <2>1. \A m \in Node \ {n} : SameAccount(m)
    BY <1>0, <1>b DEF NodeCalls, SameAccount
  <2>2. /\ node'[n] = "gate" /\ remaining'[n] = MaximumAttempts[n] /\ fails'[n] = 0
        /\ budget'[n] = budget[n] + MaximumAttempts[n]
        /\ why'[n] = why[n] /\ admits'[n] = admits[n] /\ zombies'[n] = zombies[n]
    BY <1>0, <1>b DEF NodeCalls
  <2> QED BY <1>1, <1>2, <2>1, <2>2, <1>b DEF BudgetOf, Unspent, Attempted
<1>c. ASSUME Schedule(n), UNCHANGED <<zombies, admits>>, node[n] \in {"gate", "await"}
      PROVE  (\A m \in Node \ {n} : SameAccount(m)) /\ BudgetOf(n)'
  <2>1. \A m \in Node \ {n} : SameAccount(m)
    BY <1>0, <1>c DEF Schedule, SameAccount
  <2>2. /\ node'[n] = "sched" /\ attempt'[n] = 1 /\ remaining'[n] = remaining[n] /\ fails'[n] = fails[n]
        /\ budget'[n] = budget[n] /\ why'[n] = why[n] /\ admits'[n] = admits[n]
        /\ zombies'[n] = zombies[n]
    BY <1>0, <1>c DEF Schedule
  <2> QED BY <1>1, <1>2, <2>1, <2>2, <1>c DEF BudgetOf, Unspent, Attempted
<1>4. CASE NodeGate(n)
  <2>1. CASE NodeFails(n, "cancel") BY <1>4, <2>1, <1>a DEF NodeGate, NodeFails
  <2>2. CASE Schedule(n) BY <1>4, <2>2, <1>c DEF NodeGate
  <2>3. CASE node' = [node EXCEPT ![n] = "await"] /\ UNCHANGED <<callVars, result, why>>
    <3>1. \A m \in Node \ {n} : SameAccount(m)
      BY <1>0, <1>4, <2>3 DEF NodeGate, callVars, SameAccount
    <3>2. /\ node[n] = "gate" /\ node'[n] = "await" /\ remaining'[n] = remaining[n]
          /\ fails'[n] = fails[n] /\ budget'[n] = budget[n] /\ why'[n] = why[n]
          /\ admits'[n] = admits[n] /\ zombies'[n] = zombies[n]
      BY <1>0, <1>4, <2>3 DEF NodeGate, callVars
    <3> QED BY <1>1, <1>2, <3>1, <3>2 DEF BudgetOf, Unspent, Attempted
  <2> QED BY <1>4, <2>1, <2>2, <2>3 DEF NodeGate
<1>5. CASE NodeGateError(n) BY <1>5, <1>a DEF NodeGateError, NodeFails
<1>6. CASE NodeResumes(n) BY <1>6, <1>c DEF NodeResumes
<1>7. CASE NodeCancelled(n)
  <2>1. /\ \A m \in Node \ {n} : zombies'[m] = zombies[m]
        /\ zombies'[n] = zombies[n] \/ (zombies'[n] = zombies[n] + 1 /\ node[n] = "sched")
    BY <1>0, <1>1, <1>7 DEF NodeCancelled
  <2> QED BY <1>7, <2>1, <1>a DEF NodeCancelled, NodeFails
<1>8. CASE Admit(n)
  <2>1. \A m \in Node \ {n} : SameAccount(m) BY <1>0, <1>8 DEF Admit, callVars, SameAccount
  <2>2. /\ node[n] = "sched" /\ node'[n] = "effect" /\ attempt'[n] = attempt[n]
        /\ remaining'[n] = remaining[n] /\ fails'[n] = fails[n] /\ budget'[n] = budget[n]
        /\ why'[n] = why[n] /\ admits'[n] = admits[n] + 1 /\ zombies'[n] = zombies[n]
    BY <1>0, <1>8 DEF Admit, callVars
  <2> QED BY <1>1, <1>2, <2>1, <2>2 DEF BudgetOf, Unspent, Attempted
<1>9. CASE Block(n)
  <2>1. \A m \in Node \ {n} : SameAccount(m) BY <1>0, <1>9 DEF Block, SameAccount
  <2>2. /\ node[n] = "sched" /\ node'[n] = "blocked" /\ attempt'[n] = attempt[n]
        /\ remaining'[n] = remaining[n] /\ fails'[n] = fails[n] /\ budget'[n] = budget[n]
        /\ why'[n] = why[n] /\ admits'[n] = admits[n] /\ zombies'[n] = zombies[n]
    BY <1>0, <1>9 DEF Block
  <2>3. blocked'[n] # "active" BY <1>0, <1>9 DEF Block, BlockedState, Admissible
  <2> QED BY <1>1, <1>2, <2>1, <2>2, <2>3 DEF BudgetOf, Unspent, Attempted
<1>10. CASE BlockedAttempt(n)
  <2>0. /\ node[n] = "blocked" /\ attempt[n] \in 1..remaining[n] /\ blocked[n] # "active"
        /\ blocked[n] \in ControlState
    BY <1>0, <1>2, <1>10 DEF BlockedAttempt, BudgetOf, Attempted
  <2>1. CASE blocked[n] = "cancel_requested" BY <1>10, <2>1, <1>a DEF BlockedAttempt, NodeFails
  <2>2. CASE blocked[n] # "cancel_requested"
    <3>1. ~(blocked[n] # "paused" \/ attempt[n] < 1 \/ attempt[n] > remaining[n])
      BY <1>1, <2>0, <2>2 DEF ControlState
    <3>2. \A m \in Node \ {n} : SameAccount(m)
      BY <1>0, <1>10, <2>2, <3>1 DEF BlockedAttempt, SameAccount
    <3>3. /\ node'[n] = "gate" /\ remaining'[n] = remaining[n] - (attempt[n] - 1)
          /\ fails'[n] = fails[n] /\ budget'[n] = budget[n]
          /\ why'[n] = why[n] /\ admits'[n] = admits[n] /\ zombies'[n] = zombies[n]
      BY <1>0, <1>10, <2>2, <3>1 DEF BlockedAttempt, Left
    <3> QED BY <1>1, <1>2, <2>0, <3>2, <3>3 DEF BudgetOf, Unspent, Attempted
  <2> QED BY <2>1, <2>2
<1>11. CASE AttemptFails(n)
  <2>0. Running(n) /\ attempt[n] \in 1..remaining[n] /\ node[n] \in {"sched", "effect"}
    BY <1>2, <1>11 DEF AttemptFails, Running, BudgetOf, Attempted
  <2>1. \A m \in Node \ {n} : SameAccount(m) BY <1>0, <1>11 DEF AttemptFails, SameAccount
  <2>2. zombies'[n] = zombies[n] \/ (zombies'[n] = zombies[n] + 1 /\ node[n] = "sched")
    BY <1>0, <1>1, <1>11 DEF AttemptFails
  <2>3. /\ fails'[n] = fails[n] + 1 /\ remaining'[n] = remaining[n]
        /\ budget'[n] = budget[n] /\ admits'[n] = admits[n]
    BY <1>0, <1>11 DEF AttemptFails
  <2>4. CASE attempt[n] < remaining[n]
    <3>1. node'[n] = "sched" /\ attempt'[n] = attempt[n] + 1 /\ why'[n] = why[n]
      BY <1>0, <1>11, <2>4 DEF AttemptFails, Retries
    <3> QED BY <1>1, <1>2, <2>0, <2>1, <2>2, <2>3, <2>4, <3>1 DEF BudgetOf, Unspent, Attempted
  <2>5. CASE attempt[n] = remaining[n]
    <3>1. node'[n] = "done" /\ why'[n] = "exhausted"
      BY <1>0, <1>1, <1>11, <2>0, <2>5 DEF AttemptFails, Retries
    <3> QED BY <1>1, <1>2, <2>0, <2>1, <2>2, <2>3, <2>5, <3>1 DEF BudgetOf, Unspent, Attempted
  <2> QED BY <1>1, <2>0, <2>4, <2>5
<1>12. CASE AttemptRejected(n) BY <1>12, <1>a DEF AttemptRejected, Running, NodeFails
<1>13. CASE Returns(n)
  <2>1. node[n] \in Calling /\ UNCHANGED <<zombies, admits>>
    BY <1>13 DEF Returns, EvalReturns, FetchReturns, WorkReturns, Executing, returnOthers
  <2> QED BY <1>13, <2>1, <1>a, <1>b DEF Returns, EvalReturns, FetchReturns, WorkReturns, NodeFails
<1>14. CASE Zombie(n)
  <2>1. \A m \in Node \ {n} : SameAccount(m)
    BY <1>0, <1>14 DEF Zombie, ZombieAdmitted, ZombieEnds, callVars, SameAccount
  <2>2. /\ node'[n] = node[n] /\ attempt'[n] = attempt[n] /\ blocked'[n] = blocked[n]
        /\ remaining'[n] = remaining[n] /\ fails'[n] = fails[n] /\ budget'[n] = budget[n]
        /\ why'[n] = why[n]
    BY <1>14 DEF Zombie, ZombieAdmitted, ZombieEnds, callVars
  <2>3. /\ zombies'[n] = zombies[n] - 1 /\ admits'[n] \in {admits[n], admits[n] + 1}
    <3>1. CASE ZombieAdmitted(n) BY <1>0, <3>1 DEF ZombieAdmitted
    <3>2. CASE ZombieEnds(n) BY <1>0, <3>2 DEF ZombieEnds
    <3> QED BY <1>14, <3>1, <3>2 DEF Zombie
  <2> QED BY <1>1, <1>2, <2>1, <2>2, <2>3 DEF BudgetOf, Unspent, Attempted
<1> QED
  BY <1>4, <1>5, <1>6, <1>7, <1>8, <1>9, <1>10, <1>11, <1>12, <1>13, <1>14 DEF NodeStep

(* API, dispatcher, reads, watcher and commits do not touch the accounts. *)
LEMMA BudgetOthers ==
  ASSUME BudgetInv,
         \/ InsertExecution \/ LaunchFails \/ \E target \in ControlState : ExecutionSignal(target)
         \/ Dispatcher \/ Watch \/ \E r \in Reader : ReadExecutionControl(r) \/ ReadFails(r)
         \/ \E c \in {"cursors", "dedupe"} : CommitInDatabase(c)
  PROVE  BudgetInv'
<1>1. UNCHANGED nodeVars
  BY DEF InsertExecution, LaunchFails, ExecutionSignal, Dispatcher, DispatchScan, DispatchSignal,
     DispatchAck, DispatchFails, dispatcherOthers, Watch, WatchSignal, WatchPoll, WatchApply,
     WatchError, watchOthers, ReadExecutionControl, ReadFails, readOthers, CommitInDatabase
<1> QED BY <1>1, BudgetFrame DEF nodeVars, callVars, budgetVars

(* Starting a batch opens the accounts of its nodes. *)
LEMMA BudgetMain == ASSUME TypeInv, PlanInv, BudgetInv, MainStep PROVE BudgetInv'
<1>a. UNCHANGED nodeVars => BudgetInv'
  BY BudgetFrame DEF nodeVars, callVars, budgetVars
<1>b. ASSUME NEW o, NEW c, NEW f, Finalize(o, c, f) PROVE BudgetInv' BY <1>a, <1>b DEF Finalize
<1>c. NextGate => BudgetInv' BY <1>a DEF NextGate
<1>d. ASSUME NEW c, StartCommit(c) PROVE BudgetInv' BY <1>a, <1>d DEF StartCommit
<1>e. ASSUME StartBatch(Batches[step]), step <= Len(Batches), main \in {"gate", "await"}
      PROVE  BudgetInv'
  <2>1. \A n \in Batches[step] : node[n] = "idle"
    BY <1>e, LenBatches DEF PlanInv, ToCome, TypeInv, TypeOK, Steps
  <2>2. ASSUME NEW n \in Node PROVE BudgetOf(n)'
    <3>1. /\ UNCHANGED <<attempt, blocked, fails, why, zombies, admits>>
          /\ zombies[n] \in Nat /\ admits[n] \in Nat /\ budget[n] \in Nat
          /\ MaximumAttempts[n] \in Nat \ {0} /\ BudgetOf(n)
      BY <1>e, AttemptsAssumption DEF StartBatch, TypeInv, TypeOK, BudgetInv
    <3>2. CASE n \notin Batches[step]
      BY <1>e, <3>1, <3>2 DEF StartBatch, BudgetOf, Unspent, Attempted
    <3>3. CASE n \in Batches[step] /\ Starts(n)
      <4>1. /\ node'[n] = "gate" /\ remaining'[n] = MaximumAttempts[n]
            /\ budget'[n] = budget[n] + MaximumAttempts[n]
        BY <1>e, <3>3 DEF StartBatch
      <4> QED BY <2>1, <3>1, <3>3, <4>1 DEF BudgetOf, Unspent, Attempted, Calling
    <3>4. CASE n \in Batches[step] /\ ~Starts(n)
      <4>1. node'[n] = "done" /\ budget'[n] = budget[n] BY <1>e, <3>4 DEF StartBatch
      <4> QED BY <2>1, <3>1, <3>4, <4>1 DEF BudgetOf, Unspent, Attempted, Calling
    <3> QED BY <3>2, <3>3, <3>4
  <2> QED BY <2>2 DEF BudgetInv
<1>f. ASSUME Proceed, main \in {"gate", "await"} PROVE BudgetInv'
  BY <1>b, <1>c, <1>d, <1>e, <1>f DEF Proceed
<1>1. CASE MainInit BY <1>1, <1>a DEF MainInit
<1>2. CASE MainReadError \/ MainCancelled \/ CommitFails
  BY <1>2, <1>b DEF MainReadError, MainCancelled, CommitFails
<1>3. CASE MainGate BY <1>3, <1>a, <1>b, <1>f DEF MainGate
<1>4. CASE MainResumes BY <1>4, <1>f DEF MainResumes
<1>5. CASE BatchDone \/ CommitReturns BY <1>5, <1>b, <1>c DEF BatchDone, CommitReturns
<1>6. CASE FinalizeExecutionControl \/ MarkExecution \/ FinalizeRetried \/ FinalizeLost
  BY <1>6, <1>a DEF FinalizeExecutionControl, MarkExecution, FinalizeRetried, FinalizeLost, finalOthers
<1> QED BY <1>1, <1>2, <1>3, <1>4, <1>5, <1>6 DEF MainStep

-----------------------------------------------------------------------------
(* Together the parts are inductive.                                       *)
Inv == TypeInv /\ StructureInv /\ IntentInv /\ PlanInv /\ BudgetInv

(* A step that changes nothing keeps the invariant. *)
LEMMA Stutter == ASSUME Inv, UNCHANGED vars PROVE Inv'
<1> USE DEF vars, rowVars, deliveryVars, viewVars, mainVars, nodeVars, callVars, commitVars
<1>1. TypeInv' BY DEF Inv, TypeInv, TypeOK
<1>2. StructureInv' BY StructureFrame DEF Inv, structureVars
<1>3. IntentInv' BY IntentKept, ViewKept, ReadsDropped DEF Inv, BlocksKept
<1>4. PlanInv' BY PlanFrame DEF Inv, planVars
<1>5. BudgetInv' BY BudgetFrame DEF Inv, budgetVars
<1> QED BY <1>1, <1>2, <1>3, <1>4, <1>5 DEF Inv

(* The inductive invariant holds in every run of the controlled workflow:  *)
(* the facts about coroutines, answers in flight, budgets, plan and commits*)
(* that the properties below rest on.                                      *)
THEOREM Invariance == Spec => []Inv
<1>1. Init => Inv
  BY TypeInit, StructureInit, IntentInit, PlanInit, BudgetInit DEF Inv
<1>2. Inv /\ [Next]_vars => Inv'
  <2> SUFFICES ASSUME Inv, [Next]_vars PROVE Inv' OBVIOUS
  <2> USE DEF Inv
  <2>1. CASE UNCHANGED vars BY <2>1, Stutter
  <2>2. CASE InsertExecution \/ LaunchFails \/ \E target \in ControlState : ExecutionSignal(target)
    BY <2>2, TypeApi, StructureApi, IntentApi, PlanOthers, BudgetOthers
  <2>3. CASE Dispatcher
    BY <2>3, TypeDispatcher, StructureDispatcher, IntentDispatcher, PlanOthers, BudgetOthers
  <2>4. CASE \E r \in Reader : ReadExecutionControl(r) \/ ReadFails(r)
    BY <2>4, TypeRead, StructureRead, IntentRead, PlanOthers, BudgetOthers
  <2>5. CASE Watch
    BY <2>5, TypeWatch, StructureWatch, IntentWatch, PlanOthers, BudgetOthers
  <2>6. CASE \E n \in Node : NodeStep(n) \/ Zombie(n)
    BY <2>6, TypeNode, StructureNode, IntentNode, PlanNode, BudgetNode
  <2>7. CASE \E c \in {"cursors", "dedupe"} : CommitInDatabase(c)
    BY <2>7, TypeMain, StructureMain, IntentMain, PlanMain, BudgetOthers
  <2>8. CASE MainStep
    BY <2>8, TypeMain, StructureMain, IntentMain, PlanMain, BudgetMain
  <2>9. CASE Finished BY <2>1, <2>9 DEF Finished
  <2> QED BY <2>1, <2>2, <2>3, <2>4, <2>5, <2>6, <2>7, <2>8, <2>9 DEF Next
<1> QED BY <1>1, <1>2, PTL DEF Spec

(* Every variable of the controlled run keeps its type.                    *)
THEOREM TypeSafe == Spec => []TypeOK
<1>1. Inv => TypeOK BY DEF Inv, TypeInv
<1> QED BY <1>1, Invariance, PTL

(* The workflow's view of the control row (executionController.control) is *)
(* always some committed intent, and Paused is what that intent says.      *)
THEOREM ViewSafe == Spec => []ViewIsCommitted
<1>1. Inv => ViewIsCommitted BY DEF Inv, IntentInv, ViewInv
<1> QED BY <1>1, Invariance, PTL

(* Business work is cancelled only if the operator asked for it.           *)
THEOREM CancelSafe == Spec => []CancelIsIntended
<1>1. Inv => CancelIsIntended BY DEF Inv, IntentInv, CancelInv
<1> QED BY <1>1, Invariance, PTL

(* FinalizeExecutionControl never lets completion or failure beat a cancel *)
(* that was committed first.                                               *)
THEOREM CancelWins == Spec => []CommittedCancelWins
<1>1. Inv => CommittedCancelWins BY DEF Inv, IntentInv, CancelInv
<1> QED BY <1>1, Invariance, PTL

(* A call is admitted to the outside at most as often as its budget allows,*)
(* however its attempts are paused, timed out and rescheduled.             *)
THEOREM BudgetSafe == Spec => []AttemptBudgetKept
<1>1. Inv => AttemptBudgetKept
  <2> SUFFICES ASSUME Inv, NEW n \in Node PROVE admits[n] + zombies[n] <= budget[n]
    BY DEF AttemptBudgetKept
  <2>1. /\ admits[n] \in Nat /\ zombies[n] \in Nat /\ budget[n] \in Nat
        /\ remaining[n] \in Nat /\ attempt[n] \in Nat /\ MaximumAttempts[n] \in Nat
    BY AttemptsAssumption DEF Inv, TypeInv, TypeOK
  <2>2. BudgetOf(n) BY DEF Inv, BudgetInv
  <2>3. Unspent(n) \in Nat BY <2>1, <2>2 DEF BudgetOf, Unspent, Attempted, Calling
  <2> QED BY <2>1, <2>2, <2>3 DEF BudgetOf
<1> QED BY <1>1, Invariance, PTL

(* Waiting for a resume never uses up the budget of executeNodeActivity.   *)
THEOREM ExhaustionSafe == Spec => []ExhaustionIsReal
<1>1. Inv => ExhaustionIsReal BY DEF Inv, BudgetInv, BudgetOf, ExhaustionIsReal
<1> QED BY <1>1, Invariance, PTL

(* The error "invalid blocked activity attempt" is unreachable, and the    *)
(* remaining budget never becomes Temporal's 0, "no limit".                *)
THEOREM BlockedSafe == Spec => []BlockedAttemptValid
<1>1. Inv => BlockedAttemptValid
  BY AttemptsAssumption DEF Inv, BudgetInv, BudgetOf, BlockedAttemptValid
<1> QED BY <1>1, Invariance, PTL

(* A run recorded as completed has lost no node, cursor or dedupe key.     *)
THEOREM CompletedSafe == Spec => []CompletedRunIsWhole
<1>1. Inv => CompletedRunIsWhole BY DEF Inv, PlanInv, CompletedRunIsWhole
<1> QED BY <1>1, Invariance, PTL

(* Cursors and dedupe keys are committed only after every node ended well, *)
(* dedupe keys never before the cursors.                                   *)
THEOREM CommitsSafe == Spec => []CommitsAfterSuccess
<1>1. Inv => CommitsAfterSuccess
  <2> SUFFICES ASSUME Inv, committed # {} PROVE CommitsAfterSuccess
    BY DEF CommitsAfterSuccess
  <2>1. committed \subseteq {"cursors", "dedupe"} BY DEF Inv, TypeInv, TypeOK
  <2> QED BY <2>1 DEF Inv, PlanInv, CommitsAfterSuccess
<1> QED BY <1>1, Invariance, PTL

(* The phase that the workflow returns is the one in the database.         *)
THEOREM StatusSafe == Spec => []StatusMatchesRow
<1>1. Inv => StatusMatchesRow BY DEF Inv, StructureInv, StatusMatchesRow
<1> QED BY <1>1, Invariance, PTL

(* executionController: what the workflow believes is what was asked for.  *)
THEOREM ViewSoundSafe == Spec => []ViewSound
<1>1. ViewIsCommitted /\ CancelIsIntended => ViewSound BY DEF ViewSound
<1> QED BY <1>1, ViewSafe, CancelSafe, PTL

(* executeNodeActivity accounts for its attempts exactly.                  *)
THEOREM AttemptsSafe == Spec => []AttemptsAccounted
<1>1. AttemptBudgetKept /\ ExhaustionIsReal /\ BlockedAttemptValid => AttemptsAccounted
  BY DEF AttemptsAccounted
<1> QED BY <1>1, BudgetSafe, ExhaustionSafe, BlockedSafe, PTL

(* controlledDAGWorkflow records a run as it ended.                        *)
THEOREM RunsEndSafe == Spec => []RunsEndWhole
<1>1. CommittedCancelWins /\ CompletedRunIsWhole /\ CommitsAfterSuccess /\ StatusMatchesRow
        => RunsEndWhole
  BY DEF RunsEndWhole
<1> QED BY <1>1, CancelWins, CompletedSafe, CommitsSafe, StatusSafe, PTL

-----------------------------------------------------------------------------
(* Action properties and the refinement of the API contract.               *)

(* refresh never goes back to an older revision nor forgets a cancellation. *)
LEMMA RefreshForward ==
  ASSUME TypeInv, NEW r \in Reader, Refresh(read[r])
  PROVE  view'.revision >= view.revision /\ (Cancelled => Cancelled')
<1>1. view.revision \in Nat /\ read[r].revision \in Nat
  BY BoundsAssumption DEF TypeInv, TypeOK, Answers, Revision
<1>2. Cancelled' <=> CancelledAfter(read[r]) BY DEF Refresh, Cancelled
<1>3. view'.revision >= view.revision BY <1>1 DEF Refresh, Stale
<1> QED BY <1>2, <1>3 DEF CancelledAfter

(* No step takes the workflow back to an older intent. *)
LEMMA ViewStep ==
  ASSUME TypeInv, [Next]_vars
  PROVE  view'.revision >= view.revision /\ (Cancelled => Cancelled')
<1>0. view.revision \in Nat BY BoundsAssumption DEF TypeInv, TypeOK, Revision
<1>a. ASSUME UNCHANGED view, flags \subseteq flags'
      PROVE  view'.revision >= view.revision /\ (Cancelled => Cancelled')
  BY <1>0, <1>a DEF Cancelled
<1>1. CASE UNCHANGED vars BY <1>1, <1>a DEF vars, viewVars
<1>2. CASE \/ InsertExecution \/ LaunchFails \/ \E target \in ControlState : ExecutionSignal(target)
           \/ Dispatcher \/ (\E r \in Reader : ReadExecutionControl(r) \/ ReadFails(r))
           \/ (\E c \in {"cursors", "dedupe"} : CommitInDatabase(c))
  <2>1. UNCHANGED viewVars
    BY <1>2 DEF InsertExecution, LaunchFails, ExecutionSignal, Dispatcher, DispatchScan,
       DispatchSignal, DispatchAck, DispatchFails, dispatcherOthers, ReadExecutionControl,
       ReadFails, readOthers, CommitInDatabase
  <2> QED BY <1>a, <2>1 DEF viewVars
<1>3. CASE Watch
  <2>1. CASE WatchApply BY <2>1, RefreshForward, ReaderCases DEF WatchApply
  <2>2. CASE WatchSignal \/ WatchPoll \/ WatchError
    BY <2>2, <1>a DEF WatchSignal, WatchPoll, WatchError, viewVars
  <2> QED BY <1>3, <2>1, <2>2 DEF Watch
<1>4. ASSUME NEW n \in Node, NodeStep(n) \/ Zombie(n)
      PROVE  view'.revision >= view.revision /\ (Cancelled => Cancelled')
  <2>1. CASE NodeGate(n) BY <2>1, RefreshForward, ReaderCases DEF NodeGate
  <2>2. CASE BlockedAttempt(n) BY <2>2, <1>a DEF BlockedAttempt
  <2>3. CASE ~NodeGate(n) /\ ~BlockedAttempt(n)
    <3>1. UNCHANGED viewVars
      BY <1>4, <2>3 DEF NodeStep, Zombie, NodeGateError, NodeResumes, NodeCancelled, Admit, Block,
         AttemptFails, AttemptRejected, Returns, EvalReturns, FetchReturns, WorkReturns,
         ZombieAdmitted, ZombieEnds, returnOthers
    <3> QED BY <1>a, <3>1 DEF viewVars
  <2> QED BY <2>1, <2>2, <2>3
<1>5. CASE MainStep
  <2>1. CASE MainInit \/ MainGate BY <2>1, RefreshForward, ReaderCases DEF MainInit, MainGate
  <2>2. CASE ~MainInit /\ ~MainGate
    <3>1. UNCHANGED viewVars
      BY <1>5, <2>2 DEF MainStep, MainReadError, MainResumes, MainCancelled, BatchDone,
         CommitReturns, CommitFails, FinalizeExecutionControl, MarkExecution, FinalizeRetried,
         FinalizeLost, finalOthers
    <3> QED BY <1>a, <3>1 DEF viewVars
  <2> QED BY <2>1, <2>2
<1> QED BY <1>1, <1>2, <1>3, <1>4, <1>5 DEF Next, Finished

(* Late answers never take the workflow back to an older intent, and it    *)
(* never forgets a cancellation (executionController.refresh).             *)
THEOREM ViewForward == Spec => ViewNeverRegresses
<1>1. Inv /\ [Next]_vars => [view'.revision >= view.revision /\ (Cancelled => Cancelled')]_vars
  BY ViewStep DEF Inv
<1> QED BY <1>1, Invariance, PTL DEF Spec, ViewNeverRegresses

(* No step of a cancelled run starts an idle node. *)
LEMMA DownstreamStep ==
  ASSUME TypeInv, [Next]_vars, Cancelled, NEW n \in Node, node[n] = "idle"
  PROVE  node'[n] = "idle"
<1>0. Cancelled' BY ViewStep
<1>1. CASE UNCHANGED nodeVars BY <1>1 DEF nodeVars
<1>2. ASSUME NEW m \in Node, NodeStep(m) PROVE node'[n] = "idle"
  BY <1>2, NodeMoves DEF Moves, Calling
<1>3. ASSUME NEW m \in Node, Zombie(m) PROVE node'[n] = "idle"
  BY <1>3 DEF Zombie, ZombieAdmitted, ZombieEnds
<1>4. CASE MainStep
  <2>1. UNCHANGED nodeVars
    BY <1>0, <1>4 DEF MainStep, MainInit, MainReadError, MainGate, MainResumes, MainCancelled,
       BatchDone, CommitReturns, CommitFails, FinalizeExecutionControl, MarkExecution,
       FinalizeRetried, FinalizeLost, finalOthers, Finalize, NextGate, Stopped, BusinessCancelled
  <2> QED BY <1>1, <2>1
<1>5. CASE ~MainStep /\ ~\E m \in Node : NodeStep(m) \/ Zombie(m)
  <2>1. UNCHANGED nodeVars
    BY <1>5 DEF Next, vars, Finished, InsertExecution, LaunchFails, ExecutionSignal, Dispatcher,
       DispatchScan, DispatchSignal, DispatchAck, DispatchFails, dispatcherOthers, Watch,
       WatchSignal, WatchPoll, WatchApply, WatchError, watchOthers, ReadExecutionControl,
       ReadFails, readOthers, CommitInDatabase
  <2> QED BY <1>1, <2>1
<1> QED BY <1>2, <1>3, <1>4, <1>5

(* Once the workflow knows of a cancel, no node of a later batch begins.   *)
THEOREM DownstreamStops == Spec => CancelStopsDownstream
<1>1. Inv /\ [Next]_vars =>
      [Cancelled => \A n \in Node : node[n] = "idle" => node'[n] = "idle"]_vars
  BY DownstreamStep DEF Inv
<1> QED BY <1>1, Invariance, PTL DEF Spec, CancelStopsDownstream

(* Every step is a step of ExecutionIntent or leaves its variables alone. *)
LEMMA IntentStep == ASSUME Inv, [Next]_vars PROVE [Intent!Next]_(Intent!vars)
<1> USE DEF Intent!vars
<1>1. CASE UNCHANGED <<control, phase, admits>> BY <1>1
<1>2. ASSUME NEW target \in ControlState, ExecutionSignal(target) PROVE [Intent!Next]_(Intent!vars)
  <2>1. UNCHANGED <<phase, admits>> /\ control'.state = target
    BY <1>2 DEF ExecutionSignal, nodeVars
  <2>2. CASE control.state = "cancel_requested" BY <1>2, <2>1, <2>2 DEF ExecutionSignal
  <2>3. CASE control.state # "cancel_requested"
    <3>1. Intent!Request(target)
      BY <1>2, <2>1, <2>3 DEF ExecutionSignal, Intent!Request, Intent!TerminalPhase,
         TerminalExecutionPhase, TerminalPhase
    <3> QED BY <3>1 DEF Intent!Next, Intent!ControlState, ControlState
  <2> QED BY <2>2, <2>3
<1>3. ASSUME NEW n \in Node, NodeStep(n) \/ Zombie(n) PROVE [Intent!Next]_(Intent!vars)
  <2>1. CASE Admit(n) \/ ZombieAdmitted(n)
    <3>1. UNCHANGED <<control, phase>> /\ admits' = [admits EXCEPT ![n] = @ + 1] /\ Admissible
      BY <2>1 DEF Admit, ZombieAdmitted, nodeOthers, rowVars
    <3>2. Intent!Begin(n)
      BY <3>1 DEF Intent!Begin, Intent!TerminalPhase, Admissible, TerminalExecutionPhase, TerminalPhase
    <3> QED BY <3>2 DEF Intent!Next
  <2>2. CASE ~Admit(n) /\ ~ZombieAdmitted(n)
    <3>1. UNCHANGED <<control, phase, admits>>
      BY <1>3, <2>2 DEF NodeStep, Zombie, NodeGate, NodeGateError, NodeResumes, NodeCancelled,
         Block, BlockedAttempt, AttemptFails, AttemptRejected, Returns, EvalReturns,
         FetchReturns, WorkReturns, ZombieEnds, returnOthers, nodeOthers, rowVars
    <3> QED BY <1>1, <3>1
  <2> QED BY <2>1, <2>2
<1>4. CASE FinalizeExecutionControl
  <2>1. UNCHANGED <<control, admits>> /\ phase' = FinalPhase /\ want \in TerminalPhase
    BY <1>4 DEF FinalizeExecutionControl, finalOthers, nodeVars, Inv, TypeInv, TypeOK
  <2>2. CASE TerminalExecutionPhase(phase) BY <1>1, <2>1, <2>2 DEF FinalPhase
  <2>3. CASE ~TerminalExecutionPhase(phase)
    <3>1. Intent!Settle(want)
      BY <2>1, <2>3 DEF FinalPhase, Intent!Settle, Intent!TerminalPhase, TerminalExecutionPhase,
         TerminalPhase
    <3> QED BY <2>1, <3>1 DEF Intent!Next, Intent!TerminalPhase, TerminalPhase
  <2> QED BY <2>2, <2>3
<1>5. CASE MainStep /\ ~FinalizeExecutionControl
  <2>1. UNCHANGED control
    BY <1>5 DEF MainStep, MainInit, MainReadError, MainGate, MainResumes, MainCancelled, BatchDone,
       CommitReturns, CommitFails, MarkExecution, FinalizeRetried, FinalizeLost, finalOthers,
       mainOthers, rowVars
  <2>2. UNCHANGED phase
    BY <1>5 DEF MainStep, MainInit, MainReadError, MainGate, MainResumes, MainCancelled, BatchDone,
       CommitReturns, CommitFails, MarkExecution, FinalizeRetried, FinalizeLost, mainOthers,
       rowVars, Inv, StructureInv
  <2>3. UNCHANGED admits
    BY <1>5 DEF MainStep, MainInit, MainReadError, MainGate, MainResumes, MainCancelled, BatchDone,
       CommitReturns, CommitFails, MarkExecution, FinalizeRetried, FinalizeLost, finalOthers,
       Proceed, StartBatch, StartCommit, NextGate, Finalize, nodeVars
  <2> QED BY <1>1, <2>1, <2>2, <2>3
<1>6. CASE \/ UNCHANGED vars \/ InsertExecution \/ LaunchFails \/ Dispatcher \/ Watch \/ Finished
           \/ (\E r \in Reader : ReadExecutionControl(r) \/ ReadFails(r))
           \/ (\E c \in {"cursors", "dedupe"} : CommitInDatabase(c))
  <2>1. UNCHANGED <<control, phase, admits>>
    BY <1>6 DEF vars, Finished, InsertExecution, LaunchFails, Dispatcher, DispatchScan,
       DispatchSignal, DispatchAck, DispatchFails, dispatcherOthers, Watch, WatchSignal, WatchPoll,
       WatchApply, WatchError, watchOthers, ReadExecutionControl, ReadFails, readOthers,
       CommitInDatabase, mainOthers, rowVars, nodeVars
  <2> QED BY <1>1, <2>1
<1> QED BY <1>2, <1>3, <1>4, <1>5, <1>6 DEF Next

(* The controlled run implements the API's contract: external calls begin  *)
(* only under a committed active intent, and the run ends once, cancelled  *)
(* whenever that was the intent.                                           *)
THEOREM Refinement == Spec => ImplementsIntent
<1>1. Init => Intent!Init BY DEF Init, Intent!Init
<1>2. Inv /\ [Next]_vars => [Intent!Next]_(Intent!vars) BY IntentStep
<1> QED BY <1>1, <1>2, Invariance, PTL DEF Spec, ImplementsIntent, Intent!Spec

-----------------------------------------------------------------------------
(***************************************************************************)
(* No acknowledged wake-up is lost.  A revision is heard of when the       *)
(* workflow has it, or holds a signal, or its watcher is about to read a   *)
(* row at least as new.  While no read or call has failed this is true of  *)
(* the revision delivered, and of the one the dispatcher has signalled and *)
(* not acknowledged yet.                                                   *)
(***************************************************************************)
Reading(v) == watcher = "read" /\ (read[Watcher].answer = "control" => read[Watcher].revision >= v)
Heard(v) == view.revision >= v \/ signals # {} \/ Reading(v)

WakeInv ==
    /\ read[Watcher].answer = "error" => faults > 0
    /\ dispatcher.stage # "idle" => dispatcher.revision <= control.revision
    /\ delivered <= control.revision
    /\ Open /\ faults = 0 => Heard(delivered)
    /\ Open /\ faults = 0 /\ dispatcher.stage = "ack" => Heard(dispatcher.revision)

(* The numbers WakeInv compares. *)
LEMMA WakeTypes ==
  ASSUME TypeInv
  PROVE  /\ delivered \in Nat /\ control.revision \in Nat /\ dispatcher.revision \in Nat
         /\ view.revision \in Nat /\ faults \in Nat
         /\ \A r \in Reader : read[r].revision \in Nat
  BY BoundsAssumption DEF TypeInv, TypeOK, Revision, Answers

(* And after a step. *)
LEMMA WakeTypesNext ==
  ASSUME TypeInv'
  PROVE  view'.revision \in Nat /\ faults' \in Nat
  BY BoundsAssumption DEF TypeInv, TypeOK, Revision

(* WakeInv after a step that neither delivers nor snapshots a revision, if *)
(* what was heard of stays so.                                             *)
LEMMA WakeCarried ==
  ASSUME TypeInv, TypeInv', WakeInv, UNCHANGED <<control, delivered, dispatcher>>,
         faults' >= faults, Open' => Open, read'[Watcher].answer = "error" => faults' > 0,
         Open' => \A v \in Nat : Heard(v) => Heard(v)'
  PROVE  WakeInv'
<1>1. Open' /\ faults' = 0 => Open /\ faults = 0
  BY WakeTypes, WakeTypesNext
<1>2. delivered \in Nat /\ dispatcher.revision \in Nat
  BY WakeTypes
<1>3. Open' /\ faults' = 0 => Heard(delivered)'
  <2>1. Open' /\ Heard(delivered) => Heard(delivered)'
    BY <1>2 DEF Heard, Reading
  <2> QED BY <1>1, <2>1 DEF WakeInv
<1>4. Open' /\ faults' = 0 /\ dispatcher.stage = "ack" => Heard(dispatcher.revision)'
  <2>1. Open' /\ Heard(dispatcher.revision) => Heard(dispatcher.revision)'
    BY <1>2 DEF Heard, Reading
  <2> QED BY <1>1, <2>1 DEF WakeInv
<1> QED BY <1>3, <1>4 DEF WakeInv

(* WakeInv where the wake-up and the watcher's answer stay as they are. *)
LEMMA WakeKept ==
  ASSUME TypeInv, TypeInv', WakeInv, UNCHANGED <<control, delivered, dispatcher, signals>>,
         read'[Watcher] = read[Watcher],
         Open' => Open /\ (watcher' = watcher \/ watcher # "read"),
         view'.revision >= view.revision, faults' >= faults
  PROVE  WakeInv'
<1>1. ASSUME NEW v \in Nat, Open', Heard(v) PROVE Heard(v)'
  <2>1. view.revision >= v => view'.revision >= v
    BY WakeTypes, WakeTypesNext
  <2> QED BY <1>1, <2>1 DEF Heard, Reading
<1>2. faults > 0 => faults' > 0
  BY WakeTypes, WakeTypesNext
<1>3. read'[Watcher].answer = "error" => faults' > 0
  BY <1>2 DEF WakeInv
<1> QED BY <1>1, <1>3, WakeCarried

(* Only a finalization keeps the run from being open, for good. *)
LEMMA OpenMain ==
  ASSUME TypeInv, StructureInv, MainStep
  PROVE  /\ Open' => Open /\ (watcher' = watcher \/ (watcher # "read" /\ watcher' = "select"))
         /\ Open' => read'[Watcher] = read[Watcher]
         /\ read'[Watcher] = read[Watcher] \/ read'[Watcher] = NoRead
         /\ UNCHANGED <<control, delivered, dispatcher, signals>> /\ faults' >= faults
<1> USE DEF Open, Ended
<1>0. /\ read \in [Reader -> Answers] /\ faults \in Nat /\ Main \in Reader /\ Watcher \in Reader
      /\ Main # Watcher
  BY ReaderCases, WakeTypes DEF TypeInv, TypeOK
<1>1. ASSUME DropReads PROVE read'[Watcher] = NoRead
  BY <1>0, <1>1 DEF DropReads
<1>2. ASSUME read' = [read EXCEPT ![Main] = NoRead] PROVE read'[Watcher] = read[Watcher]
  BY <1>0, <1>2
<1>3. CASE MainInit
  BY <1>0, <1>2, <1>3 DEF MainInit, mainOthers, rowVars, deliveryVars, StructureInv
<1>4. CASE MainReadError \/ MainCancelled \/ CommitFails
  BY <1>0, <1>1, <1>4 DEF MainReadError, MainCancelled, CommitFails, Finalize, mainOthers, rowVars,
     deliveryVars
<1>5. ASSUME Proceed PROVE main' = "final" \/ UNCHANGED watcher
  BY <1>5 DEF Proceed, StartBatch, StartCommit, NextGate, Finalize
<1>6. CASE MainGate \/ MainResumes
  <2>1. UNCHANGED mainOthers /\ main \in {"gate", "await"}
    BY <1>6 DEF MainGate, MainResumes
  <2>2. main' = "final" \/ UNCHANGED watcher
    BY <1>5, <1>6 DEF MainGate, MainResumes, Finalize
  <2>3. \/ main' = "final" /\ read'[Watcher] = NoRead
        \/ read'[Watcher] = read[Watcher]
    BY <1>1, <1>2, <1>6 DEF MainGate, MainResumes, Finalize
  <2> QED BY <1>0, <2>1, <2>2, <2>3 DEF mainOthers, rowVars, deliveryVars
<1>7. CASE BatchDone \/ CommitReturns
  BY <1>0, <1>1, <1>7 DEF BatchDone, CommitReturns, Finalize, NextGate, mainOthers, rowVars,
     deliveryVars
<1>8. CASE FinalizeExecutionControl \/ MarkExecution \/ FinalizeRetried \/ FinalizeLost
  BY <1>0, <1>8 DEF FinalizeExecutionControl, MarkExecution, FinalizeRetried, FinalizeLost, Fault,
     finalOthers, deliveryVars
<1> QED BY <1>3, <1>4, <1>6, <1>7, <1>8 DEF MainStep

(* No step loses a wake-up. *)
LEMMA WakeStep ==
  ASSUME Inv, Inv', WakeInv, [Next]_vars
  PROVE  WakeInv'
<1>1. TypeInv /\ TypeInv' /\ StructureInv /\ IntentInv BY DEF Inv
<1>2. view'.revision >= view.revision BY <1>1, ViewStep
<1>3. read \in [Reader -> Answers] /\ Watcher \in Reader BY <1>1, ReaderCases DEF TypeInv, TypeOK
<1>4. CASE UNCHANGED vars
  BY <1>1, <1>2, <1>4, WakeKept, WakeTypes
     DEF vars, rowVars, deliveryVars, mainVars, Open
<1>5. CASE InsertExecution \/ LaunchFails
  <2>1. UNCHANGED <<control, delivered, dispatcher, signals, read, faults>>
    BY <1>5 DEF InsertExecution, LaunchFails, deliveryVars
  <2>2. Open' => Open /\ watcher' = watcher
    BY <1>5 DEF InsertExecution, LaunchFails, Open, Ended, mainVars
  <2> QED BY <1>1, <1>2, <2>1, <2>2, WakeKept, WakeTypes
<1>6. ASSUME NEW target \in ControlState, ExecutionSignal(target) PROVE WakeInv'
  <2>1. /\ UNCHANGED <<delivered, dispatcher, signals, read, view, watcher, main, faults>>
        /\ control'.revision = control.revision + 1
    BY <1>6 DEF ExecutionSignal, deliveryVars, viewVars, mainVars
  <2>2. /\ delivered <= control'.revision
        /\ dispatcher.stage # "idle" => dispatcher.revision <= control'.revision
    BY <1>1, <2>1, WakeTypes DEF WakeInv
  <2> QED BY <2>1, <2>2 DEF WakeInv, Open, Heard, Reading
<1>7. CASE Dispatcher
  <2>1. UNCHANGED <<control, read, view, watcher, main>>
    BY <1>7 DEF Dispatcher, DispatchScan, DispatchSignal, DispatchAck, DispatchFails,
       dispatcherOthers, viewVars, mainVars
  <2>2. CASE DispatchScan
    BY <1>1, <2>1, <2>2, WakeTypes DEF DispatchScan, WakeInv, Open, Heard, Reading
  <2>3. CASE DispatchSignal
    <3>1. /\ UNCHANGED <<delivered, faults>> /\ signals' = signals \cup Accepted
          /\ dispatcher.stage = "signal" /\ dispatcher' = [dispatcher EXCEPT !.stage = "ack"]
      BY <2>3 DEF DispatchSignal
    <3>2. Open => signals' # {}
      BY <3>1 DEF Open, Accepted
    <3>3. dispatcher'.revision = dispatcher.revision
      BY <1>1, <3>1 DEF TypeInv, TypeOK
    <3> QED BY <2>1, <3>1, <3>2, <3>3 DEF WakeInv, Open, Heard, Reading
  <2>4. CASE DispatchAck
    <3>1. /\ UNCHANGED <<faults, signals>> /\ dispatcher.stage = "ack"
          /\ delivered' \in {delivered, dispatcher.revision} /\ dispatcher'.stage = "idle"
      BY <1>1, <2>4 DEF DispatchAck, Acked, dispatcherOthers, TypeInv, TypeOK
    <3> QED BY <2>1, <3>1 DEF WakeInv, Open, Heard, Reading
  <2>5. CASE DispatchFails
    <3>1. UNCHANGED delivered /\ faults' = faults + 1 /\ dispatcher'.stage = "idle"
      BY <1>1, <2>5 DEF DispatchFails, Fault, dispatcherOthers, TypeInv, TypeOK
    <3> QED BY <1>1, <2>1, <3>1, WakeTypes DEF WakeInv
  <2> QED BY <1>7, <2>2, <2>3, <2>4, <2>5 DEF Dispatcher
<1>8. ASSUME NEW r \in Reader, ReadExecutionControl(r) \/ ReadFails(r) PROVE WakeInv'
  <2>1. UNCHANGED <<control, delivered, dispatcher, signals, view, watcher, main>>
    BY <1>8 DEF ReadExecutionControl, ReadFails, readOthers, rowVars, deliveryVars, viewVars, mainVars
  <2>2. faults' >= faults
    BY <1>1, <1>8, WakeTypes DEF ReadExecutionControl, ReadFails, Fault
  <2>3. CASE r # Watcher
    <3>1. read'[Watcher] = read[Watcher]
      BY <1>3, <1>8, <2>3 DEF ReadExecutionControl, ReadFails
    <3> QED BY <1>1, <1>2, <2>1, <2>2, <3>1, WakeKept DEF Open
  <2>4. CASE r = Watcher /\ ReadExecutionControl(r)
    <3>1. /\ read'[Watcher].answer = "control" /\ read'[Watcher].revision = control.revision
          /\ UNCHANGED faults
      BY <1>3, <2>4 DEF ReadExecutionControl, Answer
    <3>2. watcher = "read"
      BY <2>4, ReaderCases DEF ReadExecutionControl, Awaiting
    <3>3. \A v \in Nat : v <= control.revision => Heard(v)'
      BY <1>1, <2>1, <3>1, <3>2, WakeTypes DEF Heard, Reading
    <3> QED BY <1>1, <2>1, <3>1, <3>3, WakeTypes DEF WakeInv
  <2>5. CASE r = Watcher /\ ReadFails(r)
    <3>1. watcher = "read"
      BY <2>5, ReaderCases DEF ReadFails, Awaiting
    <3>2. launch = "inserted"
      BY <1>1, <3>1 DEF StructureInv
    <3>3. faults' = faults + 1
      BY <2>5, <3>2 DEF ReadFails, Fault
    <3> QED BY <1>1, <2>1, <3>3, WakeTypes DEF WakeInv
  <2> QED BY <1>8, <2>3, <2>4, <2>5
<1>9. CASE Watch
  <2>1. UNCHANGED <<control, delivered, dispatcher, main, faults>>
    BY <1>9 DEF Watch, WatchSignal, WatchPoll, WatchApply, WatchError, watchOthers, rowVars, mainVars
  <2>2. CASE WatchSignal \/ WatchPoll
    <3>1. watcher = "select" /\ watcher' = "read" /\ UNCHANGED read
      BY <2>2 DEF WatchSignal, WatchPoll
    <3>2. \A v : Heard(v)'
      BY <1>1, <3>1 DEF StructureInv, Heard, Reading
    <3> QED BY <2>1, <3>1, <3>2 DEF WakeInv
  <2>3. CASE WatchApply
    <3>1. /\ read[Watcher].answer = "control" /\ Refresh(read[Watcher]) /\ UNCHANGED signals
          /\ read'[Watcher] = NoRead
      BY <1>3, <2>3 DEF WatchApply
    <3>2. view'.revision >= read[Watcher].revision
      BY <1>1, <1>3, <3>1, WakeTypes DEF Refresh, Stale
    <3>3. ASSUME NEW v \in Nat, Heard(v) PROVE Heard(v)'
      <4>1. view.revision >= v => view'.revision >= v
        BY <1>1, <1>2, WakeTypes, WakeTypesNext
      <4>2. read[Watcher].revision >= v => view'.revision >= v
        BY <1>1, <1>3, <3>2, WakeTypes, WakeTypesNext
      <4> QED BY <3>1, <3>3, <4>1, <4>2 DEF Heard, Reading
    <3>4. read'[Watcher].answer # "error"
      BY <3>1, NoReadAnswer
    <3>5. faults' >= faults /\ (Open' => Open)
      BY <1>1, <2>1, WakeTypes DEF Open
    <3> QED BY <1>1, <2>1, <3>3, <3>4, <3>5, WakeCarried
  <2>4. CASE WatchError
    <3>1. read'[Watcher] = NoRead /\ faults > 0
      BY <1>3, <2>4 DEF WatchError, WakeInv
    <3> QED BY <1>1, <2>1, <3>1, NoReadAnswer, WakeTypes DEF WakeInv
  <2> QED BY <1>9, <2>2, <2>3, <2>4 DEF Watch
<1>10. ASSUME NEW n \in Node, NodeStep(n) \/ Zombie(n) PROVE WakeInv'
  <2>1. UNCHANGED nodeOthers
    BY <1>10 DEF NodeStep, Zombie, NodeGate, NodeGateError, NodeResumes, NodeCancelled, Admit,
       Block, BlockedAttempt, AttemptFails, AttemptRejected, Returns, EvalReturns, FetchReturns,
       WorkReturns, ZombieAdmitted, ZombieEnds, returnOthers
  <2>2. UNCHANGED read \/ read' = [read EXCEPT ![n] = NoRead]
    BY <1>10 DEF NodeStep, Zombie, NodeGate, NodeGateError, NodeResumes, NodeCancelled, Admit,
       Block, BlockedAttempt, AttemptFails, AttemptRejected, Returns, EvalReturns, FetchReturns,
       WorkReturns, ZombieAdmitted, ZombieEnds, returnOthers
  <2>3. read'[Watcher] = read[Watcher]
    BY <1>3, <2>2, ReaderCases
  <2> QED
    BY <1>1, <1>2, <2>1, <2>3, WakeKept, WakeTypes
       DEF nodeOthers, rowVars, deliveryVars, mainVars, Open
<1>11. CASE \E c \in {"cursors", "dedupe"} : CommitInDatabase(c)
  BY <1>1, <1>2, <1>11, WakeKept, WakeTypes
     DEF CommitInDatabase, mainOthers, rowVars, deliveryVars, mainVars, Open
<1>12. CASE MainStep
  <2>1. CASE Open'
    BY <1>1, <1>2, <1>12, <2>1, OpenMain, WakeKept
  <2>2. CASE ~Open'
    <3>1. faults > 0 => faults' > 0
      BY <1>1, <1>12, OpenMain, WakeTypes, WakeTypesNext
    <3>2. read'[Watcher].answer = "error" => faults' > 0
      BY <1>1, <1>12, <3>1, OpenMain, NoReadAnswer DEF WakeInv
    <3> QED BY <1>1, <1>12, <2>2, <3>2, OpenMain, WakeCarried
  <2> QED BY <2>1, <2>2
<1> QED BY <1>4, <1>5, <1>6, <1>7, <1>8, <1>9, <1>10, <1>11, <1>12 DEF Next, Finished

(* The dispatcher acknowledges a revision only once a wake-up for it is    *)
(* with the workflow, and no coroutine ever drops one that it has not read.*)
THEOREM WakeupsKept == Spec => []AcknowledgedWakeup
<1>1. Init => WakeInv
  BY ReaderCases, NoReadAnswer, BoundsAssumption DEF Init, WakeInv, Heard
<1>2. Inv /\ Inv' /\ WakeInv /\ [Next]_vars => WakeInv'
  BY WakeStep
<1>3. Inv /\ WakeInv => AcknowledgedWakeup
  <2> SUFFICES ASSUME Inv, WakeInv, delivered = control.revision, view.revision < control.revision,
                      Open, faults = 0
               PROVE  \/ signals # {}
                      \/ watcher = "read" /\ (read[Watcher].answer = "control" =>
                                                 read[Watcher].revision = control.revision)
    BY DEF AcknowledgedWakeup, Open
  <2>1. TypeInv /\ IntentInv /\ Watcher \in Reader
    BY ReaderCases DEF Inv
  <2>2. read[Watcher].answer = "control" => read[Watcher].revision <= control.revision
    BY <2>1 DEF IntentInv, ViewInv
  <2> QED
    BY <2>1, <2>2, WakeTypes DEF WakeInv, Heard, Reading
<1>4. Spec => []WakeInv
  BY <1>1, <1>2, Invariance, PTL DEF Spec
<1> QED BY <1>3, <1>4, Invariance, PTL

=============================================================================
