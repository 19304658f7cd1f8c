---------------------------- MODULE StreamDirect ----------------------------
(***************************************************************************)
(* The stream-direct engine: StreamDirectWorkflow loops over fetch, nodes  *)
(* and offset commit, and continues as a new Temporal run after            *)
(* ContinueAfter iterations.  Executions of one pipeline share the offsets *)
(* in connector_state.  Control requests reach the workflow as signals of  *)
(* the dispatcher, which names the run id stored when the execution was    *)
(* launched.  Offsets count from 1; a partition p holds 1..HighWater[p].   *)
(* Sources read from startPosition earliest, the default.                  *)
(***************************************************************************)
EXTENDS Integers, FiniteSets

CONSTANTS
    Execution, Partition,
    HighWater,      \* [Partition -> Nat]: the records produced
    Page,           \* pageSize
    ContinueAfter,  \* streamContinueAfter
    MaxRequests,    \* bound: control requests
    MaxFaults       \* bound: activities that exhaust their retries, and ignored errors

StreamAssumption ==
    /\ HighWater \in [Partition -> Nat] /\ Page \in Nat \ {0} /\ ContinueAfter \in Nat \ {0}
    /\ MaxRequests \in Nat /\ MaxFaults \in Nat

VARIABLES
    cursor,     \* offsets in connector_state: last offset read, known partitions only
    sunk,       \* records the sink has written
    wf,         \* the open run of each workflow
    row,        \* the executions row
    faults

vars == <<cursor, sunk, wf, row, faults>>

Record == UNION {{p} \X (1..HighWater[p]) : p \in Partition}
None == [p \in {} |-> 0]
NoSignals == [pause |-> 0, resume |-> 0, cancel |-> 0]
States == {"active", "paused", "cancel_requested"}
SignalOf == [active |-> "resume", paused |-> "pause", cancel_requested |-> "cancel"]

FreshRun(n) == [run |-> n, pc |-> "top", iteration |-> 0, paused |-> FALSE,
                pending |-> NoSignals, from |-> None, upto |-> None]

Init ==
    /\ cursor = None /\ sunk = {} /\ faults = 0
    /\ wf = [e \in Execution |-> FreshRun(1)]
    /\ row = [e \in Execution |-> [phase |-> "running", control |-> "active",
                                   revision |-> 0, delivered |-> 0, undeliverable |-> FALSE]]

Move(e, pc) == wf' = [wf EXCEPT ![e].pc = pc]
Fault == faults < MaxFaults /\ faults' = faults + 1

-----------------------------------------------------------------------------
AfterDeafDrain(w) ==
    LET paused == w.pending.pause > w.pending.resume
    IN  [w EXCEPT !.paused = paused, !.pending = NoSignals, !.pc = IF paused THEN "paused" ELSE "fetch"]

(* drainSignals, then the tests of Paused and Cancelled.  All the pauses   *)
(* are drained before the resumes.                                         *)
AfterDrain(w) ==
    LET paused == IF w.pending.resume > 0 THEN FALSE
                  ELSE w.pending.pause > 0 \/ w.paused
    IN  [w EXCEPT !.paused = paused, !.pending = NoSignals,
                  !.pc = IF w.pending.cancel > 0 THEN "cancel"
                         ELSE IF paused THEN "paused" ELSE "fetch"]

Drain(e) ==
    /\ wf[e].pc = "top" /\ wf[e].iteration < ContinueAfter
    /\ wf' = [wf EXCEPT ![e] = AfterDrain(wf[e])]
    /\ UNCHANGED <<cursor, sunk, row, faults>>

(* The selector prefers resume, which was registered first.                *)
WaitResume(e) ==
    /\ wf[e].pc = "paused"
    /\ \/ /\ wf[e].pending.resume > 0
          /\ wf' = [wf EXCEPT ![e].paused = FALSE, ![e].pending.resume = @ - 1, ![e].pc = "fetch"]
       \/ /\ wf[e].pending.resume = 0 /\ wf[e].pending.cancel > 0
          /\ Move(e, "cancel")
    /\ UNCHANGED <<cursor, sunk, row, faults>>

(* markExecution's error is ignored: the row may keep its phase.           *)
Cancel(e) ==
    /\ wf[e].pc = "cancel"
    /\ Move(e, "ended")
    /\ \/ row' = [row EXCEPT ![e].phase = "cancelled"] /\ UNCHANGED faults
       \/ Fault /\ UNCHANGED row
    /\ UNCHANGED <<cursor, sunk>>

SameOffset(cur, p) == IF p \in DOMAIN cur THEN cur[p] ELSE 1
NextOffset(cur, p) == IF p \in DOMAIN cur THEN cur[p] + 1 ELSE 1

(* kafkaFetch: once the cursor holds an offset, only the partitions in it  *)
(* are consumed; a page holds up to Page records of any of them.           *)
Consumed(cur) == IF cur = None THEN Partition ELSE DOMAIN cur
Available(cur, p) == HighWater[p] - NextOffset(cur, p) + 1
Pages(cur) ==
    {n \in [Consumed(cur) -> 0..Page] :
        LET total == Cardinality({r \in Partition \X (1..Page) : r[1] \in Consumed(cur) /\ r[2] <= n[r[1]]})
        IN  /\ \A p \in Consumed(cur) : n[p] = 0 \/ n[p] <= Available(cur, p)
            /\ total <= Page
            /\ (\E p \in Consumed(cur) : Available(cur, p) > 0) => total > 0}

NextIteration(e) == [wf EXCEPT ![e].pc = "top", ![e].iteration = @ + 1, ![e].from = None, ![e].upto = None]

Fetched(e, cur, n) ==
    LET read == {p \in Consumed(cur) : n[p] > 0}
    IN  [wf EXCEPT ![e].pc = "nodes",
                   ![e].from = [p \in read |-> NextOffset(cur, p)],
                   ![e].upto = [p \in read |-> NextOffset(cur, p) + n[p] - 1]]

(* The error of reading the cursor is ignored: the page begins as if there *)
(* were none.  A broker that does not answer in time makes an empty page.  *)
FetchSourcePage(e) ==
    /\ wf[e].pc = "fetch"
    /\ \/ \E n \in Pages(cursor) : wf' = Fetched(e, cursor, n) /\ UNCHANGED faults
       \/ Fault /\ \E n \in Pages(None) : wf' = Fetched(e, None, n)
       \/ Fault /\ wf' = [wf EXCEPT ![e].pc = "nodes", ![e].from = None, ![e].upto = None]
       \/ Fault /\ wf' = NextIteration(e)
    /\ UNCHANGED <<cursor, sunk, row>>

Batch(e) == {r \in Record : r[1] \in DOMAIN wf[e].upto /\ r[2] \in wf[e].from[r[1]]..wf[e].upto[r[1]]}

RunNodesForgiving(e) ==
    /\ wf[e].pc = "nodes"
    /\ Move(e, "commit")
    /\ \/ sunk' = sunk \cup Batch(e) /\ UNCHANGED faults
       \/ Fault /\ \E part \in SUBSET Batch(e) : sunk' = sunk \cup part
    /\ UNCHANGED <<cursor, row>>

(* The transforms and the sink; a failed sink may have written a part.     *)
RunNodes(e) ==
    /\ wf[e].pc = "nodes"
    /\ \/ sunk' = sunk \cup Batch(e) /\ Move(e, "commit") /\ UNCHANGED faults
       \/ /\ Fault /\ wf' = NextIteration(e)
          /\ \E part \in SUBSET Batch(e) : sunk' = sunk \cup part
    /\ UNCHANGED <<cursor, row>>

(* CommitSourceCursors keeps, for every partition, the larger offset.      *)
Overwrite(old, new) == [p \in DOMAIN old \cup DOMAIN new |-> IF p \in DOMAIN new THEN new[p] ELSE old[p]]
MergeOffsets(old, new) ==
    [p \in DOMAIN old \cup DOMAIN new |->
        IF p \in DOMAIN new /\ (p \notin DOMAIN old \/ new[p] > old[p]) THEN new[p] ELSE old[p]]

CommitSourceCursors(e) ==
    /\ wf[e].pc = "commit"
    /\ \/ cursor # None /\ cursor' = MergeOffsets(cursor, wf[e].upto) /\ wf' = NextIteration(e)
          /\ UNCHANGED faults
       \/ cursor = None /\ Move(e, "insert") /\ UNCHANGED <<cursor, faults>>
       \/ Fault /\ wf' = NextIteration(e) /\ UNCHANGED cursor
    /\ UNCHANGED <<sunk, row>>

(* FOR UPDATE locks nothing while there is no row: a commit that saw none  *)
(* replaces whatever another execution has inserted in the meantime.       *)
InsertSourceCursors(e) ==
    /\ wf[e].pc = "insert"
    /\ \/ wf' = NextIteration(e) /\ UNCHANGED faults
       \/ Fault /\ wf' = NextIteration(e)
    /\ cursor' = wf[e].upto
    /\ UNCHANGED <<sunk, row>>

(* The signals nobody has drained stay behind in the run that ends.        *)
ContinueAsNew(e) ==
    /\ wf[e].pc = "top" /\ wf[e].iteration = ContinueAfter
    /\ wf' = [wf EXCEPT ![e] = FreshRun(IF wf[e].run = 1 THEN 2 ELSE wf[e].run)]
    /\ UNCHANGED <<cursor, sunk, row, faults>>

Workflow(e) ==
    \/ Drain(e) \/ WaitResume(e) \/ Cancel(e) \/ FetchSourcePage(e) \/ RunNodes(e)
    \/ CommitSourceCursors(e) \/ InsertSourceCursors(e) \/ ContinueAsNew(e)

-----------------------------------------------------------------------------
(* executionSignal, and the dispatcher with its pinned run id 1.           *)
Request(e, state) ==
    /\ row[e].phase = "running" /\ row[e].revision < MaxRequests
    /\ row[e].control # "cancel_requested" \/ state = "cancel_requested"
    /\ row[e].control # state \/ row[e].revision = 0
    /\ row' = [row EXCEPT ![e].control = state, ![e].revision = @ + 1]
    /\ UNCHANGED <<cursor, sunk, wf, faults>>

(* A signal whose answer or acknowledgement is lost is sent again.         *)
Dispatch(e) ==
    /\ row[e].phase = "running" /\ row[e].delivered < row[e].revision
    /\ \/ /\ wf[e].run = 1 /\ wf[e].pc # "ended"
          /\ wf' = [wf EXCEPT ![e].pending[SignalOf[row[e].control]] = @ + 1]
          /\ \/ row' = [row EXCEPT ![e].delivered = row[e].revision] /\ UNCHANGED faults
             \/ Fault /\ UNCHANGED row
       \/ /\ ~(wf[e].run = 1 /\ wf[e].pc # "ended")
          /\ row' = [row EXCEPT ![e].delivered = row[e].revision, ![e].undeliverable = TRUE]
          /\ UNCHANGED <<wf, faults>>
    /\ UNCHANGED <<cursor, sunk>>

Next == \E e \in Execution : Workflow(e) \/ Dispatch(e) \/ \E s \in States : Request(e, s)

Spec == Init /\ [][Next]_vars
FairSpec == Spec /\ \A e \in Execution : WF_vars(Workflow(e))

-----------------------------------------------------------------------------

(* Types; a batch lies inside the log, and a paused run is at a gate.      *)
TypeOK ==
    /\ DOMAIN cursor \subseteq Partition
    /\ \A p \in DOMAIN cursor : cursor[p] \in 1..HighWater[p]
    /\ sunk \subseteq Record /\ faults \in 0..MaxFaults
    /\ \A e \in Execution :
        /\ wf[e].iteration \in 0..ContinueAfter
        /\ \A p \in DOMAIN wf[e].upto : wf[e].upto[p] <= HighWater[p]
        /\ wf[e].paused => wf[e].pc \in {"paused", "cancel", "ended"}
        /\ row[e].delivered <= row[e].revision

(* No record is skipped: every offset up to the committed one has been     *)
(* written by the sink, although batches fail half way, commits are lost,  *)
(* and several executions of the pipeline read and commit in any order.    *)
NothingSkipped == \A p \in DOMAIN cursor : \A o \in 1..cursor[p] : <<p, o>> \in sunk

(* A commit never moves an offset back, nor forgets a partition: a slower  *)
(* execution does not make the next one read old records again.  The first *)
(* commits of a pipeline are the exception: one that saw no row overwrites *)
(* another.                                                                *)
OffsetsAdvance ==
    (\A e \in Execution : wf[e].pc # "insert") =>
        \A p \in DOMAIN cursor : p \in DOMAIN cursor' /\ cursor'[p] >= cursor[p]

(* A cancel signal that is in the channel before the last drain of its run *)
(* ends the workflow.                                                      *)
CancelHeard ==
    \A e \in Execution :
        (wf[e].pending.cancel > 0 /\ wf[e].iteration < ContinueAfter - 1) ~> wf[e].pc = "ended"

(* The records of a partition that was read once are all written in the    *)
(* end, unless the executions are cancelled or stay paused.                *)
Drained ==
    \A p \in Partition :
        p \in DOMAIN cursor ~>
            \/ \A o \in 1..HighWater[p] : <<p, o>> \in sunk
            \/ \A e \in Execution : wf[e].pc \in {"paused", "ended"}

(* A control request is given up as undeliverable only when the workflow   *)
(* no longer exists.                                                       *)
UndeliverableIsGone == \A e \in Execution : row[e].undeliverable => wf[e].pc = "ended"

=============================================================================
