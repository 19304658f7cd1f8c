------------------------------ MODULE NodeRuns ------------------------------
(***************************************************************************)
(* One node of a run: the activities the workflow calls for it (a page     *)
(* after a page and their consolidation for a source, one call for the     *)
(* others), the attempts Temporal makes of each call, the payloads they    *)
(* write and the node_runs row they leave.  An attempt can fail before or  *)
(* after each of its writes; its answer can be lost after all of them; and *)
(* when the workers overlap, an attempt that was given up runs on beside   *)
(* its successor.  A record is <<attempt, position>>, so that what two     *)
(* attempts read or computed differs.                                      *)
(***************************************************************************)
EXTENDS Naturals, Sequences, SequencesExt, TLC

CONSTANTS
    Kind,          \* "source", "merge" or "dispatch"
    Pages,         \* records of each page of the source, or of each input
    MaxAttempts,   \* RetryPolicy.MaximumAttempts
    Overlap,       \* TRUE: an attempt that timed out may still be running
    MaxPayload,    \* MAX_PAYLOAD_BYTES
    MaxMerge,      \* MAX_MERGE_INMEMORY_BYTES
    Strategy       \* merge strategy: "concat" or one that needs every input

NodeRunsAssumption ==
    /\ Kind \in {"source", "merge", "dispatch"}
    /\ Pages \in Seq(Nat) /\ Len(Pages) > 0
    /\ MaxAttempts \in Nat \ {0} /\ Overlap \in BOOLEAN
    /\ MaxPayload \in Nat /\ MaxMerge \in Nat

VARIABLES
    row,      \* the node_runs row
    store,    \* payloads by key
    atts,     \* attempts made, of all the calls
    step,     \* the call the workflow waits for
    tries,    \* attempts of that call
    refs,     \* refs the workflow holds
    node,     \* "running", "success" or "failed"
    output,   \* the result's OutputRef
    cause,    \* why the node failed
    answered, \* records of the answers the workflow accepted
    dropped   \* a write of node_runs was lost (its error is ignored)

vars == <<row, store, atts, step, tries, refs, node, output, cause, answered, dropped>>

NoRow == [status |-> "none", count |-> 0, attempt |-> 0]

Consolidate == Len(Pages) + 1

\* Bytes of a JSON array of n records of one byte.
Size(n) == IF n = 0 THEN 2 ELSE 2 * n + 1

Given(p) == [j \in 1 .. Pages[p] |-> <<0, 10 * p + j>>]

Inputs == IF Kind = "source" THEN <<>> ELSE [p \in 1 .. Len(Pages) |-> Given(p)]

Init ==
    /\ row = NoRow
    /\ store = Inputs
    /\ refs = [p \in 1 .. Len(Inputs) |-> p]
    /\ answered = IF Kind = "merge" THEN FlattenSeq(Inputs) ELSE <<>>
    /\ step = IF Kind = "source" THEN 1 ELSE Consolidate
    /\ atts = <<>> /\ tries = 0
    /\ node = "running" /\ output = 0 /\ cause = "none" /\ dropped = FALSE

----------------------------------------------------------------------------
(* recordNodeRun: INSERT ... ON CONFLICT (execution_id, node_id) DO UPDATE *)
AlwaysAdded(status, count, append) == row.count + count

RecordCount(status, count, append) ==
    IF row.status = "failed" \/ ~ append THEN count ELSE row.count + count

SuccessSticks(status, count, append) ==
    [status  |-> IF row.status = "success" THEN "success" ELSE status,
     count   |-> RecordCount(status, count, append),
     attempt |-> row.attempt + 1]

RecordNodeRun(status, count, append) ==
    [status  |-> status,
     count   |-> RecordCount(status, count, append),
     attempt |-> IF row = NoRow THEN 1
                 ELSE row.attempt + (IF row.status = "failed" THEN 1 ELSE 0)]

\* The statement may fail, and its error is ignored.
Recorded(status, count, append) ==
    \/ row' = RecordNodeRun(status, count, append) /\ UNCHANGED dropped
    \/ UNCHANGED row /\ dropped' = TRUE

\* A fresh object key or row id for every write.
PayloadKey(a) == Len(store) + 1

PayloadWrite(a, records) ==
    LET k == PayloadKey(a)
    IN  IF k > Len(store) THEN Append(store, records) ELSE [store EXCEPT ![k] = records]

Readable(k) == Size(Len(store[k])) <= MaxPayload

Oversized == FoldSeq(LAMBDA k, sum : sum + Size(Len(store[k])), 0, refs) > MaxMerge

\* streamConcatMerge stops as soon as the spilled output exceeds the limit.
StreamFits == Size(Len(FlattenSeq([i \in 1 .. Len(refs) |-> store[refs[i]]]))) <= MaxMerge

MergeAccepted == Oversized => Strategy = "concat" /\ StreamFits

----------------------------------------------------------------------------
Of(a) == IF Kind = "dispatch" THEN "dispatch"
         ELSE IF atts[a].call = Consolidate THEN "merge" ELSE "page"

Stage(a, s) == [atts EXCEPT ![a].stage = s]

\* Temporal schedules the next attempt of the call the workflow waits for.
Attempt ==
    /\ node = "running" /\ tries < MaxAttempts
    /\ \A a \in 1 .. Len(atts) : ~ atts[a].live
    /\ atts' = Append(atts, [call |-> step, stage |-> "started", live |-> TRUE,
                             key |-> 0, wrote |-> <<>>])
    /\ tries' = tries + 1
    /\ UNCHANGED <<row, store, step, refs, node, output, cause, answered, dropped>>

\* An attempt ends with an error: the next one follows, or the node fails.
Fail(a, why, retryable) ==
    /\ atts' = [atts EXCEPT ![a].stage = "ended", ![a].live = FALSE]
    /\ IF atts[a].live /\ (~ retryable \/ tries = MaxAttempts)
       THEN node' = "failed" /\ cause' = why
       ELSE UNCHANGED <<node, cause>>
    /\ UNCHANGED <<store, step, tries, refs, output, answered>>

\* requireEntitlement, verifyConnectorOwnership: not retryable, nothing recorded.
Refused(a) ==
    /\ atts[a].stage = "started" /\ Of(a) # "merge"
    /\ Fail(a, "refused", FALSE)
    /\ UNCHANGED <<row, dropped>>

\* The handler, the source or the read of the input fails; the row says so.
HandlerFails(a) ==
    /\ atts[a].stage = "started"
    /\ \E retryable \in BOOLEAN : Fail(a, "handler", retryable)
    /\ Recorded("failed", 0, FALSE)

\* PayloadTooLargeError is permanent.
TooLarge(a) ==
    /\ atts[a].stage = "started" /\ Of(a) # "page"
    /\ \E i \in 1 .. Len(refs) : ~ Readable(refs[i])
    /\ Of(a) = "merge" /\ Oversized => Strategy = "concat"
    /\ Fail(a, "handler", FALSE)
    /\ Recorded("failed", 0, FALSE)

\* MergeRefs refuses inputs over the limit, or the stream exceeds it.
MergeLimit(a) ==
    /\ atts[a].stage = "started" /\ Of(a) = "merge"
    /\ ~ MergeAccepted
    /\ Fail(a, "merge-limit", TRUE)
    /\ Recorded("failed", 0, FALSE)

Reversed(a) ==
    IF Of(a) = "merge" THEN FlattenSeq([i \in 1 .. Len(refs) |-> store[Reverse(refs)[i]]])
    ELSE [j \in 1 .. Pages[IF Of(a) = "page" THEN atts[a].call ELSE 1] |-> <<a, j>>]

\* What the attempt computes; a handler without output (a sink) writes nothing
\* and is left out, its row counts the records of its input.
Computed(a) ==
    IF Of(a) = "merge" THEN FlattenSeq([i \in 1 .. Len(refs) |-> store[refs[i]]])
    ELSE [j \in 1 .. Pages[IF Of(a) = "page" THEN atts[a].call ELSE 1] |-> <<a, j>>]

\* The page is fetched, the inputs merged or the handler run; the payload is written.
Write(a) ==
    /\ atts[a].stage = "started"
    /\ Of(a) # "page" => \A i \in 1 .. Len(refs) : Readable(refs[i])
    /\ Of(a) = "merge" => MergeAccepted
    /\ store' = PayloadWrite(a, Computed(a))
    /\ atts' = [atts EXCEPT ![a].stage = "written", ![a].key = PayloadKey(a),
                            ![a].wrote = Computed(a)]
    /\ UNCHANGED <<row, step, tries, refs, node, output, cause, answered, dropped>>

\* Payloads.Write fails: recorded by a merge, by the others not.
WriteFails(a) ==
    /\ atts[a].stage = "started"
    /\ Fail(a, IF Of(a) = "merge" THEN "handler" ELSE "write", TRUE)
    /\ IF Of(a) = "merge" THEN Recorded("failed", 0, FALSE) ELSE UNCHANGED <<row, dropped>>

\* The row is updated: pages append, the others replace.
Record(a) ==
    /\ atts[a].stage = "written"
    /\ Recorded("success", Len(atts[a].wrote), Of(a) = "page")
    /\ atts' = Stage(a, "recorded")
    /\ UNCHANGED <<store, step, tries, refs, node, output, cause, answered>>

\* The workflow gets the answer: a page goes to refs, anything else ends the node.
Answer(a) ==
    /\ atts[a].stage = "recorded" /\ atts[a].live
    /\ atts' = [atts EXCEPT ![a].stage = "ended", ![a].live = FALSE]
    /\ tries' = 0
    /\ IF Of(a) = "page"
       THEN /\ refs' = Append(refs, atts[a].key)
            /\ answered' = answered \o atts[a].wrote
            /\ IF step = 1 /\ Len(Pages) = 1
               THEN node' = "success" /\ output' = atts[a].key /\ UNCHANGED step
               ELSE step' = step + 1 /\ UNCHANGED <<node, output>>
       ELSE /\ node' = "success" /\ output' = atts[a].key
            /\ answered' = IF Kind = "dispatch" THEN atts[a].wrote ELSE answered
            /\ UNCHANGED <<refs, step>>
    /\ UNCHANGED <<row, store, cause, dropped>>

\* The worker dies, or the answer or the heartbeat is lost, and Temporal gives up.
Lost(a) ==
    /\ atts[a].live
    /\ atts' = [atts EXCEPT ![a].live = FALSE,
                            ![a].stage = IF Overlap THEN @ ELSE "ended"]
    /\ IF tries = MaxAttempts THEN node' = "failed" /\ cause' = "timeout"
                              ELSE UNCHANGED <<node, cause>>
    /\ UNCHANGED <<row, store, step, tries, refs, output, answered, dropped>>

Next ==
    \/ Attempt
    \/ \E a \in 1 .. Len(atts) :
          \/ Refused(a) \/ HandlerFails(a) \/ TooLarge(a) \/ MergeLimit(a)
          \/ Write(a) \/ WriteFails(a) \/ Record(a) \/ Answer(a) \/ Lost(a)

Spec == Init /\ [][Next]_vars

----------------------------------------------------------------------------
Stages == {"started", "written", "recorded", "ended"}

(* Every variable keeps its type; a result names a payload that was        *)
(* written, and at most one attempt is awaited.                            *)
TypeOK ==
    /\ row \in [status : {"none", "success", "failed"}, count : Nat, attempt : Nat]
    /\ \A a \in 1 .. Len(atts) : /\ atts[a].call \in 1 .. Consolidate
                                 /\ atts[a].stage \in Stages
                                 /\ atts[a].live => a = Len(atts)
    /\ step \in 1 .. Consolidate /\ tries \in 0 .. MaxAttempts
    /\ \A i \in 1 .. Len(refs) : refs[i] \in 1 .. Len(store)
    /\ node \in {"running", "success", "failed"}
    /\ output \in 0 .. Len(store) /\ (node = "success") = (output # 0)
    /\ node = "failed" => cause # "none"
    /\ dropped \in BOOLEAN

(* recordNodeRun: however pages were retried and recorded before, when the *)
(* node has succeeded its row says so and counts the records of its output *)
(* once ("replaces the total instead of counting every source record       *)
(* twice"), unless the write of the row was itself lost.                   *)
SuccessCounted ==
    node = "success" /\ ~ dropped =>
        row.status = "success" /\ row.count = Len(store[output])

(* A node that failed by its handler has a failed row, which the failure   *)
(* alert of MarkExecution reads, even when pages before it succeeded.      *)
FailureVisible ==
    node = "failed" /\ cause \in {"handler", "merge-limit"} /\ ~ dropped => row.status = "failed"

(* Attempts overlap, and what they compute differs: the node's output is   *)
(* what the answered attempts wrote, page after page, never what a stale   *)
(* attempt wrote before or after.                                          *)
OutputIsAnswered == node = "success" => store[output] = answered

=============================================================================
