----------------------------- MODULE LaunchQuota -----------------------------
(***************************************************************************)
(* How an execution of one tenant is launched and paid for: the monthly    *)
(* counter, the start of the workflow and the insertion of its row with    *)
(* their compensation, retries of a failed execution, executions started   *)
(* by a schedule, and the orders that raise the quota.                     *)
(*                                                                         *)
(* Abstractions: a request is the execution it launches; all retries are   *)
(* of the same failed execution; an order is for one unit; the operations  *)
(* on different tenants touch different rows; a month does not end within  *)
(* a transaction.  Every call of a handler may fail, and each on its own:  *)
(* a client that goes away, whose context all of them use, is the case in  *)
(* which the remaining ones do.                                            *)
(***************************************************************************)
EXTENDS Naturals, FiniteSets, FiniteSetsExt

CONSTANTS
    Request, Order,
    Free,         \* free_tier_limit
    PerUnit,      \* executions that one unit adds
    Billing,      \* BILLING_ENABLED
    Faults,       \* which failures occur, out of FaultKinds
    MaxMonth,     \* bound on the months
    MaxAttempts   \* attempts of prepareScheduledExecution

(* A lost answer of what took effect ("consume", "start", "insert"), an    *)
(* ignored error ("terminate", "release"), the end of the process, and     *)
(* attempts of prepareScheduledExecution ("prepare").                      *)
FaultKinds == {"consume", "start", "insert", "terminate", "release", "process", "prepare"}

QuotaAssumption == Free \in Nat /\ PerUnit \in Nat \ {0} /\ MaxMonth \in Nat /\ MaxAttempts \in Nat \ {0}
SwitchAssumption == Billing \in BOOLEAN /\ Faults \subseteq FaultKinds

VARIABLES
    month,     \* the current UTC month
    used,      \* used[m]: usage_counters.execution_count
    extra,     \* billing_plans.extra_quota
    order,     \* order[o]: "none", "asked", "created", "failed" or "paid"
    job,       \* job[q]: where the handler of q is
    kind,      \* kind[q]: "manual", "retry" or "cron"
    attempts,  \* attempts[q] of prepareScheduledExecution
    workflow,  \* workflow[q]: "none", "running", "terminated" or "ended"
    row,       \* row[q]: "none", "running" or "over"
    counted,   \* history: counted[q]: the months in which q was counted
    hit,       \* history: hit[q]: what went wrong for q, "month" if it ended
    repeats    \* history: how often an execution was counted again

vars == <<month, used, extra, order, job, kind, attempts, workflow, row, counted, hit, repeats>>
money == <<used, extra, order, counted, repeats>>
runs == <<workflow, row>>
request == <<kind, attempts>>

Month == 0..MaxMonth
Stages == {"new", "admitted", "counted", "started", "terminate", "release", "prepare", "done"}

TypeOK ==
    /\ month \in Month /\ used \in [Month -> Nat] /\ extra \in Nat
    /\ order \in [Order -> {"none", "asked", "created", "failed", "paid"}]
    /\ job \in [Request -> Stages] /\ kind \in [Request -> {"manual", "retry", "cron"}]
    /\ attempts \in [Request -> 0..MaxAttempts]
    /\ workflow \in [Request -> {"none", "running", "terminated", "ended"}]
    /\ row \in [Request -> {"none", "running", "over"}]
    /\ counted \in [Request -> SUBSET Month] /\ repeats \in Nat
    /\ hit \in [Request -> SUBSET (FaultKinds \cup {"month"})]

Init ==
    /\ month = 0 /\ used = [m \in Month |-> 0] /\ extra = 0
    /\ order = [o \in Order |-> "none"]
    /\ job = [q \in Request |-> "new"] /\ kind = [q \in Request |-> "manual"]
    /\ attempts = [q \in Request |-> 0]
    /\ workflow = [q \in Request |-> "none"] /\ row = [q \in Request |-> "none"]
    /\ counted = [q \in Request |-> {}] /\ hit = [q \in Request |-> {}] /\ repeats = 0

Go(q, from, to) == job[q] = from /\ job' = [job EXCEPT ![q] = to]
Hit(q, fault) == hit' = [hit EXCEPT ![q] = @ \cup {fault}]
Fault(q, fault) == fault \in Faults /\ Hit(q, fault)

MonthEnds == month < MaxMonth /\ month' = month + 1 /\ UNCHANGED <<money, job, request, runs, hit>>

-----------------------------------------------------------------------------
(* fireExecution and its callers.                                          *)

ActiveRetry == \E q \in Request : kind[q] = "retry" /\ row[q] = "running"

PipelineRun(q) ==
    /\ Go(q, "new", "admitted")
    /\ UNCHANGED <<month, money, request, runs, hit>>

ExecutionRetry(q) ==
    /\ Go(q, "new", IF ActiveRetry THEN "done" ELSE "admitted")
    /\ kind' = [kind EXCEPT ![q] = "retry"]
    /\ UNCHANGED <<month, money, attempts, runs, hit>>

HasQuotaAtMost == Billing => used[month] <= Free + extra
HasQuota == Billing => used[month] < Free + extra

Count(q) == used' = [used EXCEPT ![month] = @ + 1] /\ counted' = [counted EXCEPT ![q] = @ \cup {month}]

(* One transaction; the plan and the counter are locked FOR UPDATE.        *)
ConsumeQuota(q) ==
    /\ Go(q, "admitted", "counted") /\ HasQuota /\ Count(q)
    /\ UNCHANGED <<month, extra, order, repeats, request, runs, hit>>

(* The quota is used up, or the transaction fails.                         *)
ConsumeRefused(q) ==
    /\ Go(q, "admitted", "done")
    /\ UNCHANGED <<month, money, request, runs, hit>>

(* It is committed and its answer is lost: the caller gives up.            *)
ConsumeUnknown(q) ==
    /\ Go(q, "admitted", "done") /\ HasQuota /\ Count(q)
    /\ Fault(q, "consume")
    /\ UNCHANGED <<month, extra, order, repeats, request, runs>>

StartWorkflow(q) ==
    /\ Go(q, "counted", "started")
    /\ workflow' = [workflow EXCEPT ![q] = "running"]
    /\ UNCHANGED <<month, money, request, row, hit>>

(* The call fails, and may have started the workflow all the same.         *)
StartFails(q) ==
    /\ Go(q, "counted", "release")
    /\ \/ UNCHANGED <<workflow, hit>>
       \/ Fault(q, "start") /\ workflow' = [workflow EXCEPT ![q] = "running"]
    /\ UNCHANGED <<month, money, request, row>>

NoIndex(q) == TRUE
(* idx_executions_one_active_retry.                                        *)
Insertable(q) == kind[q] = "retry" => ~ActiveRetry

ReleasedAlways == "release"
AfterInsert == "done"
NotTerminated == "release"
AfterFailedInsert == "terminate"

InsertRow(q) ==
    /\ Insertable(q) /\ Go(q, "started", AfterInsert)
    /\ row' = [row EXCEPT ![q] = "running"]
    /\ UNCHANGED <<month, money, request, workflow, hit>>

(* The transaction fails, or it is committed and its answer is lost.       *)
InsertFails(q) ==
    /\ Go(q, "started", AfterFailedInsert)
    /\ \/ UNCHANGED <<row, hit>>
       \/ Insertable(q) /\ Fault(q, "insert") /\ row' = [row EXCEPT ![q] = "running"]
    /\ UNCHANGED <<month, money, request, workflow>>

(* The error of the termination is ignored.                                *)
TerminateWorkflow(q) ==
    /\ Go(q, "terminate", "release")
    /\ \/ workflow' = [workflow EXCEPT ![q] = IF @ = "running" THEN "terminated" ELSE @] /\ UNCHANGED hit
       \/ Fault(q, "terminate") /\ UNCHANGED workflow
    /\ UNCHANGED <<month, money, request, row>>

ReleaseNothing(q) == used
Released(q) == IF used[month] > 0 THEN [used EXCEPT ![month] = @ - 1] ELSE used

(* The counter of the current month, which may not be the one in which q   *)
(* was counted.  The error is ignored.                                     *)
ReleaseQuota(q) ==
    /\ Go(q, "release", "done")
    /\ \/ used' = Released(q) /\ IF month \in counted[q] THEN UNCHANGED hit ELSE Hit(q, "month")
       \/ Fault(q, "release") /\ UNCHANGED used
    /\ UNCHANGED <<month, extra, order, counted, repeats, request, runs>>

(* The process stops; nothing resumes the handler.                         *)
Crash(q) ==
    /\ job[q] \notin {"new", "prepare", "done"} /\ job' = [job EXCEPT ![q] = "done"]
    /\ Fault(q, "process")
    /\ UNCHANGED <<month, money, request, runs>>

(* A workflow without a row gives up; it does nothing while the row may    *)
(* still come.  The other way to end is finalization, which closes the row.*)
WorkflowEnds(q) ==
    /\ workflow[q] = "running" /\ job[q] \in {"terminate", "release", "done"}
    /\ workflow' = [workflow EXCEPT ![q] = "ended"]
    /\ row' = [row EXCEPT ![q] = IF @ = "running" THEN "over" ELSE @]
    /\ UNCHANGED <<month, money, job, request, hit>>

-----------------------------------------------------------------------------
(* A schedule starts the workflow, which prepares its own execution.       *)

ScheduleFires(q) ==
    /\ Go(q, "new", "prepare")
    /\ kind' = [kind EXCEPT ![q] = "cron"]
    /\ workflow' = [workflow EXCEPT ![q] = "running"]
    /\ UNCHANGED <<month, money, attempts, row, hit>>

(* The transaction: the counter is raised, also when the row is there.     *)
Prepared(q) ==
    /\ HasQuota /\ Count(q)
    /\ row' = [row EXCEPT ![q] = "running"]
    /\ repeats' = IF counted[q] = {} THEN repeats ELSE repeats + 1

PrepareScheduledExecution(q) ==
    /\ Go(q, "prepare", "done") /\ Prepared(q)
    /\ UNCHANGED <<month, extra, order, request, workflow, hit>>

(* An attempt fails, or its transaction is committed and its answer lost.  *)
(* The activity runs again, or the workflow ends after the last attempt.   *)
PrepareFails(q) ==
    /\ "prepare" \in Faults
    /\ attempts' = [attempts EXCEPT ![q] = @ + 1]
    /\ Prepared(q) \/ UNCHANGED <<used, counted, row, repeats>>
    /\ IF attempts[q] + 1 < MaxAttempts
       THEN Go(q, "prepare", "prepare") /\ UNCHANGED workflow
       ELSE Go(q, "prepare", "done") /\ workflow' = [workflow EXCEPT ![q] = "ended"]
    /\ UNCHANGED <<month, extra, order, kind, hit>>

(* QuotaExceededError is not retried, and the workflow returns the error.  *)
PrepareRefused(q) ==
    /\ ~HasQuota /\ Go(q, "prepare", "done")
    /\ workflow' = [workflow EXCEPT ![q] = "ended"]
    /\ UNCHANGED <<month, money, request, row, hit>>

-----------------------------------------------------------------------------
(* billingOrder and billingWebhook.                                        *)

Pay(o, from, to) == order[o] \in from /\ order' = [order EXCEPT ![o] = to]

(* Razorpay knows the order before its row is inserted.                    *)
BillingOrder(o) ==
    /\ Pay(o, {"none"}, "asked") \/ Pay(o, {"asked"}, "created")
    /\ UNCHANGED <<month, used, extra, counted, repeats, job, request, runs, hit>>

PayableTwice == {"created", "failed", "paid"}
Payable == {"created", "failed"}

(* payment.captured and order.paid, each any number of times, in any order *)
(* with payment.failed: the status is read FOR UPDATE.                     *)
PaymentCaptured(o) ==
    /\ Pay(o, Payable, "paid")
    /\ extra' = extra + PerUnit
    /\ UNCHANGED <<month, used, counted, repeats, job, request, runs, hit>>

PaymentFailed(o) ==
    /\ Pay(o, {"created"}, "failed")
    /\ UNCHANGED <<month, used, extra, counted, repeats, job, request, runs, hit>>

Launch(q) ==
    \/ PipelineRun(q) \/ ExecutionRetry(q) \/ ConsumeQuota(q) \/ ConsumeRefused(q) \/ ConsumeUnknown(q)
    \/ StartWorkflow(q) \/ StartFails(q) \/ InsertRow(q) \/ InsertFails(q)
    \/ TerminateWorkflow(q) \/ ReleaseQuota(q)
    \/ ScheduleFires(q) \/ PrepareScheduledExecution(q) \/ PrepareFails(q) \/ PrepareRefused(q)

Next ==
    \/ \E q \in Request : Launch(q) \/ Crash(q) \/ WorkflowEnds(q)
    \/ \E o \in Order : BillingOrder(o) \/ PaymentCaptured(o) \/ PaymentFailed(o)
    \/ MonthEnds

Spec == Init /\ [][Next]_vars

-----------------------------------------------------------------------------
(* Properties.                                                             *)

(* The counter of a month never passes what the tenant may run, however    *)
(* launches, schedules, releases and payments interleave.                  *)
WithinQuota == Billing => \A m \in Month : used[m] <= Free + extra

HitBy(faults) == {q \in Request : hit[q] \cap faults # {}}
InMonth(m) == {q \in Request : row[q] # "none" /\ m \in counted[q]}

(* "Usage is always counted": no month has more runs than its counter, but *)
(* for launches whose inserted row was taken for failed, or whose month    *)
(* ended before their unit was given back.                                 *)
UsageIsCounted ==
    \A m \in Month : Cardinality(InMonth(m)) <= used[m] + Cardinality(HitBy({"insert", "month"}))

(* Two requests that both saw no active retry do not both get a row.       *)
OneActiveRetry == Cardinality({q \in Request : kind[q] = "retry" /\ row[q] = "running"}) <= 1

(* Duplicated and reordered calls of Razorpay add each order's unit once,  *)
(* and what was paid stays paid.                                           *)
PaidOnce == extra = PerUnit * Cardinality({o \in Order : order[o] = "paid"})

(* "if metadata insertion fails, the API terminates the just-started       *)
(* workflow": a launch that ended without a row has no workflow running,   *)
(* unless the start was taken for failed, the termination failed or the    *)
(* process stopped.                                                        *)
Compensated == \A q \in Request :
    job[q] = "done" /\ row[q] = "none" /\ workflow[q] = "running" =>
        q \in HitBy({"start", "terminate", "process"})

(* "Free tier: 5 executions" can be used up only by executions: once       *)
(* nothing is under way, the counter exceeds the runs by one for each      *)
(* launch whose unit could not be given back, and for each repeated count. *)
Settled ==
    (\A q \in Request : job[q] \in {"new", "done"}) =>
        \A m \in Month : used[m] <= Cardinality(InMonth(m)) + repeats
                            + Cardinality(HitBy({"consume", "release", "process", "month"}))

=============================================================================
