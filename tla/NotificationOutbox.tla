------------------------- MODULE NotificationOutbox -------------------------
(***************************************************************************)
(* Pipeline alerts and the notification outbox: a failed run raises an     *)
(* alert, users acknowledge, resolve and retry, and dispatcher replicas    *)
(* post due rows inside a transaction that holds their row locks.  The     *)
(* OpenLineage outbox is drained by the same code with other constants.    *)
(*                                                                         *)
(* Abstractions: next_attempt_at is the time left until it, counted down   *)
(* by Tick; which due rows a full batch prefers is left open; an alert has *)
(* at most one notification row and is named like it.                      *)
(***************************************************************************)
EXTENDS Integers, FiniteSets

CONSTANTS
    Alert,        \* alert ids
    PipelineOf,   \* PipelineOf[a]: the pipeline the alert belongs to
    Queued,       \* alerts that have a row in the outbox
    Dispatcher,   \* activity worker replicas
    MaxAttempts,  \* 10 in the code
    Base, Cap,    \* retryDelay: 30 (alerts) or 10 (lineage), and 3600
    Limit,        \* rows of a batch: 5 (alerts) or 20 (lineage)
    MaxRetries,   \* bound on manual retries
    MaxFaults     \* bound on lost transactions and connections

OutboxAssumption ==
    /\ Queued \subseteq Alert
    /\ {MaxAttempts, Base, Cap, Limit} \subseteq Nat \ {0}
    /\ {MaxRetries, MaxFaults} \subseteq Nat

VARIABLES
    status,   \* pipeline_alerts.status, "none" before the insert
    row,      \* row[a]: attempts, wait (until next_attempt_at) and sent
    todo,     \* todo[d]: rows d has locked and not yet posted
    posted,   \* posted[d]: rows d has posted, with the outcome it will commit
    orphan,   \* orphan[d]: rows d still goes through after its connection was lost
    age,      \* age[d]: time since the transaction of d began
    got,      \* got[a]: posts that the receiver accepted
    unheard,  \* unheard[a]: those of them that no row will ever record
    tries,    \* tries[a]: posts since the row was new or retried by hand
    lost,     \* lost[a]: those of them whose outcome was rolled back
    retries, faults

vars == <<status, row, todo, posted, orphan, age, got, unheard, tries, lost, retries, faults>>

Active == {"open", "acknowledged"}
NonePosted == [a \in {} |-> "ok"]
Locked(d) == todo[d] \cup DOMAIN posted[d]

TypeOK ==
    /\ status \in [Alert -> Active \cup {"none", "resolved"}]
    /\ row \in [Queued -> [attempts : 0..MaxAttempts, wait : 0..Cap, sent : BOOLEAN]]
    /\ todo \in [Dispatcher -> SUBSET Queued]
    /\ \A d \in Dispatcher :
        /\ DOMAIN posted[d] \subseteq Queued \ todo[d]
        /\ \A a \in DOMAIN posted[d] : posted[d][a] \in {"ok", "failed"}
    /\ orphan \in [Dispatcher -> SUBSET Queued]
    /\ age \in [Dispatcher -> 0..Cap]
    /\ {got, unheard, tries, lost} \subseteq [Queued -> Nat]
    /\ retries \in 0..MaxRetries /\ faults \in 0..MaxFaults

Init ==
    /\ status = [a \in Alert |-> IF a \in Queued THEN "open" ELSE "none"]
    /\ row = [a \in Queued |-> [attempts |-> 0, wait |-> 0, sent |-> FALSE]]
    /\ todo = [d \in Dispatcher |-> {}]
    /\ posted = [d \in Dispatcher |-> NonePosted]
    /\ orphan = [d \in Dispatcher |-> {}]
    /\ age = [d \in Dispatcher |-> 0]
    /\ got = [a \in Queued |-> 0] /\ unheard = got /\ tries = got /\ lost = got
    /\ retries = 0 /\ faults = 0

-----------------------------------------------------------------------------
(* Alerts.                                                                 *)

(* MarkExecution "failed": a new alert, unless the pipeline has an active  *)
(* one, which is only brought up to date.  Nothing is put in the outbox.   *)
RaiseAlert(a) ==
    /\ status[a] = "none"
    /\ ~\E b \in Alert : PipelineOf[b] = PipelineOf[a] /\ status[b] \in Active
    /\ status' = [status EXCEPT ![a] = "open"]
    /\ UNCHANGED <<row, todo, posted, orphan, age, got, unheard, tries, lost, retries, faults>>

UpdateAlert(a) ==
    /\ \/ status[a] = "open" /\ status' = [status EXCEPT ![a] = "acknowledged"]
       \/ status[a] \in Active /\ status' = [status EXCEPT ![a] = "resolved"]
    /\ UNCHANGED <<row, todo, posted, orphan, age, got, unheard, tries, lost, retries, faults>>

Unlocked(a) == \A d \in Dispatcher : a \notin Locked(d)

(* The UPDATE waits for the row lock and looks at sent_at afterwards.      *)
AlertRetryNotification(a) ==
    /\ retries < MaxRetries /\ Unlocked(a) /\ ~row[a].sent
    /\ row' = [row EXCEPT ![a].attempts = 0, ![a].wait = 0]
    /\ tries' = [tries EXCEPT ![a] = 0] /\ lost' = [lost EXCEPT ![a] = 0]
    /\ retries' = retries + 1
    /\ UNCHANGED <<status, todo, posted, orphan, age, got, unheard, faults>>

-----------------------------------------------------------------------------
(* dispatchAlerts and dispatchLineage.                                     *)

Least(m, n) == IF m < n THEN m ELSE n
Greatest(m, n) == IF m > n THEN m ELSE n
ShiftedBy == <<1, 2, 4, 8, 16, 32, 64, 128, 256, 512>>   \* 1 << (i - 1)
retryDelay(attempt) == Least(Base * ShiftedBy[Least(Greatest(attempt, 1), 10)], Cap)

DueAtTen(a) == ~row[a].sent /\ row[a].attempts <= MaxAttempts /\ row[a].wait = 0
DueAgain(a) == row[a].attempts < MaxAttempts /\ row[a].wait = 0
Due(a) == ~row[a].sent /\ row[a].attempts < MaxAttempts /\ row[a].wait = 0
Candidates == {a \in Queued : Due(a) /\ Unlocked(a)}

Idle(d) == Locked(d) = {} /\ orphan[d] = {}

(* Begin, SELECT ... FOR UPDATE SKIP LOCKED LIMIT.                         *)
Claim(d) ==
    /\ Idle(d) /\ Candidates # {}
    /\ \E B \in SUBSET Candidates :
        /\ Cardinality(B) = Least(Limit, Cardinality(Candidates))
        /\ todo' = [todo EXCEPT ![d] = B]
    /\ age' = [age EXCEPT ![d] = 0]
    /\ UNCHANGED <<status, row, posted, orphan, got, unheard, tries, lost, retries, faults>>

(* postJSON: the receiver refuses; it accepts; or it accepts and its       *)
(* answer is lost, which the dispatcher cannot tell from a refusal.        *)
PostResult == {"ok", "failed", "answer lost"}
TakenByReceiver(result) == result # "failed"
Heard(result) == IF result = "ok" THEN "ok" ELSE "failed"

(* One row: the destination, postJSON and the UPDATE, not yet committed.   *)
Post(d) == \E a \in todo[d], result \in PostResult :
    /\ todo' = [todo EXCEPT ![d] = @ \ {a}]
    /\ posted' = [posted EXCEPT ![d] =
            [b \in DOMAIN @ \cup {a} |-> IF b = a THEN Heard(result) ELSE @[b]]]
    /\ tries' = [tries EXCEPT ![a] = @ + 1]
    /\ got' = IF TakenByReceiver(result) THEN [got EXCEPT ![a] = @ + 1] ELSE got
    /\ unheard' = IF result = "answer lost" THEN [unheard EXCEPT ![a] = @ + 1] ELSE unheard
    /\ UNCHANGED <<status, row, orphan, age, lost, retries, faults>>

(* now() is the begin of the transaction, so the delay began there too.    *)
Outcome(d, a) ==
    LET n == row[a].attempts + 1 IN
    IF posted[d][a] = "ok" THEN [row[a] EXCEPT !.attempts = n, !.sent = TRUE]
    ELSE [row[a] EXCEPT !.attempts = n, !.wait = Greatest(retryDelay(n) - age[d], 0)]

NeverCommit(d) == FALSE
Commit(d) ==
    /\ todo[d] = {} /\ ~Idle(d)
    /\ row' = [a \in Queued |-> IF a \in DOMAIN posted[d] THEN Outcome(d, a) ELSE row[a]]
    /\ posted' = [posted EXCEPT ![d] = NonePosted]
    /\ UNCHANGED <<status, todo, orphan, age, got, unheard, tries, lost, retries, faults>>

(* The transaction is lost: what was posted stays posted, and the rows are *)
(* as before and unlocked.                                                 *)
Undone(d) ==
    /\ ~Idle(d) /\ faults < MaxFaults /\ faults' = faults + 1
    /\ lost' = [a \in Queued |-> IF a \in DOMAIN posted[d] THEN lost[a] + 1 ELSE lost[a]]
    /\ unheard' = [a \in Queued |->
            IF a \in DOMAIN posted[d] /\ posted[d][a] = "ok" THEN unheard[a] + 1 ELSE unheard[a]]
    /\ todo' = [todo EXCEPT ![d] = {}]
    /\ posted' = [posted EXCEPT ![d] = NonePosted]
    /\ UNCHANGED <<status, row, age, got, tries, retries>>

(* An UPDATE or the COMMIT fails, or the process stops.                    *)
Rollback(d) == Undone(d) /\ orphan' = [orphan EXCEPT ![d] = {}]

(* The connection is lost while d is busy with a row.  It notices when it  *)
(* writes the outcome of that row, which others may have locked by then.   *)
Disconnect(d) == Undone(d) /\ orphan' = [orphan EXCEPT ![d] = todo[d]]

PostUnlocked(d) == \E a \in orphan[d], accepted \in {0, 1} :
    /\ orphan' = [orphan EXCEPT ![d] = {}]
    /\ tries' = [tries EXCEPT ![a] = @ + 1] /\ lost' = [lost EXCEPT ![a] = @ + 1]
    /\ got' = [got EXCEPT ![a] = @ + accepted] /\ unheard' = [unheard EXCEPT ![a] = @ + accepted]
    /\ UNCHANGED <<status, row, todo, posted, age, retries, faults>>

Passing == (\E a \in Queued : row[a].wait > 0) \/ \E d \in Dispatcher : ~Idle(d) /\ age[d] < Cap

Tick ==
    /\ Passing
    /\ row' = [a \in Queued |-> [row[a] EXCEPT !.wait = Greatest(@ - 1, 0)]]
    /\ age' = [d \in Dispatcher |-> IF Idle(d) THEN 0 ELSE Least(age[d] + 1, Cap)]
    /\ UNCHANGED <<status, todo, posted, orphan, got, unheard, tries, lost, retries, faults>>

Dispatch(d) == Claim(d) \/ Post(d) \/ Commit(d) \/ PostUnlocked(d)

Next ==
    \/ \E a \in Alert : RaiseAlert(a) \/ UpdateAlert(a)
    \/ \E a \in Queued : AlertRetryNotification(a)
    \/ \E d \in Dispatcher : Dispatch(d) \/ Rollback(d) \/ Disconnect(d)
    \/ Tick

Spec == Init /\ [][Next]_vars

(* Time passes, and the ticker of Group.run brings every replica back to   *)
(* its dispatcher after a success, an error or a restart.                  *)
FairSpec == Spec /\ WF_vars(Tick) /\ \A d \in Dispatcher : WF_vars(Dispatch(d))

-----------------------------------------------------------------------------
(* Properties.                                                             *)

(* However many replicas dispatch and users retry, the receiver accepts a  *)
(* notification a second time only if no row could record the first: its   *)
(* answer was lost, or the outcome was rolled back.                        *)
AcceptedOnce == \A a \in Queued : got[a] <= 1 + unheard[a]

(* A notification is posted at most ten times until somebody retries it by *)
(* hand, and once more for every outcome that was rolled back.             *)
BudgetKept == \A a \in Queued : tries[a] <= MaxAttempts + lost[a]

(* In the end every row is delivered or out of attempts.                   *)
RowsSettle == <>(\A a \in Queued : row[a].sent \/ row[a].attempts = MaxAttempts)

=============================================================================
