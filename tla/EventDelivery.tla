---------------------------- MODULE EventDelivery ----------------------------
(***************************************************************************)
(* Pipeline events on their way from the outbox to the executions they     *)
(* trigger: dispatchEvents of the activity worker publishes rows to a      *)
(* Redis stream, consumePipelineEventStream of every API replica reads it  *)
(* through one consumer group under one consumer name, and deliverEvent    *)
(* launches the subscribed pipelines.                                      *)
(*                                                                         *)
(* Abstractions: rows appear from outside; every pipeline of Subscriber    *)
(* listens to every event; a batch (20 rows, 20 entries) is everything     *)
(* there is; SKIP LOCKED gives concurrent publishers disjoint batches, so  *)
(* one publisher stands for all of them.                                   *)
(***************************************************************************)
EXTENDS Integers, Sequences, FiniteSetsExt

CONSTANTS
    Event,       \* rows of pipeline_event_outbox
    Subscriber,  \* active pipelines that listen
    Undecodable, \* those whose stored definition cannot be decoded
    Failing,     \* those that fireExecution refuses every time
    Replica,     \* API processes
    MaxFaults    \* bound on crashes and on lost or failing calls

SubscriberAssumption ==
    /\ Subscriber # {}
    /\ Undecodable \subseteq Subscriber /\ Failing \subseteq Subscriber
FaultAssumption == MaxFaults \in Nat

VARIABLES
    published,  \* events whose row has published_at
    batch,      \* rows the publisher's open transaction still has to add
    added,      \* rows it has added and will mark on commit
    stream,     \* the entries, each with its event and its state in the group
    done,       \* dataflow:event-done keys
    locked,     \* dataflow:event-lock keys
    at,         \* at[r]: where the consumer loop of replica r is
    pending,    \* pending[r]: the loop reads the entries it has not acknowledged
    todo,       \* todo[r]: entries of its batch, by number; the least is next
    subs,       \* subs[r]: subscribers left for the first of them
    sub,        \* sub[r]: the subscriber in hand
    ok,         \* ok[r]: deliverEvent's result so far
    retry,      \* retry[r]: an entry of the batch failed
    faults,
    \* History variables, read by properties only.
    launches,   \* launches[k]: executions started for k = <<event, subscriber>>
    handled,    \* keys launched or refused for quota
    lost,       \* lost[k]: launches whose done key was not written
    unread      \* entries handed out in an answer that got lost, and in none since

outboxVars == <<published, batch, added>>
loopVars == <<at, pending, todo, subs, sub, ok, retry>>
keyVars == <<done, locked>>
history == <<launches, handled, lost, unread>>
vars == <<outboxVars, stream, keyVars, loopVars, faults, history>>

Key == Event \X Subscriber
Stages == {"group", "read", "rows", "deliver", "lock", "fire", "done", "refused", "unlock",
           "ended"}
EntryState == {"new", "pending", "acked"}

TypeOK ==
    /\ published \subseteq Event /\ batch \subseteq Event /\ added \subseteq Event
    /\ stream \in Seq([event : Event, state : EntryState])
    /\ done \subseteq Key /\ locked \subseteq Key
    /\ at \in [Replica -> Stages]
    /\ pending \in [Replica -> BOOLEAN]
    /\ todo \in [Replica -> SUBSET (1..Len(stream))]
    /\ subs \in [Replica -> SUBSET Subscriber] /\ sub \in [Replica -> Subscriber]
    /\ ok \in [Replica -> BOOLEAN] /\ retry \in [Replica -> BOOLEAN]
    /\ faults \in 0..MaxFaults
    /\ launches \in [Key -> Nat] /\ lost \in [Key -> Nat] /\ handled \subseteq Key
    /\ unread \subseteq 1..Len(stream)

Init ==
    /\ published = {} /\ batch = {} /\ added = {}
    /\ stream = <<>>
    /\ done = {} /\ locked = {}
    /\ at = [r \in Replica |-> "group"]
    /\ pending = [r \in Replica |-> TRUE]
    /\ todo = [r \in Replica |-> {}]
    /\ subs = [r \in Replica |-> {}]
    /\ sub \in [Replica -> {CHOOSE p \in Subscriber : TRUE}]
    /\ ok = [r \in Replica |-> TRUE] /\ retry = [r \in Replica |-> FALSE]
    /\ faults = 0
    /\ launches = [k \in Key |-> 0] /\ handled = {} /\ lost = [k \in Key |-> 0]
    /\ unread = {}

Fault == faults < MaxFaults /\ faults' = faults + 1

-----------------------------------------------------------------------------
(* dispatchEvents: rows are added to the stream inside the transaction     *)
(* that marks them.                                                        *)

publishOthers == <<keyVars, loopVars, history>>

PublishBegin ==
    /\ batch = {} /\ added = {}
    /\ published # Event
    /\ batch' = Event \ published
    /\ UNCHANGED <<published, added, stream, publishOthers, faults>>

WithEntry(e) == Append(stream, [event |-> e, state |-> "new"])

XAdd(e) ==
    /\ e \in batch
    /\ batch' = batch \ {e}
    /\ added' = added \cup {e}
    /\ stream' = WithEntry(e)
    /\ UNCHANGED <<published, publishOthers, faults>>

(* The error is recorded in the row, which stays unpublished; the stream   *)
(* has the entry all the same if only the answer was lost.                 *)
XAddFails(e) ==
    /\ e \in batch
    /\ Fault
    /\ batch' = batch \ {e}
    /\ stream' \in {stream, WithEntry(e)}
    /\ UNCHANGED <<published, added, publishOthers>>

MarksPicked == Event
Marks == added

PublishCommit ==
    /\ batch = {} /\ added # {}
    /\ published' = published \cup Marks
    /\ added' = {}
    /\ UNCHANGED <<batch, stream, publishOthers, faults>>

(* The worker stops or the commit fails: the entries stay in the stream.   *)
PublishRollback ==
    /\ batch \cup added # {}
    /\ Fault
    /\ batch' = {} /\ added' = {}
    /\ UNCHANGED <<published, stream, publishOthers>>

Publisher == PublishBegin \/ (\E e \in Event : XAdd(e)) \/ PublishCommit

-----------------------------------------------------------------------------
(* consumePipelineEventStream: XREADGROUP from "0" returns what this       *)
(* consumer has not acknowledged, from ">" what nobody has read.           *)

loopStart == <<outboxVars, stream, keyVars, pending, todo, subs, sub, ok, retry, history>>

(* XGROUP CREATE, or its BUSYGROUP: the group is there.                    *)
CreateGroup(r) ==
    /\ at[r] = "group"
    /\ at' = [at EXCEPT ![r] = "read"]
    /\ UNCHANGED <<loopStart, faults>>

(* After any other error this process consumes no events.                  *)
GroupFails(r) ==
    /\ at[r] = "group"
    /\ Fault
    /\ at' = [at EXCEPT ![r] = "ended"]
    /\ UNCHANGED loopStart

Wanted(r) == IF pending[r] THEN "pending" ELSE "new"
Entries(s) == {i \in 1..Len(stream) : stream[i].state = s}

NewRead == [i \in 1..Len(stream) |->
              IF stream[i].state = "new" THEN [stream[i] EXCEPT !.state = "pending"]
              ELSE stream[i]]

ReadGroup(r) ==
    /\ at[r] = "read"
    /\ Entries(Wanted(r)) # {}
    /\ todo' = [todo EXCEPT ![r] = Entries(Wanted(r))]
    /\ stream' = IF pending[r] THEN stream ELSE NewRead
    /\ at' = [at EXCEPT ![r] = "rows"]
    /\ retry' = [retry EXCEPT ![r] = FALSE]
    /\ unread' = unread \ Entries(Wanted(r))
    /\ UNCHANGED <<outboxVars, keyVars, pending, subs, sub, ok, faults, launches, handled, lost>>

(* The answer gets lost: Redis counts the entries as read, and a loop that *)
(* asked for new ones goes on asking for new ones.  (An error in any other *)
(* place, or before Redis took the command, changes nothing.)              *)
ReadLost(r) ==
    /\ at[r] = "read" /\ ~pending[r]
    /\ Entries("new") # {}
    /\ Fault
    /\ stream' = NewRead
    /\ unread' = unread \cup Entries("new")
    /\ UNCHANGED <<outboxVars, keyVars, loopVars, launches, handled, lost>>

(* redis.Nil or an empty answer.                                           *)
ReadNothing(r) ==
    /\ at[r] = "read" /\ pending[r]
    /\ Entries("pending") = {}
    /\ pending' = [pending EXCEPT ![r] = FALSE]
    /\ UNCHANGED <<outboxVars, stream, keyVars, at, todo, subs, sub, ok, retry, faults, history>>

First(r) == Min(todo[r])
Current(r) == <<stream[First(r)].event, sub[r]>>
GoTo(r, stage) == at' = [at EXCEPT ![r] = stage]
loopRest == <<pending, todo, retry>>

(* deliverEvent looks up the active pipelines.                             *)
FindSubscribers(r) ==
    /\ at[r] = "rows"
    /\ subs' = [subs EXCEPT ![r] = Subscriber]
    /\ ok' = [ok EXCEPT ![r] = TRUE]
    /\ GoTo(r, "deliver")
    /\ UNCHANGED <<outboxVars, stream, keyVars, loopRest, sub, faults, history>>

FindFails(r) ==
    /\ at[r] = "rows"
    /\ Fault
    /\ subs' = [subs EXCEPT ![r] = {}]
    /\ ok' = [ok EXCEPT ![r] = FALSE]
    /\ GoTo(r, "deliver")
    /\ UNCHANGED <<outboxVars, stream, keyVars, loopRest, sub, history>>

(* EXISTS on the done key; an error reads as absent.                       *)
CheckDone(r, p) ==
    /\ at[r] = "deliver" /\ p \in subs[r]
    /\ subs' = [subs EXCEPT ![r] = @ \ {p}]
    /\ sub' = [sub EXCEPT ![r] = p]
    /\ LET k == <<stream[First(r)].event, p>>
       IN  IF k \in done THEN UNCHANGED at ELSE GoTo(r, "lock")
    /\ UNCHANGED <<outboxVars, stream, keyVars, loopRest, ok, faults, history>>

CheckDoneFails(r, p) ==
    /\ at[r] = "deliver" /\ p \in subs[r]
    /\ Fault
    /\ subs' = [subs EXCEPT ![r] = @ \ {p}]
    /\ sub' = [sub EXCEPT ![r] = p]
    /\ GoTo(r, "lock")
    /\ lost' = [lost EXCEPT ![<<stream[First(r)].event, p>>] = @ + 1]
    /\ UNCHANGED <<outboxVars, stream, keyVars, loopRest, ok, launches, handled, unread>>

(* SETNX of the lock.                                                      *)
Lock(r) ==
    /\ at[r] = "lock" /\ Current(r) \notin locked
    /\ locked' = locked \cup {Current(r)}
    /\ GoTo(r, IF sub[r] \in Undecodable THEN "unlock" ELSE "fire")
    /\ UNCHANGED <<outboxVars, stream, done, loopRest, subs, sub, ok, faults, history>>

(* It is taken, or the call fails; then nobody frees a lock that was set.  *)
LockRefused(r) ==
    /\ at[r] = "lock"
    /\ IF Current(r) \in locked THEN UNCHANGED <<faults, locked>>
       ELSE Fault /\ locked' \in {locked, locked \cup {Current(r)}}
    /\ ok' = [ok EXCEPT ![r] = FALSE]
    /\ GoTo(r, "deliver")
    /\ UNCHANGED <<outboxVars, stream, done, loopRest, subs, sub, history>>

NeverExpires(k) == FALSE
(* The minute of the lock is over, whatever its holder does.               *)
LockExpires(k) ==
    /\ k \in locked
    /\ locked' = locked \ {k}
    /\ UNCHANGED <<outboxVars, stream, done, loopVars, faults, history>>

(* fireExecution starts the run, or the quota of the tenant is used up.    *)
Fire(r) ==
    /\ at[r] = "fire" /\ sub[r] \notin Failing
    /\ handled' = handled \cup {Current(r)}
    /\ \/ GoTo(r, "done") /\ launches' = [launches EXCEPT ![Current(r)] = @ + 1]
       \/ GoTo(r, "refused") /\ UNCHANGED launches
    /\ UNCHANGED <<outboxVars, stream, keyVars, loopRest, subs, sub, ok, faults, lost, unread>>

(* Any other error: the event stays undelivered.  The run may have started *)
(* all the same when it was the answer that got lost.                      *)
FireFails(r) ==
    /\ at[r] = "fire"
    /\ IF sub[r] \in Failing THEN UNCHANGED <<faults, launches, lost>>
       ELSE /\ Fault
            /\ \E n \in {0, 1} :
                 /\ launches' = [launches EXCEPT ![Current(r)] = @ + n]
                 /\ lost' = [lost EXCEPT ![Current(r)] = @ + n]
    /\ ok' = [ok EXCEPT ![r] = FALSE]
    /\ GoTo(r, "unlock")
    /\ UNCHANGED <<outboxVars, stream, keyVars, loopRest, subs, sub, handled, unread>>

DoneOnlyRefused(r) == IF at[r] = "refused" THEN {Current(r)} ELSE {}
DoneKey(r) == {Current(r)}

MarkDone(r) ==
    /\ at[r] \in {"done", "refused"}
    /\ done' = done \cup DoneKey(r)
    /\ GoTo(r, "unlock")
    /\ UNCHANGED <<outboxVars, stream, locked, loopRest, subs, sub, ok, faults, history>>

(* The error of that SET is ignored.                                       *)
MarkFails(r) ==
    /\ at[r] \in {"done", "refused"}
    /\ Fault
    /\ lost' = [lost EXCEPT ![Current(r)] = @ + 1]
    /\ GoTo(r, "unlock")
    /\ UNCHANGED <<outboxVars, stream, keyVars, loopRest, subs, sub, ok, launches, handled, unread>>

(* DEL of the lock, whoever holds it by now; an error leaves it to expire. *)
Unlock(r) ==
    /\ at[r] = "unlock"
    /\ \/ locked' = locked \ {Current(r)} /\ UNCHANGED faults
       \/ UNCHANGED locked /\ Fault
    /\ GoTo(r, "deliver")
    /\ UNCHANGED <<outboxVars, stream, done, loopRest, subs, sub, ok, history>>

AcksAlways(r) == TRUE
Acks(r) == ok[r]

(* The entry is acknowledged and deleted, or kept for another round.       *)
Settle(r) ==
    /\ at[r] = "deliver" /\ subs[r] = {}
    /\ \/ /\ Acks(r)
          /\ stream' = [stream EXCEPT ![First(r)].state = "acked"]
          /\ UNCHANGED <<retry, faults>>
       \/ Acks(r) /\ Fault /\ UNCHANGED <<stream, retry>>
       \/ ~Acks(r) /\ retry' = [retry EXCEPT ![r] = TRUE] /\ UNCHANGED <<stream, faults>>
    /\ todo' = [todo EXCEPT ![r] = @ \ {First(r)}]
    /\ IF todo[r] # {First(r)}
       THEN GoTo(r, "rows") /\ UNCHANGED pending
       ELSE GoTo(r, "read") /\ pending' = [pending EXCEPT ![r] = @ \/ retry'[r]]
    /\ UNCHANGED <<outboxVars, keyVars, subs, sub, ok, history>>

(* The process stops and its successor starts with the pending entries.    *)
Crash(r) ==
    /\ at[r] # "group"
    /\ Fault
    /\ lost' = IF at[r] \in {"done", "refused"} THEN [lost EXCEPT ![Current(r)] = @ + 1] ELSE lost
    /\ GoTo(r, "group")
    /\ pending' = [pending EXCEPT ![r] = TRUE]
    /\ todo' = [todo EXCEPT ![r] = {}]
    /\ UNCHANGED <<outboxVars, stream, keyVars, subs, sub, ok, retry, launches, handled, unread>>

Consume(r) ==
    \/ CreateGroup(r) \/ ReadGroup(r) \/ ReadNothing(r) \/ FindSubscribers(r)
    \/ \E p \in Subscriber : CheckDone(r, p)
    \/ Lock(r) \/ LockRefused(r) \/ Fire(r) \/ FireFails(r) \/ MarkDone(r) \/ Unlock(r) \/ Settle(r)

Next ==
    \/ Publisher \/ PublishRollback \/ \E e \in Event : XAddFails(e)
    \/ \E r \in Replica : \/ Consume(r) \/ GroupFails(r) \/ ReadLost(r) \/ FindFails(r)
                          \/ MarkFails(r) \/ Crash(r)
                          \/ \E p \in Subscriber : CheckDoneFails(r, p)
    \/ \E k \in Key : LockExpires(k)

Spec == Init /\ [][Next]_vars

(* The ticker of the worker, the loop of every replica, Redis' expiry.     *)
Fairness ==
    /\ WF_vars(Publisher)
    /\ \A r \in Replica : WF_vars(Consume(r))
    /\ \A k \in Key : WF_vars(LockExpires(k))
FairSpec == Spec /\ Fairness

-----------------------------------------------------------------------------
(* Properties.                                                             *)

(* An event leaves the outbox only once the stream has it: the row is the  *)
(* durable source, and no crash between XADD and commit loses an event.    *)
PublishedIsStreamed ==
    \A e \in published : \E i \in 1..Len(stream) : stream[i].event = e

(* consumePipelineEventStream acknowledges an entry only when every        *)
(* subscriber of it was launched or refused for quota, whichever replica   *)
(* did it and however often the entry was read.                            *)
AckedIsHandled ==
    \A i \in 1..Len(stream) : stream[i].state = "acked" =>
        \A p \in Subscriber \ Undecodable : <<stream[i].event, p>> \in handled

(* The done key absorbs redeliveries and republished rows: with one API    *)
(* replica a subscriber runs once per event, and once more for each time   *)
(* its done key could not be written or read.                              *)
LaunchedOnce == \A k \in Key : launches[k] <= 1 + lost[k]

(* Every row of the outbox is delivered to every subscriber in the end,    *)
(* through crashes, lost marks and locks that were left behind.  Excepted  *)
(* are the entries of an answer that got lost, until a loop reads what is  *)
(* pending again, and a deployment whose consumers have all ended.         *)
EventsAreDelivered ==
    <>[](\/ \A r \in Replica : at[r] = "ended"
         \/ \A e \in Event, p \in Subscriber \ Undecodable :
                \/ <<e, p>> \in handled
                \/ \E i \in unread : stream[i].event = e)

=============================================================================
