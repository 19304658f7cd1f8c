---------------------------- MODULE WebhookClaim ----------------------------
(***************************************************************************)
(* Webhook deliveries to one pipeline: the signature and its window, the   *)
(* two Redis keys that make a delivery unique, the launch, and the release *)
(* of the keys when no run was started.  The handler reads the clock once, *)
(* when it verifies the signature; the key of the signature starts to age  *)
(* when Redis gets it, which is later.                                     *)
(*                                                                         *)
(* Abstractions: a signature is a value with the time it was made at; a    *)
(* run is named by the request that started it; the clock stays below the  *)
(* day that an idempotency key lives, so only signature keys expire.       *)
(***************************************************************************)
EXTENDS Integers, FiniteSets

CONSTANTS
    Request,     \* HTTP requests, retries included
    SignatureOf, \* SignatureOf[q]: what X-Signature-* carry
    KeyOf,       \* KeyOf[q]: the Idempotency-Key, or NoKey
    SignedAt,    \* SignedAt[s]: the timestamp of a signature
    Window,      \* webhookSignatureMaxAge
    MaxClock,    \* the last time of the model
    FaultKinds,  \* which failures may happen: "crash", "redis", "answer"
    MaxFaults    \* bound on them

NoKey == "no key"
Signature == {SignatureOf[q] : q \in Request}
IdempotencyKey == {KeyOf[q] : q \in Request} \ {NoKey}

ClockAssumption == Window \in Nat \ {0} /\ MaxClock \in Nat /\ MaxFaults \in Nat
SignedAssumption == \A q \in Request : SignedAt[SignatureOf[q]] \in Nat
RunAssumption == Request \cap {"none", "pending"} = {}   \* a run's id is no marker

VARIABLES
    now,      \* the clock of the API
    seen,     \* seen[s]: when the key of signature s expires, 0 without one
    idem,     \* idem[k]: "none", "pending" or the run of key k
    at,       \* at[q]: where the handler of request q is
    keys,     \* keys[q]: webhookClaim.keys
    answer,   \* answer[q]: the executionId of a duplicate
    started,  \* requests that started a run
    faults,
    late      \* history: requests that claimed after the window of their signature

vars == <<now, seen, idem, at, keys, answer, started, faults, late>>

Working == {"verified", "idem", "get", "fire", "complete", "release"}
Over == {"started", "duplicate", "busy", "repeated", "unauthorized", "failed", "gone"}

TypeOK ==
    /\ now \in 0..MaxClock
    /\ seen \in [Signature -> Nat]
    /\ idem \in [IdempotencyKey -> {"none", "pending"} \cup Request]
    /\ at \in [Request -> {"new"} \cup Working \cup Over]
    /\ keys \in [Request -> SUBSET {"seen", "idem"}]
    /\ answer \in [Request -> Request \cup {"none", "pending"}]
    /\ started \subseteq Request
    /\ faults \in 0..MaxFaults
    /\ late \subseteq Request

Init ==
    /\ now = 0
    /\ seen = [s \in Signature |-> 0]
    /\ idem = [k \in IdempotencyKey |-> "none"]
    /\ at = [q \in Request |-> "new"]
    /\ keys = [q \in Request |-> {}]
    /\ answer = [q \in Request |-> "none"]
    /\ started = {} /\ faults = 0 /\ late = {}

Fault(kind) == kind \in FaultKinds /\ faults < MaxFaults /\ faults' = faults + 1
GoTo(q, stage) == at' = [at EXCEPT ![q] = stage]

(* A key that expires at t is there up to and including t.                 *)
Present(s) == seen[s] > 0 /\ now <= seen[s]

Tick ==
    /\ now < MaxClock
    /\ now' = now + 1
    /\ UNCHANGED <<seen, idem, at, keys, answer, started, faults, late>>

-----------------------------------------------------------------------------
(* verifyWebhookSignature, with the time at which it is called.            *)

InWindow(s) == now - SignedAt[s] <= Window /\ SignedAt[s] - now <= Window

Refused(q) ==
    /\ at[q] = "new" /\ ~InWindow(SignatureOf[q])
    /\ GoTo(q, "unauthorized")
    /\ UNCHANGED <<now, seen, idem, keys, answer, started, faults, late>>

Verify(q) ==
    /\ at[q] = "new" /\ InWindow(SignatureOf[q])
    /\ GoTo(q, "verified")
    /\ UNCHANGED <<now, seen, idem, keys, answer, started, faults, late>>

-----------------------------------------------------------------------------
(* claimWebhookDelivery: SETNX of the signature, at whatever time Redis    *)
(* gets it, then SETNX of the idempotency key.                             *)

AfterSignature(q) == IF KeyOf[q] = NoKey THEN "fire" ELSE "idem"
ShortTTL == Window
SeenTTL == 2 * Window

ClaimSignature(q) ==
    /\ at[q] = "verified" /\ ~Present(SignatureOf[q])
    /\ seen' = [seen EXCEPT ![SignatureOf[q]] = now + SeenTTL]
    /\ keys' = [keys EXCEPT ![q] = {"seen"}]
    /\ late' = IF InWindow(SignatureOf[q]) THEN late ELSE late \cup {q}
    /\ GoTo(q, AfterSignature(q))
    /\ UNCHANGED <<now, idem, answer, started, faults>>

Repeated(q) ==
    /\ at[q] = "verified" /\ Present(SignatureOf[q])
    /\ GoTo(q, "repeated")
    /\ UNCHANGED <<now, seen, idem, keys, answer, started, faults, late>>

(* Redis does not answer: the delivery goes on without the checks, whether *)
(* or not the key was set; it will not release that key.                   *)
MaySet(table, key, free, value) == {table} \cup {t \in {[table EXCEPT ![key] = value]} : free}

ClaimSkipped(q) ==
    /\ \/ /\ at[q] = "verified"
          /\ seen' \in MaySet(seen, SignatureOf[q], ~Present(SignatureOf[q]), now + SeenTTL)
          /\ UNCHANGED idem
       \/ /\ at[q] = "idem"
          /\ idem' \in MaySet(idem, KeyOf[q], idem[KeyOf[q]] = "none", "pending")
          /\ UNCHANGED seen
    /\ Fault("redis")
    /\ GoTo(q, "fire")
    /\ UNCHANGED <<now, keys, answer, started, late>>

AlwaysFree(k) == TRUE
Free(k) == idem[k] = "none"

ClaimKey(q) ==
    /\ at[q] = "idem" /\ Free(KeyOf[q])
    /\ idem' = [idem EXCEPT ![KeyOf[q]] = "pending"]
    /\ keys' = [keys EXCEPT ![q] = @ \cup {"idem"}]
    /\ GoTo(q, "fire")
    /\ UNCHANGED <<now, seen, answer, started, faults, late>>

(* DEL of the keys of q.                                                   *)
DeletedSeen(q) == IF "seen" \in keys[q] THEN [seen EXCEPT ![SignatureOf[q]] = 0] ELSE seen
KeepIdem(q) == idem
DeletedIdem(q) == IF "idem" \in keys[q] THEN [idem EXCEPT ![KeyOf[q]] = "none"] ELSE idem

(* The key is taken: the signature is given back, then the key is read.    *)
KeyTaken(q) ==
    /\ at[q] = "idem" /\ ~Free(KeyOf[q])
    /\ \/ seen' = DeletedSeen(q) /\ UNCHANGED faults
       \/ UNCHANGED seen /\ Fault("redis")
    /\ keys' = [keys EXCEPT ![q] = {}]
    /\ GoTo(q, "get")
    /\ UNCHANGED <<now, idem, answer, started, late>>

AnyValue(k) == idem[k] # "none"
Known(k) == idem[k] \in Request

GetKey(q) ==
    /\ at[q] = "get"
    /\ \/ /\ Known(KeyOf[q]) /\ GoTo(q, "duplicate")
          /\ answer' = [answer EXCEPT ![q] = idem[KeyOf[q]]]
          /\ UNCHANGED faults
       \/ ~Known(KeyOf[q]) /\ GoTo(q, "busy") /\ UNCHANGED <<answer, faults>>
       \/ GoTo(q, "busy") /\ Fault("redis") /\ UNCHANGED answer
    /\ UNCHANGED <<now, seen, idem, keys, started, late>>

-----------------------------------------------------------------------------
(* The rest of webhookTrigger.                                             *)

Fire(q) ==
    /\ at[q] = "fire"
    /\ started' = started \cup {q}
    /\ GoTo(q, "complete")
    /\ UNCHANGED <<now, seen, idem, keys, answer, faults, late>>

(* The definition, the payload store, the quota or fireExecution refuse.   *)
FireFails(q) ==
    /\ at[q] = "fire"
    /\ GoTo(q, "release")
    /\ UNCHANGED <<now, seen, idem, keys, answer, started, faults, late>>

(* The insert took effect and its answer was lost.                         *)
FireUnknown(q) ==
    /\ at[q] = "fire"
    /\ Fault("answer")
    /\ started' = started \cup {q}
    /\ GoTo(q, "release")
    /\ UNCHANGED <<now, seen, idem, keys, answer, late>>

RunValue(q) == q

(* SETXX writes the run only if the key is still there.                    *)
Complete(q) ==
    /\ at[q] = "complete"
    /\ \/ /\ idem' = IF "idem" \in keys[q] /\ idem[KeyOf[q]] # "none"
                     THEN [idem EXCEPT ![KeyOf[q]] = RunValue(q)] ELSE idem
          /\ UNCHANGED faults
       \/ "idem" \in keys[q] /\ Fault("redis") /\ UNCHANGED idem
    /\ GoTo(q, "started")
    /\ UNCHANGED <<now, seen, keys, answer, started, late>>

Release(q) ==
    /\ at[q] = "release"
    /\ \/ seen' = DeletedSeen(q) /\ idem' = DeletedIdem(q) /\ UNCHANGED faults
       \/ keys[q] # {} /\ Fault("redis") /\ UNCHANGED <<seen, idem>>
    /\ keys' = [keys EXCEPT ![q] = {}]
    /\ GoTo(q, "failed")
    /\ UNCHANGED <<now, answer, started, late>>

(* The API process stops: the deferred release does not run.               *)
Crash(q) ==
    /\ at[q] \in Working
    /\ Fault("crash")
    /\ GoTo(q, "gone")
    /\ UNCHANGED <<now, seen, idem, keys, answer, started, late>>

Handle(q) ==
    \/ Refused(q) \/ Verify(q) \/ ClaimSignature(q) \/ Repeated(q) \/ ClaimSkipped(q)
    \/ ClaimKey(q) \/ KeyTaken(q) \/ GetKey(q)
    \/ Fire(q) \/ FireFails(q) \/ FireUnknown(q) \/ Complete(q) \/ Release(q) \/ Crash(q)

Next == Tick \/ \E q \in Request : Handle(q)
Spec == Init /\ [][Next]_vars

-----------------------------------------------------------------------------
(* Properties.                                                             *)

RunsOf(R) == Cardinality(R \cap started)

(* The deliveries of a signature that claim it while it is accepted start  *)
(* one run, however often it is sent: its key outlives its window.  A      *)
(* handler that was verified in time but reaches Redis after the key has   *)
(* expired is not covered by the key.                                      *)
OneRunPerSignature ==
    \A s \in Signature : RunsOf({q \in Request : SignatureOf[q] = s} \ late) <= 1

(* An Idempotency-Key starts one run, also when its deliveries are signed  *)
(* anew and handled at the same time.                                      *)
OneRunPerKey ==
    \A k \in IdempotencyKey : RunsOf({q \in Request : KeyOf[q] = k}) <= 1

(* A duplicate is answered with the run that this very key started.        *)
DuplicateNamesItsRun ==
    \A q \in Request : at[q] = "duplicate" =>
        answer[q] \in started /\ KeyOf[answer[q]] = KeyOf[q]

InProgress(k) == \E q \in Request : KeyOf[q] = k /\ at[q] \in Working
RunOf(k) == {q \in started : KeyOf[q] = k}

(* "a delivery that fails before starting a run can be retried": when no   *)
(* request with the key is being handled, the key names the run that was   *)
(* started with it, or is free if there is none.                           *)
KeySettles ==
    \A k \in IdempotencyKey : ~InProgress(k) =>
        IF RunOf(k) = {} THEN idem[k] = "none" ELSE idem[k] \in RunOf(k)

(* The same while nothing has failed: release and complete do their part.  *)
KeySettlesWithoutFaults == faults = 0 => KeySettles

=============================================================================
