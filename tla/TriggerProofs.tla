---------------------------- MODULE TriggerProofs ----------------------------
(***************************************************************************)
(* What starts runs and reports on them, for every value of the constants: *)
(* webhook deliveries, the notification outbox, the launch of an execution *)
(* with its quota, and the event stream with its consumers.                *)
(***************************************************************************)
EXTENDS Integers, FiniteSetTheorems, SequenceTheorems, WellFoundedInduction, TLAPS

CONSTANTS Delivery, SignatureOf, KeyOf, SignedAt, Window, MaxClock, FaultKinds, MaxHookFaults
VARIABLES now, seen, idem, hookAt, keys, answer, started, hookFaults, late

CONSTANTS Alert, PipelineOf, Queued, Dispatcher, MaxAttempts, Base, Cap, Limit, MaxRetries, MaxOutboxFaults
VARIABLES status, row, outboxTodo, posted, orphan, age, got, unheard, tries, outboxLost, retries, outboxFaults

Hooks == INSTANCE WebhookClaim WITH
    Request <- Delivery, MaxFaults <- MaxHookFaults, at <- hookAt, faults <- hookFaults

Outbox == INSTANCE NotificationOutbox WITH
    MaxFaults <- MaxOutboxFaults, todo <- outboxTodo, lost <- outboxLost, faults <- outboxFaults

CONSTANTS Execution, Order, Free, PerUnit, Billing, Faults, MaxMonth, MaxPrepares
VARIABLES month, used, extra, order, job, kind, attempts, workflow, launchRow, counted, hit, repeats

Quota == INSTANCE LaunchQuota WITH Request <- Execution, MaxAttempts <- MaxPrepares, row <- launchRow

HookAssumption == Hooks!ClockAssumption /\ Hooks!SignedAssumption /\ Hooks!RunAssumption

-----------------------------------------------------------------------------
(* Lemmas about sets.                                                      *)

(* A set without two different elements has at most one.                   *)
LEMMA AtMostOne ==
  ASSUME NEW S, \A x, y \in S : x = y
  PROVE  Cardinality(S) <= 1
  <1>1. CASE S = {}
    BY <1>1, FS_EmptySet
  <1>2. ASSUME NEW x \in S PROVE Cardinality(S) <= 1
    <2>1. S = {x}
      OBVIOUS
    <2> QED BY <2>1, FS_Singleton
  <1> QED BY <1>1, <1>2

-----------------------------------------------------------------------------
(* Webhook deliveries.                                                     *)

(* Every call to Redis was answered, and every answer of the database      *)
(* arrived.                                                                *)
Answered == FaultKinds \cap {"redis", "answer"} = {} \/ hookFaults = 0

(* A delivery that has or may still get a run has its signature's key.     *)
Claims(q) == hookAt[q] \in {"idem", "fire", "release"} \/ q \in started

(* The key of a delivery that was claimed in time lasts until the          *)
(* signature is refused, and has one owner; the late ones come after that. *)
Ended(q) == now > SignedAt[SignatureOf[q]] + Window
Kept(q) == seen[SignatureOf[q]] > 0 /\ seen[SignatureOf[q]] >= SignedAt[SignatureOf[q]] + Window
SignatureHeld ==
    /\ \A q \in Delivery \ late : Claims(q) => Kept(q) \/ Ended(q)
    /\ \A q, r \in Delivery \ late : Claims(q) /\ Claims(r) /\ SignatureOf[q] = SignatureOf[r] => q = r
    /\ \A q \in late : Ended(q)
    /\ \A q \in Delivery : hookAt[q] = "verified" => SignedAt[SignatureOf[q]] - now <= Window

(* So does an idempotency key, from ClaimKey on.                           *)
ClaimsKey(q) == KeyOf[q] # Hooks!NoKey /\ (hookAt[q] \in {"fire", "release"} \/ q \in started)
KeyHeld ==
    /\ \A q \in Delivery : ClaimsKey(q) => idem[KeyOf[q]] # "none"
    /\ \A q, r \in Delivery : ClaimsKey(q) /\ ClaimsKey(r) /\ KeyOf[q] = KeyOf[r] => q = r
    /\ \A q \in Delivery : ClaimsKey(q) /\ hookAt[q] # "gone" => "idem" \in keys[q]
    /\ \A q \in Delivery : q \in started => hookAt[q] \in {"complete", "started", "gone"}

(* What the handler knows at each of its stages, and what a key says.      *)
HookShape ==
    /\ \A q \in Delivery :
        /\ hookAt[q] \in {"idem", "get"} \/ "idem" \in keys[q] => KeyOf[q] # Hooks!NoKey
        /\ hookAt[q] \in {"new", "verified"} => keys[q] = {}
        /\ hookAt[q] \in {"complete", "started"} => q \in started
    /\ \A k \in Hooks!IdempotencyKey : idem[k] \in Delivery => idem[k] \in started /\ KeyOf[idem[k]] = k

(* As long as nothing failed, each mark has a request that works on it,    *)
(* and a run that was reported to its key is what the key names.           *)
KeyWorked ==
    /\ \A k \in Hooks!IdempotencyKey : idem[k] = "pending" =>
        \E q \in Delivery : KeyOf[q] = k /\ hookAt[q] \in {"fire", "complete", "release"}
    /\ \A q \in Delivery : hookAt[q] # "gone"
    /\ \A q \in Delivery : hookAt[q] = "started" /\ KeyOf[q] # Hooks!NoKey => idem[KeyOf[q]] = q

HookInv ==
    /\ Hooks!TypeOK /\ HookShape /\ Hooks!DuplicateNamesItsRun
    /\ Answered => SignatureHeld /\ KeyHeld
    /\ hookFaults = 0 => KeyWorked

(* The keys of the two tables are those of the deliveries.                 *)
LEMMA HookTables ==
  ASSUME NEW q \in Delivery
  PROVE  /\ SignatureOf[q] \in Hooks!Signature
         /\ KeyOf[q] # Hooks!NoKey => KeyOf[q] \in Hooks!IdempotencyKey
  BY DEF Hooks!Signature, Hooks!IdempotencyKey

(* Every step keeps the types.                                             *)
LEMMA HookTypes ==
  ASSUME HookAssumption, Hooks!TypeOK, HookShape, Hooks!Next
  PROVE  Hooks!TypeOK'
  <1>1. CASE Hooks!Tick
    BY <1>1 DEF Hooks!Tick, HookAssumption, Hooks!ClockAssumption, Hooks!TypeOK
  <1>2. ASSUME NEW q \in Delivery, Hooks!Handle(q) PROVE Hooks!TypeOK'
    <2> USE DEF HookShape, Hooks!Working, Hooks!Over, HookAssumption, Hooks!ClockAssumption, Hooks!TypeOK
    <2>1. CASE Hooks!Refused(q)
      BY <2>1 DEF Hooks!Refused, Hooks!GoTo
    <2>2. CASE Hooks!ClaimSignature(q)
      <3>1. PICK stage \in {"idem", "fire"} :
              hookAt' = [hookAt EXCEPT ![q] = stage] /\ (stage = "fire" <=> KeyOf[q] = Hooks!NoKey)
        BY <2>2 DEF Hooks!ClaimSignature, Hooks!GoTo, Hooks!AfterSignature
      <3>2. now + Hooks!SeenTTL \in Nat
        BY DEF Hooks!SeenTTL
      <3> QED BY <2>2, <3>1, <3>2, HookTables DEF Hooks!ClaimSignature
    <2>3. CASE Hooks!Repeated(q)
      BY <2>3 DEF Hooks!Repeated, Hooks!GoTo
    <2>4. CASE Hooks!ClaimSkipped(q)
      <3>1. now + Hooks!SeenTTL \in Nat
        BY DEF Hooks!SeenTTL
      <3>2. seen' = seen \/ seen' = [seen EXCEPT ![SignatureOf[q]] = now + Hooks!SeenTTL]
        BY <2>4 DEF Hooks!ClaimSkipped, Hooks!MaySet
      <3>3. idem' = idem \/ (hookAt[q] = "idem" /\ idem' = [idem EXCEPT ![KeyOf[q]] = "pending"])
        BY <2>4 DEF Hooks!ClaimSkipped, Hooks!MaySet
      <3>4. seen' \in [Hooks!Signature -> Nat]
        BY <3>1, <3>2, HookTables
      <3>5. idem' \in [Hooks!IdempotencyKey -> {"none", "pending"} \cup Delivery]
        BY <3>3, HookTables
      <3> QED BY <2>4, <3>4, <3>5 DEF Hooks!ClaimSkipped, Hooks!GoTo, Hooks!Fault
    <2>5. CASE Hooks!ClaimKey(q)
      BY <2>5, HookTables DEF Hooks!ClaimKey, Hooks!GoTo, Hooks!Free
    <2>6. CASE Hooks!KeyTaken(q)
      BY <2>6, HookTables DEF Hooks!KeyTaken, Hooks!GoTo, Hooks!Fault, Hooks!DeletedSeen, Hooks!Free
    <2>7. CASE Hooks!GetKey(q)
      BY <2>7 DEF Hooks!GetKey, Hooks!GoTo, Hooks!Known, Hooks!Fault
    <2>8. CASE Hooks!Fire(q)
      BY <2>8 DEF Hooks!Fire, Hooks!GoTo
    <2>9. CASE Hooks!FireFails(q)
      BY <2>9 DEF Hooks!FireFails, Hooks!GoTo
    <2>10. CASE Hooks!FireUnknown(q)
      BY <2>10 DEF Hooks!FireUnknown, Hooks!GoTo, Hooks!Fault
    <2>11. CASE Hooks!Complete(q)
      BY <2>11, HookTables DEF Hooks!Complete, Hooks!GoTo, Hooks!Fault, Hooks!RunValue
    <2>12. CASE Hooks!Release(q)
      BY <2>12, HookTables DEF Hooks!Release, Hooks!GoTo, Hooks!Fault, Hooks!DeletedSeen, Hooks!DeletedIdem
    <2>14. CASE Hooks!Verify(q)
      BY <2>14 DEF Hooks!Verify, Hooks!GoTo
    <2>13. CASE Hooks!Crash(q)
      BY <2>13 DEF Hooks!Crash, Hooks!GoTo, Hooks!Fault, Hooks!Working
    <2> QED BY <1>2, <2>1, <2>2, <2>3, <2>4, <2>5, <2>6, <2>7, <2>8, <2>9, <2>10, <2>11, <2>12, <2>13, <2>14 DEF Hooks!Handle
  <1> QED BY <1>1, <1>2 DEF Hooks!Next

(* What a handler knows, and what a key and a duplicate's answer name.     *)
LEMMA HookShapes ==
  ASSUME HookAssumption, Hooks!TypeOK, HookShape, Hooks!DuplicateNamesItsRun, Hooks!Next
  PROVE  HookShape' /\ Hooks!DuplicateNamesItsRun'
  <1>1. CASE Hooks!Tick
    BY <1>1 DEF Hooks!Tick, HookAssumption, Hooks!RunAssumption, Hooks!TypeOK, HookShape, Hooks!DuplicateNamesItsRun, Hooks!IdempotencyKey
  <1>2. ASSUME NEW q \in Delivery, Hooks!Handle(q) PROVE HookShape' /\ Hooks!DuplicateNamesItsRun'
    <2> USE DEF HookAssumption, Hooks!RunAssumption, Hooks!TypeOK, HookShape, Hooks!DuplicateNamesItsRun, Hooks!IdempotencyKey
    <2>1. CASE Hooks!Refused(q)
      BY <2>1 DEF Hooks!Refused, Hooks!GoTo
    <2>2. CASE Hooks!ClaimSignature(q)
      <3>1. PICK stage \in {"idem", "fire"} :
              hookAt' = [hookAt EXCEPT ![q] = stage] /\ (stage = "fire" <=> KeyOf[q] = Hooks!NoKey)
        BY <2>2 DEF Hooks!ClaimSignature, Hooks!GoTo, Hooks!AfterSignature
      <3> QED BY <2>2, <3>1 DEF Hooks!ClaimSignature
    <2>3. CASE Hooks!Repeated(q)
      BY <2>3 DEF Hooks!Repeated, Hooks!GoTo
    <2>4. CASE Hooks!ClaimSkipped(q)
      <3>1. idem' = idem \/ idem' = [idem EXCEPT ![KeyOf[q]] = "pending"]
        BY <2>4 DEF Hooks!ClaimSkipped, Hooks!MaySet
      <3>2. /\ hookAt' = [hookAt EXCEPT ![q] = "fire"] /\ hookAt[q] \in {"verified", "idem"}
            /\ UNCHANGED <<keys, answer, started>>
        BY <2>4 DEF Hooks!ClaimSkipped, Hooks!GoTo
      <3>3. \A k \in Hooks!IdempotencyKey : idem'[k] \in Delivery => idem'[k] = idem[k]
        BY <3>1
      <3> QED BY <3>2, <3>3
    <2>5. CASE Hooks!ClaimKey(q)
      BY <2>5 DEF Hooks!ClaimKey, Hooks!GoTo, Hooks!Free
    <2>6. CASE Hooks!KeyTaken(q)
      BY <2>6 DEF Hooks!KeyTaken, Hooks!GoTo, Hooks!Fault, Hooks!DeletedSeen, Hooks!Free
    <2>7. CASE Hooks!GetKey(q)
      BY <2>7 DEF Hooks!GetKey, Hooks!GoTo, Hooks!Known, Hooks!Fault
    <2>8. CASE Hooks!Fire(q)
      BY <2>8 DEF Hooks!Fire, Hooks!GoTo
    <2>9. CASE Hooks!FireFails(q)
      BY <2>9 DEF Hooks!FireFails, Hooks!GoTo
    <2>10. CASE Hooks!FireUnknown(q)
      BY <2>10 DEF Hooks!FireUnknown, Hooks!GoTo, Hooks!Fault
    <2>11. CASE Hooks!Complete(q)
      BY <2>11 DEF Hooks!Complete, Hooks!GoTo, Hooks!Fault, Hooks!RunValue
    <2>12. CASE Hooks!Release(q)
      BY <2>12 DEF Hooks!Release, Hooks!GoTo, Hooks!Fault, Hooks!DeletedSeen, Hooks!DeletedIdem
    <2>14. CASE Hooks!Verify(q)
      BY <2>14 DEF Hooks!Verify, Hooks!GoTo
    <2>13. CASE Hooks!Crash(q)
      BY <2>13 DEF Hooks!Crash, Hooks!GoTo, Hooks!Fault, Hooks!Working
    <2> QED BY <1>2, <2>1, <2>2, <2>3, <2>4, <2>5, <2>6, <2>7, <2>8, <2>9, <2>10, <2>11, <2>12, <2>13, <2>14 DEF Hooks!Handle
  <1> QED BY <1>1, <1>2 DEF Hooks!Next

(* A signature's key lasts until its window closes, and has one owner:     *)
(* only the owner gives it back.                                           *)
LEMMA SignaturesHeld ==
  ASSUME HookAssumption, Hooks!TypeOK, HookShape, Answered', SignatureHeld, KeyHeld, Hooks!Next
  PROVE  SignatureHeld'
  <1>0. /\ Window \in Nat \ {0} /\ now \in Nat /\ late \subseteq Delivery
        /\ \A q \in Delivery : SignatureOf[q] \in Hooks!Signature /\ SignedAt[SignatureOf[q]] \in Nat
        /\ seen \in [Hooks!Signature -> Nat] /\ \A q \in Delivery : seen[SignatureOf[q]] \in Nat
        /\ hookAt \in [Delivery -> {"new"} \cup Hooks!Working \cup Hooks!Over]
    BY HookTables DEF HookAssumption, Hooks!ClockAssumption, Hooks!SignedAssumption, Hooks!TypeOK
  <1>1. CASE Hooks!Tick
    <2>1. now' = now + 1 /\ UNCHANGED <<seen, hookAt, started, late>>
      BY <1>1 DEF Hooks!Tick
    <2> QED BY <1>0, <2>1 DEF SignatureHeld, Claims, Kept, Ended
  <1>2. ASSUME NEW q \in Delivery, NEW stage, hookAt' = [hookAt EXCEPT ![q] = stage], stage # "verified",
               UNCHANGED <<now, late>>,
               \A r \in Delivery \ late : Claims(r)' => Claims(r),
               \A r \in Delivery \ late : Claims(r)' => seen'[SignatureOf[r]] = seen[SignatureOf[r]] \/ Ended(r)
        PROVE  SignatureHeld'
    <2>1. \A r \in Delivery : hookAt'[r] = "verified" => hookAt[r] = "verified"
      BY <1>0, <1>2
    <2>2. \A r \in Delivery : Ended(r)' <=> Ended(r)
      BY <1>2 DEF Ended
    <2>3. \A r \in Delivery : Kept(r) /\ seen'[SignatureOf[r]] = seen[SignatureOf[r]] => Kept(r)'
      BY DEF Kept
    <2> QED BY <1>0, <1>2, <2>1, <2>2, <2>3 DEF SignatureHeld
  <1>3. ASSUME NEW q \in Delivery, Hooks!Handle(q) PROVE SignatureHeld'
    <2> USE DEF Claims
    <2>1. CASE Hooks!Refused(q)
      BY <1>0, <1>2, <2>1 DEF Hooks!Refused, Hooks!GoTo
    <2>2. CASE Hooks!ClaimSignature(q)
      <3> DEFINE s == SignatureOf[q]
      <3>1. PICK stage \in {"idem", "fire"} : hookAt' = [hookAt EXCEPT ![q] = stage]
        BY <2>2 DEF Hooks!ClaimSignature, Hooks!GoTo, Hooks!AfterSignature
      <3>2. /\ UNCHANGED <<now, started>> /\ hookAt[q] = "verified" /\ SignedAt[s] - now <= Window
            /\ seen' = [seen EXCEPT ![s] = now + 2 * Window]
            /\ ~ (seen[s] > 0 /\ now <= seen[s])
            /\ late' = IF now - SignedAt[s] <= Window THEN late ELSE late \cup {q}
        BY <2>2 DEF Hooks!ClaimSignature, Hooks!SeenTTL, Hooks!Present, Hooks!InWindow, SignatureHeld
      <3>3. Kept(q)'
        <4>1. seen'[s] = now + 2 * Window
          BY <1>0, <3>2
        <4>2. now + 2 * Window > 0 /\ now + 2 * Window >= SignedAt[s] + Window
          BY <1>0, <3>2
        <4> QED BY <4>1, <4>2 DEF Kept
      <3>4. \A r \in Delivery : Ended(r)' <=> Ended(r)
        BY <3>2 DEF Ended
      <3>5. \A r \in Delivery : SignatureOf[r] = s => Kept(r)' /\ (Ended(r) <=> Ended(q))
        BY <3>3 DEF Kept, Ended
      <3>6. \A r \in Delivery : SignatureOf[r] # s /\ Kept(r) => Kept(r)'
        BY <1>0, <3>2 DEF Kept
      <3>7. \A r \in Delivery : Claims(r)' => Claims(r) \/ r = q
        BY <1>0, <3>1, <3>2
      <3>8. now - SignedAt[s] <= Window \/ Ended(q)
        BY <1>0 DEF Ended
      <3>9. \A r \in Delivery \ late : Claims(r) /\ SignatureOf[r] = s => Ended(q)
        <4> SUFFICES ASSUME NEW r \in Delivery \ late, Claims(r), SignatureOf[r] = s, ~ Ended(q) PROVE FALSE
          OBVIOUS
        <4>1. Kept(r) /\ now <= SignedAt[s] + Window
          BY <1>0, <3>5 DEF SignatureHeld, Ended
        <4> QED BY <1>0, <3>2, <4>1 DEF Kept
      <3>10. \A r \in Delivery : hookAt'[r] = "verified" => hookAt[r] = "verified"
        BY <1>0, <3>1
      <3>11. late' = late \/ (late' = late \cup {q} /\ Ended(q))
        BY <3>2, <3>8
      <3>12. q \in Delivery \ late' => ~ Ended(q)
        BY <1>0, <3>2 DEF Ended
      <3>13. /\ \A r \in Delivery \ late' : Claims(r)' => Kept(r)' \/ Ended(r)'
             /\ \A r \in late' : Ended(r)'
             /\ \A r \in Delivery : hookAt'[r] = "verified" => SignedAt[SignatureOf[r]] - now' <= Window
        BY <1>0, <3>2, <3>4, <3>5, <3>6, <3>7, <3>10, <3>11 DEF SignatureHeld
      <3>14. \A r, t \in Delivery \ late' : Claims(r)' /\ Claims(t)' /\ SignatureOf[r] = SignatureOf[t] => r = t
        BY <3>7, <3>9, <3>11, <3>12 DEF SignatureHeld
      <3> QED BY <3>13, <3>14 DEF SignatureHeld
    <2>3. CASE Hooks!Repeated(q)
      BY <1>0, <1>2, <2>3 DEF Hooks!Repeated, Hooks!GoTo
    <2>4. CASE Hooks!ClaimSkipped(q)
      BY <2>4 DEF Hooks!ClaimSkipped, Hooks!Fault, Answered, HookAssumption, Hooks!ClockAssumption, Hooks!TypeOK
    <2>5. CASE Hooks!ClaimKey(q)
      BY <1>0, <1>2, <2>5 DEF Hooks!ClaimKey, Hooks!GoTo
    <2>6. CASE Hooks!KeyTaken(q)
      <3>1. hookAt' = [hookAt EXCEPT ![q] = "get"] /\ UNCHANGED <<now, late, started>> /\ hookAt[q] = "idem"
        BY <2>6 DEF Hooks!KeyTaken, Hooks!GoTo
      <3>2. \A r \in Delivery : SignatureOf[r] # SignatureOf[q] => seen'[SignatureOf[r]] = seen[SignatureOf[r]]
        BY <1>0, <2>6 DEF Hooks!KeyTaken, Hooks!DeletedSeen
      <3>3. q \notin started
        BY <3>1 DEF KeyHeld
      <3>4. \A r \in Delivery : Claims(r)' => Claims(r) /\ r # q
        BY <1>0, <3>1, <3>3
      <3>5. \A r \in Delivery \ late : Claims(r) /\ r # q /\ SignatureOf[r] = SignatureOf[q] => Ended(r)
        BY <3>1 DEF SignatureHeld, Ended
      <3> QED BY <1>2, <3>1, <3>2, <3>4, <3>5
    <2>7. CASE Hooks!GetKey(q)
      BY <1>0, <1>2, <2>7 DEF Hooks!GetKey, Hooks!GoTo
    <2>8. CASE Hooks!Fire(q)
      BY <1>0, <1>2, <2>8 DEF Hooks!Fire, Hooks!GoTo
    <2>9. CASE Hooks!FireFails(q)
      BY <1>0, <1>2, <2>9 DEF Hooks!FireFails, Hooks!GoTo
    <2>10. CASE Hooks!FireUnknown(q)
      BY <1>0, <1>2, <2>10 DEF Hooks!FireUnknown, Hooks!GoTo
    <2>11. CASE Hooks!Complete(q)
      BY <1>0, <1>2, <2>11 DEF Hooks!Complete, Hooks!GoTo
    <2>12. CASE Hooks!Release(q)
      <3>1. hookAt' = [hookAt EXCEPT ![q] = "failed"] /\ UNCHANGED <<now, late, started>> /\ hookAt[q] = "release"
        BY <2>12 DEF Hooks!Release, Hooks!GoTo
      <3>2. \A r \in Delivery : SignatureOf[r] # SignatureOf[q] => seen'[SignatureOf[r]] = seen[SignatureOf[r]]
        BY <1>0, <2>12 DEF Hooks!Release, Hooks!DeletedSeen
      <3>3. q \notin started
        BY <3>1 DEF KeyHeld
      <3>4. \A r \in Delivery : Claims(r)' => Claims(r) /\ r # q
        BY <1>0, <3>1, <3>3
      <3>5. \A r \in Delivery \ late : Claims(r) /\ r # q /\ SignatureOf[r] = SignatureOf[q] => Ended(r)
        BY <3>1 DEF SignatureHeld, Ended
      <3> QED BY <1>2, <3>1, <3>2, <3>4, <3>5
    <2>13. CASE Hooks!Crash(q)
      BY <1>0, <1>2, <2>13 DEF Hooks!Crash, Hooks!GoTo
    <2>14. CASE Hooks!Verify(q)
      <3>1. /\ hookAt' = [hookAt EXCEPT ![q] = "verified"] /\ hookAt[q] = "new" /\ UNCHANGED <<now, seen, started, late>>
            /\ SignedAt[SignatureOf[q]] - now <= Window
        BY <2>14 DEF Hooks!Verify, Hooks!GoTo, Hooks!InWindow
      <3>2. /\ \A r \in Delivery : Claims(r)' => Claims(r)
            /\ \A r \in Delivery : hookAt'[r] = "verified" => hookAt[r] = "verified" \/ r = q
            /\ \A r \in Delivery : (Kept(r)' <=> Kept(r)) /\ (Ended(r)' <=> Ended(r))
        BY <1>0, <3>1 DEF Kept, Ended
      <3> QED BY <1>0, <3>1, <3>2 DEF SignatureHeld
    <2> QED BY <1>3, <2>1, <2>2, <2>3, <2>4, <2>5, <2>6, <2>7, <2>8, <2>9, <2>10, <2>11, <2>12, <2>13, <2>14 DEF Hooks!Handle
  <1> QED BY <1>1, <1>3 DEF Hooks!Next

(* An idempotency key has one owner and is never free while it has one.    *)
LEMMA KeysHeld ==
  ASSUME HookAssumption, Hooks!TypeOK, HookShape, Answered', KeyHeld, Hooks!Next
  PROVE  KeyHeld'
  <1>1. CASE Hooks!Tick
    BY <1>1 DEF Hooks!Tick, HookAssumption, Hooks!RunAssumption, Hooks!TypeOK, HookShape, KeyHeld, ClaimsKey, Answered
  <1>2. ASSUME NEW q \in Delivery, Hooks!Handle(q) PROVE KeyHeld'
    <2> USE DEF HookAssumption, Hooks!RunAssumption, Hooks!TypeOK, HookShape, KeyHeld, ClaimsKey, Answered
    <2>1. CASE Hooks!Refused(q)
      BY <2>1 DEF Hooks!Refused, Hooks!GoTo
    <2>2. CASE Hooks!ClaimSignature(q)
      <3>1. PICK stage \in {"idem", "fire"} :
              hookAt' = [hookAt EXCEPT ![q] = stage] /\ (stage = "fire" <=> KeyOf[q] = Hooks!NoKey)
        BY <2>2 DEF Hooks!ClaimSignature, Hooks!GoTo, Hooks!AfterSignature
      <3>2. started' = started /\ idem' = idem /\ keys' = [keys EXCEPT ![q] = {"seen"}] /\ hookAt[q] = "verified"
        BY <2>2 DEF Hooks!ClaimSignature
      <3> QED BY <3>1, <3>2
    <2>3. CASE Hooks!Repeated(q)
      BY <2>3 DEF Hooks!Repeated, Hooks!GoTo
    <2>4. CASE Hooks!ClaimSkipped(q)
      BY <2>4 DEF Hooks!ClaimSkipped, Hooks!GoTo, Hooks!Fault
    <2>5. CASE Hooks!ClaimKey(q)
      <3>1. /\ hookAt' = [hookAt EXCEPT ![q] = "fire"] /\ hookAt[q] = "idem" /\ started' = started
            /\ idem[KeyOf[q]] = "none" /\ idem' = [idem EXCEPT ![KeyOf[q]] = "pending"]
            /\ keys' = [keys EXCEPT ![q] = @ \cup {"idem"}]
        BY <2>5 DEF Hooks!ClaimKey, Hooks!GoTo, Hooks!Free
      <3>2. \A r \in Delivery : ClaimsKey(r) => KeyOf[r] # KeyOf[q]
        BY <3>1
      <3>3. \A r \in Delivery : ClaimsKey(r)' => ClaimsKey(r) \/ r = q
        BY <3>1
      <3>4. \A r \in Delivery : ClaimsKey(r)' => idem'[KeyOf[r]] # "none"
        BY <3>1, <3>2, <3>3, HookTables
      <3> QED BY <3>1, <3>2, <3>3, <3>4
    <2>6. CASE Hooks!KeyTaken(q)
      BY <2>6 DEF Hooks!KeyTaken, Hooks!GoTo, Hooks!Fault, Hooks!DeletedSeen, Hooks!Free
    <2>7. CASE Hooks!GetKey(q)
      BY <2>7 DEF Hooks!GetKey, Hooks!GoTo, Hooks!Known, Hooks!Fault
    <2>8. CASE Hooks!Fire(q)
      BY <2>8 DEF Hooks!Fire, Hooks!GoTo
    <2>9. CASE Hooks!FireFails(q)
      BY <2>9 DEF Hooks!FireFails, Hooks!GoTo
    <2>10. CASE Hooks!FireUnknown(q)
      BY <2>10 DEF Hooks!FireUnknown, Hooks!GoTo, Hooks!Fault
    <2>11. CASE Hooks!Complete(q)
      <3>1. /\ hookAt' = [hookAt EXCEPT ![q] = "started"] /\ hookAt[q] = "complete"
            /\ started' = started /\ keys' = keys
        BY <2>11 DEF Hooks!Complete, Hooks!GoTo
      <3>2. \A r \in Delivery : ClaimsKey(r)' => ClaimsKey(r)
        BY <3>1
      <3>3. \A k \in Hooks!IdempotencyKey : idem[k] # "none" => idem'[k] # "none"
        BY <2>11 DEF Hooks!Complete, Hooks!RunValue
      <3> QED BY <3>1, <3>2, <3>3, HookTables
    <2>12. CASE Hooks!Release(q)
      <3>1. /\ hookAt' = [hookAt EXCEPT ![q] = "failed"] /\ hookAt[q] = "release"
            /\ started' = started /\ keys' = [keys EXCEPT ![q] = {}]
        BY <2>12 DEF Hooks!Release, Hooks!GoTo
      <3>2. \A r \in Delivery : ClaimsKey(r)' => ClaimsKey(r) /\ r # q
        BY <3>1
      <3>3. \A r \in Delivery : ClaimsKey(r) /\ r # q => idem'[KeyOf[r]] = idem[KeyOf[r]]
        BY <2>12, HookTables DEF Hooks!Release, Hooks!DeletedIdem
      <3> QED BY <3>1, <3>2, <3>3
    <2>14. CASE Hooks!Verify(q)
      BY <2>14 DEF Hooks!Verify, Hooks!GoTo
    <2>13. CASE Hooks!Crash(q)
      BY <2>13 DEF Hooks!Crash, Hooks!GoTo, Hooks!Fault, Hooks!Working
    <2> QED BY <1>2, <2>1, <2>2, <2>3, <2>4, <2>5, <2>6, <2>7, <2>8, <2>9, <2>10, <2>11, <2>12, <2>13, <2>14 DEF Hooks!Handle
  <1> QED BY <1>1, <1>2 DEF Hooks!Next

(* While nothing has failed, a pending key is being worked on.             *)
LEMMA KeysWorked ==
  ASSUME HookAssumption, Hooks!TypeOK, HookShape, KeyHeld, KeyWorked, hookFaults' = 0, Hooks!Next
  PROVE  KeyWorked'
  <1>1. CASE Hooks!Tick
    BY <1>1 DEF Hooks!Tick, HookAssumption, Hooks!RunAssumption, Hooks!TypeOK, HookShape, KeyHeld, KeyWorked, ClaimsKey
  <1>2. ASSUME NEW q \in Delivery, Hooks!Handle(q) PROVE KeyWorked'
    <2> USE DEF HookAssumption, Hooks!RunAssumption, Hooks!TypeOK, HookShape, KeyHeld, KeyWorked, ClaimsKey
    <2>1. CASE Hooks!Refused(q)
      BY <2>1 DEF Hooks!Refused, Hooks!GoTo
    <2>2. CASE Hooks!ClaimSignature(q)
      <3>1. PICK stage \in {"idem", "fire"} :
              hookAt' = [hookAt EXCEPT ![q] = stage] /\ (stage = "fire" <=> KeyOf[q] = Hooks!NoKey)
        BY <2>2 DEF Hooks!ClaimSignature, Hooks!GoTo, Hooks!AfterSignature
      <3> QED BY <2>2, <3>1 DEF Hooks!ClaimSignature
    <2>3. CASE Hooks!Repeated(q)
      BY <2>3 DEF Hooks!Repeated, Hooks!GoTo
    <2>4. CASE Hooks!ClaimSkipped(q)
      BY <2>4 DEF Hooks!ClaimSkipped, Hooks!GoTo, Hooks!Fault
    <2>5. CASE Hooks!ClaimKey(q)
      BY <2>5 DEF Hooks!ClaimKey, Hooks!GoTo, Hooks!Free
    <2>6. CASE Hooks!KeyTaken(q)
      BY <2>6 DEF Hooks!KeyTaken, Hooks!GoTo, Hooks!Fault, Hooks!DeletedSeen, Hooks!Free
    <2>7. CASE Hooks!GetKey(q)
      BY <2>7 DEF Hooks!GetKey, Hooks!GoTo, Hooks!Known, Hooks!Fault
    <2>8. CASE Hooks!Fire(q)
      BY <2>8 DEF Hooks!Fire, Hooks!GoTo
    <2>9. CASE Hooks!FireFails(q)
      BY <2>9 DEF Hooks!FireFails, Hooks!GoTo
    <2>10. CASE Hooks!FireUnknown(q)
      BY <2>10 DEF Hooks!FireUnknown, Hooks!GoTo, Hooks!Fault
    <2>11. CASE Hooks!Complete(q)
      <3>1. /\ hookAt' = [hookAt EXCEPT ![q] = "started"] /\ hookAt[q] = "complete" /\ q \in started
            /\ hookFaults' = hookFaults
        BY <2>11 DEF Hooks!Complete, Hooks!GoTo, Hooks!Fault
      <3>2. idem' = IF "idem" \in keys[q] /\ idem[KeyOf[q]] # "none" THEN [idem EXCEPT ![KeyOf[q]] = q] ELSE idem
        BY <2>11, <3>1 DEF Hooks!Complete, Hooks!Fault, Hooks!RunValue
      <3>3. CASE KeyOf[q] = Hooks!NoKey
        <4>1. idem' = idem
          BY <3>2, <3>3
        <4>2. \A k \in Hooks!IdempotencyKey : k # KeyOf[q]
          BY <3>3 DEF Hooks!IdempotencyKey
        <4> QED BY <3>1, <3>3, <4>1, <4>2
      <3>4. CASE KeyOf[q] # Hooks!NoKey
        <4>1. idem' = [idem EXCEPT ![KeyOf[q]] = q] /\ ClaimsKey(q)
          BY <3>1, <3>2, <3>4
        <4>2. \A r \in Delivery : ClaimsKey(r) /\ r # q => KeyOf[r] # KeyOf[q]
          BY <4>1
        <4>3. \A r \in Delivery : hookAt[r] = "started" /\ KeyOf[r] # Hooks!NoKey => r \in started
          BY HookTables
        <4> QED BY <3>1, <4>1, <4>2, <4>3, HookTables
      <3> QED BY <3>3, <3>4
    <2>12. CASE Hooks!Release(q)
      <3>1. /\ hookAt' = [hookAt EXCEPT ![q] = "failed"] /\ hookAt[q] = "release"
            /\ started' = started /\ hookFaults' = hookFaults /\ idem' = Hooks!DeletedIdem(q)
        BY <2>12 DEF Hooks!Release, Hooks!GoTo, Hooks!Fault
      <3>2. CASE KeyOf[q] = Hooks!NoKey
        <4>1. idem' = idem
          BY <3>1, <3>2 DEF Hooks!DeletedIdem
        <4>2. \A k \in Hooks!IdempotencyKey : k # KeyOf[q]
          BY <3>2 DEF Hooks!IdempotencyKey
        <4> QED BY <3>1, <4>1, <4>2
      <3>3. CASE KeyOf[q] # Hooks!NoKey
        <4>1. ClaimsKey(q) /\ idem' = [idem EXCEPT ![KeyOf[q]] = "none"]
          BY <3>1, <3>3 DEF Hooks!DeletedIdem
        <4>2. \A r \in Delivery : hookAt[r] = "started" /\ KeyOf[r] # Hooks!NoKey => KeyOf[r] # KeyOf[q]
          BY <3>1, <4>1, HookTables
        <4> QED BY <3>1, <4>1, <4>2, HookTables
      <3> QED BY <3>2, <3>3
    <2>14. CASE Hooks!Verify(q)
      BY <2>14 DEF Hooks!Verify, Hooks!GoTo
    <2>13. CASE Hooks!Crash(q)
      BY <2>13 DEF Hooks!Crash, Hooks!GoTo, Hooks!Fault, Hooks!Working
    <2> QED BY <1>2, <2>1, <2>2, <2>3, <2>4, <2>5, <2>6, <2>7, <2>8, <2>9, <2>10, <2>11, <2>12, <2>13, <2>14 DEF Hooks!Handle
  <1> QED BY <1>1, <1>2 DEF Hooks!Next

(* The invariant starts true and every step keeps it.                      *)
LEMMA HookStarts ==
  ASSUME HookAssumption, Hooks!Init
  PROVE  HookInv
  <1> USE DEF HookAssumption, Hooks!ClockAssumption, Hooks!RunAssumption, Hooks!Init
  <1>1. Hooks!TypeOK
    BY DEF Hooks!TypeOK
  <1>2. HookShape /\ Hooks!DuplicateNamesItsRun
    BY DEF HookShape, Hooks!DuplicateNamesItsRun
  <1>3. SignatureHeld /\ KeyHeld
    BY DEF SignatureHeld, KeyHeld, Claims, ClaimsKey, Hooks!Signature
  <1>4. KeyWorked
    BY DEF KeyWorked
  <1> QED BY <1>1, <1>2, <1>3, <1>4 DEF HookInv

LEMMA HookStep ==
  ASSUME HookAssumption, HookInv, [Hooks!Next]_(Hooks!vars)
  PROVE  HookInv'
  <1>1. CASE Hooks!Next
    <2> USE <1>1 DEF HookInv
    <2>1. Hooks!TypeOK' /\ HookShape' /\ Hooks!DuplicateNamesItsRun'
      BY HookTypes, HookShapes
    <2>2. hookFaults' \in Nat /\ hookFaults \in Nat /\ hookFaults' >= hookFaults
      BY <2>1 DEF HookAssumption, Hooks!ClockAssumption, Hooks!TypeOK, Hooks!Next, Hooks!Tick, Hooks!Handle,
         Hooks!Refused, Hooks!Verify, Hooks!ClaimSignature, Hooks!Repeated, Hooks!ClaimSkipped, Hooks!ClaimKey, Hooks!KeyTaken,
         Hooks!GetKey, Hooks!Fire, Hooks!FireFails, Hooks!FireUnknown, Hooks!Complete, Hooks!Release,
         Hooks!Crash, Hooks!Fault
    <2>3. Answered' => Answered
      BY <2>2 DEF Answered
    <2>4. Answered' => SignatureHeld' /\ KeyHeld'
      BY <2>3, SignaturesHeld, KeysHeld
    <2>5. hookFaults' = 0 => KeyWorked'
      BY <2>2, KeysWorked DEF Answered
    <2> QED BY <2>1, <2>4, <2>5
  <1>2. CASE UNCHANGED Hooks!vars
    BY <1>2 DEF Hooks!vars, HookInv, Hooks!TypeOK, HookShape, Hooks!DuplicateNamesItsRun, Answered,
       SignatureHeld, KeyHeld, KeyWorked, Claims, ClaimsKey, Kept, Ended
  <1> QED BY <1>1, <1>2

(* Cardinality means the same inside the instance.                         *)
LEMMA HookCardinality == \A S : Hooks!Cardinality(S) = Cardinality(S)
  BY DEF Hooks!Cardinality, Cardinality

(* What the invariant says of the runs of a signature, of a key and of a   *)
(* delivery that was handled.                                              *)
LEMMA HookInvOneRun ==
  ASSUME HookInv, Answered
  PROVE  Hooks!OneRunPerSignature /\ Hooks!OneRunPerKey
  <1>1. ASSUME NEW s \in Hooks!Signature
        PROVE  Hooks!RunsOf({q \in Delivery : SignatureOf[q] = s} \ late) <= 1
    <2> DEFINE S == ({q \in Delivery : SignatureOf[q] = s} \ late) \cap started
    <2>1. \A x, y \in S : x = y
      BY DEF HookInv, SignatureHeld, Claims
    <2>2. Cardinality(S) <= 1
      <3> HIDE DEF S
      <3> QED BY <2>1, AtMostOne
    <2> QED BY <2>2, HookCardinality DEF Hooks!RunsOf
  <1>2. ASSUME NEW k \in Hooks!IdempotencyKey PROVE Hooks!RunsOf({q \in Delivery : KeyOf[q] = k}) <= 1
    <2>1. \A x, y \in {q \in Delivery : KeyOf[q] = k} \cap started : x = y
      BY DEF HookInv, KeyHeld, ClaimsKey, Hooks!IdempotencyKey
    <2>2. Cardinality({q \in Delivery : KeyOf[q] = k} \cap started) <= 1
      <3> DEFINE S == {q \in Delivery : KeyOf[q] = k} \cap started
      <3>1. \A x, y \in S : x = y
        BY <2>1
      <3> HIDE DEF S
      <3>2. Cardinality(S) <= 1
        BY <3>1, AtMostOne
      <3> QED BY <3>2 DEF S
    <2> QED BY <2>2, HookCardinality DEF Hooks!RunsOf
  <1> QED BY <1>1, <1>2 DEF Hooks!OneRunPerSignature, Hooks!OneRunPerKey

LEMMA HookInvSettles ==
  ASSUME HookAssumption, HookInv
  PROVE  Hooks!KeySettlesWithoutFaults
  <1> SUFFICES ASSUME hookFaults = 0, NEW k \in Hooks!IdempotencyKey, ~ Hooks!InProgress(k)
               PROVE  IF Hooks!RunOf(k) = {} THEN idem[k] = "none" ELSE idem[k] \in Hooks!RunOf(k)
    BY DEF Hooks!KeySettlesWithoutFaults, Hooks!KeySettles
  <1>1. idem[k] # "pending"
    BY DEF HookInv, KeyWorked, Hooks!InProgress, Hooks!Working
  <1>2. idem[k] \in Delivery => idem[k] \in Hooks!RunOf(k)
    BY DEF HookInv, HookShape, Hooks!RunOf
  <1>3. idem[k] \in {"none"} \cup Delivery
    BY <1>1 DEF HookInv, Hooks!TypeOK
  <1>4. \A q \in Hooks!RunOf(k) : idem[k] = q
    BY DEF HookInv, Hooks!TypeOK, Answered, KeyHeld, KeyWorked, Hooks!RunOf, Hooks!InProgress, Hooks!Working,
       Hooks!IdempotencyKey
  <1> QED BY <1>2, <1>3, <1>4

(* claimWebhook: unless a call to Redis fails or the answer of the database*)
(* is lost, an idempotency key starts at most one run, and so do the       *)
(* deliveries that claim a signature within its window, however late and   *)
(* however often they are repeated.                                        *)
THEOREM WebhookRunsOnce ==
  ASSUME HookAssumption
  PROVE  Hooks!Spec => [](Answered => Hooks!OneRunPerSignature /\ Hooks!OneRunPerKey)
  <1>1. HookInv => (Answered => Hooks!OneRunPerSignature /\ Hooks!OneRunPerKey)
    BY HookInvOneRun
  <1> QED BY HookStarts, HookStep, <1>1, PTL DEF Hooks!Spec

(* claimWebhook, complete and release: whatever fails, a duplicate is      *)
(* answered with the run that its own key started; and as long as nothing  *)
(* has failed, a key that nobody works on names its run or is free.        *)
THEOREM WebhookKeysSettle ==
  ASSUME HookAssumption
  PROVE  Hooks!Spec => [](Hooks!TypeOK /\ Hooks!DuplicateNamesItsRun /\ Hooks!KeySettlesWithoutFaults)
  <1>1. HookInv => Hooks!TypeOK /\ Hooks!DuplicateNamesItsRun /\ Hooks!KeySettlesWithoutFaults
    BY HookInvSettles DEF HookInv
  <1> QED BY HookStarts, HookStep, <1>1, PTL DEF Hooks!Spec


-----------------------------------------------------------------------------
(* The notification outbox.                                                *)

(* A dispatcher's transaction holds its rows alone, and they are due.      *)
RowsLocked ==
    /\ posted = [d \in Dispatcher |-> posted[d]]
    /\ \A d, e \in Dispatcher : d # e => Outbox!Locked(d) \cap Outbox!Locked(e) = {}
    /\ \A d \in Dispatcher : \A a \in Outbox!Locked(d) : ~ row[a].sent /\ row[a].attempts < MaxAttempts

(* Posts whose outcome is not committed, and those that were accepted.     *)
Uncommitted(a) == \E d \in Dispatcher : a \in DOMAIN posted[d]
Accepted(a) == \E d \in Dispatcher : a \in DOMAIN posted[d] /\ posted[d][a] = "ok"

(* What the receiver accepted is recorded, about to be, or never will be.  *)
GotCounted == \A a \in Queued :
    got[a] <= unheard[a] + (IF row[a].sent \/ Accepted(a) THEN 1 ELSE 0)

(* What was posted is recorded, about to be, or was rolled back.           *)
TriesCounted == \A a \in Queued :
    tries[a] <= row[a].attempts + outboxLost[a] + (IF Uncommitted(a) THEN 1 ELSE 0)

OutboxInv == Outbox!TypeOK /\ RowsLocked /\ GotCounted /\ TriesCounted


(* The delay until the next attempt, whatever the time already spent.      *)
LEMMA DelayType ==
  ASSUME Outbox!OutboxAssumption, NEW n \in Nat, NEW t \in 0 .. Cap
  PROVE  Outbox!Greatest(Outbox!retryDelay(n) - t, 0) \in 0 .. Cap
  <1>1. PICK k \in 1 .. 10 : Outbox!Least(Outbox!Greatest(n, 1), 10) = k
    BY DEF Outbox!Least, Outbox!Greatest
  <1>2. Base * Outbox!ShiftedBy[k] \in Nat
    <2>1. Outbox!ShiftedBy[k] \in Nat
      BY DEF Outbox!ShiftedBy
    <2> QED BY <2>1 DEF Outbox!OutboxAssumption
  <1>3. Outbox!retryDelay(n) \in 0 .. Cap
    BY <1>1, <1>2 DEF Outbox!retryDelay, Outbox!Least, Outbox!OutboxAssumption
  <1> QED BY <1>3 DEF Outbox!Greatest, Outbox!OutboxAssumption

(* What a row becomes when its outcome is written.                         *)
LEMMA OutcomeType ==
  ASSUME Outbox!OutboxAssumption, Outbox!TypeOK, NEW d \in Dispatcher, NEW a \in DOMAIN posted[d],
         row[a].attempts < MaxAttempts
  PROVE  /\ Outbox!Outcome(d, a) \in [attempts : 0 .. MaxAttempts, wait : 0 .. Cap, sent : BOOLEAN]
         /\ Outbox!Outcome(d, a).attempts = row[a].attempts + 1
         /\ Outbox!Outcome(d, a).sent = (posted[d][a] = "ok" \/ row[a].sent)
  <1>1. a \in Queued /\ row[a] \in [attempts : 0 .. MaxAttempts, wait : 0 .. Cap, sent : BOOLEAN] /\ age[d] \in 0 .. Cap
    BY DEF Outbox!TypeOK
  <1>2. row[a].attempts + 1 \in Nat /\ row[a].attempts + 1 \in 0 .. MaxAttempts
    BY <1>1 DEF Outbox!OutboxAssumption
  <1>3. Outbox!Greatest(Outbox!retryDelay(row[a].attempts + 1) - age[d], 0) \in 0 .. Cap
    BY <1>1, <1>2, DelayType
  <1> QED BY <1>1, <1>2, <1>3 DEF Outbox!Outcome

(* The initial outbox has nothing locked and nothing posted.               *)
LEMMA OutboxStarts ==
  ASSUME Outbox!OutboxAssumption, Outbox!Init
  PROVE  OutboxInv
  BY DEF Outbox!OutboxAssumption, Outbox!Init, OutboxInv, Outbox!TypeOK, RowsLocked, GotCounted, TriesCounted,
     Uncommitted, Accepted, Outbox!Locked, Outbox!NonePosted, Outbox!Active

(* Alerts come and go without touching the outbox.                         *)
LEMMA AlertStep ==
  ASSUME Outbox!OutboxAssumption, OutboxInv, NEW a \in Alert, Outbox!RaiseAlert(a) \/ Outbox!UpdateAlert(a)
  PROVE  OutboxInv'
  <1>1. status' \in [Alert -> Outbox!Active \cup {"none", "resolved"}]
    BY DEF OutboxInv, Outbox!TypeOK, Outbox!RaiseAlert, Outbox!UpdateAlert, Outbox!Active
  <1>2. UNCHANGED <<row, outboxTodo, posted, orphan, age, got, unheard, tries, outboxLost, retries, outboxFaults>>
    BY DEF Outbox!RaiseAlert, Outbox!UpdateAlert
  <1> QED BY <1>1, <1>2 DEF OutboxInv, Outbox!TypeOK, RowsLocked, GotCounted, TriesCounted, Uncommitted, Accepted,
          Outbox!Locked, Outbox!Active

(* A manual retry finds the row unlocked, so nothing of it is uncommitted. *)
LEMMA RetryStep ==
  ASSUME Outbox!OutboxAssumption, OutboxInv, NEW a \in Queued, Outbox!AlertRetryNotification(a)
  PROVE  OutboxInv'
  <1> USE DEF Outbox!OutboxAssumption, OutboxInv, Outbox!AlertRetryNotification
  <1>1. row' = [row EXCEPT ![a] = [row[a] EXCEPT !.attempts = 0, !.wait = 0]]
    BY DEF Outbox!TypeOK
  <1>2. Outbox!TypeOK'
    BY <1>1 DEF Outbox!TypeOK
  <1>3. RowsLocked'
    BY <1>1 DEF Outbox!TypeOK, RowsLocked, Outbox!Locked, Outbox!Unlocked
  <1>4. GotCounted'
    BY <1>1 DEF Outbox!TypeOK, GotCounted, Accepted
  <1>5. TriesCounted'
    BY <1>1 DEF Outbox!TypeOK, TriesCounted, Uncommitted, Outbox!Unlocked, Outbox!Locked
  <1> QED BY <1>2, <1>3, <1>4, <1>5

(* A dispatcher locks rows that are due and that nobody has locked.        *)
LEMMA ClaimStep ==
  ASSUME Outbox!OutboxAssumption, OutboxInv, NEW d \in Dispatcher, Outbox!Claim(d)
  PROVE  OutboxInv'
  <1>1. PICK B \in SUBSET Outbox!Candidates : outboxTodo' = [outboxTodo EXCEPT ![d] = B]
    BY DEF Outbox!Claim
  <1>2. /\ age' = [age EXCEPT ![d] = 0] /\ DOMAIN posted[d] = {} /\ outboxTodo[d] = {}
        /\ UNCHANGED <<status, row, posted, orphan, got, unheard, tries, outboxLost, retries, outboxFaults>>
    BY DEF Outbox!Claim, Outbox!Idle, Outbox!Locked
  <1>3. \A a \in B : a \in Queued /\ ~ row[a].sent /\ row[a].attempts < MaxAttempts
                     /\ \A e \in Dispatcher : a \notin Outbox!Locked(e)
    BY <1>1 DEF Outbox!Candidates, Outbox!Due, Outbox!Unlocked
  <1>4. Outbox!TypeOK'
    BY <1>1, <1>2, <1>3 DEF OutboxInv, Outbox!TypeOK, Outbox!OutboxAssumption
  <1>5. RowsLocked'
    <2>1. \A e \in Dispatcher : Outbox!Locked(e)' = IF e = d THEN B ELSE Outbox!Locked(e)
      BY <1>1, <1>2 DEF OutboxInv, Outbox!TypeOK, Outbox!Locked
    <2> QED BY <1>2, <1>3, <2>1 DEF OutboxInv, RowsLocked
  <1>6. GotCounted' /\ TriesCounted'
    BY <1>2 DEF OutboxInv, GotCounted, TriesCounted, Accepted, Uncommitted
  <1> QED BY <1>4, <1>5, <1>6 DEF OutboxInv

(* A row that is posted is locked, not sent, and not posted already.       *)
LEMMA PostStep ==
  ASSUME Outbox!OutboxAssumption, OutboxInv, NEW d \in Dispatcher, Outbox!Post(d)
  PROVE  OutboxInv'
  <1>0. PICK a \in outboxTodo[d], result \in Outbox!PostResult :
          /\ outboxTodo' = [outboxTodo EXCEPT ![d] = @ \ {a}]
          /\ posted' = [posted EXCEPT ![d] = [b \in DOMAIN @ \cup {a} |-> IF b = a THEN Outbox!Heard(result) ELSE @[b]]]
          /\ tries' = [tries EXCEPT ![a] = @ + 1]
          /\ got' = IF Outbox!TakenByReceiver(result) THEN [got EXCEPT ![a] = @ + 1] ELSE got
          /\ unheard' = IF result = "answer lost" THEN [unheard EXCEPT ![a] = @ + 1] ELSE unheard
          /\ UNCHANGED <<status, row, orphan, age, outboxLost, retries, outboxFaults>>
    BY Zenon DEF Outbox!Post
  <1>01. got \in [Queued -> Nat] /\ unheard \in [Queued -> Nat]
    BY DEF OutboxInv, Outbox!TypeOK
  <1> DEFINE heard == Outbox!Heard(result)
             taken == IF Outbox!TakenByReceiver(result) THEN 1 ELSE 0
             silent == IF result = "answer lost" THEN 1 ELSE 0
  <1>02. heard \in {"ok", "failed"} /\ taken \in {0, 1} /\ silent \in {0, 1}
    BY DEF Outbox!Heard
  <1>03. (heard = "ok" => taken = 1 /\ silent = 0) /\ (heard # "ok" => taken = silent)
    BY <1>0, Zenon DEF Outbox!Heard, Outbox!TakenByReceiver, Outbox!PostResult
  <1>04. got' = [got EXCEPT ![a] = @ + taken] /\ unheard' = [unheard EXCEPT ![a] = @ + silent]
    <2>1. \A f \in [Queued -> Nat] : [f EXCEPT ![a] = @ + 0] = f
      OBVIOUS
    <2>2. (Outbox!TakenByReceiver(result) /\ taken = 1) \/ (~ Outbox!TakenByReceiver(result) /\ taken = 0)
      OBVIOUS
    <2>3. (result = "answer lost" /\ silent = 1) \/ (result # "answer lost" /\ silent = 0)
      BY Zenon
    <2> HIDE DEF taken, silent
    <2>4. got' = [got EXCEPT ![a] = @ + taken]
      BY <1>0, <1>01, <2>1, <2>2, Zenon
    <2> QED BY <1>0, <1>01, <2>1, <2>3, <2>4, Zenon
  <1> HIDE DEF heard, taken, silent
  <1>1. /\ outboxTodo' = [outboxTodo EXCEPT ![d] = @ \ {a}]
        /\ posted' = [posted EXCEPT ![d] = [b \in DOMAIN @ \cup {a} |-> IF b = a THEN heard ELSE @[b]]]
        /\ tries' = [tries EXCEPT ![a] = @ + 1]
        /\ got' = [got EXCEPT ![a] = @ + taken] /\ unheard' = [unheard EXCEPT ![a] = @ + silent]
        /\ heard \in {"ok", "failed"} /\ taken \in {0, 1} /\ silent \in {0, 1}
        /\ (heard = "ok" => taken = 1 /\ silent = 0) /\ (heard # "ok" => taken = silent)
        /\ UNCHANGED <<status, row, orphan, age, outboxLost, retries, outboxFaults>>
    BY <1>0, <1>02, <1>03, <1>04, Zenon DEF heard
  <1>2. a \in Queued /\ ~ row[a].sent /\ ~ Uncommitted(a)
    BY DEF OutboxInv, Outbox!TypeOK, RowsLocked, Outbox!Locked, Uncommitted
  <1>3. /\ posted' = [e \in Dispatcher |-> posted'[e]]
        /\ \A e \in Dispatcher : e # d => posted'[e] = posted[e]
        /\ posted'[d] = [b \in DOMAIN posted[d] \cup {a} |-> IF b = a THEN heard ELSE posted[d][b]]
    BY <1>1 DEF OutboxInv, RowsLocked
  <1>4. outboxTodo' = [outboxTodo EXCEPT ![d] = outboxTodo[d] \ {a}]
    BY <1>1
  <1>5. \A e \in Dispatcher : outboxTodo'[e] = IF e = d THEN outboxTodo[d] \ {a} ELSE outboxTodo[e]
    BY <1>4 DEF OutboxInv, Outbox!TypeOK
  <1>6. \A e \in Dispatcher : DOMAIN posted'[e] = IF e = d THEN DOMAIN posted[d] \cup {a} ELSE DOMAIN posted[e]
    BY <1>3
  <1>7. Outbox!TypeOK'
    <2>1. \A e \in Dispatcher : DOMAIN posted'[e] \subseteq Queued \ outboxTodo'[e]
      BY <1>2, <1>5, <1>6 DEF OutboxInv, Outbox!TypeOK
    <2>2. \A e \in Dispatcher : \A b \in DOMAIN posted'[e] : posted'[e][b] \in {"ok", "failed"}
      BY <1>1, <1>3 DEF OutboxInv, Outbox!TypeOK
    <2>3. got' \in [Queued -> Nat] /\ tries' \in [Queued -> Nat] /\ unheard' \in [Queued -> Nat]
      BY <1>1, <1>2 DEF OutboxInv, Outbox!TypeOK
    <2>4. outboxTodo' \in [Dispatcher -> SUBSET Queued]
      BY <1>4 DEF OutboxInv, Outbox!TypeOK
    <2> QED BY <1>1, <2>1, <2>2, <2>3, <2>4 DEF OutboxInv, Outbox!TypeOK
  <1>8. RowsLocked'
    <2>1. \A e \in Dispatcher : Outbox!Locked(e)' = Outbox!Locked(e)
      BY <1>5, <1>6 DEF Outbox!Locked
    <2> QED BY <1>1, <1>3, <2>1 DEF OutboxInv, RowsLocked
  <1>9. GotCounted'
    <2>1. \A b \in Queued : b # a => (Accepted(b)' <=> Accepted(b)) /\ got'[b] = got[b] /\ unheard'[b] = unheard[b]
      <3> TAKE b \in Queued
      <3>1. b # a => \A e \in Dispatcher : (b \in DOMAIN posted'[e] <=> b \in DOMAIN posted[e])
                                       /\ (b \in DOMAIN posted[e] => posted'[e][b] = posted[e][b])
        BY <1>3, <1>6
      <3>2. b # a => got'[b] = got[b] /\ unheard'[b] = unheard[b]
        BY <1>1, <1>2 DEF OutboxInv, Outbox!TypeOK
      <3> QED BY <3>1, <3>2 DEF Accepted
    <2>2. ~ Accepted(a) /\ (heard = "ok" => Accepted(a)')
      BY <1>2, <1>3 DEF Accepted, Uncommitted
    <2>3. got'[a] = got[a] + taken /\ unheard'[a] = unheard[a] + silent
      BY <1>1, <1>2 DEF OutboxInv, Outbox!TypeOK
    <2>4. unheard[a] \in Nat /\ got[a] \in Nat /\ got[a] <= unheard[a]
      BY <1>2, <2>2 DEF OutboxInv, Outbox!TypeOK, GotCounted
    <2>5. got'[a] <= unheard'[a] + (IF row'[a].sent \/ Accepted(a)' THEN 1 ELSE 0)
      BY <1>1, <2>2, <2>3, <2>4
    <2> QED BY <1>1, <2>1, <2>5 DEF OutboxInv, GotCounted
  <1>10. TriesCounted'
    <2>1. \A b \in Queued : b # a => (Uncommitted(b)' <=> Uncommitted(b)) /\ tries'[b] = tries[b]
      BY <1>1, <1>6 DEF Uncommitted, OutboxInv, Outbox!TypeOK
    <2>2. Uncommitted(a)'
      BY <1>6 DEF Uncommitted
    <2>3. tries'[a] = tries[a] + 1 /\ tries[a] \in Nat /\ row[a].attempts \in Nat /\ outboxLost[a] \in Nat
      BY <1>1, <1>2 DEF OutboxInv, Outbox!TypeOK, Outbox!OutboxAssumption
    <2> QED BY <1>1, <1>2, <2>1, <2>2, <2>3 DEF OutboxInv, TriesCounted
  <1> QED BY <1>7, <1>8, <1>9, <1>10 DEF OutboxInv

(* A commit records every outcome: one attempt more, sent when accepted.   *)
LEMMA CommitStep ==
  ASSUME Outbox!OutboxAssumption, OutboxInv, NEW d \in Dispatcher, Outbox!Commit(d)
  PROVE  OutboxInv'
  <1>1. /\ row' = [a \in Queued |-> IF a \in DOMAIN posted[d] THEN Outbox!Outcome(d, a) ELSE row[a]]
        /\ posted' = [posted EXCEPT ![d] = Outbox!NonePosted]
        /\ UNCHANGED <<status, outboxTodo, orphan, age, got, unheard, tries, outboxLost, retries, outboxFaults>>
    BY DEF Outbox!Commit
  <1>2. /\ posted' = [e \in Dispatcher |-> posted'[e]]
        /\ \A e \in Dispatcher : e # d => posted'[e] = posted[e]
        /\ DOMAIN posted'[d] = {}
    BY <1>1 DEF OutboxInv, RowsLocked, Outbox!NonePosted
  <1>3. \A a \in DOMAIN posted[d] :
          /\ a \in Queued /\ ~ row[a].sent
          /\ row'[a] \in [attempts : 0 .. MaxAttempts, wait : 0 .. Cap, sent : BOOLEAN]
          /\ row'[a].attempts = row[a].attempts + 1
          /\ row'[a].sent = (posted[d][a] = "ok")
    <2> TAKE a \in DOMAIN posted[d]
    <2>1. a \in Queued /\ ~ row[a].sent /\ row[a].attempts < MaxAttempts
      BY DEF OutboxInv, Outbox!TypeOK, RowsLocked, Outbox!Locked
    <2> QED BY <1>1, <2>1, OutcomeType DEF OutboxInv
  <1>4. \A a \in Queued \ DOMAIN posted[d] : row'[a] = row[a]
    BY <1>1
  <1>5. Outbox!TypeOK'
    <2>1. row' \in [Queued -> [attempts : 0 .. MaxAttempts, wait : 0 .. Cap, sent : BOOLEAN]]
      BY <1>1, <1>3, <1>4 DEF OutboxInv, Outbox!TypeOK
    <2> QED BY <1>1, <1>2, <2>1 DEF OutboxInv, Outbox!TypeOK
  <1>6. RowsLocked'
    <2>1. \A e \in Dispatcher : Outbox!Locked(e)' \subseteq Outbox!Locked(e) /\ (e = d => Outbox!Locked(e)' = {})
      BY <1>1, <1>2 DEF Outbox!Locked, Outbox!Commit
    <2>2. \A e \in Dispatcher : e # d => \A a \in Outbox!Locked(e) : a \in Queued \ DOMAIN posted[d]
      BY DEF OutboxInv, Outbox!TypeOK, RowsLocked, Outbox!Locked
    <2>3. \A e \in Dispatcher : \A a \in Outbox!Locked(e)' : row'[a] = row[a] /\ a \in Outbox!Locked(e)
      BY <1>4, <2>1, <2>2
    <2> QED BY <1>2, <2>1, <2>3 DEF OutboxInv, RowsLocked
  <1>7. GotCounted'
    <2>1. \A a \in Queued : row[a].sent \/ Accepted(a) => row'[a].sent \/ Accepted(a)'
      BY <1>2, <1>3, <1>4 DEF Accepted
    <2> QED BY <1>1, <2>1 DEF OutboxInv, GotCounted, Outbox!TypeOK
  <1>8. TriesCounted'
    <2>1. \A a \in Queued \ DOMAIN posted[d] : Uncommitted(a)' <=> Uncommitted(a)
      BY <1>2 DEF Uncommitted
    <2>2. \A a \in Queued : tries[a] \in Nat /\ row[a].attempts \in Nat /\ outboxLost[a] \in Nat
      BY DEF OutboxInv, Outbox!TypeOK, Outbox!OutboxAssumption
    <2>3. \A a \in DOMAIN posted[d] : tries'[a] <= row'[a].attempts + outboxLost'[a]
      <3> TAKE a \in DOMAIN posted[d]
      <3>1. a \in Queued /\ tries[a] <= row[a].attempts + outboxLost[a] + 1
        BY <1>3, <2>2 DEF OutboxInv, TriesCounted
      <3>2. row'[a].attempts = row[a].attempts + 1
        BY <1>3
      <3>3. tries' = tries /\ outboxLost' = outboxLost
        BY <1>1
      <3> QED BY <2>2, <3>1, <3>2, <3>3
    <2>4. \A a \in Queued : row'[a].attempts \in Nat /\ outboxLost'[a] = outboxLost[a] /\ tries'[a] = tries[a]
      <3>1. tries' = tries /\ outboxLost' = outboxLost
        BY <1>1
      <3>2. \A a \in Queued : row'[a].attempts \in Nat
        BY <1>3, <1>4, <2>2
      <3> QED BY <3>1, <3>2
    <2>5. \A a \in Queued \ DOMAIN posted[d] :
            tries'[a] <= row'[a].attempts + outboxLost'[a] + (IF Uncommitted(a)' THEN 1 ELSE 0)
      BY <1>4, <2>1, <2>4 DEF OutboxInv, TriesCounted
    <2> QED BY <2>2, <2>3, <2>4, <2>5 DEF TriesCounted
  <1> QED BY <1>5, <1>6, <1>7, <1>8 DEF OutboxInv

(* A lost transaction forgets the outcomes; what was lost and what was     *)
(* accepted unheard stand for them.                                        *)
LEMMA UndoneStep ==
  ASSUME Outbox!OutboxAssumption, OutboxInv, NEW d \in Dispatcher, Outbox!Rollback(d) \/ Outbox!Disconnect(d)
  PROVE  OutboxInv'
  <1>1. /\ outboxLost' = [a \in Queued |-> IF a \in DOMAIN posted[d] THEN outboxLost[a] + 1 ELSE outboxLost[a]]
        /\ outboxTodo' = [outboxTodo EXCEPT ![d] = {}]
        /\ posted' = [posted EXCEPT ![d] = Outbox!NonePosted]
        /\ unheard' = [a \in Queued |->
              IF a \in DOMAIN posted[d] /\ posted[d][a] = "ok" THEN unheard[a] + 1 ELSE unheard[a]]
        /\ outboxFaults' = outboxFaults + 1 /\ outboxFaults < MaxOutboxFaults
        /\ UNCHANGED <<status, row, age, got, tries, retries>>
    BY DEF Outbox!Rollback, Outbox!Disconnect, Outbox!Undone
  <1>2. /\ posted' = [e \in Dispatcher |-> posted'[e]]
        /\ \A e \in Dispatcher : e # d => posted'[e] = posted[e]
        /\ DOMAIN posted'[d] = {}
    BY <1>1 DEF OutboxInv, RowsLocked, Outbox!NonePosted
  <1>3. outboxTodo' \in [Dispatcher -> SUBSET Queued] /\ \A e \in Dispatcher : outboxTodo'[e] = IF e = d THEN {} ELSE outboxTodo[e]
    BY <1>1 DEF OutboxInv, Outbox!TypeOK
  <1>4. Outbox!TypeOK'
    <2>1. orphan' \in [Dispatcher -> SUBSET Queued]
      BY DEF Outbox!Rollback, Outbox!Disconnect, OutboxInv, Outbox!TypeOK
    <2>2. unheard' \in [Queued -> Nat] /\ outboxLost' \in [Queued -> Nat]
      BY <1>1 DEF OutboxInv, Outbox!TypeOK
    <2> QED BY <1>1, <1>2, <1>3, <2>1, <2>2 DEF OutboxInv, Outbox!TypeOK, Outbox!OutboxAssumption
  <1>5. RowsLocked'
    <2>1. \A e \in Dispatcher : Outbox!Locked(e)' \subseteq Outbox!Locked(e)
      BY <1>2, <1>3 DEF Outbox!Locked
    <2> QED BY <1>1, <1>2, <2>1 DEF OutboxInv, RowsLocked
  <1>6. GotCounted'
    <2> SUFFICES ASSUME NEW a \in Queued
                 PROVE  got'[a] <= unheard'[a] + (IF row'[a].sent \/ Accepted(a)' THEN 1 ELSE 0)
      BY DEF GotCounted
    <2>1. got[a] \in Nat /\ unheard[a] \in Nat /\ got'[a] = got[a] /\ row'[a] = row[a]
          /\ got[a] <= unheard[a] + (IF row[a].sent \/ Accepted(a) THEN 1 ELSE 0)
      BY <1>1 DEF OutboxInv, Outbox!TypeOK, GotCounted
    <2>2. CASE a \in DOMAIN posted[d] /\ posted[d][a] = "ok"
      BY <1>1, <2>1, <2>2
    <2>3. CASE ~ (a \in DOMAIN posted[d] /\ posted[d][a] = "ok")
      <3>1. Accepted(a) => Accepted(a)'
        BY <1>2, <2>3 DEF Accepted
      <3>2. unheard'[a] = unheard[a]
        BY <1>1, <2>3
      <3> QED BY <2>1, <3>1, <3>2
    <2> QED BY <2>2, <2>3
  <1>7. TriesCounted'
    <2>1. \A a \in Queued \ DOMAIN posted[d] : (Uncommitted(a)' <=> Uncommitted(a)) /\ outboxLost'[a] = outboxLost[a]
      BY <1>1, <1>2 DEF Uncommitted
    <2>2. \A a \in Queued : tries[a] \in Nat /\ row[a].attempts \in Nat /\ outboxLost[a] \in Nat
      BY DEF OutboxInv, Outbox!TypeOK, Outbox!OutboxAssumption
    <2>3. \A a \in Queued : a \in DOMAIN posted[d] => tries[a] <= row[a].attempts + outboxLost'[a]
      BY <1>1, <2>2 DEF OutboxInv, TriesCounted
    <2>4. \A a \in Queued : outboxLost'[a] \in Nat
      BY <1>1, <2>2
    <2> QED BY <1>1, <2>1, <2>2, <2>3, <2>4 DEF OutboxInv, TriesCounted
  <1> QED BY <1>4, <1>5, <1>6, <1>7 DEF OutboxInv

(* A post without a transaction: no row will ever record it.               *)
LEMMA PostUnlockedStep ==
  ASSUME Outbox!OutboxAssumption, OutboxInv, NEW d \in Dispatcher, Outbox!PostUnlocked(d)
  PROVE  OutboxInv'
  <1>1. PICK a \in orphan[d], accepted \in {0, 1} :
          /\ orphan' = [orphan EXCEPT ![d] = {}]
          /\ tries' = [tries EXCEPT ![a] = @ + 1] /\ outboxLost' = [outboxLost EXCEPT ![a] = @ + 1]
          /\ got' = [got EXCEPT ![a] = @ + accepted] /\ unheard' = [unheard EXCEPT ![a] = @ + accepted]
          /\ UNCHANGED <<status, row, outboxTodo, posted, age, retries, outboxFaults>>
    BY DEF Outbox!PostUnlocked
  <1>2. a \in Queued /\ \A b \in Queued : got[b] \in Nat /\ unheard[b] \in Nat /\ tries[b] \in Nat /\ outboxLost[b] \in Nat
                                       /\ row[b].attempts \in Nat
    BY DEF OutboxInv, Outbox!TypeOK, Outbox!OutboxAssumption
  <1>3. \A b \in Queued : /\ got'[b] = (IF b = a THEN got[a] + accepted ELSE got[b])
                          /\ unheard'[b] = (IF b = a THEN unheard[a] + accepted ELSE unheard[b])
                          /\ tries'[b] = (IF b = a THEN tries[a] + 1 ELSE tries[b])
                          /\ outboxLost'[b] = (IF b = a THEN outboxLost[a] + 1 ELSE outboxLost[b])
                          /\ row'[b] = row[b]
    BY <1>1, <1>2 DEF OutboxInv, Outbox!TypeOK
  <1>4. Outbox!TypeOK'
    <2>1. {got', unheard', tries', outboxLost'} \subseteq [Queued -> Nat]
      BY <1>1, <1>2 DEF OutboxInv, Outbox!TypeOK
    <2> QED BY <1>1, <2>1 DEF OutboxInv, Outbox!TypeOK
  <1>5. RowsLocked'
    BY <1>1 DEF OutboxInv, RowsLocked, Outbox!Locked
  <1>6. \A b \in Queued : (Accepted(b)' <=> Accepted(b)) /\ (Uncommitted(b)' <=> Uncommitted(b))
    BY <1>1 DEF Accepted, Uncommitted
  <1>7. GotCounted' /\ TriesCounted'
    BY <1>2, <1>3, <1>6 DEF OutboxInv, GotCounted, TriesCounted
  <1> QED BY <1>4, <1>5, <1>7 DEF OutboxInv

(* Time changes only how long a row waits.                                 *)
LEMMA OutboxTickStep ==
  ASSUME Outbox!OutboxAssumption, OutboxInv, Outbox!Tick
  PROVE  OutboxInv'
  <1>1. /\ row' = [a \in Queued |-> [row[a] EXCEPT !.wait = Outbox!Greatest(@ - 1, 0)]]
        /\ age' = [d \in Dispatcher |-> IF Outbox!Idle(d) THEN 0 ELSE Outbox!Least(age[d] + 1, Cap)]
        /\ UNCHANGED <<status, outboxTodo, posted, orphan, got, unheard, tries, outboxLost, retries, outboxFaults>>
    BY DEF Outbox!Tick
  <1>2. \A a \in Queued : /\ row'[a] \in [attempts : 0 .. MaxAttempts, wait : 0 .. Cap, sent : BOOLEAN]
                          /\ row'[a].attempts = row[a].attempts /\ row'[a].sent = row[a].sent
    BY <1>1 DEF OutboxInv, Outbox!TypeOK, Outbox!Greatest, Outbox!OutboxAssumption
  <1>3. age' \in [Dispatcher -> 0 .. Cap]
    BY <1>1 DEF OutboxInv, Outbox!TypeOK, Outbox!Least, Outbox!OutboxAssumption
  <1>4. Outbox!TypeOK'
    BY <1>1, <1>2, <1>3 DEF OutboxInv, Outbox!TypeOK
  <1>5. RowsLocked'
    <2>1. \A d \in Dispatcher : Outbox!Locked(d)' = Outbox!Locked(d) /\ Outbox!Locked(d) \subseteq Queued
      BY <1>1 DEF Outbox!Locked, OutboxInv, Outbox!TypeOK
    <2> QED BY <1>1, <1>2, <2>1 DEF OutboxInv, RowsLocked
  <1>6. GotCounted' /\ TriesCounted'
    BY <1>1, <1>2 DEF OutboxInv, GotCounted, TriesCounted, Accepted, Uncommitted
  <1> QED BY <1>4, <1>5, <1>6 DEF OutboxInv

LEMMA OutboxStep ==
  ASSUME Outbox!OutboxAssumption, OutboxInv, [Outbox!Next]_(Outbox!vars)
  PROVE  OutboxInv'
  <1>1. CASE Outbox!Next
    BY <1>1, AlertStep, RetryStep, ClaimStep, PostStep, CommitStep, UndoneStep, PostUnlockedStep, OutboxTickStep
       DEF Outbox!Next, Outbox!Dispatch
  <1>2. CASE UNCHANGED Outbox!vars
    BY <1>2 DEF Outbox!vars, OutboxInv, Outbox!TypeOK, RowsLocked, GotCounted, TriesCounted, Accepted, Uncommitted,
       Outbox!Locked
  <1> QED BY <1>1, <1>2

(* What the invariant says of the receiver and of the attempts.            *)
LEMMA OutboxInvBounds ==
  ASSUME Outbox!OutboxAssumption, OutboxInv
  PROVE  Outbox!AcceptedOnce /\ Outbox!BudgetKept
  <1>1. Outbox!AcceptedOnce
    BY DEF OutboxInv, Outbox!TypeOK, GotCounted, Outbox!AcceptedOnce
  <1>2. \A a \in Queued : Uncommitted(a) => row[a].attempts < MaxAttempts
    BY DEF OutboxInv, RowsLocked, Uncommitted, Outbox!Locked
  <1>3. Outbox!BudgetKept
    BY <1>2 DEF OutboxInv, Outbox!TypeOK, TriesCounted, Outbox!BudgetKept, Outbox!OutboxAssumption
  <1> QED BY <1>1, <1>3

(* dispatchAlerts: with any number of replicas, rows, attempts and manual  *)
(* retries the receiver accepts a notification at most once, and once more *)
(* for each acceptance that no row records, as its answer or its           *)
(* transaction was lost; and it is posted at most MaxAttempts times, and   *)
(* once more for each outcome that was lost.                               *)
THEOREM NotificationsOnce ==
  ASSUME Outbox!OutboxAssumption
  PROVE  Outbox!Spec => [](Outbox!TypeOK /\ Outbox!AcceptedOnce /\ Outbox!BudgetKept)
  <1>1. OutboxInv => Outbox!TypeOK /\ Outbox!AcceptedOnce /\ Outbox!BudgetKept
    BY OutboxInvBounds DEF OutboxInv
  <1> QED BY OutboxStarts, OutboxStep, <1>1, PTL DEF Outbox!Spec


-----------------------------------------------------------------------------
(* The launch of an execution and its quota.                               *)

LaunchAssumption == Quota!QuotaAssumption /\ Quota!SwitchAssumption

(* What each stage of a launch knows of its row, its workflow and of what  *)
(* was counted.                                                            *)
LaunchShape == \A q \in Execution :
    /\ job[q] = "new" => kind[q] = "manual"
    /\ job[q] # "done" => attempts[q] < MaxPrepares
    /\ job[q] \in {"new", "admitted"} => counted[q] = {}
    /\ job[q] \in {"new", "admitted", "counted"} => workflow[q] = "none"
    /\ job[q] \in {"new", "admitted", "counted", "started"} => launchRow[q] = "none"
    /\ job[q] \in {"admitted", "counted", "started", "terminate", "release"} => kind[q] # "cron"
    /\ job[q] \in {"terminate", "release"} /\ launchRow[q] # "none" => "insert" \in hit[q]
    /\ job[q] = "release" /\ launchRow[q] = "none" /\ workflow[q] = "running" =>
         "start" \in hit[q] \/ "terminate" \in hit[q]
    /\ job[q] = "prepare" => kind[q] = "cron"
    /\ kind[q] = "cron" /\ launchRow[q] = "none" => counted[q] = {}
    /\ kind[q] # "cron" => \A m, n \in counted[q] : m = n

(* Two retries with a running row are one.                                 *)
OneRetry == \A q, r \in Execution :
    kind[q] = "retry" /\ launchRow[q] = "running" /\ kind[r] = "retry" /\ launchRow[r] = "running" => q = r

(* Compensated, with the failures named one by one.                        *)
Undone == \A q \in Execution : job[q] = "done" /\ launchRow[q] = "none" /\ workflow[q] = "running" =>
    "start" \in hit[q] \/ "terminate" \in hit[q] \/ "process" \in hit[q]

LaunchInv == Quota!TypeOK /\ LaunchShape /\ Undone /\ OneRetry /\ Quota!WithinQuota

(* The counter of a month stands for the executions that hold a unit of    *)
(* it: counted in it, and not ended without a row.  It lacks a unit for a  *)
(* launch that gave it back although its row is there, or gave back that   *)
(* of another month, and it has one too many for a launch that ended       *)
(* without giving it back.                                                 *)
Live(m) == {q \in Execution : m \in counted[q] /\ ~ (job[q] = "done" /\ launchRow[q] = "none")}
Short == {q \in Execution : job[q] = "done" /\ ("insert" \in hit[q] \/ "month" \in hit[q])}
Spare == {q \in Execution : /\ job[q] = "done"
                            /\ \/ "consume" \in hit[q] \/ "release" \in hit[q]
                               \/ "process" \in hit[q] \/ "month" \in hit[q]}
Balanced(m) == /\ Cardinality(Live(m)) <= used[m] + Cardinality(Short)
               /\ used[m] <= Cardinality(Live(m)) + repeats + Cardinality(Spare)
Balance == \A m \in Quota!Month : Balanced(m)

(* Cardinality means the same inside the instance.                         *)
LEMMA QuotaCardinality == \A S : Quota!Cardinality(S) = Cardinality(S)
  BY DEF Quota!Cardinality, Cardinality

(* Noting what went wrong for one launch.                                  *)
LEMMA Marked ==
  ASSUME NEW F, NEW h \in [Execution -> SUBSET F], NEW q \in Execution, NEW f \in F
  PROVE  [h EXCEPT ![q] = h[q] \cup {f}] \in [Execution -> SUBSET F]
  OBVIOUS

(* Every step keeps the types: a month is one of the model's.              *)
LEMMA LaunchTypes ==
  ASSUME LaunchAssumption, Quota!TypeOK, LaunchShape, Quota!Next
  PROVE  Quota!TypeOK'
  <1> USE DEF LaunchAssumption, Quota!QuotaAssumption, Quota!SwitchAssumption, Quota!TypeOK, Quota!Month, Quota!Stages, Quota!FaultKinds, Quota!money, Quota!runs, Quota!request
  <1>1. ASSUME NEW q \in Execution, Quota!Launch(q) \/ Quota!Crash(q) \/ Quota!WorkflowEnds(q)
        PROVE  Quota!TypeOK'
    <2>1. CASE Quota!PipelineRun(q)
      BY <2>1 DEF Quota!PipelineRun, Quota!Go
    <2>2. CASE Quota!ExecutionRetry(q)
      BY <2>2 DEF Quota!ExecutionRetry, Quota!Go, Quota!ActiveRetry
    <2>3. CASE Quota!ConsumeQuota(q)
      <3>1. used[month] + 1 \in Nat /\ counted[q] \cup {month} \in SUBSET (0 .. MaxMonth)
        OBVIOUS
      <3>2. /\ used' \in {used, [used EXCEPT ![month] = used[month] + 1]}
            /\ counted' \in {counted, [counted EXCEPT ![q] = counted[q] \cup {month}]}
        BY <2>3 DEF Quota!ConsumeQuota, Quota!Go, Quota!HasQuota, Quota!Count
      <3>3. used' \in [0 .. MaxMonth -> Nat]
        BY <3>1, <3>2
      <3>4. counted' \in [Execution -> SUBSET (0 .. MaxMonth)]
        BY <3>1, <3>2
      <3> QED BY <2>3, <3>3, <3>4 DEF Quota!ConsumeQuota, Quota!Go, Quota!HasQuota, Quota!Count
    <2>4. CASE Quota!ConsumeRefused(q)
      BY <2>4 DEF Quota!ConsumeRefused, Quota!Go
    <2>5. CASE Quota!ConsumeUnknown(q)
      <3>1. used[month] + 1 \in Nat /\ counted[q] \cup {month} \in SUBSET (0 .. MaxMonth)
        OBVIOUS
      <3>2. /\ used' \in {used, [used EXCEPT ![month] = used[month] + 1]}
            /\ counted' \in {counted, [counted EXCEPT ![q] = counted[q] \cup {month}]}
        BY <2>5 DEF Quota!ConsumeUnknown, Quota!Go, Quota!HasQuota, Quota!Count, Quota!Fault, Quota!Hit
      <3>3. used' \in [0 .. MaxMonth -> Nat]
        BY <3>1, <3>2
      <3>4. counted' \in [Execution -> SUBSET (0 .. MaxMonth)]
        BY <3>1, <3>2
      <3> QED BY <2>5, <3>3, <3>4 DEF Quota!ConsumeUnknown, Quota!Go, Quota!HasQuota, Quota!Count, Quota!Fault, Quota!Hit
    <2>6. CASE Quota!StartWorkflow(q)
      BY <2>6 DEF Quota!StartWorkflow, Quota!Go
    <2>7. CASE Quota!StartFails(q)
      <3>1. hit' = hit \/ \E f \in Quota!FaultKinds \cup {"month"} : hit' = [hit EXCEPT ![q] = hit[q] \cup {f}]
        BY <2>7 DEF Quota!StartFails, Quota!Go, Quota!Fault, Quota!Hit
      <3>2. hit \in [Execution -> SUBSET (Quota!FaultKinds \cup {"month"})]
        OBVIOUS
      <3>3. hit' \in [Execution -> SUBSET (Quota!FaultKinds \cup {"month"})]
        <4> HIDE DEF Quota!FaultKinds, Quota!TypeOK
        <4> QED BY <3>1, <3>2, Marked
      <3> QED BY <2>7, <3>3 DEF Quota!StartFails, Quota!Go, Quota!Fault, Quota!Hit
    <2>8. CASE Quota!InsertRow(q)
      BY <2>8 DEF Quota!InsertRow, Quota!Go, Quota!Insertable, Quota!AfterInsert, Quota!ActiveRetry
    <2>9. CASE Quota!InsertFails(q)
      <3>1. hit' = hit \/ \E f \in Quota!FaultKinds \cup {"month"} : hit' = [hit EXCEPT ![q] = hit[q] \cup {f}]
        BY <2>9 DEF Quota!InsertFails, Quota!Go, Quota!Insertable, Quota!ActiveRetry, Quota!AfterFailedInsert, Quota!Fault, Quota!Hit
      <3>2. hit \in [Execution -> SUBSET (Quota!FaultKinds \cup {"month"})]
        OBVIOUS
      <3>3. hit' \in [Execution -> SUBSET (Quota!FaultKinds \cup {"month"})]
        <4> HIDE DEF Quota!FaultKinds, Quota!TypeOK
        <4> QED BY <3>1, <3>2, Marked
      <3> QED BY <2>9, <3>3 DEF Quota!InsertFails, Quota!Go, Quota!Insertable, Quota!ActiveRetry, Quota!AfterFailedInsert, Quota!Fault, Quota!Hit
    <2>10. CASE Quota!TerminateWorkflow(q)
      <3>1. hit' = hit \/ \E f \in Quota!FaultKinds \cup {"month"} : hit' = [hit EXCEPT ![q] = hit[q] \cup {f}]
        BY <2>10 DEF Quota!TerminateWorkflow, Quota!Go, Quota!Fault, Quota!Hit
      <3>2. hit \in [Execution -> SUBSET (Quota!FaultKinds \cup {"month"})]
        OBVIOUS
      <3>3. hit' \in [Execution -> SUBSET (Quota!FaultKinds \cup {"month"})]
        <4> HIDE DEF Quota!FaultKinds, Quota!TypeOK
        <4> QED BY <3>1, <3>2, Marked
      <3> QED BY <2>10, <3>3 DEF Quota!TerminateWorkflow, Quota!Go, Quota!Fault, Quota!Hit
    <2>11. CASE Quota!ReleaseQuota(q)
      <3>1. hit' = hit \/ \E f \in Quota!FaultKinds \cup {"month"} : hit' = [hit EXCEPT ![q] = hit[q] \cup {f}]
        BY <2>11 DEF Quota!ReleaseQuota, Quota!Go, Quota!Released, Quota!Fault, Quota!Hit
      <3>2. hit \in [Execution -> SUBSET (Quota!FaultKinds \cup {"month"})]
        OBVIOUS
      <3>3. hit' \in [Execution -> SUBSET (Quota!FaultKinds \cup {"month"})]
        <4> HIDE DEF Quota!FaultKinds, Quota!TypeOK
        <4> QED BY <3>1, <3>2, Marked
      <3>4. used' \in [0 .. MaxMonth -> Nat]
        <4>1. used' = used \/ (used[month] > 0 /\ used' = [used EXCEPT ![month] = used[month] - 1])
          BY <2>11 DEF Quota!ReleaseQuota, Quota!Released
        <4>2. used[month] > 0 => used[month] - 1 \in Nat
          OBVIOUS
        <4> QED BY <4>1, <4>2
      <3> QED BY <2>11, <3>3, <3>4 DEF Quota!ReleaseQuota, Quota!Go
    <2>12. CASE Quota!ScheduleFires(q)
      BY <2>12 DEF Quota!ScheduleFires, Quota!Go
    <2>13. CASE Quota!PrepareScheduledExecution(q)
      <3>1. used[month] + 1 \in Nat /\ counted[q] \cup {month} \in SUBSET (0 .. MaxMonth)
        OBVIOUS
      <3>2. /\ used' \in {used, [used EXCEPT ![month] = used[month] + 1]}
            /\ counted' \in {counted, [counted EXCEPT ![q] = counted[q] \cup {month}]}
        BY <2>13 DEF Quota!PrepareScheduledExecution, Quota!Go, Quota!Prepared, Quota!HasQuota, Quota!Count
      <3>3. used' \in [0 .. MaxMonth -> Nat]
        BY <3>1, <3>2
      <3>4. counted' \in [Execution -> SUBSET (0 .. MaxMonth)]
        BY <3>1, <3>2
      <3>5. /\ repeats' \in Nat /\ launchRow' \in [Execution -> {"none", "running", "over"}]
            /\ job' \in [Execution -> Quota!Stages]
        BY <2>13 DEF Quota!PrepareScheduledExecution, Quota!Go, Quota!Prepared, Quota!HasQuota, Quota!Count
      <3> QED BY <2>13, <3>3, <3>4, <3>5 DEF Quota!PrepareScheduledExecution
    <2>14. CASE Quota!PrepareFails(q)
      <3>1. used[month] + 1 \in Nat /\ counted[q] \cup {month} \in SUBSET (0 .. MaxMonth)
        OBVIOUS
      <3>2. /\ used' \in {used, [used EXCEPT ![month] = used[month] + 1]}
            /\ counted' \in {counted, [counted EXCEPT ![q] = counted[q] \cup {month}]}
        BY <2>14 DEF Quota!PrepareFails, Quota!Go, Quota!Prepared, Quota!HasQuota, Quota!Count
      <3>3. used' \in [0 .. MaxMonth -> Nat]
        BY <3>1, <3>2
      <3>4. counted' \in [Execution -> SUBSET (0 .. MaxMonth)]
        BY <3>1, <3>2
      <3>5. attempts' \in [Execution -> 0 .. MaxPrepares]
        <4>1. attempts' = [attempts EXCEPT ![q] = attempts[q] + 1] /\ attempts[q] \in 0 .. MaxPrepares
          BY <2>14 DEF Quota!PrepareFails, Quota!Go, Quota!Prepared, Quota!HasQuota, Quota!Count
        <4>2. attempts[q] + 1 \in 0 .. MaxPrepares
          BY <4>1, <2>14 DEF LaunchShape, Quota!PrepareFails, Quota!Go, Quota!Prepared, Quota!HasQuota, Quota!Count
        <4> QED BY <4>1, <4>2
      <3>6. /\ repeats' \in Nat /\ launchRow' \in [Execution -> {"none", "running", "over"}]
        <4>1. CASE Quota!Prepared(q)
          BY <4>1 DEF Quota!Prepared
        <4>2. CASE UNCHANGED <<used, counted, launchRow, repeats>>
          BY <4>2
        <4> QED BY <2>14, <4>1, <4>2 DEF Quota!PrepareFails
      <3>7. /\ job' \in [Execution -> Quota!Stages]
            /\ workflow' \in [Execution -> {"none", "running", "terminated", "ended"}]
        BY <2>14 DEF Quota!PrepareFails, Quota!Go
      <3> QED BY <2>14, <3>3, <3>4, <3>5, <3>6, <3>7 DEF Quota!PrepareFails
    <2>15. CASE Quota!PrepareRefused(q)
      BY <2>15 DEF Quota!PrepareRefused, Quota!Go
    <2>16. CASE Quota!Crash(q)
      BY <2>16 DEF Quota!Crash, Quota!Fault, Quota!Hit
    <2>17. CASE Quota!WorkflowEnds(q)
      BY <2>17 DEF Quota!WorkflowEnds
    <2> QED BY <1>1, <2>1, <2>2, <2>3, <2>4, <2>5, <2>6, <2>7, <2>8, <2>9, <2>10, <2>11, <2>12, <2>13, <2>14, <2>15, <2>16, <2>17 DEF Quota!Launch
  <1>2. ASSUME NEW o \in Order, Quota!BillingOrder(o) \/ Quota!PaymentCaptured(o) \/ Quota!PaymentFailed(o)
        PROVE  Quota!TypeOK'
    <2>1. CASE Quota!BillingOrder(o)
      BY <2>1 DEF Quota!BillingOrder, Quota!Pay
    <2>2. CASE Quota!PaymentCaptured(o)
      BY <2>2 DEF Quota!PaymentCaptured, Quota!Pay, Quota!Payable
    <2>3. CASE Quota!PaymentFailed(o)
      BY <2>3 DEF Quota!PaymentFailed, Quota!Pay
    <2> QED BY <1>2, <2>1, <2>2, <2>3
  <1>3. CASE Quota!MonthEnds
    BY <1>3 DEF Quota!MonthEnds
  <1> QED BY <1>1, <1>2, <1>3 DEF Quota!Next

(* What each stage knows of its launch.                                    *)
LEMMA LaunchShapes ==
  ASSUME LaunchAssumption, Quota!TypeOK, LaunchShape, Quota!Next
  PROVE  LaunchShape'
  <1> USE DEF Quota!TypeOK, LaunchShape, Quota!money, Quota!runs, Quota!request
  <1>1. ASSUME NEW q \in Execution, Quota!Launch(q) \/ Quota!Crash(q) \/ Quota!WorkflowEnds(q)
        PROVE  LaunchShape'
    <2>1. CASE Quota!PipelineRun(q)
      BY <2>1 DEF Quota!PipelineRun, Quota!Go
    <2>2. CASE Quota!ExecutionRetry(q)
      BY <2>2 DEF Quota!ExecutionRetry, Quota!Go, Quota!ActiveRetry
    <2>3. CASE Quota!ConsumeQuota(q)
      BY <2>3 DEF Quota!ConsumeQuota, Quota!Go, Quota!HasQuota, Quota!Count
    <2>4. CASE Quota!ConsumeRefused(q)
      BY <2>4 DEF Quota!ConsumeRefused, Quota!Go
    <2>5. CASE Quota!ConsumeUnknown(q)
      BY <2>5 DEF Quota!ConsumeUnknown, Quota!Go, Quota!HasQuota, Quota!Count, Quota!Fault, Quota!Hit
    <2>6. CASE Quota!StartWorkflow(q)
      BY <2>6 DEF Quota!StartWorkflow, Quota!Go
    <2>7. CASE Quota!StartFails(q)
      BY <2>7 DEF Quota!StartFails, Quota!Go, Quota!Fault, Quota!Hit
    <2>8. CASE Quota!InsertRow(q)
      BY <2>8 DEF Quota!InsertRow, Quota!Go, Quota!Insertable, Quota!AfterInsert, Quota!ActiveRetry
    <2>9. CASE Quota!InsertFails(q)
      BY <2>9 DEF Quota!InsertFails, Quota!Go, Quota!Insertable, Quota!ActiveRetry, Quota!AfterFailedInsert, Quota!Fault, Quota!Hit
    <2>10. CASE Quota!TerminateWorkflow(q)
      BY <2>10 DEF Quota!TerminateWorkflow, Quota!Go, Quota!Fault, Quota!Hit
    <2>11. CASE Quota!ReleaseQuota(q)
      BY <2>11 DEF Quota!ReleaseQuota, Quota!Go, Quota!Released, Quota!Fault, Quota!Hit
    <2>12. CASE Quota!ScheduleFires(q)
      BY <2>12 DEF Quota!ScheduleFires, Quota!Go
    <2>13. CASE Quota!PrepareScheduledExecution(q)
      BY <2>13 DEF Quota!PrepareScheduledExecution, Quota!Go, Quota!Prepared, Quota!HasQuota, Quota!Count
    <2>14. CASE Quota!PrepareFails(q)
      BY <2>14 DEF Quota!PrepareFails, Quota!Go, Quota!Prepared, Quota!HasQuota, Quota!Count
    <2>15. CASE Quota!PrepareRefused(q)
      BY <2>15 DEF Quota!PrepareRefused, Quota!Go
    <2>16. CASE Quota!Crash(q)
      BY <2>16 DEF Quota!Crash, Quota!Fault, Quota!Hit
    <2>17. CASE Quota!WorkflowEnds(q)
      BY <2>17 DEF Quota!WorkflowEnds
    <2> QED BY <1>1, <2>1, <2>2, <2>3, <2>4, <2>5, <2>6, <2>7, <2>8, <2>9, <2>10, <2>11, <2>12, <2>13, <2>14, <2>15, <2>16, <2>17 DEF Quota!Launch
  <1>2. ASSUME NEW o \in Order, Quota!BillingOrder(o) \/ Quota!PaymentCaptured(o) \/ Quota!PaymentFailed(o)
        PROVE  LaunchShape'
    <2>1. CASE Quota!BillingOrder(o)
      BY <2>1 DEF Quota!BillingOrder, Quota!Pay
    <2>2. CASE Quota!PaymentCaptured(o)
      BY <2>2 DEF Quota!PaymentCaptured, Quota!Pay, Quota!Payable
    <2>3. CASE Quota!PaymentFailed(o)
      BY <2>3 DEF Quota!PaymentFailed, Quota!Pay
    <2> QED BY <1>2, <2>1, <2>2, <2>3
  <1>3. CASE Quota!MonthEnds
    BY <1>3 DEF Quota!MonthEnds
  <1> QED BY <1>1, <1>2, <1>3 DEF Quota!Next

(* A launch that gives up has terminated its workflow, or the call that    *)
(* should have done it, or the one that started it, failed.                *)
LEMMA LaunchesUndone ==
  ASSUME Quota!TypeOK, LaunchShape, Undone, Quota!Next
  PROVE  Undone'
  <1> USE DEF Quota!TypeOK, LaunchShape, Undone, Quota!money, Quota!runs, Quota!request
  <1>1. ASSUME NEW q \in Execution, Quota!Launch(q) \/ Quota!Crash(q) \/ Quota!WorkflowEnds(q)
        PROVE  Undone'
    <2>1. CASE Quota!PipelineRun(q)
      BY <2>1 DEF Quota!PipelineRun, Quota!Go
    <2>2. CASE Quota!ExecutionRetry(q)
      BY <2>2 DEF Quota!ExecutionRetry, Quota!Go, Quota!ActiveRetry
    <2>3. CASE Quota!ConsumeQuota(q)
      BY <2>3 DEF Quota!ConsumeQuota, Quota!Go, Quota!HasQuota, Quota!Count
    <2>4. CASE Quota!ConsumeRefused(q)
      BY <2>4 DEF Quota!ConsumeRefused, Quota!Go
    <2>5. CASE Quota!ConsumeUnknown(q)
      BY <2>5 DEF Quota!ConsumeUnknown, Quota!Go, Quota!HasQuota, Quota!Count, Quota!Fault, Quota!Hit
    <2>6. CASE Quota!StartWorkflow(q)
      BY <2>6 DEF Quota!StartWorkflow, Quota!Go
    <2>7. CASE Quota!StartFails(q)
      BY <2>7 DEF Quota!StartFails, Quota!Go, Quota!Fault, Quota!Hit
    <2>8. CASE Quota!InsertRow(q)
      BY <2>8 DEF Quota!InsertRow, Quota!Go, Quota!Insertable, Quota!AfterInsert, Quota!ActiveRetry
    <2>9. CASE Quota!InsertFails(q)
      BY <2>9 DEF Quota!InsertFails, Quota!Go, Quota!Insertable, Quota!ActiveRetry, Quota!AfterFailedInsert, Quota!Fault, Quota!Hit
    <2>10. CASE Quota!TerminateWorkflow(q)
      BY <2>10 DEF Quota!TerminateWorkflow, Quota!Go, Quota!Fault, Quota!Hit
    <2>11. CASE Quota!ReleaseQuota(q)
      BY <2>11 DEF Quota!ReleaseQuota, Quota!Go, Quota!Released, Quota!Fault, Quota!Hit
    <2>12. CASE Quota!ScheduleFires(q)
      BY <2>12 DEF Quota!ScheduleFires, Quota!Go
    <2>13. CASE Quota!PrepareScheduledExecution(q)
      BY <2>13 DEF Quota!PrepareScheduledExecution, Quota!Go, Quota!Prepared, Quota!HasQuota, Quota!Count
    <2>14. CASE Quota!PrepareFails(q)
      BY <2>14 DEF Quota!PrepareFails, Quota!Go, Quota!Prepared, Quota!HasQuota, Quota!Count
    <2>15. CASE Quota!PrepareRefused(q)
      BY <2>15 DEF Quota!PrepareRefused, Quota!Go
    <2>16. CASE Quota!Crash(q)
      BY <2>16 DEF Quota!Crash, Quota!Fault, Quota!Hit
    <2>17. CASE Quota!WorkflowEnds(q)
      BY <2>17 DEF Quota!WorkflowEnds
    <2> QED BY <1>1, <2>1, <2>2, <2>3, <2>4, <2>5, <2>6, <2>7, <2>8, <2>9, <2>10, <2>11, <2>12, <2>13, <2>14, <2>15, <2>16, <2>17 DEF Quota!Launch
  <1>2. ASSUME NEW o \in Order, Quota!BillingOrder(o) \/ Quota!PaymentCaptured(o) \/ Quota!PaymentFailed(o)
        PROVE  Undone'
    <2>1. CASE Quota!BillingOrder(o)
      BY <2>1 DEF Quota!BillingOrder, Quota!Pay
    <2>2. CASE Quota!PaymentCaptured(o)
      BY <2>2 DEF Quota!PaymentCaptured, Quota!Pay, Quota!Payable
    <2>3. CASE Quota!PaymentFailed(o)
      BY <2>3 DEF Quota!PaymentFailed, Quota!Pay
    <2> QED BY <1>2, <2>1, <2>2, <2>3
  <1>3. CASE Quota!MonthEnds
    BY <1>3 DEF Quota!MonthEnds
  <1> QED BY <1>1, <1>2, <1>3 DEF Quota!Next

(* idx_executions_one_active_retry: a retry gets its row only while no other *)
(* one is running, and only manual requests become retries.                *)
LEMMA RetriesOne ==
  ASSUME Quota!TypeOK, LaunchShape, OneRetry, Quota!Next
  PROVE  OneRetry'
  <1> USE DEF Quota!TypeOK, LaunchShape, OneRetry, Quota!money, Quota!runs, Quota!request
  <1>1. ASSUME NEW q \in Execution, Quota!Launch(q) \/ Quota!Crash(q) \/ Quota!WorkflowEnds(q)
        PROVE  OneRetry'
    <2>1. CASE Quota!PipelineRun(q)
      BY <2>1 DEF Quota!PipelineRun, Quota!Go
    <2>2. CASE Quota!ExecutionRetry(q)
      BY <2>2 DEF Quota!ExecutionRetry, Quota!Go, Quota!ActiveRetry
    <2>3. CASE Quota!ConsumeQuota(q)
      BY <2>3 DEF Quota!ConsumeQuota, Quota!Go, Quota!HasQuota, Quota!Count
    <2>4. CASE Quota!ConsumeRefused(q)
      BY <2>4 DEF Quota!ConsumeRefused, Quota!Go
    <2>5. CASE Quota!ConsumeUnknown(q)
      BY <2>5 DEF Quota!ConsumeUnknown, Quota!Go, Quota!HasQuota, Quota!Count, Quota!Fault, Quota!Hit
    <2>6. CASE Quota!StartWorkflow(q)
      BY <2>6 DEF Quota!StartWorkflow, Quota!Go
    <2>7. CASE Quota!StartFails(q)
      BY <2>7 DEF Quota!StartFails, Quota!Go, Quota!Fault, Quota!Hit
    <2>8. CASE Quota!InsertRow(q)
      BY <2>8 DEF Quota!InsertRow, Quota!Go, Quota!Insertable, Quota!AfterInsert, Quota!ActiveRetry
    <2>9. CASE Quota!InsertFails(q)
      BY <2>9 DEF Quota!InsertFails, Quota!Go, Quota!Insertable, Quota!ActiveRetry, Quota!AfterFailedInsert, Quota!Fault, Quota!Hit
    <2>10. CASE Quota!TerminateWorkflow(q)
      BY <2>10 DEF Quota!TerminateWorkflow, Quota!Go, Quota!Fault, Quota!Hit
    <2>11. CASE Quota!ReleaseQuota(q)
      BY <2>11 DEF Quota!ReleaseQuota, Quota!Go, Quota!Released, Quota!Fault, Quota!Hit
    <2>12. CASE Quota!ScheduleFires(q)
      BY <2>12 DEF Quota!ScheduleFires, Quota!Go
    <2>13. CASE Quota!PrepareScheduledExecution(q)
      BY <2>13 DEF Quota!PrepareScheduledExecution, Quota!Go, Quota!Prepared, Quota!HasQuota, Quota!Count
    <2>14. CASE Quota!PrepareFails(q)
      BY <2>14 DEF Quota!PrepareFails, Quota!Go, Quota!Prepared, Quota!HasQuota, Quota!Count
    <2>15. CASE Quota!PrepareRefused(q)
      BY <2>15 DEF Quota!PrepareRefused, Quota!Go
    <2>16. CASE Quota!Crash(q)
      BY <2>16 DEF Quota!Crash, Quota!Fault, Quota!Hit
    <2>17. CASE Quota!WorkflowEnds(q)
      BY <2>17 DEF Quota!WorkflowEnds
    <2> QED BY <1>1, <2>1, <2>2, <2>3, <2>4, <2>5, <2>6, <2>7, <2>8, <2>9, <2>10, <2>11, <2>12, <2>13, <2>14, <2>15, <2>16, <2>17 DEF Quota!Launch
  <1>2. ASSUME NEW o \in Order, Quota!BillingOrder(o) \/ Quota!PaymentCaptured(o) \/ Quota!PaymentFailed(o)
        PROVE  OneRetry'
    <2>1. CASE Quota!BillingOrder(o)
      BY <2>1 DEF Quota!BillingOrder, Quota!Pay
    <2>2. CASE Quota!PaymentCaptured(o)
      BY <2>2 DEF Quota!PaymentCaptured, Quota!Pay, Quota!Payable
    <2>3. CASE Quota!PaymentFailed(o)
      BY <2>3 DEF Quota!PaymentFailed, Quota!Pay
    <2> QED BY <1>2, <2>1, <2>2, <2>3
  <1>3. CASE Quota!MonthEnds
    BY <1>3 DEF Quota!MonthEnds
  <1> QED BY <1>1, <1>2, <1>3 DEF Quota!Next

(* consumeQuota counts only below the quota, and a payment only raises it. *)
LEMMA QuotaBounds ==
  ASSUME LaunchAssumption, Quota!TypeOK, Quota!WithinQuota, Quota!Next
  PROVE  Quota!WithinQuota'
  <1> USE DEF LaunchAssumption, Quota!QuotaAssumption, Quota!SwitchAssumption, Quota!TypeOK, Quota!WithinQuota, Quota!Month, Quota!money, Quota!runs, Quota!request
  <1>1. ASSUME NEW q \in Execution, Quota!Launch(q) \/ Quota!Crash(q) \/ Quota!WorkflowEnds(q)
        PROVE  Quota!WithinQuota'
    <2>1. CASE Quota!PipelineRun(q)
      BY <2>1 DEF Quota!PipelineRun, Quota!Go
    <2>2. CASE Quota!ExecutionRetry(q)
      BY <2>2 DEF Quota!ExecutionRetry, Quota!Go, Quota!ActiveRetry
    <2>3. CASE Quota!ConsumeQuota(q)
      BY <2>3 DEF Quota!ConsumeQuota, Quota!Go, Quota!HasQuota, Quota!Count
    <2>4. CASE Quota!ConsumeRefused(q)
      BY <2>4 DEF Quota!ConsumeRefused, Quota!Go
    <2>5. CASE Quota!ConsumeUnknown(q)
      BY <2>5 DEF Quota!ConsumeUnknown, Quota!Go, Quota!HasQuota, Quota!Count, Quota!Fault, Quota!Hit
    <2>6. CASE Quota!StartWorkflow(q)
      BY <2>6 DEF Quota!StartWorkflow, Quota!Go
    <2>7. CASE Quota!StartFails(q)
      BY <2>7 DEF Quota!StartFails, Quota!Go, Quota!Fault, Quota!Hit
    <2>8. CASE Quota!InsertRow(q)
      BY <2>8 DEF Quota!InsertRow, Quota!Go, Quota!Insertable, Quota!AfterInsert, Quota!ActiveRetry
    <2>9. CASE Quota!InsertFails(q)
      BY <2>9 DEF Quota!InsertFails, Quota!Go, Quota!Insertable, Quota!ActiveRetry, Quota!AfterFailedInsert, Quota!Fault, Quota!Hit
    <2>10. CASE Quota!TerminateWorkflow(q)
      BY <2>10 DEF Quota!TerminateWorkflow, Quota!Go, Quota!Fault, Quota!Hit
    <2>11. CASE Quota!ReleaseQuota(q)
      BY <2>11 DEF Quota!ReleaseQuota, Quota!Go, Quota!Released, Quota!Fault, Quota!Hit
    <2>12. CASE Quota!ScheduleFires(q)
      BY <2>12 DEF Quota!ScheduleFires, Quota!Go
    <2>13. CASE Quota!PrepareScheduledExecution(q)
      BY <2>13 DEF Quota!PrepareScheduledExecution, Quota!Go, Quota!Prepared, Quota!HasQuota, Quota!Count
    <2>14. CASE Quota!PrepareFails(q)
      BY <2>14 DEF Quota!PrepareFails, Quota!Go, Quota!Prepared, Quota!HasQuota, Quota!Count
    <2>15. CASE Quota!PrepareRefused(q)
      BY <2>15 DEF Quota!PrepareRefused, Quota!Go
    <2>16. CASE Quota!Crash(q)
      BY <2>16 DEF Quota!Crash, Quota!Fault, Quota!Hit
    <2>17. CASE Quota!WorkflowEnds(q)
      BY <2>17 DEF Quota!WorkflowEnds
    <2> QED BY <1>1, <2>1, <2>2, <2>3, <2>4, <2>5, <2>6, <2>7, <2>8, <2>9, <2>10, <2>11, <2>12, <2>13, <2>14, <2>15, <2>16, <2>17 DEF Quota!Launch
  <1>2. ASSUME NEW o \in Order, Quota!BillingOrder(o) \/ Quota!PaymentCaptured(o) \/ Quota!PaymentFailed(o)
        PROVE  Quota!WithinQuota'
    <2>1. CASE Quota!BillingOrder(o)
      BY <2>1 DEF Quota!BillingOrder, Quota!Pay
    <2>2. CASE Quota!PaymentCaptured(o)
      BY <2>2 DEF Quota!PaymentCaptured, Quota!Pay, Quota!Payable
    <2>3. CASE Quota!PaymentFailed(o)
      BY <2>3 DEF Quota!PaymentFailed, Quota!Pay
    <2> QED BY <1>2, <2>1, <2>2, <2>3
  <1>3. CASE Quota!MonthEnds
    BY <1>3 DEF Quota!MonthEnds
  <1> QED BY <1>1, <1>2, <1>3 DEF Quota!Next

(* A step of one launch moves only its own unit.                           *)
Bit(q, S) == IF q \in S THEN 1 ELSE 0
Still(q) == \A r \in Execution \ {q} :
    job'[r] = job[r] /\ launchRow'[r] = launchRow[r] /\ counted'[r] = counted[r] /\ hit'[r] = hit[r]
Moved(q, m) ==
    /\ Bit(q, Live(m)') - Bit(q, Live(m)) <= used'[m] - used[m] + Bit(q, Short') - Bit(q, Short)
    /\ \/ used'[m] = 0
       \/ used'[m] - used[m] <= Bit(q, Live(m)') - Bit(q, Live(m)) + repeats' - repeats
                                 + Bit(q, Spare') - Bit(q, Spare)

(* One that neither counts nor releases, nor ends without its row.         *)
Calm(q, m) ==
    /\ used' = used /\ repeats' = repeats /\ (q \in Live(m)' <=> q \in Live(m))
    /\ q \in Short => q \in Short'
    /\ q \in Spare => q \in Spare'

(* It accounts for nothing.                                                *)
LEMMA CalmMoves ==
  ASSUME Quota!TypeOK, NEW m \in Quota!Month, NEW q, Calm(q, m)
  PROVE  Moved(q, m)
  <1>1. used[m] \in Nat /\ repeats \in Nat
    BY DEF Quota!TypeOK
  <1>2. Bit(q, Live(m)') = Bit(q, Live(m)) /\ Bit(q, Live(m)) \in {0, 1}
    BY DEF Bit, Calm
  <1>3. /\ Bit(q, Short) \in {0, 1} /\ Bit(q, Short') \in {0, 1} /\ Bit(q, Short) <= Bit(q, Short')
        /\ Bit(q, Spare) \in {0, 1} /\ Bit(q, Spare') \in {0, 1} /\ Bit(q, Spare) <= Bit(q, Spare')
    BY DEF Bit, Calm
  <1> QED BY <1>1, <1>2, <1>3 DEF Moved, Calm

(* Each step of a launch accounts for what it moves.                       *)
LEMMA LaunchMoves ==
  ASSUME LaunchAssumption, Quota!TypeOK, Quota!TypeOK', LaunchShape, NEW m \in Quota!Month, NEW q \in Execution,
         Quota!Launch(q) \/ Quota!Crash(q) \/ Quota!WorkflowEnds(q)
  PROVE  Still(q) /\ Moved(q, m)
  <1> USE DEF Quota!TypeOK, Quota!Month, LaunchShape, Quota!money, Quota!runs, Quota!request
  <1>1. CASE Quota!PipelineRun(q)
    <2>1. Still(q)
      BY <1>1 DEF Still, Quota!PipelineRun, Quota!Go
    <2>2. Calm(q, m)
      BY <1>1 DEF Calm, Live, Short, Spare, Quota!PipelineRun, Quota!Go
    <2> QED BY <2>1, <2>2, CalmMoves
  <1>2. CASE Quota!ExecutionRetry(q)
    <2>1. Still(q)
      BY <1>2 DEF Still, Quota!ExecutionRetry, Quota!Go, Quota!ActiveRetry
    <2>2. Calm(q, m)
      BY <1>2 DEF Calm, Live, Short, Spare, Quota!ExecutionRetry, Quota!Go, Quota!ActiveRetry
    <2> QED BY <2>1, <2>2, CalmMoves
  <1>3. CASE Quota!ConsumeQuota(q)
    <2>1. Still(q)
      BY <1>3 DEF Still, Quota!ConsumeQuota, Quota!Go, Quota!HasQuota, Quota!Count
    <2>2. Moved(q, m)
      BY <1>3 DEF Moved, Bit, Live, Short, Spare, Quota!ConsumeQuota, Quota!Go, Quota!HasQuota, Quota!Count
    <2> QED BY <2>1, <2>2
  <1>4. CASE Quota!ConsumeRefused(q)
    <2>1. Still(q)
      BY <1>4 DEF Still, Quota!ConsumeRefused, Quota!Go
    <2>2. Calm(q, m)
      BY <1>4 DEF Calm, Live, Short, Spare, Quota!ConsumeRefused, Quota!Go
    <2> QED BY <2>1, <2>2, CalmMoves
  <1>5. CASE Quota!ConsumeUnknown(q)
    <2>1. Still(q)
      BY <1>5 DEF Still, Quota!ConsumeUnknown, Quota!Go, Quota!HasQuota, Quota!Count, Quota!Fault, Quota!Hit
    <2>2. Moved(q, m)
      BY <1>5 DEF Moved, Bit, Live, Short, Spare, Quota!ConsumeUnknown, Quota!Go, Quota!HasQuota, Quota!Count, Quota!Fault, Quota!Hit
    <2> QED BY <2>1, <2>2
  <1>6. CASE Quota!StartWorkflow(q)
    <2>1. Still(q)
      BY <1>6 DEF Still, Quota!StartWorkflow, Quota!Go
    <2>2. Calm(q, m)
      BY <1>6 DEF Calm, Live, Short, Spare, Quota!StartWorkflow, Quota!Go
    <2> QED BY <2>1, <2>2, CalmMoves
  <1>7. CASE Quota!StartFails(q)
    <2>1. Still(q)
      BY <1>7 DEF Still, Quota!StartFails, Quota!Go, Quota!Fault, Quota!Hit
    <2>2. Calm(q, m)
      BY <1>7 DEF Calm, Live, Short, Spare, Quota!StartFails, Quota!Go, Quota!Fault, Quota!Hit
    <2> QED BY <2>1, <2>2, CalmMoves
  <1>8. CASE Quota!InsertRow(q)
    <2>1. Still(q)
      BY <1>8 DEF Still, Quota!InsertRow, Quota!Go, Quota!Insertable, Quota!AfterInsert, Quota!ActiveRetry
    <2>2. Calm(q, m)
      BY <1>8 DEF Calm, Live, Short, Spare, Quota!InsertRow, Quota!Go, Quota!Insertable, Quota!AfterInsert, Quota!ActiveRetry
    <2> QED BY <2>1, <2>2, CalmMoves
  <1>9. CASE Quota!InsertFails(q)
    <2>1. Still(q)
      BY <1>9 DEF Still, Quota!InsertFails, Quota!Go, Quota!Insertable, Quota!ActiveRetry, Quota!AfterFailedInsert, Quota!Fault, Quota!Hit
    <2>2. Calm(q, m)
      BY <1>9 DEF Calm, Live, Short, Spare, Quota!InsertFails, Quota!Go, Quota!Insertable, Quota!ActiveRetry, Quota!AfterFailedInsert, Quota!Fault, Quota!Hit
    <2> QED BY <2>1, <2>2, CalmMoves
  <1>10. CASE Quota!TerminateWorkflow(q)
    <2>1. Still(q)
      BY <1>10 DEF Still, Quota!TerminateWorkflow, Quota!Go, Quota!Fault, Quota!Hit
    <2>2. Calm(q, m)
      BY <1>10 DEF Calm, Live, Short, Spare, Quota!TerminateWorkflow, Quota!Go, Quota!Fault, Quota!Hit
    <2> QED BY <2>1, <2>2, CalmMoves
  <1>11. CASE Quota!ReleaseQuota(q)
    <2>1. Still(q)
      BY <1>11 DEF Still, Quota!ReleaseQuota, Quota!Go, Quota!Released, Quota!Fault, Quota!Hit
    <2>2. /\ q \notin Short /\ q \notin Spare /\ (q \in Live(m) <=> m \in counted[q])
          /\ q \in Live(m)' <=> m \in counted[q] /\ launchRow[q] # "none"
          /\ launchRow[q] # "none" => q \in Short'
          /\ repeats' = repeats /\ used[m] \in Nat /\ repeats \in Nat
      <3>1. /\ job[q] = "release" /\ job'[q] = "done" /\ launchRow' = launchRow /\ counted' = counted
            /\ repeats' = repeats /\ hit[q] \subseteq hit'[q]
        BY <1>11 DEF Quota!ReleaseQuota, Quota!Go, Quota!Released, Quota!Fault, Quota!Hit
      <3> QED BY <3>1 DEF Live, Short, Spare
    <2>3. CASE used' = Quota!Released(q) /\ IF month \in counted[q] THEN UNCHANGED hit ELSE Quota!Hit(q, "month")
      <3>1. used'[m] = IF m = month /\ used[m] > 0 THEN used[m] - 1 ELSE used[m]
        BY <2>3 DEF Quota!Released
      <3>2. month \notin counted[q] => q \in Short' /\ q \in Spare'
        BY <1>11, <2>3 DEF Short, Spare, Quota!ReleaseQuota, Quota!Go, Quota!Hit
      <3>3. m = month /\ m \in counted[q] => Moved(q, m)
        BY <2>2, <3>1 DEF Moved, Bit
      <3>4. m = month /\ m \notin counted[q] => Moved(q, m)
        BY <2>2, <3>1, <3>2 DEF Moved, Bit
      <3>5. m # month /\ month \notin counted[q] => Moved(q, m)
        BY <2>2, <3>1, <3>2 DEF Moved, Bit
      <3>6. m # month /\ month \in counted[q] => Moved(q, m)
        <4>1. month \in counted[q] /\ m # month => m \notin counted[q]
          BY <1>11 DEF Quota!ReleaseQuota, Quota!Go, Quota!Released, Quota!Fault, Quota!Hit
        <4> QED BY <2>2, <3>1, <4>1 DEF Moved, Bit
      <3> QED BY <2>1, <3>3, <3>4, <3>5, <3>6
    <2>4. CASE Quota!Fault(q, "release") /\ UNCHANGED used
      <3>1. q \in Spare'
        BY <1>11, <2>4 DEF Spare, Quota!ReleaseQuota, Quota!Go, Quota!Fault, Quota!Hit
      <3>2. Moved(q, m)
        BY <2>2, <2>4, <3>1 DEF Moved, Bit
      <3> QED BY <2>1, <3>2
    <2> QED BY <1>11, <2>3, <2>4 DEF Quota!ReleaseQuota
  <1>12. CASE Quota!ScheduleFires(q)
    <2>1. Still(q)
      BY <1>12 DEF Still, Quota!ScheduleFires, Quota!Go
    <2>2. Calm(q, m)
      BY <1>12 DEF Calm, Live, Short, Spare, Quota!ScheduleFires, Quota!Go
    <2> QED BY <2>1, <2>2, CalmMoves
  <1>13. CASE Quota!PrepareScheduledExecution(q)
    <2>1. Still(q)
      BY <1>13 DEF Still, Quota!PrepareScheduledExecution, Quota!Go, Quota!Prepared, Quota!HasQuota, Quota!Count
    <2>2. Moved(q, m)
      BY <1>13 DEF Moved, Bit, Live, Short, Spare, Quota!PrepareScheduledExecution, Quota!Go, Quota!Prepared, Quota!HasQuota, Quota!Count
    <2> QED BY <2>1, <2>2
  <1>14. CASE Quota!PrepareFails(q)
    <2>1. Still(q)
      BY <1>14 DEF Still, Quota!PrepareFails, Quota!Go, Quota!Prepared, Quota!HasQuota, Quota!Count
    <2>2. CASE Quota!Prepared(q)
      <3>1. Moved(q, m)
        BY <1>14, <2>2 DEF Moved, Bit, Live, Short, Spare, Quota!PrepareFails, Quota!Go, Quota!Prepared, Quota!HasQuota, Quota!Count
      <3> QED BY <2>1, <3>1
    <2>3. CASE UNCHANGED <<used, counted, launchRow, repeats>>
      <3>1. Calm(q, m)
        BY <1>14, <2>3 DEF Calm, Live, Short, Spare, Quota!PrepareFails, Quota!Go
      <3> QED BY <2>1, <3>1, CalmMoves
    <2> QED BY <1>14, <2>2, <2>3 DEF Quota!PrepareFails
  <1>15. CASE Quota!PrepareRefused(q)
    <2>1. Still(q)
      BY <1>15 DEF Still, Quota!PrepareRefused, Quota!Go
    <2>2. Calm(q, m)
      BY <1>15 DEF Calm, Live, Short, Spare, Quota!PrepareRefused, Quota!Go
    <2> QED BY <2>1, <2>2, CalmMoves
  <1>16. CASE Quota!Crash(q)
    <2>1. Still(q)
      BY <1>16 DEF Still, Quota!Crash, Quota!Fault, Quota!Hit
    <2>2. Moved(q, m)
      BY <1>16 DEF Moved, Bit, Live, Short, Spare, Quota!Crash, Quota!Fault, Quota!Hit
    <2> QED BY <2>1, <2>2
  <1>17. CASE Quota!WorkflowEnds(q)
    <2>1. Still(q)
      BY <1>17 DEF Still, Quota!WorkflowEnds
    <2>2. Calm(q, m)
      BY <1>17 DEF Calm, Live, Short, Spare, Quota!WorkflowEnds
    <2> QED BY <2>1, <2>2, CalmMoves
  <1> QED BY <1>1, <1>2, <1>3, <1>4, <1>5, <1>6, <1>7, <1>8, <1>9, <1>10, <1>11, <1>12, <1>13, <1>14, <1>15, <1>16, <1>17 DEF Quota!Launch

(* A set that changes at one element only changes its size by it.          *)
LEMMA OneMoves ==
  ASSUME NEW X, IsFiniteSet(X), NEW Y, NEW q, \A r : r # q => (r \in Y <=> r \in X)
  PROVE  /\ Cardinality(X) \in Nat /\ Cardinality(Y) \in Nat
         /\ Cardinality(Y) - Cardinality(X) = Bit(q, Y) - Bit(q, X)
  <1>1. CASE q \in X /\ q \notin Y
    <2>1. Y = X \ {q}
      BY <1>1
    <2>2. Bit(q, X) = 1 /\ Bit(q, Y) = 0
      BY <1>1 DEF Bit
    <2>3. Cardinality(Y) = Cardinality(X) - 1 /\ Cardinality(X) \in Nat /\ Cardinality(Y) \in Nat
      BY <1>1, <2>1, FS_RemoveElement, FS_CardinalityType
    <2> QED BY <2>2, <2>3
  <1>2. CASE q \notin X /\ q \in Y
    <2>1. Y = X \cup {q}
      BY <1>2
    <2>2. Bit(q, X) = 0 /\ Bit(q, Y) = 1
      BY <1>2 DEF Bit
    <2>3. Cardinality(Y) = Cardinality(X) + 1 /\ Cardinality(X) \in Nat /\ Cardinality(Y) \in Nat
      BY <1>2, <2>1, FS_AddElement, FS_CardinalityType
    <2> QED BY <2>2, <2>3
  <1>3. CASE q \in X <=> q \in Y
    <2>1. Y = X
      BY <1>3
    <2> QED BY <2>1, FS_CardinalityType DEF Bit
  <1> QED BY <1>1, <1>2, <1>3

(* The counters stay in balance with what is alive.                        *)
LEMMA BalanceSteps ==
  ASSUME LaunchAssumption, IsFiniteSet(Execution), Quota!TypeOK, LaunchShape, Balance, Quota!Next
  PROVE  Balance'
  <1>1. Quota!TypeOK'
    BY LaunchTypes
  <1>2. SUFFICES ASSUME NEW m \in Quota!Month PROVE Balanced(m)'
    BY DEF Balance, Quota!Month
  <1>3. /\ IsFiniteSet(Live(m)) /\ IsFiniteSet(Short) /\ IsFiniteSet(Spare)
        /\ Balanced(m)
    BY <1>2, FS_Subset DEF Live, Short, Spare, Balance
  <1>4. used[m] \in Nat /\ used'[m] \in Nat /\ repeats \in Nat /\ repeats' \in Nat
    BY <1>1, <1>2 DEF Quota!TypeOK
  <1>5. CASE \E q \in Execution : Quota!Launch(q) \/ Quota!Crash(q) \/ Quota!WorkflowEnds(q)
    <2>1. PICK q \in Execution : Quota!Launch(q) \/ Quota!Crash(q) \/ Quota!WorkflowEnds(q)
      BY <1>5
    <2>2. Still(q) /\ Moved(q, m)
      BY <1>1, <1>2, <2>1, LaunchMoves
    <2>3. /\ \A r : r # q => (r \in Live(m)' <=> r \in Live(m))
          /\ \A r : r # q => (r \in Short' <=> r \in Short)
          /\ \A r : r # q => (r \in Spare' <=> r \in Spare)
      BY <2>2 DEF Still, Live, Short, Spare
    <2> DEFINE l == Cardinality(Live(m))
               l2 == Cardinality(Live(m)')
               s == Cardinality(Short)
               s2 == Cardinality(Short')
               p == Cardinality(Spare)
               p2 == Cardinality(Spare')
    <2>4. l \in Nat /\ l2 \in Nat /\ l2 - l = Bit(q, Live(m)') - Bit(q, Live(m))
      BY <1>3, <2>3, OneMoves
    <2>5. s \in Nat /\ s2 \in Nat /\ s2 - s = Bit(q, Short') - Bit(q, Short)
      BY <1>3, <2>3, OneMoves
    <2>6. p \in Nat /\ p2 \in Nat /\ p2 - p = Bit(q, Spare') - Bit(q, Spare)
      BY <1>3, <2>3, OneMoves
    <2>7. l <= used[m] + s /\ used[m] <= l + repeats + p
      BY <1>3 DEF Balanced
    <2>8. \A S : Bit(q, S) \in {0, 1}
      BY DEF Bit
    <2> HIDE DEF l, l2, s, s2, p, p2
    <2>9. l2 <= used'[m] + s2 /\ used'[m] <= l2 + repeats' + p2
      BY <1>4, <2>2, <2>4, <2>5, <2>6, <2>7, <2>8 DEF Moved
    <2> QED BY <2>9 DEF Balanced, l2, s2, p2
  <1>6. CASE UNCHANGED <<used, repeats, job, launchRow, counted, hit>>
    BY <1>3, <1>6 DEF Balanced, Live, Short, Spare
  <1>7. CASE \E o \in Order : Quota!BillingOrder(o) \/ Quota!PaymentCaptured(o) \/ Quota!PaymentFailed(o)
    BY <1>6, <1>7 DEF Quota!BillingOrder, Quota!PaymentCaptured, Quota!PaymentFailed, Quota!runs
  <1>8. CASE Quota!MonthEnds
    BY <1>6, <1>8 DEF Quota!MonthEnds, Quota!money, Quota!runs
  <1> QED BY <1>5, <1>7, <1>8 DEF Quota!Next

(* An order is paid once, whatever calls of Razorpay arrive: each adds its *)
(* unit with the status that it changes.                                   *)
Paid == {o \in Order : order[o] = "paid"}

LEMMA PaidSteps ==
  ASSUME LaunchAssumption, Quota!TypeOK, IsFiniteSet(Order), Quota!PaidOnce, Quota!Next
  PROVE  Quota!PaidOnce'
  <1> USE DEF Quota!money, Quota!runs, Quota!request
  <1>1. IsFiniteSet(Paid) /\ Cardinality(Paid) \in Nat /\ PerUnit \in Nat
    BY FS_Subset, FS_CardinalityType DEF Paid, LaunchAssumption, Quota!QuotaAssumption
  <1>2. extra = PerUnit * Cardinality(Paid)
    BY QuotaCardinality DEF Quota!PaidOnce, Paid
  <1>3. CASE \E o \in Order : Quota!PaymentCaptured(o)
    <2>1. PICK o \in Order : Quota!PaymentCaptured(o)
      BY <1>3
    <2>2. o \notin Paid /\ Paid' = Paid \cup {o} /\ extra' = extra + PerUnit
      BY <2>1 DEF Quota!PaymentCaptured, Quota!Pay, Quota!Payable, Paid, Quota!TypeOK
    <2>3. Cardinality(Paid') = Cardinality(Paid) + 1
      BY <1>1, <2>2, FS_AddElement
    <2>4. PerUnit * (Cardinality(Paid) + 1) = PerUnit * Cardinality(Paid) + PerUnit
      BY <1>1
    <2>5. extra' = PerUnit * Cardinality(Paid')
      BY <1>2, <2>2, <2>3, <2>4
    <2> QED BY <2>5, QuotaCardinality DEF Quota!PaidOnce, Paid
  <1>4. CASE \A o \in Order : ~ Quota!PaymentCaptured(o)
    <2>1. Paid' = Paid /\ extra' = extra
      <3>1. CASE \E o \in Order : Quota!BillingOrder(o) \/ Quota!PaymentFailed(o)
        BY <3>1 DEF Quota!BillingOrder, Quota!PaymentFailed, Quota!Pay, Paid, Quota!TypeOK
      <3>2. CASE order' = order /\ extra' = extra
        BY <3>2 DEF Paid
      <3> QED BY <1>4, <3>1, <3>2 DEF Quota!Next, Quota!Launch, Quota!MonthEnds, Quota!PipelineRun, Quota!ExecutionRetry, Quota!ConsumeQuota, Quota!StartWorkflow, Quota!StartFails, Quota!InsertRow, Quota!InsertFails, Quota!TerminateWorkflow, Quota!ReleaseQuota, Quota!ScheduleFires, Quota!PrepareScheduledExecution, Quota!PrepareFails, Quota!PrepareRefused, Quota!Prepared, Quota!ConsumeRefused, Quota!ConsumeUnknown, Quota!Crash, Quota!WorkflowEnds, Quota!Go, Quota!Count
    <2> QED BY <2>1, <1>2, QuotaCardinality DEF Quota!PaidOnce, Paid
  <1> QED BY <1>3, <1>4

(* The invariants start true and every step keeps them.                    *)
LEMMA LaunchStarts ==
  ASSUME LaunchAssumption, Quota!Init
  PROVE  LaunchInv /\ Quota!PaidOnce /\ Balance
  <1> USE DEF Quota!Init, LaunchAssumption, Quota!QuotaAssumption, Quota!SwitchAssumption
  <1>1. Quota!TypeOK
    BY DEF Quota!TypeOK, Quota!Month, Quota!Stages, Quota!FaultKinds
  <1>2. LaunchShape /\ Undone /\ OneRetry /\ Quota!WithinQuota
    BY DEF LaunchShape, Undone, OneRetry, Quota!WithinQuota, Quota!Month
  <1>3. Balance
    <2>1. \A m \in Quota!Month : Live(m) = {} /\ used[m] = 0
      BY DEF Live
    <2>2. Short = {} /\ Spare = {}
      BY DEF Short, Spare
    <2> QED BY <2>1, <2>2, FS_EmptySet DEF Balance, Balanced
  <1>4. Quota!PaidOnce
    <2>1. {o \in Order : order[o] = "paid"} = {}
      OBVIOUS
    <2>2. Cardinality({o \in Order : order[o] = "paid"}) = 0
      BY <2>1, FS_EmptySet
    <2> QED BY <2>2, QuotaCardinality DEF Quota!PaidOnce
  <1> QED BY <1>1, <1>2, <1>3, <1>4 DEF LaunchInv

LEMMA LaunchStep ==
  ASSUME LaunchAssumption, LaunchInv, [Quota!Next]_(Quota!vars)
  PROVE  LaunchInv'
  <1>1. CASE Quota!Next
    BY <1>1, LaunchTypes, LaunchShapes, LaunchesUndone, RetriesOne, QuotaBounds DEF LaunchInv
  <1>2. CASE UNCHANGED Quota!vars
    BY <1>2 DEF Quota!vars, LaunchInv, Quota!TypeOK, LaunchShape, Undone, OneRetry, Quota!WithinQuota
  <1> QED BY <1>1, <1>2

LEMMA PaidStep ==
  ASSUME LaunchAssumption, IsFiniteSet(Order), LaunchInv, Quota!PaidOnce, [Quota!Next]_(Quota!vars)
  PROVE  Quota!PaidOnce'
  <1>1. CASE Quota!Next
    BY <1>1, PaidSteps DEF LaunchInv
  <1>2. CASE UNCHANGED Quota!vars
    BY <1>2, QuotaCardinality DEF Quota!vars, Quota!PaidOnce
  <1> QED BY <1>1, <1>2

LEMMA BalanceStep ==
  ASSUME LaunchAssumption, IsFiniteSet(Execution), LaunchInv, Balance, [Quota!Next]_(Quota!vars)
  PROVE  Balance'
  <1>1. CASE Quota!Next
    BY <1>1, BalanceSteps DEF LaunchInv
  <1>2. CASE UNCHANGED Quota!vars
    BY <1>2 DEF Balance, Balanced, Live, Short, Spare, Quota!vars
  <1> QED BY <1>1, <1>2

(* What the invariants say of the active retry, of launches that gave up   *)
(* and of the counter.                                                     *)
LEMMA LaunchInvRetry ==
  ASSUME LaunchInv
  PROVE  Quota!OneActiveRetry /\ Quota!Compensated
  <1> DEFINE S == {q \in Execution : kind[q] = "retry" /\ launchRow[q] = "running"}
  <1>1. \A x, y \in S : x = y
    BY DEF LaunchInv, OneRetry
  <1>2. Cardinality(S) <= 1
    <2> HIDE DEF S
    <2> QED BY <1>1, AtMostOne
  <1>3. Quota!Compensated
    BY DEF LaunchInv, Undone, Quota!Compensated, Quota!HitBy
  <1> QED BY <1>2, <1>3, QuotaCardinality DEF Quota!OneActiveRetry

LEMMA LaunchInvUsage ==
  ASSUME LaunchAssumption, IsFiniteSet(Execution), LaunchInv, Balance
  PROVE  Quota!UsageIsCounted /\ Quota!Settled
  <1> DEFINE Late == Quota!HitBy({"insert", "month"})
             Lost == Quota!HitBy({"consume", "release", "process", "month"})
  <1>1. SUFFICES ASSUME NEW m \in Quota!Month
                 PROVE  /\ Cardinality(Quota!InMonth(m)) <= used[m] + Cardinality(Late)
                        /\ (\A q \in Execution : job[q] \in {"new", "done"}) =>
                             used[m] <= Cardinality(Quota!InMonth(m)) + repeats + Cardinality(Lost)
    BY QuotaCardinality DEF Quota!UsageIsCounted, Quota!Settled
  <1>2. /\ Short \subseteq Late /\ Spare \subseteq Lost
        /\ Quota!InMonth(m) \subseteq Live(m)
    BY DEF Short, Spare, Quota!HitBy, Quota!InMonth, Live
  <1>3. IsFiniteSet(Late) /\ IsFiniteSet(Lost) /\ IsFiniteSet(Live(m))
    BY FS_Subset DEF Quota!HitBy, Live
  <1>4. /\ Cardinality(Short) <= Cardinality(Late) /\ Cardinality(Spare) <= Cardinality(Lost)
        /\ Cardinality(Quota!InMonth(m)) <= Cardinality(Live(m))
        /\ Cardinality(Short) \in Nat /\ Cardinality(Late) \in Nat /\ Cardinality(Spare) \in Nat
        /\ Cardinality(Lost) \in Nat /\ Cardinality(Live(m)) \in Nat /\ Cardinality(Quota!InMonth(m)) \in Nat
    <2> HIDE DEF Late, Lost
    <2>1. IsFiniteSet(Short) /\ IsFiniteSet(Spare) /\ IsFiniteSet(Quota!InMonth(m))
      BY <1>2, <1>3, FS_Subset
    <2> QED BY <1>2, <1>3, <2>1, FS_Subset, FS_CardinalityType
  <1>5. used[m] \in Nat /\ repeats \in Nat
    BY DEF LaunchInv, Quota!TypeOK
  <1>6. Balanced(m)
    BY DEF Balance
  <1>7. ASSUME \A q \in Execution : job[q] \in {"new", "done"}
        PROVE  Live(m) = Quota!InMonth(m)
    BY <1>7 DEF LaunchInv, LaunchShape, Live, Quota!InMonth
  <1> HIDE DEF Late, Lost
  <1> QED BY <1>4, <1>5, <1>6, <1>7 DEF Balanced

(* consumeQuota and idx_executions_one_active_retry: whatever fails, the   *)
(* counter of a month stays within the quota and one retry runs at a time; *)
(* and each order's unit is added once.                                    *)
THEOREM LaunchesWithinQuota ==
  ASSUME LaunchAssumption, IsFiniteSet(Order)
  PROVE  Quota!Spec => [](Quota!TypeOK /\ Quota!WithinQuota /\ Quota!OneActiveRetry /\ Quota!PaidOnce)
  <1>1. LaunchInv => Quota!TypeOK /\ Quota!WithinQuota /\ Quota!OneActiveRetry
    BY LaunchInvRetry DEF LaunchInv
  <1> QED BY LaunchStarts, LaunchStep, PaidStep, <1>1, PTL DEF Quota!Spec

(* fireExecution, whatever fails and however often the month ends: a launch *)
(* that ends without a row leaves no workflow running, but for a start or a *)
(* termination taken for failed or a process that stopped; no more         *)
(* executions have a row than were counted, but for a row taken for failed *)
(* or a unit given back in another month; and once nothing is under way no *)
(* fewer, but for units that could not be given back.                      *)
THEOREM LaunchesCompensated ==
  ASSUME LaunchAssumption, IsFiniteSet(Execution)
  PROVE  Quota!Spec => [](Quota!Compensated /\ Quota!UsageIsCounted /\ Quota!Settled)
  <1>1. LaunchInv /\ Balance => Quota!Compensated /\ Quota!UsageIsCounted /\ Quota!Settled
    BY LaunchInvRetry, LaunchInvUsage
  <1> QED BY LaunchStarts, LaunchStep, BalanceStep, <1>1, PTL DEF Quota!Spec

-----------------------------------------------------------------------------
(* The event stream.                                                       *)

CONSTANTS Event, Subscriber, Undecodable, Failing, Replica, MaxFaults
VARIABLES published, batch, added, stream, done, locked, at, pending, todo, subs, sub,
          ok, retry, faults, launches, handled, lost, unread

Events == INSTANCE EventDelivery

(* The event whose entry the loop of replica r works on.                   *)
EventOf(r) == stream[Events!First(r)].event

(* A loop that has no entry: without its group, reading, or over.          *)
Idle == {"group", "read", "ended"}

(* A subscriber the loop has dealt with, without an error so far.          *)
PassedBy(r) == IF at[r] \in Idle \cup {"rows"} \/ ~ok[r] THEN {}
               ELSE Subscriber \ (Undecodable \cup subs[r])
InHand(r) == IF at[r] \in {"lock", "fire"} THEN {sub[r]} ELSE {}

(* The loop of a replica: it has an entry unless it is idle, and           *)
(* whoever it dealt with without an error was handled.                     *)
LoopSound(r) ==
    /\ at[r] \notin Idle => todo[r] # {}
    /\ at[r] \in {"done", "refused"} => Events!Current(r) \in handled
    /\ \A p \in PassedBy(r) : p \in InHand(r) \/ <<EventOf(r), p>> \in handled

Streamed(e) == \E i \in 1..Len(stream) : stream[i].event = e

(* The loops, the outbox, the done keys and the acknowledged entries.      *)
EventInv ==
    /\ Events!TypeOK
    /\ \A e \in published \cup added : Streamed(e)
    /\ done \subseteq handled
    /\ \A r \in Replica : LoopSound(r)
    /\ Events!AckedIsHandled

(* One replica: a launch is counted, lost, or about to be marked done.     *)
Marking(k) == k \in done \/ \E r \in Replica : at[r] = "done" /\ Events!Current(r) = k
LaunchCounted ==
    /\ \A k \in Events!Key : launches[k] <= lost[k] + (IF Marking(k) THEN 1 ELSE 0)
    /\ \A r \in Replica : at[r] \in {"lock", "fire"} =>
        launches[Events!Current(r)] <= lost[Events!Current(r)]

EventAssumption == Events!SubscriberAssumption /\ Events!FaultAssumption

LEMMA LeastEntry ==
  ASSUME NEW n \in Nat, NEW S, S \subseteq 1..n, S # {}
  PROVE  Events!Min(S) \in S
  <1> DEFINE R == OpToRel(<, Nat)
  <1>1. IsWellFoundedOn(R, Nat)
    BY NatLessThanWellFounded
  <1>2. \A x, y \in Nat : x < y => <<x, y>> \in R
    BY DEF OpToRel
  <1>3. PICK x \in S : \A y \in S : ~(<<y, x>> \in R)
    <2> HIDE DEF R
    <2>1. S \subseteq Nat
      OBVIOUS
    <2> QED BY <1>1, <2>1, WFMin
  <1>4. \A y \in S : x <= y
    <2> HIDE DEF R
    <2> TAKE y \in S
    <2>1. ~(<<y, x>> \in R) /\ x \in Nat /\ y \in Nat
      BY <1>3
    <2>2. ~(y < x)
      BY <1>2, <2>1
    <2> QED BY <2>1, <2>2
  <1> QED BY <1>3, <1>4 DEF Events!Min

(* What most steps leave alone.                                            *)
StreamGrows ==
    /\ Len(stream) <= Len(stream')
    /\ \A i \in 1..Len(stream) : stream'[i].event = stream[i].event
NoneAcked ==
    \A i \in 1..Len(stream') : stream'[i].state = "acked" => i \in 1..Len(stream) /\ stream[i].state = "acked"
LoopAlone(r) == at'[r] = at[r] /\ todo'[r] = todo[r] /\ subs'[r] = subs[r] /\ sub'[r] = sub[r] /\ ok'[r] = ok[r]

LEMMA StreamShape ==
  ASSUME Events!TypeOK
  PROVE  Len(stream) \in Nat /\ \A i \in 1..Len(stream) : stream[i].event \in Event /\ stream[i].state \in Events!EntryState
  <1> DEFINE T == [event : Event, state : Events!EntryState]
  <1>1. stream \in Seq(T)
    BY DEF Events!TypeOK
  <1>2. \A i \in 1..Len(stream) : stream[i] \in T
    <2> HIDE DEF T
    <2> QED BY <1>1
  <1>3. Len(stream) \in Nat
    <2> HIDE DEF T
    <2> QED BY <1>1
  <1> QED BY <1>2, <1>3

LEMMA EntryInHand ==
  ASSUME Events!TypeOK, NEW r \in Replica, at[r] \notin Idle, LoopSound(r)
  PROVE  /\ Events!First(r) \in todo[r] /\ Events!First(r) \in 1..Len(stream)
         /\ EventOf(r) \in Event /\ Events!Current(r) = <<EventOf(r), sub[r]>>
         /\ Events!Current(r) \in Events!Key
  <1>1. Len(stream) \in Nat /\ todo[r] \subseteq 1..Len(stream) /\ sub[r] \in Subscriber
        /\ \A i \in 1..Len(stream) : stream[i].event \in Event
    BY StreamShape DEF Events!TypeOK
  <1>2. todo[r] # {}
    BY DEF LoopSound
  <1>3. Events!First(r) \in todo[r]
    BY <1>1, <1>2, LeastEntry DEF Events!First
  <1> QED BY <1>1, <1>3 DEF EventOf, Events!Current, Events!Key

(* A loop that takes no step keeps its entry.                              *)
LEMMA LoopKept ==
  ASSUME EventInv, NEW r \in Replica, LoopAlone(r), StreamGrows, handled \subseteq handled'
  PROVE  LoopSound(r)'
  <1>1. CASE at[r] \in Idle
    BY <1>1 DEF LoopAlone, LoopSound, PassedBy, Idle
  <1>2. CASE at[r] \notin Idle
    <2>1. LoopSound(r) /\ Events!TypeOK
      BY DEF EventInv
    <2>2. Events!First(r)' = Events!First(r) /\ Events!First(r) \in 1..Len(stream)
      BY <1>2, <2>1, EntryInHand DEF LoopAlone, Events!First
    <2>3. EventOf(r)' = EventOf(r) /\ Events!Current(r)' = Events!Current(r)
      BY <2>2 DEF StreamGrows, EventOf, Events!Current, LoopAlone
    <2> QED BY <2>1, <2>3 DEF LoopAlone, LoopSound, PassedBy, InHand, Idle
  <1> QED BY <1>1, <1>2

(* The invariant after a step that acknowledges nothing.                   *)
LEMMA EventsKept ==
  ASSUME EventInv, Events!TypeOK', StreamGrows, NoneAcked, handled \subseteq handled', done' \subseteq handled',
         \A e \in published' \cup added' : e \in published \cup added \/ Streamed(e)',
         \A r \in Replica : LoopSound(r)'
  PROVE  EventInv'
  <1>1. \A e \in published \cup added : Streamed(e)'
    BY StreamShape DEF EventInv, Streamed, StreamGrows
  <1>2. Events!AckedIsHandled'
    BY DEF EventInv, NoneAcked, StreamGrows, Events!AckedIsHandled
  <1> QED BY <1>1, <1>2 DEF EventInv

LEMMA EventsStart ==
  ASSUME EventAssumption
  PROVE  Events!Init => EventInv /\ LaunchCounted
  <1> SUFFICES ASSUME Events!Init PROVE EventInv /\ LaunchCounted
    OBVIOUS
  <1> USE DEF EventAssumption, Events!SubscriberAssumption, Events!FaultAssumption
  <1>1. published = {} /\ added = {} /\ batch = {} /\ stream = <<>> /\ done = {} /\ locked = {} /\ handled = {} /\ faults = 0 /\ unread = {}
    BY DEF Events!Init
  <1>2. at = [r \in Replica |-> "group"] /\ launches = [k \in Events!Key |-> 0] /\ lost = [k \in Events!Key |-> 0]
    BY DEF Events!Init
  <1>3. sub \in [Replica -> Subscriber]
    BY DEF Events!Init
  <1>4. Events!TypeOK
    BY <1>1, <1>2, <1>3 DEF Events!TypeOK, Events!Init, Events!Stages
  <1>5. \A r \in Replica : LoopSound(r)
    BY <1>2 DEF LoopSound, PassedBy, Idle
  <1>6. EventInv
    BY <1>1, <1>4, <1>5 DEF EventInv, Events!AckedIsHandled
  <1>7. LaunchCounted
    BY <1>1, <1>2 DEF LaunchCounted, Marking
  <1> QED BY <1>6, <1>7

(* A step of one loop that leaves the outbox and the stream alone.         *)
LEMMA LoopSteps ==
  ASSUME EventInv, NEW r \in Replica, Events!TypeOK', UNCHANGED <<published, added, stream>>,
         handled \subseteq handled', done' \subseteq handled',
         \A s \in Replica \ {r} : LoopAlone(s), LoopSound(r)'
  PROVE  EventInv'
  <1>1. StreamGrows /\ NoneAcked
    BY StreamShape DEF StreamGrows, NoneAcked, EventInv
  <1>2. \A s \in Replica : LoopSound(s)'
    BY <1>1, LoopKept
  <1>3. \A e \in published' \cup added' : e \in published \cup added \/ Streamed(e)'
    OBVIOUS
  <1> QED BY <1>1, <1>2, <1>3, EventsKept

(* The steps of a loop from one stage to the next.                         *)
LEMMA StageSteps ==
  ASSUME EventAssumption, EventInv, NEW r \in Replica,
         \/ Events!FindSubscribers(r) \/ Events!FindFails(r)
         \/ \E p \in Subscriber : Events!CheckDone(r, p) \/ Events!CheckDoneFails(r, p)
         \/ Events!Lock(r) \/ Events!LockRefused(r) \/ Events!Fire(r) \/ Events!FireFails(r)
         \/ Events!MarkDone(r) \/ Events!MarkFails(r) \/ Events!Unlock(r)
  PROVE  EventInv'
  <1> USE DEF EventAssumption, Events!SubscriberAssumption, Events!FaultAssumption,
              Events!outboxVars, Events!loopVars, Events!keyVars, Events!history, Events!loopRest
  <1>1. at[r] \notin Idle /\ LoopSound(r) /\ Events!TypeOK /\ done \subseteq handled
    BY DEF Idle, EventInv, Events!FindSubscribers, Events!FindFails, Events!CheckDone, Events!CheckDoneFails, Events!Lock,
           Events!LockRefused, Events!Fire, Events!FireFails, Events!MarkDone, Events!MarkFails, Events!Unlock
  <1>2. /\ todo[r] # {} /\ EventOf(r) \in Event /\ Events!Current(r) = <<EventOf(r), sub[r]>>
        /\ Events!Current(r) \in Events!Key
    BY <1>1, EntryInHand DEF LoopSound
  <1>3. UNCHANGED <<published, batch, added, stream, todo, pending, retry, unread>>
    BY DEF Events!FindSubscribers, Events!FindFails, Events!CheckDone, Events!CheckDoneFails, Events!Lock,
           Events!LockRefused, Events!Fire, Events!FireFails, Events!MarkDone, Events!MarkFails, Events!Unlock
  <1>4. EventOf(r)' = EventOf(r) /\ Events!Current(r)' = <<EventOf(r), sub'[r]>>
    BY <1>3 DEF EventOf, Events!First, Events!Current
  <1>5. ASSUME Events!Fault PROVE faults' \in 0..MaxFaults
    BY <1>1, <1>5 DEF Events!Fault, Events!TypeOK
  <1>6. ASSUME at' \in [Replica -> Events!Stages], subs' \in [Replica -> SUBSET Subscriber], sub' \in [Replica -> Subscriber],
               ok' \in [Replica -> BOOLEAN], faults' \in 0..MaxFaults, launches' \in [Events!Key -> Nat],
               lost' \in [Events!Key -> Nat], handled' \subseteq Events!Key, done' \subseteq Events!Key, locked' \subseteq Events!Key
        PROVE  Events!TypeOK'
    BY <1>1, <1>3, <1>6 DEF Events!TypeOK, Events!Key, Events!EntryState
  <1>7. /\ at \in [Replica -> Events!Stages] /\ subs \in [Replica -> SUBSET Subscriber] /\ sub \in [Replica -> Subscriber]
        /\ ok \in [Replica -> BOOLEAN] /\ faults \in 0..MaxFaults /\ launches \in [Events!Key -> Nat]
        /\ lost \in [Events!Key -> Nat] /\ handled \subseteq Events!Key /\ done \subseteq Events!Key /\ locked \subseteq Events!Key
    BY <1>1 DEF Events!TypeOK
  <1>8. \A p \in Subscriber : <<EventOf(r), p>> \in Events!Key
    BY <1>2 DEF Events!Key
  <1> USE DEF Events!GoTo, Events!Stages, Idle
  <1>9. CASE Events!FindSubscribers(r)
    <2>1. Events!TypeOK'
      BY <1>6, <1>7, <1>9 DEF Events!FindSubscribers
    <2>2. LoopSound(r)'
      BY <1>1, <1>3, <1>7, <1>9 DEF Events!FindSubscribers, LoopSound, PassedBy
    <2>8. \A s \in Replica \ {r} : LoopAlone(s)
      BY <1>3, <1>7, <1>9 DEF Events!FindSubscribers, LoopAlone
    <2>9. handled \subseteq handled' /\ done' \subseteq handled'
      BY <1>1, <1>9 DEF Events!FindSubscribers
    <2> QED BY <1>3, <2>1, <2>2, <2>8, <2>9, LoopSteps
  <1>10. CASE Events!FindFails(r)
    <2>1. Events!TypeOK'
      BY <1>5, <1>6, <1>7, <1>10 DEF Events!FindFails
    <2>2. LoopSound(r)'
      BY <1>1, <1>3, <1>7, <1>10 DEF Events!FindFails, LoopSound, PassedBy
    <2>8. \A s \in Replica \ {r} : LoopAlone(s)
      BY <1>3, <1>7, <1>10 DEF Events!FindFails, LoopAlone
    <2>9. handled \subseteq handled' /\ done' \subseteq handled'
      BY <1>1, <1>10 DEF Events!FindFails
    <2> QED BY <1>3, <2>1, <2>2, <2>8, <2>9, LoopSteps
  <1>11. ASSUME NEW p \in Subscriber, Events!CheckDone(r, p) PROVE EventInv'
    <2>1. /\ subs' = [subs EXCEPT ![r] = subs[r] \ {p}] /\ sub' = [sub EXCEPT ![r] = p]
          /\ at[r] = "deliver" /\ UNCHANGED <<ok, faults, launches, lost, handled, done, locked>>
          /\ (at' = at /\ <<EventOf(r), p>> \in done) \/ at' = [at EXCEPT ![r] = "lock"]
      BY <1>11 DEF Events!CheckDone, EventOf
    <2>2. Events!TypeOK'
      BY <1>6, <1>7, <2>1
    <2>3. LoopSound(r)'
      BY <1>1, <1>3, <1>4, <1>7, <2>1 DEF LoopSound, PassedBy, InHand
    <2>8. \A s \in Replica \ {r} : LoopAlone(s)
      BY <1>3, <1>7, <2>1 DEF LoopAlone
    <2>9. handled \subseteq handled' /\ done' \subseteq handled'
      BY <1>1, <2>1
    <2> QED BY <1>3, <2>2, <2>3, <2>8, <2>9, LoopSteps
  <1>12. ASSUME NEW p \in Subscriber, Events!CheckDoneFails(r, p) PROVE EventInv'
    <2>1. /\ subs' = [subs EXCEPT ![r] = subs[r] \ {p}] /\ sub' = [sub EXCEPT ![r] = p] /\ Events!Fault
          /\ at[r] = "deliver" /\ UNCHANGED <<ok, launches, handled, done, locked>>
          /\ at' = [at EXCEPT ![r] = "lock"] /\ lost' = [lost EXCEPT ![<<EventOf(r), p>>] = @ + 1]
      BY <1>12 DEF Events!CheckDoneFails, EventOf
    <2>2. Events!TypeOK'
      BY <1>5, <1>6, <1>7, <1>8, <2>1
    <2>3. LoopSound(r)'
      BY <1>1, <1>3, <1>4, <1>7, <2>1 DEF LoopSound, PassedBy, InHand
    <2>8. \A s \in Replica \ {r} : LoopAlone(s)
      BY <1>3, <1>7, <2>1 DEF LoopAlone
    <2>9. handled \subseteq handled' /\ done' \subseteq handled'
      BY <1>1, <2>1
    <2> QED BY <1>3, <2>2, <2>3, <2>8, <2>9, LoopSteps
  <1>13. CASE Events!Lock(r)
    <2>1. Events!TypeOK'
      BY <1>2, <1>6, <1>7, <1>13 DEF Events!Lock
    <2>2. LoopSound(r)'
      BY <1>1, <1>3, <1>4, <1>7, <1>13 DEF Events!Lock, LoopSound, PassedBy, InHand
    <2>8. \A s \in Replica \ {r} : LoopAlone(s)
      BY <1>3, <1>7, <1>13 DEF Events!Lock, LoopAlone
    <2>9. handled \subseteq handled' /\ done' \subseteq handled'
      BY <1>1, <1>13 DEF Events!Lock
    <2> QED BY <1>3, <2>1, <2>2, <2>8, <2>9, LoopSteps
  <1>14. CASE Events!LockRefused(r)
    <2>1. Events!TypeOK'
      <3>1. locked' \subseteq Events!Key
        BY <1>1, <1>2, <1>14 DEF Events!LockRefused, Events!TypeOK
      <3>2. faults' \in 0..MaxFaults
        BY <1>1, <1>5, <1>14 DEF Events!LockRefused, Events!TypeOK
      <3> QED BY <1>6, <1>7, <1>14, <3>1, <3>2 DEF Events!LockRefused
    <2>2. LoopSound(r)'
      BY <1>1, <1>3, <1>4, <1>7, <1>14 DEF Events!LockRefused, LoopSound, PassedBy, InHand
    <2>8. \A s \in Replica \ {r} : LoopAlone(s)
      BY <1>3, <1>7, <1>14 DEF Events!LockRefused, LoopAlone
    <2>9. handled \subseteq handled' /\ done' \subseteq handled'
      BY <1>1, <1>14 DEF Events!LockRefused
    <2> QED BY <1>3, <2>1, <2>2, <2>8, <2>9, LoopSteps
  <1>15. CASE Events!Fire(r)
    <2>1. Events!TypeOK'
      BY <1>2, <1>6, <1>7, <1>15 DEF Events!Fire
    <2>2. LoopSound(r)'
      BY <1>1, <1>2, <1>3, <1>4, <1>7, <1>15 DEF Events!Fire, LoopSound, PassedBy, InHand
    <2>8. \A s \in Replica \ {r} : LoopAlone(s)
      BY <1>3, <1>7, <1>15 DEF Events!Fire, LoopAlone
    <2>9. handled \subseteq handled' /\ done' \subseteq handled'
      BY <1>1, <1>15 DEF Events!Fire
    <2> QED BY <1>3, <2>1, <2>2, <2>8, <2>9, LoopSteps
  <1>16. CASE Events!FireFails(r)
    <2>1. /\ faults' \in 0..MaxFaults /\ launches' \in [Events!Key -> Nat] /\ lost' \in [Events!Key -> Nat]
      BY <1>2, <1>5, <1>7, <1>16 DEF Events!FireFails
    <2>2. Events!TypeOK'
      BY <1>6, <1>7, <1>16, <2>1 DEF Events!FireFails
    <2>3. LoopSound(r)'
      BY <1>1, <1>3, <1>4, <1>7, <1>16 DEF Events!FireFails, LoopSound, PassedBy, InHand
    <2>8. \A s \in Replica \ {r} : LoopAlone(s)
      BY <1>3, <1>7, <1>16 DEF Events!FireFails, LoopAlone
    <2>9. handled \subseteq handled' /\ done' \subseteq handled'
      BY <1>1, <1>16 DEF Events!FireFails
    <2> QED BY <1>3, <2>2, <2>3, <2>8, <2>9, LoopSteps
  <1>17. CASE Events!MarkDone(r)
    <2>1. Events!TypeOK'
      BY <1>2, <1>6, <1>7, <1>17 DEF Events!MarkDone, Events!DoneKey
    <2>2. LoopSound(r)'
      BY <1>1, <1>2, <1>3, <1>4, <1>7, <1>17 DEF Events!MarkDone, LoopSound, PassedBy, InHand
    <2>8. \A s \in Replica \ {r} : LoopAlone(s)
      BY <1>3, <1>7, <1>17 DEF Events!MarkDone, LoopAlone
    <2>9. handled \subseteq handled' /\ done' \subseteq handled'
      BY <1>1, <1>17 DEF Events!MarkDone, Events!DoneKey, LoopSound
    <2> QED BY <1>3, <2>1, <2>2, <2>8, <2>9, LoopSteps
  <1>18. CASE Events!MarkFails(r)
    <2>1. Events!TypeOK'
      BY <1>2, <1>5, <1>6, <1>7, <1>18 DEF Events!MarkFails
    <2>2. LoopSound(r)'
      BY <1>1, <1>2, <1>3, <1>4, <1>7, <1>18 DEF Events!MarkFails, LoopSound, PassedBy, InHand
    <2>8. \A s \in Replica \ {r} : LoopAlone(s)
      BY <1>3, <1>7, <1>18 DEF Events!MarkFails, LoopAlone
    <2>9. handled \subseteq handled' /\ done' \subseteq handled'
      BY <1>1, <1>18 DEF Events!MarkFails
    <2> QED BY <1>3, <2>1, <2>2, <2>8, <2>9, LoopSteps
  <1>19. CASE Events!Unlock(r)
    <2>1. Events!TypeOK'
      BY <1>5, <1>6, <1>7, <1>19 DEF Events!Unlock
    <2>2. LoopSound(r)'
      BY <1>1, <1>2, <1>3, <1>4, <1>7, <1>19 DEF Events!Unlock, LoopSound, PassedBy, InHand
    <2>8. \A s \in Replica \ {r} : LoopAlone(s)
      BY <1>3, <1>7, <1>19 DEF Events!Unlock, LoopAlone
    <2>9. handled \subseteq handled' /\ done' \subseteq handled'
      BY <1>1, <1>19 DEF Events!Unlock
    <2> QED BY <1>3, <2>1, <2>2, <2>8, <2>9, LoopSteps
  <1> QED BY <1>9, <1>10, <1>11, <1>12, <1>13, <1>14, <1>15, <1>16, <1>17, <1>18, <1>19

(* Steps that leave every loop and the keys alone.                         *)
LEMMA OutboxOnlySteps ==
  ASSUME EventInv, Events!TypeOK', UNCHANGED <<at, todo, subs, sub, ok, done, handled>>, StreamGrows, NoneAcked,
         \A e \in published' \cup added' : e \in published \cup added \/ Streamed(e)'
  PROVE  EventInv'
  <1>1. \A r \in Replica : LoopSound(r)'
    BY LoopKept DEF LoopAlone
  <1>2. done' \subseteq handled'
    BY DEF EventInv
  <1> QED BY <1>1, <1>2, EventsKept

(* dispatchEvents, and the keys' expiry.                                   *)
LEMMA PublisherSteps ==
  ASSUME EventAssumption, EventInv,
         \/ Events!Publisher \/ Events!PublishRollback \/ \E e \in Event : Events!XAddFails(e)
         \/ \E k \in Events!Key : Events!LockExpires(k)
  PROVE  EventInv'
  <1> USE DEF EventAssumption, Events!SubscriberAssumption, Events!FaultAssumption,
              Events!outboxVars, Events!loopVars, Events!keyVars, Events!history, Events!publishOthers
  <1>1. Events!TypeOK /\ Len(stream) \in Nat
    BY StreamShape DEF EventInv
  <1>2. ASSUME UNCHANGED stream PROVE StreamGrows /\ NoneAcked
    BY <1>1, <1>2 DEF StreamGrows, NoneAcked
  <1>3. CASE Events!PublishBegin
    <2>1. Events!TypeOK'
      BY <1>1, <1>3 DEF Events!PublishBegin, Events!TypeOK, Events!Key
    <2> QED BY <1>2, <1>3, <2>1, OutboxOnlySteps DEF Events!PublishBegin
  <1>4. ASSUME NEW e \in Event, stream' = Events!WithEntry(e),
               UNCHANGED <<at, pending, todo, subs, sub, ok, retry, done, locked, launches, handled, lost, unread>>,
               published' \subseteq Event, batch' \subseteq Event, added' \subseteq Event, faults' \in 0..MaxFaults
        PROVE  Events!TypeOK' /\ StreamGrows /\ NoneAcked /\ Streamed(e)'
    <2> DEFINE T == [event : Event, state : Events!EntryState]
    <2> DEFINE x == [event |-> e, state |-> "new"]
    <2>1. x \in T /\ stream \in Seq(T) /\ stream' = Append(stream, x)
      BY <1>1, <1>4 DEF Events!WithEntry, Events!TypeOK, Events!EntryState
    <2>2. stream' \in Seq(T) /\ Len(stream') = Len(stream) + 1 /\ stream'[Len(stream) + 1] = x
          /\ \A i \in 1..Len(stream) : stream'[i] = stream[i]
      <3> HIDE DEF T, x
      <3> QED BY <2>1
    <2>3. Events!TypeOK'
      <3>1. todo' \in [Replica -> SUBSET (1..Len(stream'))]
        BY <1>1, <1>4, <2>2 DEF Events!TypeOK
      <3>2. unread' \subseteq 1..Len(stream')
        BY <1>1, <1>4, <2>2 DEF Events!TypeOK
      <3> QED BY <1>1, <1>4, <2>2, <3>1, <3>2 DEF Events!TypeOK, Events!Key
    <2>4. StreamGrows
      BY <1>1, <2>2 DEF StreamGrows
    <2>5. NoneAcked
      <3> SUFFICES ASSUME NEW i \in 1..Len(stream'), stream'[i].state = "acked"
                   PROVE  i \in 1..Len(stream) /\ stream[i].state = "acked"
        BY DEF NoneAcked
      <3>1. i # Len(stream) + 1
        BY <2>2
      <3> QED BY <1>1, <2>2, <3>1
    <2>6. Streamed(e)'
      BY <1>1, <2>2 DEF Streamed
    <2> QED BY <2>3, <2>4, <2>5, <2>6
  <1>9. ASSUME NEW e \in Event, Events!XAdd(e) PROVE EventInv'
    <2>1. Events!TypeOK' /\ StreamGrows /\ NoneAcked /\ Streamed(e)'
      BY <1>1, <1>4, <1>9 DEF Events!XAdd, Events!TypeOK
    <2> QED BY <1>9, <2>1, OutboxOnlySteps DEF Events!XAdd
  <1>5. CASE Events!PublishCommit
    <2>1. Events!TypeOK'
      BY <1>1, <1>5 DEF Events!PublishCommit, Events!Marks, Events!TypeOK, Events!Key
    <2> QED BY <1>2, <1>5, <2>1, OutboxOnlySteps DEF Events!PublishCommit, Events!Marks
  <1>6. CASE Events!PublishRollback
    <2>1. Events!TypeOK'
      BY <1>1, <1>6 DEF Events!PublishRollback, Events!Fault, Events!TypeOK, Events!Key
    <2> QED BY <1>2, <1>6, <2>1, OutboxOnlySteps DEF Events!PublishRollback
  <1>7. ASSUME NEW e \in Event, Events!XAddFails(e) PROVE EventInv'
    <2>1. CASE UNCHANGED stream
      <3>1. Events!TypeOK'
        <4>1. UNCHANGED <<published, added, stream, done, locked, at, pending, todo, subs, sub, ok, retry,
                          launches, handled, lost, unread>> /\ batch' \subseteq Event
          BY <1>1, <1>7, <2>1 DEF Events!XAddFails, Events!TypeOK
        <4>2. faults' \in 0..MaxFaults
          BY <1>1, <1>7 DEF Events!XAddFails, Events!Fault, Events!TypeOK
        <4> QED BY <1>1, <4>1, <4>2 DEF Events!TypeOK, Events!Key
      <3> QED BY <1>2, <1>7, <2>1, <3>1, OutboxOnlySteps DEF Events!XAddFails
    <2>2. CASE stream' = Events!WithEntry(e)
      <3>1. Events!TypeOK' /\ StreamGrows /\ NoneAcked
        <4>1. UNCHANGED <<at, pending, todo, subs, sub, ok, retry, done, locked, launches, handled, lost, unread>>
          BY <1>7 DEF Events!XAddFails
        <4>2. published' \subseteq Event /\ batch' \subseteq Event /\ added' \subseteq Event
          BY <1>1, <1>7 DEF Events!XAddFails, Events!TypeOK
        <4>3. faults' \in 0..MaxFaults
          BY <1>1, <1>7 DEF Events!XAddFails, Events!Fault, Events!TypeOK
        <4> QED BY <1>4, <2>2, <4>1, <4>2, <4>3
      <3> QED BY <1>7, <3>1, OutboxOnlySteps DEF Events!XAddFails
    <2> QED BY <1>7, <2>1, <2>2 DEF Events!XAddFails
  <1>8. ASSUME NEW k \in Events!Key, Events!LockExpires(k) PROVE EventInv'
    <2>1. Events!TypeOK'
      BY <1>1, <1>8 DEF Events!LockExpires, Events!TypeOK, Events!Key
    <2> QED BY <1>2, <1>8, <2>1, OutboxOnlySteps DEF Events!LockExpires
  <1> QED BY <1>3, <1>5, <1>6, <1>7, <1>8, <1>9 DEF Events!Publisher

(* XGROUP CREATE, XREADGROUP, the acknowledgement, and a restart.          *)
LEMMA ReadSteps ==
  ASSUME EventAssumption, EventInv, NEW r \in Replica,
         \/ Events!CreateGroup(r) \/ Events!GroupFails(r) \/ Events!ReadGroup(r) \/ Events!ReadLost(r)
         \/ Events!ReadNothing(r) \/ Events!Settle(r) \/ Events!Crash(r)
  PROVE  EventInv'
  <1> USE DEF EventAssumption, Events!SubscriberAssumption, Events!FaultAssumption,
              Events!outboxVars, Events!loopVars, Events!keyVars, Events!history
  <1> DEFINE T == [event : Event, state : Events!EntryState]
  <1>1. Events!TypeOK /\ Len(stream) \in Nat /\ LoopSound(r) /\ stream \in Seq(T)
    BY StreamShape DEF EventInv, Events!TypeOK
  <1>2. \A i \in 1..Len(stream) : stream[i] \in T
    <2> HIDE DEF T
    <2> QED BY <1>1
  <1>3. /\ at \in [Replica -> Events!Stages] /\ todo \in [Replica -> SUBSET (1..Len(stream))]
        /\ pending \in [Replica -> BOOLEAN] /\ retry \in [Replica -> BOOLEAN] /\ faults \in 0..MaxFaults
        /\ lost \in [Events!Key -> Nat] /\ unread \subseteq 1..Len(stream)
    BY <1>1 DEF Events!TypeOK
  <1>4. ASSUME UNCHANGED <<published, batch, added, done, locked, subs, sub, ok, launches, handled>>,
               stream' \in Seq(T), Len(stream') = Len(stream), at' \in [Replica -> Events!Stages],
               todo' \in [Replica -> SUBSET (1..Len(stream))], pending' \in [Replica -> BOOLEAN],
               retry' \in [Replica -> BOOLEAN], faults' \in 0..MaxFaults, lost' \in [Events!Key -> Nat],
               unread' \subseteq 1..Len(stream)
        PROVE  Events!TypeOK'
    BY <1>1, <1>4 DEF Events!TypeOK, Events!Key
  <1>5. ASSUME Events!Fault PROVE faults' \in 0..MaxFaults
    BY <1>3, <1>5 DEF Events!Fault
  <1> USE DEF Events!GoTo, Events!Stages, Idle
  (* Marking what was read leaves the events of the entries.               *)
  <1>10. ASSUME stream' = stream \/ stream' = Events!NewRead
         PROVE  stream' \in Seq(T) /\ Len(stream') = Len(stream) /\ StreamGrows /\ NoneAcked
    <2> DEFINE Read(i) == IF stream' # stream /\ stream[i].state = "new"
                          THEN [stream[i] EXCEPT !.state = "pending"] ELSE stream[i]
    <2>0. CASE stream' = stream
      BY <1>1, <2>0 DEF StreamGrows, NoneAcked
    <2>1. CASE stream' # stream /\ stream' = [i \in 1..Len(stream) |-> Read(i)]
      <3>2. \A i \in 1..Len(stream) : Read(i) \in T /\ Read(i).event = stream[i].event
                                      /\ (Read(i).state = "acked" => stream[i].state = "acked")
        BY <1>2 DEF Events!EntryState
      <3>3. stream' \in Seq(T) /\ Len(stream') = Len(stream)
            /\ \A i \in 1..Len(stream) : stream'[i] = Read(i)
        <4>1. stream' \in [1..Len(stream) -> T]
          <5> HIDE DEF T, Read
          <5> QED BY <2>1, <3>2
        <4>2. stream' \in Seq(T)
          <5> HIDE DEF T, Read
          <5> QED BY <1>1, <4>1, SeqDef
        <4>3. DOMAIN stream' = 1..Len(stream) /\ Len(stream') \in Nat /\ DOMAIN stream' = 1..Len(stream')
          <5> HIDE DEF T, Read
          <5> QED BY <4>1, <4>2, LenProperties
        <4>4. Len(stream') = Len(stream)
          BY <1>1, <4>3
        <4> QED BY <2>1, <4>2, <4>4
      <3>4. StreamGrows /\ NoneAcked
        <4> HIDE DEF Read
        <4> QED BY <1>1, <3>2, <3>3 DEF StreamGrows, NoneAcked
      <3> QED BY <3>3, <3>4
    <2>5. stream' # stream => stream' = [i \in 1..Len(stream) |-> Read(i)]
      BY <1>10 DEF Events!NewRead
    <2> QED BY <2>0, <2>1, <2>5
  <1>6. CASE Events!ReadNothing(r)
    <2>1. Events!TypeOK'
      BY <1>1, <1>3, <1>4, <1>6 DEF Events!ReadNothing
    <2>2. LoopSound(r)'
      BY <1>6 DEF Events!ReadNothing, LoopSound, PassedBy
    <2>3. \A s \in Replica : LoopAlone(s)
      BY <1>6 DEF Events!ReadNothing, LoopAlone
    <2> QED BY <1>6, <2>1, <2>2, <2>3, LoopSteps DEF Events!ReadNothing, EventInv
  <1>7. CASE Events!Crash(r)
    <2>1. lost' \in [Events!Key -> Nat]
      <3>1. CASE at[r] \in {"done", "refused"}
        <4>1. Events!Current(r) \in Events!Key
          BY <1>1, <3>1, EntryInHand
        <4> QED BY <1>3, <1>7, <3>1, <4>1 DEF Events!Crash
      <3> QED BY <1>3, <1>7, <3>1 DEF Events!Crash
    <2>2. Events!TypeOK'
      BY <1>1, <1>3, <1>4, <1>5, <1>7, <2>1 DEF Events!Crash
    <2>3. LoopSound(r)'
      BY <1>3, <1>7 DEF Events!Crash, LoopSound, PassedBy
    <2>4. \A s \in Replica \ {r} : LoopAlone(s)
      BY <1>3, <1>7 DEF Events!Crash, LoopAlone
    <2> QED BY <1>7, <2>2, <2>3, <2>4, LoopSteps DEF Events!Crash, EventInv
  <1>8. CASE Events!ReadGroup(r)
    <2>1. /\ stream' = stream \/ stream' = Events!NewRead
          /\ at' = [at EXCEPT ![r] = "rows"]
          /\ todo' = [todo EXCEPT ![r] = Events!Entries(Events!Wanted(r))]
          /\ Events!Entries(Events!Wanted(r)) # {} /\ Events!Entries(Events!Wanted(r)) \subseteq 1..Len(stream)
          /\ retry' = [retry EXCEPT ![r] = FALSE]
          /\ unread' \subseteq unread
          /\ UNCHANGED <<published, batch, added, done, locked, pending, subs, sub, ok, faults, launches, handled, lost>>
      BY <1>8 DEF Events!ReadGroup, Events!Entries
    <2>4. stream' \in Seq(T) /\ Len(stream') = Len(stream) /\ StreamGrows /\ NoneAcked
      BY <1>10, <2>1
    <2>5. Events!TypeOK'
      BY <1>3, <1>4, <2>1, <2>4
    <2>6. LoopSound(r)'
      BY <1>3, <2>1 DEF LoopSound, PassedBy
    <2>7. \A s \in Replica \ {r} : LoopSound(s)'
      <3> TAKE s \in Replica \ {r}
      <3>1. LoopAlone(s)
        BY <1>3, <2>1 DEF LoopAlone
      <3> QED BY <2>1, <2>4, <3>1, LoopKept
    <2>8. done' \subseteq handled' /\ \A e \in published' \cup added' : e \in published \cup added
      BY <2>1 DEF EventInv
    <2> QED BY <2>1, <2>4, <2>5, <2>6, <2>7, <2>8, EventsKept
  <1>11. CASE Events!ReadLost(r)
    <2>1. /\ stream' = Events!NewRead /\ unread' \subseteq 1..Len(stream) /\ Events!Fault
          /\ UNCHANGED <<published, batch, added, done, locked, at, pending, todo, subs, sub, ok, retry,
                         launches, handled, lost>>
      BY <1>3, <1>11 DEF Events!ReadLost, Events!Entries
    <2>2. stream' \in Seq(T) /\ Len(stream') = Len(stream) /\ StreamGrows /\ NoneAcked
      BY <1>10, <2>1
    <2>3. Events!TypeOK'
      BY <1>3, <1>4, <1>5, <2>1, <2>2
    <2>4. \A e \in published' \cup added' : e \in published \cup added
      BY <2>1
    <2> QED BY <2>1, <2>2, <2>3, <2>4, OutboxOnlySteps
  <1>12. CASE Events!CreateGroup(r) \/ Events!GroupFails(r)
    <2>1. /\ at[r] = "group" /\ at' \in {[at EXCEPT ![r] = "read"], [at EXCEPT ![r] = "ended"]}
          /\ UNCHANGED <<published, batch, added, stream, done, locked, pending, todo, subs, sub, ok, retry,
                         launches, handled, lost, unread>>
          /\ UNCHANGED faults \/ Events!Fault
      BY <1>12 DEF Events!CreateGroup, Events!GroupFails, Events!loopStart
    <2>2. at' \in [Replica -> Events!Stages] /\ at'[r] \in {"read", "ended"}
      BY <1>3, <2>1
    <2>3. Events!TypeOK'
      BY <1>1, <1>3, <1>4, <1>5, <2>1, <2>2
    <2>4. LoopSound(r)'
      BY <2>2 DEF LoopSound, PassedBy
    <2>5. \A s \in Replica \ {r} : LoopAlone(s)
      BY <1>3, <2>1 DEF LoopAlone
    <2> QED BY <2>1, <2>3, <2>4, <2>5, LoopSteps DEF EventInv
  <1>9. CASE Events!Settle(r)
    <2> DEFINE n == Events!First(r)
    <2>1. n \in todo[r] /\ n \in 1..Len(stream) /\ EventOf(r) = stream[n].event /\ at[r] = "deliver" /\ subs[r] = {}
      BY <1>1, <1>9, EntryInHand DEF Events!Settle, EventOf
    <2>2. /\ todo' = [todo EXCEPT ![r] = todo[r] \ {n}]
          /\ \/ stream' = [stream EXCEPT ![n].state = "acked"] /\ ok[r]
             \/ stream' = stream
          /\ \/ at' = [at EXCEPT ![r] = "rows"] /\ todo[r] # {n}
             \/ at' = [at EXCEPT ![r] = "read"]
          /\ UNCHANGED <<published, batch, added, done, locked, subs, sub, ok, launches, handled, lost>>
      BY <1>9 DEF Events!Settle, Events!Acks
    <2>3. retry' \in [Replica -> BOOLEAN] /\ faults' \in 0..MaxFaults
      BY <1>3, <1>5, <1>9 DEF Events!Settle
    <2>4. pending' \in [Replica -> BOOLEAN]
      BY <1>3, <1>9, <2>3 DEF Events!Settle
    <2> DEFINE x == [stream[n] EXCEPT !.state = "acked"]
    <2>5. x \in T /\ x.event = stream[n].event /\ x.state = "acked"
      BY <1>2, <2>1 DEF Events!EntryState
    <2>6. /\ stream' \in Seq(T) /\ Len(stream') = Len(stream)
          /\ \A i \in 1..Len(stream) : stream'[i].event = stream[i].event
          /\ \A i \in 1..Len(stream) : stream'[i].state = "acked" => stream[i].state = "acked" \/ (i = n /\ ok[r])
      <3>1. CASE stream' = stream
        BY <1>1, <3>1
      <3>2. CASE stream' = [stream EXCEPT ![n] = x] /\ ok[r]
        <4>1. stream' \in Seq(T) /\ Len(stream') = Len(stream)
              /\ \A i \in 1..Len(stream) : stream'[i] = IF i = n THEN x ELSE stream[i]
          <5> HIDE DEF T, x
          <5> QED BY <1>1, <2>1, <2>5, <3>2, ExceptSeq
        <4> QED
          <5> HIDE DEF x
          <5> QED BY <2>1, <2>5, <3>2, <4>1
      <3> QED BY <2>2, <3>1, <3>2
    <2>7. StreamGrows
      BY <1>1, <2>6 DEF StreamGrows
    <2>8. Events!TypeOK'
      <3>1. at' \in [Replica -> Events!Stages] /\ todo' \in [Replica -> SUBSET (1..Len(stream))]
        BY <1>3, <2>2
      <3>2. unread' \subseteq 1..Len(stream)
        BY <1>3, <1>9 DEF Events!Settle
      <3> QED BY <1>3, <1>4, <2>2, <2>3, <2>4, <2>6, <3>1, <3>2
    <2>9. LoopSound(r)'
      BY <1>3, <2>1, <2>2 DEF LoopSound, PassedBy
    <2>10. \A s \in Replica \ {r} : LoopSound(s)'
      <3> TAKE s \in Replica \ {r}
      <3>1. LoopAlone(s)
        BY <1>3, <2>2 DEF LoopAlone
      <3> QED BY <2>2, <2>7, <3>1, LoopKept
    <2>11. ok[r] => \A p \in Subscriber \ Undecodable : <<stream[n].event, p>> \in handled
      BY <1>1, <2>1 DEF LoopSound, PassedBy, InHand
    <2>12. Events!AckedIsHandled'
      BY <2>2, <2>6, <2>11 DEF EventInv, Events!AckedIsHandled
    <2>13. \A e \in published' \cup added' : Streamed(e)'
      BY <1>1, <2>2, <2>6 DEF EventInv, Streamed
    <2> QED BY <2>2, <2>8, <2>9, <2>10, <2>12, <2>13 DEF EventInv
  <1> QED BY <1>6, <1>7, <1>8, <1>9, <1>11, <1>12

(* Every step keeps the invariant.                                         *)
LEMMA EventsStep ==
  ASSUME EventAssumption, EventInv, [Events!Next]_(Events!vars)
  PROVE  EventInv'
  <1>1. CASE Events!Next
    BY <1>1, PublisherSteps, StageSteps, ReadSteps DEF Events!Next, Events!Consume
  <1>2. CASE UNCHANGED Events!vars
    <2>1. UNCHANGED <<published, batch, added, stream, done, locked, at, pending, todo, subs, sub, ok, retry,
                      faults, launches, handled, lost, unread>>
      BY <1>2 DEF Events!vars, Events!outboxVars, Events!loopVars, Events!keyVars, Events!history
    <2> QED BY <2>1 DEF EventInv, Events!TypeOK, Events!Key, Streamed, LoopSound, PassedBy, InHand, Idle, EventOf,
                        Events!First, Events!Current, Events!AckedIsHandled
  <1> QED BY <1>1, <1>2

(* One replica: whatever a step does to a key, its launches are covered.   *)
LEMMA CountedSteps ==
  ASSUME EventAssumption, \A r, s \in Replica : r = s, EventInv, LaunchCounted, Events!Next
  PROVE  LaunchCounted'
  <1> USE DEF Events!outboxVars, Events!loopVars, Events!keyVars, Events!history, Events!loopRest, Events!GoTo
  <1>1. /\ Events!TypeOK /\ Len(stream) \in Nat /\ launches \in [Events!Key -> Nat] /\ lost \in [Events!Key -> Nat]
        /\ at \in [Replica -> Events!Stages]
    BY StreamShape DEF EventInv, Events!TypeOK
  <1>2. ASSUME NEW r \in Replica, UNCHANGED todo, StreamGrows, at[r] \notin Idle
        PROVE  EventOf(r)' = EventOf(r) /\ Events!Current(r) = <<EventOf(r), sub[r]>>
               /\ Events!Current(r)' = <<EventOf(r), sub'[r]>> /\ Events!Current(r) \in Events!Key
    <2>1. Events!First(r) \in 1..Len(stream) /\ Events!Current(r) = <<EventOf(r), sub[r]>>
          /\ Events!Current(r) \in Events!Key
      BY <1>1, <1>2, EntryInHand DEF EventInv
    <2> QED BY <1>2, <2>1 DEF EventOf, Events!First, Events!Current, StreamGrows
  <1>3. ASSUME UNCHANGED <<at, todo, sub, done, launches, lost>>, StreamGrows
        PROVE  LaunchCounted'
    <2>1. \A r \in Replica : at[r] \notin Idle => Events!Current(r)' = Events!Current(r)
      BY <1>2, <1>3
    <2>2. \A k \in Events!Key : Marking(k) => Marking(k)'
      BY <1>3, <2>1 DEF Marking, Idle
    <2> QED BY <1>1, <1>3, <2>1, <2>2 DEF LaunchCounted, Idle
  <1>4. ASSUME UNCHANGED stream PROVE StreamGrows
    BY <1>1, <1>4 DEF StreamGrows
  <1>5. CASE Events!Publisher \/ Events!PublishRollback \/ (\E e \in Event : Events!XAddFails(e))
             \/ \E k \in Events!Key : Events!LockExpires(k)
    <2>1. UNCHANGED <<at, todo, sub, done, launches, lost>>
      BY <1>5 DEF Events!Publisher, Events!PublishBegin, Events!XAdd, Events!PublishCommit, Events!PublishRollback,
                  Events!XAddFails, Events!LockExpires, Events!publishOthers
    <2>2. UNCHANGED stream \/ \E e \in Event : stream' = Append(stream, [event |-> e, state |-> "new"])
      BY <1>5 DEF Events!Publisher, Events!PublishBegin, Events!XAdd, Events!PublishCommit, Events!PublishRollback,
                  Events!XAddFails, Events!LockExpires, Events!WithEntry
    <2>3. ASSUME NEW x \in [event : Event, state : Events!EntryState], stream' = Append(stream, x) PROVE StreamGrows
      <3> DEFINE T == [event : Event, state : Events!EntryState]
      <3>1. stream \in Seq(T) /\ x \in T
        BY <1>1 DEF Events!TypeOK
      <3>2. Len(stream') = Len(stream) + 1 /\ \A i \in 1..Len(stream) : stream'[i] = stream[i]
        <4> HIDE DEF T
        <4> QED BY <2>3, <3>1
      <3> QED BY <1>1, <3>2 DEF StreamGrows
    <2>4. StreamGrows
      BY <1>4, <2>2, <2>3 DEF Events!EntryState
    <2> QED BY <1>3, <2>1, <2>4
  <1>6. ASSUME NEW r \in Replica, Events!Consume(r) \/ Events!GroupFails(r) \/ Events!ReadLost(r)
                                  \/ Events!FindFails(r) \/ Events!MarkFails(r) \/ Events!Crash(r)
                                  \/ \E p \in Subscriber : Events!CheckDoneFails(r, p)
        PROVE  LaunchCounted'
    <2>1. \A s \in Replica : s = r
      OBVIOUS
    <2>2. \A k \in Events!Key : Marking(k) <=> k \in done \/ (at[r] = "done" /\ Events!Current(r) = k)
      BY <2>1 DEF Marking
    <2>3. \A k \in Events!Key : Marking(k)' <=> k \in done' \/ (at'[r] = "done" /\ Events!Current(r)' = k)
      BY <2>1 DEF Marking
    <2>4. \A k \in Events!Key : launches[k] <= lost[k] + 1 /\ (~Marking(k) => launches[k] <= lost[k])
                                /\ launches[k] \in Nat /\ lost[k] \in Nat
      BY <1>1 DEF LaunchCounted
    <2>5. at[r] \in {"lock", "fire"} => launches[Events!Current(r)] <= lost[Events!Current(r)]
      BY DEF LaunchCounted
    (* It is enough that each key and the one in hand are covered.         *)
    <2>6. ASSUME \A k \in Events!Key : ~Marking(k)' => launches'[k] <= lost'[k],
                 \A k \in Events!Key : launches'[k] <= lost'[k] + 1,
                 at'[r] \in {"lock", "fire"} => launches'[Events!Current(r)'] <= lost'[Events!Current(r)']
          PROVE  LaunchCounted'
      <3>1. \A k \in Events!Key : launches'[k] <= lost'[k] + (IF Marking(k)' THEN 1 ELSE 0)
        <4> TAKE k \in Events!Key
        <4>1. launches'[k] \in Nat /\ lost'[k] \in Nat
          BY EventsStep DEF EventInv, Events!TypeOK, Events!Key
        <4> QED BY <2>6, <4>1
      <3> QED BY <2>1, <2>6, <3>1 DEF LaunchCounted, Events!Key
    <2>7. at[r] \notin Idle /\ UNCHANGED stream /\ UNCHANGED todo =>
            /\ Events!Current(r) = <<EventOf(r), sub[r]>> /\ Events!Current(r) \in Events!Key
            /\ Events!Current(r)' = <<EventOf(r), sub'[r]>>
      BY <1>2, <1>4
    <2> USE DEF Events!Stages, Idle
    <2>8. CASE \/ Events!CreateGroup(r) \/ Events!GroupFails(r) \/ Events!ReadGroup(r) \/ Events!ReadLost(r)
               \/ Events!ReadNothing(r) \/ Events!FindSubscribers(r) \/ Events!FindFails(r) \/ Events!Settle(r)
      <3>1. UNCHANGED <<done, launches, lost>> /\ at[r] \notin {"done", "lock", "fire"} /\ at'[r] \notin {"lock", "fire"}
        BY <1>1, <2>8 DEF Events!CreateGroup, Events!GroupFails, Events!loopStart, Events!ReadLost,
                          Events!ReadGroup, Events!ReadNothing, Events!FindSubscribers, Events!FindFails, Events!Settle
      <3> QED BY <2>2, <2>3, <2>4, <2>6, <3>1
    <2>9. ASSUME NEW p \in Subscriber, Events!CheckDone(r, p) PROVE LaunchCounted'
      <3>1. at[r] = "deliver" /\ sub' = [sub EXCEPT ![r] = p] /\ UNCHANGED <<stream, todo, done, launches, lost>>
            /\ (at' = at \/ (at' = [at EXCEPT ![r] = "lock"] /\ <<EventOf(r), p>> \notin done))
        BY <2>9 DEF Events!CheckDone, EventOf
      <3>2. Events!Current(r)' = <<EventOf(r), p>> /\ <<EventOf(r), p>> \in Events!Key
        BY <1>1, <2>7, <3>1 DEF Events!TypeOK, Events!Key
      <3>3. CASE at' = at
        BY <2>2, <2>3, <2>4, <2>6, <3>1, <3>3
      <3>4. CASE at'[r] = "lock" /\ <<EventOf(r), p>> \notin done
        <4>1. launches[<<EventOf(r), p>>] <= lost[<<EventOf(r), p>>]
          BY <2>2, <2>4, <3>1, <3>2, <3>4
        <4>2. launches'[Events!Current(r)'] <= lost'[Events!Current(r)']
          BY <3>1, <3>2, <4>1
        <4>3. \A k \in Events!Key : ~Marking(k)' => ~Marking(k)
          BY <2>2, <2>3, <3>1, <3>4
        <4> QED BY <2>4, <2>6, <3>1, <4>2, <4>3
      <3>5. at' = [at EXCEPT ![r] = "lock"] => at'[r] = "lock"
        BY <1>1
      <3> QED BY <3>1, <3>3, <3>4, <3>5
    <2>10. ASSUME NEW p \in Subscriber, Events!CheckDoneFails(r, p) PROVE LaunchCounted'
      <3>1. at[r] = "deliver" /\ sub' = [sub EXCEPT ![r] = p] /\ UNCHANGED <<stream, todo, done, launches>>
            /\ at' = [at EXCEPT ![r] = "lock"] /\ lost' = [lost EXCEPT ![<<EventOf(r), p>>] = @ + 1]
        BY <2>10 DEF Events!CheckDoneFails, EventOf
      <3>2. Events!Current(r)' = <<EventOf(r), p>> /\ <<EventOf(r), p>> \in Events!Key
        BY <1>1, <2>7, <3>1 DEF Events!TypeOK, Events!Key
      <3>3. \A k \in Events!Key : lost'[k] = IF k = <<EventOf(r), p>> THEN lost[k] + 1 ELSE lost[k]
        BY <1>1, <3>1
      <3>4. \A k \in Events!Key : Marking(k) => Marking(k)'
        BY <2>2, <2>3, <3>1
      <3>5. \A k \in Events!Key : launches'[k] <= lost'[k] + 1 /\ (~Marking(k)' => launches'[k] <= lost'[k])
        BY <2>4, <3>1, <3>3, <3>4
      <3>6. launches'[<<EventOf(r), p>>] <= lost'[<<EventOf(r), p>>]
        BY <2>4, <3>1, <3>2, <3>3
      <3> QED BY <2>6, <3>2, <3>5, <3>6
    <2>11. CASE Events!Lock(r) \/ Events!LockRefused(r) \/ Events!Unlock(r)
      <3>1. UNCHANGED <<stream, todo, sub, done, launches, lost>> /\ at[r] \in {"lock", "unlock"}
            /\ (at'[r] \in {"lock", "fire"} => at[r] = "lock")
        BY <1>1, <2>11 DEF Events!Lock, Events!LockRefused, Events!Unlock
      <3> QED BY <2>2, <2>3, <2>4, <2>5, <2>6, <2>7, <3>1
    <2>12. CASE Events!Fire(r)
      <3>1. UNCHANGED <<stream, todo, sub, done, lost>> /\ at[r] = "fire" /\ at'[r] \in {"done", "refused"}
            /\ \/ at'[r] = "done" /\ launches' = [launches EXCEPT ![Events!Current(r)] = @ + 1]
               \/ UNCHANGED launches
        BY <1>1, <2>12 DEF Events!Fire
      <3>2. Events!Current(r)' = Events!Current(r) /\ Events!Current(r) \in Events!Key
        BY <2>7, <3>1
      <3> QED BY <1>1, <2>2, <2>3, <2>4, <2>5, <2>6, <3>1, <3>2
    <2>13. CASE Events!FireFails(r)
      <3>1. UNCHANGED <<stream, todo, sub, done>> /\ at[r] = "fire" /\ at'[r] = "unlock"
        BY <1>1, <2>13 DEF Events!FireFails
      <3>2. Events!Current(r) \in Events!Key
        BY <2>7, <3>1
      <3>3. \A k \in Events!Key : \E n \in {0, 1} : launches'[k] = launches[k] + n /\ lost'[k] = lost[k] + n
        BY <1>1, <2>13, <3>2 DEF Events!FireFails
      <3>4. \A k \in Events!Key : (launches'[k] <= lost'[k] <=> launches[k] <= lost[k])
                                  /\ (launches'[k] <= lost'[k] + 1)
        BY <2>4, <3>3
      <3> QED BY <2>2, <2>3, <2>4, <2>5, <2>6, <3>1, <3>4
    <2>14. CASE Events!MarkDone(r)
      <3>1. UNCHANGED <<stream, todo, sub, launches, lost>> /\ at[r] \in {"done", "refused"} /\ at'[r] = "unlock"
            /\ done' = done \cup {Events!Current(r)}
        BY <1>1, <2>14 DEF Events!MarkDone, Events!DoneKey
      <3> QED BY <2>2, <2>3, <2>4, <2>6, <3>1
    <2>15. CASE Events!MarkFails(r)
      <3>1. UNCHANGED <<stream, todo, sub, launches, done>> /\ at[r] \in {"done", "refused"} /\ at'[r] = "unlock"
            /\ lost' = [lost EXCEPT ![Events!Current(r)] = @ + 1]
        BY <1>1, <2>15 DEF Events!MarkFails
      <3>2. Events!Current(r) \in Events!Key
        BY <2>7, <3>1
      <3> QED BY <1>1, <2>2, <2>3, <2>4, <2>6, <3>1, <3>2
    <2>16. CASE Events!Crash(r)
      <3>1. UNCHANGED <<stream, sub, launches, done>> /\ at'[r] = "group"
            /\ \/ at[r] \in {"done", "refused"} /\ lost' = [lost EXCEPT ![Events!Current(r)] = @ + 1]
               \/ lost' = lost /\ at[r] # "done"
        BY <1>1, <2>16 DEF Events!Crash
      <3>2. CASE at[r] \in {"done", "refused"} /\ lost' = [lost EXCEPT ![Events!Current(r)] = @ + 1]
        <4>1. Events!Current(r) \in Events!Key
          BY <1>1, <3>2, EntryInHand DEF EventInv
        <4> QED BY <1>1, <2>2, <2>3, <2>4, <2>6, <3>1, <3>2, <4>1
      <3>3. CASE lost' = lost /\ at[r] # "done"
        BY <2>2, <2>3, <2>4, <2>6, <3>1, <3>3
      <3> QED BY <3>1, <3>2, <3>3
    <2> QED BY <1>6, <2>8, <2>9, <2>10, <2>11, <2>12, <2>13, <2>14, <2>15, <2>16 DEF Events!Consume
  <1> QED BY <1>5, <1>6 DEF Events!Next

LEMMA CountedStep ==
  ASSUME EventAssumption, \A r, s \in Replica : r = s, EventInv, LaunchCounted, [Events!Next]_(Events!vars)
  PROVE  LaunchCounted'
  <1>1. CASE UNCHANGED Events!vars
    <2>1. UNCHANGED <<stream, done, at, todo, sub, launches, lost>>
      BY <1>1 DEF Events!vars, Events!outboxVars, Events!loopVars, Events!keyVars, Events!history
    <2> QED BY <2>1 DEF LaunchCounted, Marking, Events!First, Events!Current, Events!Key
  <1> QED BY <1>1, CountedSteps

LEMMA CountedBound ==
  ASSUME EventInv, LaunchCounted
  PROVE  Events!LaunchedOnce
  <1> SUFFICES ASSUME NEW k \in Events!Key PROVE launches[k] <= 1 + lost[k]
    BY DEF Events!LaunchedOnce
  <1>1. launches[k] \in Nat /\ lost[k] \in Nat
    BY DEF EventInv, Events!TypeOK
  <1> QED BY <1>1 DEF LaunchCounted

LEMMA EventInvStreams ==
  ASSUME EventInv
  PROVE  Events!TypeOK /\ Events!PublishedIsStreamed /\ Events!AckedIsHandled
  BY DEF EventInv, Streamed, Events!PublishedIsStreamed

(* dispatchEvents and consumePipelineEventStream: an event leaves the      *)
(* outbox only once the stream has it, and an entry is acknowledged only   *)
(* when every subscriber was launched or refused, with any number of       *)
(* replicas and failures.                                                  *)
THEOREM EventsReachEverySubscriber ==
  ASSUME EventAssumption
  PROVE  Events!Spec => [](Events!TypeOK /\ Events!PublishedIsStreamed /\ Events!AckedIsHandled)
  <1>1. Events!Init => EventInv
    BY EventsStart
  <1> QED BY EventsStep, EventInvStreams, <1>1, PTL DEF Events!Spec

(* deliverEvent: with one API replica a subscriber runs once per event,    *)
(* and once more for each done key that could not be written or read.      *)
THEOREM EventsLaunchOnce ==
  ASSUME EventAssumption, \A r, s \in Replica : r = s
  PROVE  Events!Spec => []Events!LaunchedOnce
  <1>1. Events!Init => EventInv /\ LaunchCounted
    BY EventsStart
  <1>2. EventInv /\ LaunchCounted => Events!LaunchedOnce
    BY CountedBound
  <1>3. EventInv /\ LaunchCounted /\ [Events!Next]_(Events!vars) => (EventInv /\ LaunchCounted)'
    BY EventsStep, CountedStep
  <1> QED BY <1>1, <1>2, <1>3, PTL DEF Events!Spec

=============================================================================
