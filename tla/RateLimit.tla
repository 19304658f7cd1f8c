------------------------------ MODULE RateLimit ------------------------------
(***************************************************************************)
(* rateLimit (api/http.go): one scope and one client address.  A request   *)
(* takes its bucket from the clock, counts itself in Redis, and in the     *)
(* process when Redis does not answer; counters expire, Redis comes and    *)
(* goes, and the clock moves while a request is under way.                 *)
(***************************************************************************)
EXTENDS Naturals, FiniteSets

CONSTANTS Request, Replica,
          Limit,      \* requests that may pass in a window
          Window,     \* length of a window
          MaxTime     \* bound on the clock

RateAssumption == /\ Limit \in Nat /\ Window \in Nat \ {0} /\ MaxTime \in Nat
                  /\ "redis" \notin Replica

VARIABLES clock,
          redis,      \* counters of Redis: bucket -> [count, expires]
          local,      \* localRateLimiter of each replica
          req,        \* requests
          passed      \* <<request, bucket, counter, time>> that went on to the handler
vars == <<clock, redis, local, req, passed>>

Bucket == 0 .. MaxTime \div Window
Fresh == [count |-> 0, expires |-> 0]
Init == /\ clock = 0
        /\ redis = [b \in Bucket |-> Fresh]
        /\ local = [p \in Replica |-> [b \in Bucket |-> Fresh]]
        /\ req = [q \in Request |-> [at |-> "new"]]
        /\ passed = {}

Arrive(q) == /\ req[q].at = "new"
             /\ \E p \in Replica : req' = [req EXCEPT ![q] =
                    [at |-> "redis", replica |-> p, bucket |-> clock \div Window]]
             /\ UNCHANGED <<clock, redis, local, passed>>

(* INCR of a key that has expired begins at 0; EXPIRE renews its life.     *)
RedisIncr(c) == [count |-> (IF clock >= c.expires THEN 0 ELSE c.count) + 1, expires |-> clock + Window]

(* fallbackLimiter.incr: the life of a local counter is not renewed.       *)
LocalIncr(c) == IF c.count = 0 \/ clock > c.expires THEN [count |-> 1, expires |-> clock + Window]
                ELSE [c EXCEPT !.count = @ + 1]

Decide(q, counter, n) ==
    /\ req' = [req EXCEPT ![q] = [at |-> IF n > Limit THEN "refused" ELSE "passed"]]
    /\ passed' = IF n > Limit THEN passed ELSE passed \cup {<<q, req[q].bucket, counter, clock>>}

CountInRedis(q) == LET b == req[q].bucket IN
    /\ req[q].at = "redis"
    /\ redis' = [redis EXCEPT ![b] = RedisIncr(@)]
    /\ Decide(q, "redis", redis'[b].count)
    /\ UNCHANGED <<clock, local>>

(* Redis cannot be reached, or has counted and the answer is lost.         *)
RedisFails(q) == LET b == req[q].bucket IN
    /\ req[q].at = "redis"
    /\ redis' \in {redis, [redis EXCEPT ![b] = RedisIncr(@)]}
    /\ req' = [req EXCEPT ![q].at = "local"]
    /\ UNCHANGED <<clock, local, passed>>

CountLocally(q) == LET b == req[q].bucket  p == req[q].replica IN
    /\ req[q].at = "local"
    /\ local' = [local EXCEPT ![p][b] = LocalIncr(@)]
    /\ Decide(q, p, local'[p][b].count)
    /\ UNCHANGED <<clock, redis>>

SweepsAll(c) == TRUE
Swept(c) == clock > c.expires
(* More than 10000 counters: the ones that have expired are dropped.       *)
Sweep(p) == /\ \E b \in Bucket : local[p][b].count > 0
            /\ local' = [local EXCEPT ![p] = [b \in Bucket |-> IF Swept(@[b]) THEN Fresh ELSE @[b]]]
            /\ UNCHANGED <<clock, redis, req, passed>>

Tick == clock < MaxTime /\ clock' = clock + 1 /\ UNCHANGED <<redis, local, req, passed>>

Next == Tick \/ \E q \in Request : Arrive(q) \/ CountInRedis(q) \/ RedisFails(q) \/ CountLocally(q)
             \/ \E p \in Replica : Sweep(p)
Spec == Init /\ [][Next]_vars

-----------------------------------------------------------------------------
Bounded(c) == c.count \in 0 .. Cardinality(Request) /\ c.expires \in 0 .. MaxTime + Window
TypeOK == /\ clock \in 0 .. MaxTime
          /\ \A b \in Bucket : Bounded(redis[b]) /\ \A p \in Replica : Bounded(local[p][b])
          /\ passed \subseteq Request \X Bucket \X (Replica \cup {"redis"}) \X (0 .. MaxTime)

Counted(b, c, first, last) == Cardinality({e \in passed : e[2] = b /\ e[3] = c /\ e[4] \in first .. last})

(* "Without Redis each replica still enforces the limit on its own": of    *)
(* the requests of a bucket no counter lets more than Limit through in the *)
(* window of the bucket, however often Redis comes and goes: neither       *)
(* expiry nor sweep gives it a second allowance.  A request that is        *)
(* counted late, when that window is over, finds the counter of Redis      *)
(* renewed, so Limit holds for every stretch of that length; the one of a  *)
(* replica may have been started again, once in such a stretch.            *)
LimitPerCounter == \A b \in Bucket :
    /\ \A c \in Replica \cup {"redis"} : Counted(b, c, b * Window, b * Window + Window - 1) <= Limit
    /\ \A t \in 0 .. MaxTime :
        /\ Counted(b, "redis", t, t + Window - 1) <= Limit
        /\ \A p \in Replica : Counted(b, p, t, t + Window - 1) <= 2 * Limit
================================================================================
