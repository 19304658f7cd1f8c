----------------------------- MODULE JwksCache ------------------------------
(***************************************************************************)
(* The signing keys of the OIDC issuer: the issuer rotates them, logins    *)
(* present ID tokens, and jwksCache.key decides under its mutex between    *)
(* the cached set, a refetch and a refusal.  A login keeps the mutex while *)
(* it waits for the issuer's document, and the others wait for it.         *)
(*                                                                         *)
(* Abstractions: a key is its kid; the other claims of an ID token are     *)
(* right or wrong as a whole; one issuer.                                  *)
(***************************************************************************)
EXTENDS Integers, FiniteSets

CONSTANTS
    Kid,        \* key ids
    Odd,        \* those of a type that parseJWK does not support
    MaxAge,     \* jwksMaxAge
    Backoff,    \* jwksRefetchBackoff
    MaxClock    \* the last time of the model

NoKid == "no kid"
Nobody == "nobody"

JwksAssumption ==
    /\ Odd \subseteq Kid /\ NoKid \notin Kid /\ Nobody \notin Kid
    /\ Backoff \in Nat \ {0} /\ MaxAge \in Nat /\ Backoff <= MaxAge /\ MaxClock \in Nat

VARIABLES
    now,
    offered,  \* the keys in the issuer's document
    since,    \* since[k]: when k was last added to it or removed from it
    entry,    \* the cached entry: keys ({} without one) and fetched
    asking,   \* the kid of the login that waits for the document, or Nobody
    reply,    \* the keys of the document on its way to it, {} before
    answer,   \* the last login: kid and whether a key was found
    \* History variables, read by properties only.
    served,   \* when the issuer gave out the reply on its way, and the cached keys
    early     \* a set was cached within the backoff after the one before

vars == <<now, offered, since, entry, asking, reply, answer, served, early>>

TypeOK ==
    /\ now \in 0..MaxClock
    /\ offered \subseteq Kid /\ since \in [Kid -> 0..MaxClock]
    /\ entry \in [keys : SUBSET (Kid \ Odd), fetched : 0..MaxClock]
    /\ asking \in Kid \cup {NoKid, Nobody} /\ reply \in SUBSET (Kid \ Odd)
    /\ answer \in [kid : Kid \cup {NoKid}, key : Kid \cup {NoKid}]
    /\ served \in [reply : 0..MaxClock, cached : 0..MaxClock] /\ early \in BOOLEAN

Nothing == [kid |-> NoKid, key |-> NoKid]

Init ==
    /\ now = 0
    /\ offered \in (SUBSET Kid) \ {{}}
    /\ since = [k \in Kid |-> 0]
    /\ entry = [keys |-> {}, fetched |-> 0]
    /\ asking = Nobody /\ reply = {}
    /\ answer = Nothing
    /\ served = [reply |-> 0, cached |-> 0] /\ early = FALSE

Tick ==
    /\ now < MaxClock /\ now' = now + 1
    /\ answer' = Nothing
    /\ UNCHANGED <<offered, since, entry, asking, reply, served, early>>

Rotate(k) ==
    /\ offered' = IF k \in offered THEN offered \ {k} ELSE offered \cup {k}
    /\ since' = [since EXCEPT ![k] = now]
    /\ answer' = Nothing
    /\ UNCHANGED <<now, entry, asking, reply, served, early>>

-----------------------------------------------------------------------------
(* The key for a kid, or NoKid.  A token without a kid needs a set of one. *)
Lookup(keys, kid) ==
    IF kid = NoKid /\ Cardinality(keys) = 1 THEN CHOOSE k \in keys : TRUE
    ELSE IF kid \in keys THEN kid ELSE NoKid

Age == now - entry.fetched
FreshForever == entry.keys # {}
Fresh == entry.keys # {} /\ Age < MaxAge
BacksOffForever == Fresh
NoBackoff == FALSE
BacksOff == Fresh /\ Age < Backoff

Decided(kid) == Fresh /\ (Lookup(entry.keys, kid) # NoKid \/ BacksOff)
Answer(kid, keys) == answer' = [kid |-> kid, key |-> Lookup(keys, kid)]

FromCache(kid) ==
    /\ asking = Nobody /\ Decided(kid)
    /\ Answer(kid, entry.keys)
    /\ UNCHANGED <<now, offered, since, entry, asking, reply, served, early>>

FetchJWKS(kid) ==
    /\ asking = Nobody /\ ~Decided(kid)
    /\ asking' = kid
    /\ answer' = Nothing
    /\ UNCHANGED <<now, offered, since, entry, reply, served, early>>

(* Keys of another use or type are skipped.                                *)
Usable == offered \ Odd

(* The issuer gives out its document.                                      *)
Serve ==
    /\ asking # Nobody /\ reply = {}
    /\ Usable # {}
    /\ reply' = Usable
    /\ served' = [served EXCEPT !.reply = now]
    /\ answer' = Nothing
    /\ UNCHANGED <<now, offered, since, entry, asking, early>>

(* It arrives: fetched is the time of the arrival.                         *)
StoreKeys ==
    /\ reply # {}
    /\ entry' = [keys |-> reply, fetched |-> now]
    /\ served' = [served EXCEPT !.cached = served.reply]
    /\ early' = (early \/ (entry.keys # {} /\ Age < Backoff))
    /\ Answer(asking, reply)
    /\ asking' = Nobody /\ reply' = {}
    /\ UNCHANGED <<now, offered, since>>

(* The request fails or the set has no usable key: nothing is cached.      *)
FetchFails ==
    /\ asking # Nobody
    /\ asking' = Nobody /\ reply' = {}
    /\ answer' = Nothing
    /\ UNCHANGED <<now, offered, since, entry, served, early>>

VerifyOIDCIDToken(kid) == FromCache(kid) \/ FetchJWKS(kid)

Next ==
    \/ Tick
    \/ \E k \in Kid : Rotate(k)
    \/ \E kid \in Kid \cup {NoKid} : VerifyOIDCIDToken(kid)
    \/ Serve \/ StoreKeys \/ FetchFails

Spec == Init /\ [][Next]_vars

-----------------------------------------------------------------------------
(* Properties.                                                             *)

(* How long the cached document was on its way.                            *)
Latency == entry.fetched - served.cached

(* A key that the issuer has taken back is accepted for less than an hour, *)
(* and for as long as the document with it was on its way.                 *)
RetiredKeysEnd ==
    answer.key # NoKid =>
        answer.key \in offered \/ now - since[answer.key] < MaxAge + Latency

(* A key that has been offered for the backoff, and for as long as the     *)
(* cached document was on its way, is not refused: rotating keys locks     *)
(* nobody out for longer.                                                  *)
NewKeysWork ==
    \A k \in Usable : answer.kid = k /\ now - since[k] >= Backoff + Latency => answer.key = k

(* Sets that were fetched are kept for the backoff, whatever kids are      *)
(* asked for.                                                              *)
GoodFetchesSpaced == ~early

=============================================================================
