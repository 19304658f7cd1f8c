--------------------------- MODULE IdentityProofs ---------------------------
(***************************************************************************)
(* Who may use the system, for every value of the constants: the key cache *)
(* of the OIDC issuer, accounts and their confirmation, the rate limiter,  *)
(* OAuth connections, and sessions.                                        *)
(***************************************************************************)
EXTENDS Integers, FiniteSetTheorems, SequenceTheorems, WellFoundedInduction, TLAPS

-----------------------------------------------------------------------------
(* The key cache.                                                          *)

CONSTANTS Kid, Odd, MaxAge, Backoff, JwksEnd
VARIABLES jwksNow, offered, since, entry, asking, reply, keyAnswer, served, early

Jwks == INSTANCE JwksCache WITH MaxClock <- JwksEnd, now <- jwksNow, answer <- keyAnswer

(* The keys of a document that the issuer gave out at some time: each was  *)
(* offered then, and so was whatever has been offered since before that.   *)
Document(keys, time) ==
    /\ \A k \in keys : k \in offered \/ since[k] >= time
    /\ keys # {} => \A k \in Jwks!Usable : since[k] < time => k \in keys

(* Nothing is dated in the future, and a login asks the issuer only once   *)
(* the set is old enough.                                                  *)
JwksInv ==
    /\ Jwks!TypeOK /\ Jwks!RetiredKeysEnd /\ Jwks!NewKeysWork /\ Jwks!GoodFetchesSpaced
    /\ entry.fetched <= jwksNow /\ \A k \in Kid : since[k] <= jwksNow
    /\ served.reply <= jwksNow /\ served.cached <= entry.fetched
    /\ Document(entry.keys, served.cached) /\ Document(reply, served.reply)
    /\ reply # {} => asking # Jwks!Nobody
    /\ asking # Jwks!Nobody => entry.keys = {} \/ jwksNow - entry.fetched >= Backoff

(* What parseJWK's set answers for a kid.                                  *)
LEMMA LookupFinds ==
  ASSUME NEW K \in SUBSET Kid, Jwks!NoKid \notin Kid, NEW kid
  PROVE  /\ Jwks!Lookup(K, kid) \in K \cup {Jwks!NoKid}
         /\ kid \in K => Jwks!Lookup(K, kid) = kid
         /\ kid \in Kid \ K => Jwks!Lookup(K, kid) = Jwks!NoKid
  <1>1. ASSUME Jwks!Cardinality(K) = 1 PROVE K # {}
    <2>1. \A S : Jwks!Cardinality(S) = Cardinality(S)
      BY DEF Jwks!Cardinality, Cardinality
    <2>2. Cardinality(K) = 1
      BY <1>1, <2>1
    <2> QED BY <2>2, FS_EmptySet
  <1>2. ASSUME K # {} PROVE (CHOOSE k \in K : TRUE) \in K
    BY <1>2
  <1> QED BY <1>1, <1>2 DEF Jwks!Lookup

(* The invariant holds at the start.                                       *)
LEMMA JwksStarts ==
  ASSUME Jwks!JwksAssumption, Jwks!Init
  PROVE  JwksInv
  <1>1. /\ offered \subseteq Kid /\ jwksNow = 0 /\ early = FALSE /\ entry = [keys |-> {}, fetched |-> 0]
        /\ asking = Jwks!Nobody /\ reply = {} /\ served = [reply |-> 0, cached |-> 0]
        /\ since = [k \in Kid |-> 0] /\ keyAnswer = [kid |-> Jwks!NoKid, key |-> Jwks!NoKid]
    BY DEF Jwks!Init, Jwks!Nothing
  <1>2. JwksEnd \in Nat /\ Jwks!NoKid \notin Kid
    BY DEF Jwks!JwksAssumption
  <1>3. Jwks!TypeOK
    <2>1. /\ entry \in [keys : SUBSET (Kid \ Odd), fetched : 0..JwksEnd] /\ jwksNow \in 0..JwksEnd
          /\ since \in [Kid -> 0..JwksEnd] /\ served \in [reply : 0..JwksEnd, cached : 0..JwksEnd]
      BY <1>1, <1>2
    <2>2. keyAnswer \in [kid : Kid \cup {Jwks!NoKid}, key : Kid \cup {Jwks!NoKid}]
      BY <1>1
    <2>3. asking \in Kid \cup {Jwks!NoKid, Jwks!Nobody} /\ reply \in SUBSET (Kid \ Odd) /\ early \in BOOLEAN
      BY <1>1
    <2> QED BY <1>1, <2>1, <2>2, <2>3 DEF Jwks!TypeOK
  <1>4. Jwks!RetiredKeysEnd /\ Jwks!NewKeysWork
    <2>1. keyAnswer.kid = Jwks!NoKid /\ keyAnswer.key = Jwks!NoKid
      BY <1>1
    <2>2. \A k \in Jwks!Usable : k # Jwks!NoKid
      BY <1>1, <1>2 DEF Jwks!Usable
    <2> QED BY <2>1, <2>2 DEF Jwks!RetiredKeysEnd, Jwks!NewKeysWork
  <1>5. Jwks!GoodFetchesSpaced
    BY <1>1 DEF Jwks!GoodFetchesSpaced
  <1> QED BY <1>1, <1>3, <1>4, <1>5 DEF JwksInv, Document

(* Time and the issuer's keys move on, and every answer is right.          *)
LEMMA JwksSteps ==
  ASSUME Jwks!JwksAssumption, JwksInv, Jwks!Next
  PROVE  JwksInv'
  <1> USE DEF JwksInv
  <1>1. /\ Odd \subseteq Kid /\ Jwks!NoKid \notin Kid /\ Backoff \in Nat \ {0} /\ MaxAge \in Nat /\ Backoff <= MaxAge
        /\ JwksEnd \in Nat
    BY DEF Jwks!JwksAssumption
  <1>2. /\ jwksNow \in Nat /\ jwksNow <= JwksEnd /\ offered \subseteq Kid /\ entry.fetched \in Nat /\ entry.keys \subseteq Kid \ Odd
        /\ entry \in [keys : SUBSET (Kid \ Odd), fetched : 0..JwksEnd]
        /\ since \in [Kid -> 0..JwksEnd] /\ \A k \in Kid : since[k] \in Nat
        /\ asking \in Kid \cup {Jwks!NoKid, Jwks!Nobody} /\ reply \subseteq Kid \ Odd
        /\ served \in [reply : 0..JwksEnd, cached : 0..JwksEnd] /\ served.reply \in Nat /\ served.cached \in Nat
        /\ keyAnswer \in [kid : Kid \cup {Jwks!NoKid}, key : Kid \cup {Jwks!NoKid}]
        /\ early \in BOOLEAN
    BY <1>1 DEF Jwks!TypeOK
  <1>3. ASSUME keyAnswer' = Jwks!Nothing
        PROVE  Jwks!RetiredKeysEnd' /\ Jwks!NewKeysWork' /\ keyAnswer' \in [kid : Kid \cup {Jwks!NoKid}, key : Kid \cup {Jwks!NoKid}]
    <2>1. keyAnswer'.kid = Jwks!NoKid /\ keyAnswer'.key = Jwks!NoKid
      BY <1>3 DEF Jwks!Nothing
    <2>2. Jwks!NewKeysWork'
      <3> SUFFICES ASSUME NEW k \in Jwks!Usable', keyAnswer'.kid = k
                   PROVE  keyAnswer'.key = k
        BY DEF Jwks!NewKeysWork
      <3> QED BY <2>1
    <2> QED BY <1>3, <2>1, <2>2 DEF Jwks!RetiredKeysEnd, Jwks!Nothing
  <1>4. CASE Jwks!Tick
    <2>1. /\ jwksNow' = jwksNow + 1 /\ jwksNow' <= JwksEnd /\ keyAnswer' = Jwks!Nothing
          /\ UNCHANGED <<offered, since, entry, asking, reply, served, early>>
      BY <1>1, <1>2, <1>4 DEF Jwks!Tick
    <2>2. Jwks!TypeOK'
      BY <1>1, <1>2, <1>3, <2>1 DEF Jwks!TypeOK
    <2>3. Document(entry.keys, served.cached)' /\ Document(reply, served.reply)'
      BY <2>1 DEF Document, Jwks!Usable
    <2> QED BY <1>1, <1>2, <1>3, <2>1, <2>2, <2>3 DEF Jwks!GoodFetchesSpaced
  <1>5. ASSUME NEW k \in Kid, Jwks!Rotate(k) PROVE JwksInv'
    <2>1. /\ offered' = IF k \in offered THEN offered \ {k} ELSE offered \cup {k}
          /\ since' = [since EXCEPT ![k] = jwksNow] /\ keyAnswer' = Jwks!Nothing
          /\ UNCHANGED <<jwksNow, entry, asking, reply, served, early>>
      BY <1>5 DEF Jwks!Rotate
    <2>2. Jwks!TypeOK'
      BY <1>1, <1>2, <1>3, <2>1 DEF Jwks!TypeOK
    <2>3. \A j \in Kid : since'[j] = (IF j = k THEN jwksNow ELSE since[j]) /\ (j # k => (j \in offered' <=> j \in offered))
      BY <1>2, <2>1
    <2>4. \A j \in Kid : since'[j] <= jwksNow'
      BY <1>2, <2>1, <2>3
    <2>5. ASSUME NEW K \in SUBSET Kid, NEW t \in Nat, t <= jwksNow, Document(K, t)
          PROVE  /\ \A j \in K : j \in offered' \/ since'[j] >= t
                 /\ K # {} => \A j \in Jwks!Usable' : since'[j] < t => j \in K
      <3>1. \A j \in K : j \in offered' \/ since'[j] >= t
        BY <1>2, <2>3, <2>5 DEF Document
      <3>2. ASSUME K # {}, NEW j \in Jwks!Usable', since'[j] < t PROVE j \in K
        <4>1. j \in Kid /\ j \notin Odd /\ j \in offered'
          BY <1>2, <2>1, <3>2 DEF Jwks!Usable
        <4>2. j # k
          BY <1>2, <2>3, <2>5, <3>2, <4>1
        <4> QED BY <2>3, <2>5, <3>2, <4>1, <4>2 DEF Document, Jwks!Usable
      <3> QED BY <3>1, <3>2
    <2>6. Document(entry.keys, served.cached)'
      BY <1>2, <2>1, <2>5 DEF Document
    <2>7. Document(reply, served.reply)'
      BY <1>2, <2>1, <2>5 DEF Document
    <2> QED BY <1>2, <1>3, <2>1, <2>2, <2>4, <2>6, <2>7 DEF Jwks!GoodFetchesSpaced
  <1>6. ASSUME NEW kid \in Kid \cup {Jwks!NoKid}, Jwks!FromCache(kid) PROVE JwksInv'
    <2>1. /\ UNCHANGED <<jwksNow, offered, since, entry, asking, reply, served, early>>
          /\ keyAnswer' = [kid |-> kid, key |-> Jwks!Lookup(entry.keys, kid)]
          /\ entry.keys # {} /\ jwksNow - entry.fetched < MaxAge
          /\ Jwks!Lookup(entry.keys, kid) # Jwks!NoKid \/ jwksNow - entry.fetched < Backoff
      BY <1>6 DEF Jwks!FromCache, Jwks!Decided, Jwks!Answer, Jwks!Fresh, Jwks!Age, Jwks!BacksOff
    <2>2. /\ Jwks!Lookup(entry.keys, kid) \in entry.keys \cup {Jwks!NoKid}
          /\ kid \in entry.keys => Jwks!Lookup(entry.keys, kid) = kid
          /\ kid \in Kid \ entry.keys => Jwks!Lookup(entry.keys, kid) = Jwks!NoKid
      BY <1>1, <1>2, LookupFinds
    <2>3. Jwks!TypeOK'
      BY <1>1, <1>2, <2>1, <2>2 DEF Jwks!TypeOK
    <2>4. Jwks!Latency' = entry.fetched - served.cached
      BY <2>1 DEF Jwks!Latency
    <2>5. Jwks!RetiredKeysEnd'
      <3> DEFINE k == Jwks!Lookup(entry.keys, kid)
      <3> SUFFICES ASSUME k # Jwks!NoKid
                   PROVE  k \in offered \/ jwksNow - since[k] < MaxAge + (entry.fetched - served.cached)
        BY <2>1, <2>4 DEF Jwks!RetiredKeysEnd
      <3>1. k \in entry.keys /\ since[k] \in Nat
        BY <1>2, <2>2
      <3>2. k \in offered \/ since[k] >= served.cached
        BY <3>1 DEF Document
      <3> HIDE DEF k
      <3> QED BY <1>1, <1>2, <2>1, <3>1, <3>2
    <2>6. Jwks!NewKeysWork'
      <3> SUFFICES ASSUME NEW k \in Jwks!Usable, kid = k,
                          jwksNow - since[k] >= Backoff + (entry.fetched - served.cached)
                   PROVE  Jwks!Lookup(entry.keys, kid) = k
        BY <2>1, <2>4 DEF Jwks!NewKeysWork, Jwks!Usable
      <3>1. k \in Kid /\ since[k] \in Nat
        BY <1>2 DEF Jwks!Usable
      <3>2. CASE k \in entry.keys
        BY <2>2, <3>2
      <3>3. CASE k \notin entry.keys
        <4>1. jwksNow - entry.fetched < Backoff
          BY <2>1, <2>2, <3>1, <3>3
        <4>2. since[k] < served.cached
          BY <1>1, <1>2, <3>1, <4>1
        <4> QED BY <2>1, <3>3, <4>2 DEF Document
      <3> QED BY <3>2, <3>3
    <2>7. Document(entry.keys, served.cached)' /\ Document(reply, served.reply)'
      BY <2>1 DEF Document, Jwks!Usable
    <2> QED BY <2>1, <2>3, <2>5, <2>6, <2>7 DEF Jwks!GoodFetchesSpaced
  <1>7. ASSUME NEW kid \in Kid \cup {Jwks!NoKid}, Jwks!FetchJWKS(kid) PROVE JwksInv'
    <2>1. /\ UNCHANGED <<jwksNow, offered, since, entry, reply, served, early>>
          /\ asking = Jwks!Nobody /\ asking' = kid /\ keyAnswer' = Jwks!Nothing
      BY <1>7 DEF Jwks!FetchJWKS
    <2>2. entry.keys = {} \/ jwksNow - entry.fetched >= Backoff
      BY <1>1, <1>2, <1>7 DEF Jwks!FetchJWKS, Jwks!Decided, Jwks!Fresh, Jwks!Age, Jwks!BacksOff
    <2>3. Jwks!TypeOK'
      BY <1>1, <1>2, <1>3, <2>1 DEF Jwks!TypeOK
    <2>4. Document(entry.keys, served.cached)' /\ Document(reply, served.reply)'
      BY <2>1 DEF Document, Jwks!Usable
    <2>5. reply' = {}
      BY <2>1
    <2> QED BY <1>2, <1>3, <2>1, <2>2, <2>3, <2>4, <2>5 DEF Jwks!GoodFetchesSpaced
  <1>8. CASE Jwks!Serve
    <2>1. /\ UNCHANGED <<jwksNow, offered, since, entry, asking, early>> /\ asking # Jwks!Nobody
          /\ reply' = Jwks!Usable /\ served' = [served EXCEPT !.reply = jwksNow]
          /\ keyAnswer' = Jwks!Nothing
      BY <1>8 DEF Jwks!Serve
    <2>2. /\ served' \in [reply : 0..JwksEnd, cached : 0..JwksEnd] /\ served'.reply = jwksNow
          /\ served'.cached = served.cached
      BY <1>1, <1>2, <2>1
    <2>3. reply' \subseteq Kid \ Odd /\ Jwks!Usable' = Jwks!Usable /\ reply' \subseteq offered
      BY <1>2, <2>1 DEF Jwks!Usable
    <2>4. Jwks!TypeOK'
      BY <1>1, <1>2, <1>3, <2>1, <2>2, <2>3 DEF Jwks!TypeOK
    <2>5. Document(entry.keys, served.cached)'
      BY <2>1, <2>2, <2>3 DEF Document
    <2>6. Document(reply, served.reply)'
      BY <2>1, <2>2, <2>3 DEF Document
    <2> QED BY <1>2, <1>3, <2>1, <2>2, <2>4, <2>5, <2>6 DEF Jwks!GoodFetchesSpaced
  <1>9. CASE Jwks!StoreKeys
    <2>1. /\ UNCHANGED <<jwksNow, offered, since>> /\ reply # {} /\ reply' = {}
          /\ entry' = [keys |-> reply, fetched |-> jwksNow]
          /\ served' = [served EXCEPT !.cached = served.reply]
          /\ keyAnswer' = [kid |-> asking, key |-> Jwks!Lookup(reply, asking)] /\ asking' = Jwks!Nobody
          /\ early' = (early \/ (entry.keys # {} /\ Jwks!Age < Backoff))
      BY <1>9 DEF Jwks!StoreKeys, Jwks!Answer
    <2>2. ~ early'
      BY <1>1, <1>2, <2>1 DEF Jwks!Age, Jwks!GoodFetchesSpaced
    <2>3. /\ asking \in Kid \cup {Jwks!NoKid}
          /\ Jwks!Lookup(reply, asking) \in reply \cup {Jwks!NoKid}
          /\ asking \in reply => Jwks!Lookup(reply, asking) = asking
      BY <1>1, <1>2, <2>1, LookupFinds
    <2>4. /\ served' \in [reply : 0..JwksEnd, cached : 0..JwksEnd] /\ served'.reply = served.reply
          /\ served'.cached = served.reply /\ entry' \in [keys : SUBSET (Kid \ Odd), fetched : 0..JwksEnd]
          /\ entry'.keys = reply /\ entry'.fetched = jwksNow /\ Jwks!Usable' = Jwks!Usable
      BY <1>1, <1>2, <2>1 DEF Jwks!Usable
    <2>5. Jwks!TypeOK'
      BY <1>1, <1>2, <2>1, <2>2, <2>3, <2>4 DEF Jwks!TypeOK, Jwks!GoodFetchesSpaced
    <2>6. Jwks!Latency' = jwksNow - served.reply
      BY <2>4 DEF Jwks!Latency
    <2>7. Jwks!RetiredKeysEnd'
      <3> DEFINE k == Jwks!Lookup(reply, asking)
      <3> SUFFICES ASSUME k # Jwks!NoKid
                   PROVE  k \in offered \/ jwksNow - since[k] < MaxAge + (jwksNow - served.reply)
        BY <2>1, <2>6 DEF Jwks!RetiredKeysEnd
      <3>1. k \in reply /\ since[k] \in Nat
        BY <1>2, <2>3
      <3>2. k \in offered \/ since[k] >= served.reply
        BY <3>1 DEF Document
      <3> HIDE DEF k
      <3> QED BY <1>1, <1>2, <3>1, <3>2
    <2>8. Jwks!NewKeysWork'
      <3> SUFFICES ASSUME NEW k \in Jwks!Usable, asking = k,
                          jwksNow - since[k] >= Backoff + (jwksNow - served.reply)
                   PROVE  Jwks!Lookup(reply, asking) = k
        BY <2>1, <2>6 DEF Jwks!NewKeysWork, Jwks!Usable
      <3>1. k \in Kid /\ since[k] \in Nat
        BY <1>2 DEF Jwks!Usable
      <3>2. since[k] < served.reply
        BY <1>1, <1>2, <3>1
      <3> QED BY <2>1, <2>3, <3>2 DEF Document
    <2>9. Document(entry.keys, served.cached)'
      BY <2>1, <2>4 DEF Document
    <2>10. Document(reply, served.reply)'
      BY <2>1 DEF Document
    <2> QED BY <1>2, <2>1, <2>2, <2>4, <2>5, <2>7, <2>8, <2>9, <2>10 DEF Jwks!GoodFetchesSpaced
  <1>10. CASE Jwks!FetchFails
    <2>1. /\ UNCHANGED <<jwksNow, offered, since, entry, served, early>>
          /\ asking' = Jwks!Nobody /\ reply' = {} /\ keyAnswer' = Jwks!Nothing
      BY <1>10 DEF Jwks!FetchFails
    <2>2. Jwks!TypeOK'
      BY <1>1, <1>2, <1>3, <2>1 DEF Jwks!TypeOK
    <2>3. Document(entry.keys, served.cached)' /\ Document(reply, served.reply)'
      BY <2>1 DEF Document, Jwks!Usable
    <2> QED BY <1>2, <1>3, <2>1, <2>2, <2>3 DEF Jwks!GoodFetchesSpaced
  <1> QED BY <1>4, <1>5, <1>6, <1>7, <1>8, <1>9, <1>10 DEF Jwks!Next, Jwks!VerifyOIDCIDToken

LEMMA JwksStep ==
  ASSUME Jwks!JwksAssumption, JwksInv, [Jwks!Next]_(Jwks!vars)
  PROVE  JwksInv'
  <1>1. CASE UNCHANGED Jwks!vars
    BY <1>1 DEF Jwks!vars, JwksInv, Document, Jwks!TypeOK, Jwks!RetiredKeysEnd, Jwks!NewKeysWork, Jwks!GoodFetchesSpaced,
                Jwks!Usable, Jwks!Latency
  <1> QED BY <1>1, JwksSteps

(* jwksCache.key: whatever keys the issuer rotates, whatever kids are      *)
(* asked for and however long the issuer's answers take, a retired key     *)
(* ends within jwksMaxAge and a new one works after the backoff, each plus *)
(* the time the cached document was on its way; and no set is replaced     *)
(* within the backoff.                                                     *)
THEOREM IssuerKeysFollowed ==
  ASSUME Jwks!JwksAssumption
  PROVE  Jwks!Spec => [](Jwks!TypeOK /\ Jwks!RetiredKeysEnd /\ Jwks!NewKeysWork /\ Jwks!GoodFetchesSpaced)
  <1>1. JwksInv => Jwks!TypeOK /\ Jwks!RetiredKeysEnd /\ Jwks!NewKeysWork /\ Jwks!GoodFetchesSpaced
    BY DEF JwksInv
  <1> QED BY JwksStarts, JwksStep, <1>1, PTL DEF Jwks!Spec

-----------------------------------------------------------------------------
(* Accounts.                                                               *)

CONSTANTS Email, AccountRequest, Alone
VARIABLES exists, verified, linked, accountPassword, accountLink, invite, session, accountJob

Acc == INSTANCE Accounts WITH
    password <- accountPassword, link <- accountLink, job <- accountJob, Request <- AccountRequest, Fresh <- Alone

Job == [at : Acc!Stages, email : Email \cup {Acc!None}, invited : BOOLEAN, first : BOOLEAN]

(* What a handler relies on between two of its statements: E are the       *)
(* accounts, V the confirmed ones, and l is the link that it caused.       *)
JobFits(j, l, E, V) ==
    /\ j.at \in {"create", "join"} => j.email \in Email
    /\ j.at \in {"replace", "endsessions", "mail", "issue", "claim", "droplinks"} => j.email \in E
    /\ j.at \in {"issue", "droplinks"} => j.email \in V
    /\ l # "none" => j.at = "over"
    /\ l = "sent" => j.email \in E

JobSound(q) == JobFits(accountJob[q], accountLink[q], exists, verified)

(* A provider's identity and a password belong to an account that is there *)
(* and a handler that is about to issue a token does so for a confirmed    *)
(* one: no step takes a confirmation back.                                 *)
AccountInv ==
    /\ Acc!TypeOK /\ Acc!UnconfirmedHasNoSession /\ Acc!AcceptedHasAccount
    /\ linked \subseteq verified
    /\ \A e \in Email : accountPassword[e] # Acc!None => e \in exists
    /\ \A q \in AccountRequest : JobSound(q)

LEMMA AccountsStart ==
  ASSUME Acc!Init
  PROVE  AccountInv
  <1>1. /\ exists = {} /\ verified = {} /\ linked = {} /\ accountPassword = [e \in Email |-> Acc!None]
        /\ accountLink = [q \in AccountRequest |-> "none"] /\ invite = [e \in Email |-> "none"]
        /\ session = [e \in Email |-> {}] /\ accountJob = [q \in AccountRequest |-> Acc!New]
    BY DEF Acc!Init
  <1>2. Acc!New \in Job /\ Acc!New.at = "new"
    BY DEF Acc!New, Job, Acc!Stages
  <1>3. Acc!TypeOK
    BY <1>1, <1>2 DEF Acc!TypeOK, Job
  <1>4. \A q \in AccountRequest : JobSound(q)
    BY <1>1, <1>2 DEF JobSound, JobFits
  <1> QED BY <1>1, <1>3, <1>4 DEF AccountInv, Acc!UnconfirmedHasNoSession, Acc!AcceptedHasAccount

(* One handler goes on, and the others still have what they rely on.       *)
LEMMA JobsStaySound ==
  ASSUME AccountInv, NEW q \in AccountRequest, NEW j \in Job, accountJob' = [accountJob EXCEPT ![q] = j],
         exists \subseteq exists', verified \subseteq verified',
         \A r \in AccountRequest \ {q} :
             accountLink'[r] = accountLink[r] \/ (accountLink[r] = "sent" /\ accountLink'[r] = "over"),
         JobFits(j, accountLink'[q], exists', verified')
  PROVE  accountJob' \in [AccountRequest -> Job] /\ (\A r \in AccountRequest : JobSound(r))'
  <1>1. accountJob \in [AccountRequest -> Job] /\ \A r \in AccountRequest : JobSound(r)
    BY DEF AccountInv, Acc!TypeOK, Job
  <1> HIDE DEF Job
  <1>2. accountJob' \in [AccountRequest -> Job]
    BY <1>1
  <1>3. \A r \in AccountRequest : accountJob'[r] = IF r = q THEN j ELSE accountJob[r]
    BY <1>1
  <1>4. JobSound(q)'
    BY <1>3 DEF JobSound
  <1>5. ASSUME NEW r \in AccountRequest, r # q PROVE JobSound(r)'
    <2>1. accountJob'[r] = accountJob[r] /\ JobFits(accountJob[r], accountLink[r], exists, verified)
      BY <1>1, <1>3, <1>5 DEF JobSound
    <2>2. accountLink'[r] = accountLink[r] \/ (accountLink[r] = "sent" /\ accountLink'[r] = "over")
      BY <1>5
    <2>3. JobFits(accountJob[r], accountLink'[r], exists', verified')
      BY <2>1, <2>2 DEF JobFits
    <2> QED BY <2>1, <2>3 DEF JobSound
  <1> QED BY <1>2, <1>4, <1>5

(* A handler that only moves on keeps its address.                         *)
LEMMA JobGoes ==
  ASSUME AccountInv, NEW q \in AccountRequest, NEW stage \in Acc!Stages, Acc!Go(q, stage)
  PROVE  \E j \in Job : accountJob' = [accountJob EXCEPT ![q] = j] /\ j.at = stage /\ j.email = Acc!Mine(q)
  <1>1. accountJob \in [AccountRequest -> Job]
    BY DEF AccountInv, Acc!TypeOK, Job
  <1>2. accountJob[q] \in Job
    BY <1>1
  <1> DEFINE j == [accountJob[q] EXCEPT !.at = stage]
  <1>3. j \in Job /\ j.at = stage /\ j.email = accountJob[q].email
    BY <1>2 DEF Job
  <1>4. accountJob' = [accountJob EXCEPT ![q] = j]
    BY DEF Acc!Go
  <1> QED BY <1>3, <1>4 DEF Acc!Mine

LEMMA JobStarts ==
  ASSUME AccountInv, NEW q \in AccountRequest, NEW j \in Job, Acc!Start(q, j)
  PROVE  accountJob' = [accountJob EXCEPT ![q] = j] /\ accountLink[q] = "none"
  <1>1. JobSound(q) /\ accountJob[q].at = "new"
    BY DEF AccountInv, Acc!Start, Acc!At
  <1> QED BY <1>1 DEF Acc!Start, JobSound, JobFits


(* The rows, the links, the invitations and the sessions, apart.           *)
RowsSound ==
    /\ exists \subseteq Email /\ verified \subseteq exists /\ linked \subseteq verified
    /\ accountPassword \in [Email -> AccountRequest \cup {Acc!None}]
    /\ \A e \in Email : accountPassword[e] # Acc!None => e \in exists
LinksSound == accountLink \in [AccountRequest -> {"none", "sent", "over"}]
InvitesSound == invite \in [Email -> {"none", "open", "accepted", "gone"}] /\ Acc!AcceptedHasAccount
SessionsSound == session \in [Email -> SUBSET AccountRequest] /\ Acc!UnconfirmedHasNoSession
JobsSound == accountJob \in [AccountRequest -> Job] /\ \A q \in AccountRequest : JobSound(q)

LEMMA AccountParts == AccountInv <=> RowsSound /\ LinksSound /\ InvitesSound /\ SessionsSound /\ JobsSound
  BY DEF AccountInv, RowsSound, LinksSound, InvitesSound, SessionsSound, JobsSound, Acc!TypeOK, Job

LEMMA AccountPartsNext ==
  ASSUME RowsSound', LinksSound', InvitesSound', SessionsSound', JobsSound'
  PROVE  AccountInv'
  BY DEF AccountInv, RowsSound, LinksSound, InvitesSound, SessionsSound, JobsSound, Acc!TypeOK, Job

(* A step that leaves the rows alone.                                      *)
LEMMA RowsStay ==
  ASSUME AccountInv, UNCHANGED Acc!rows
  PROVE  /\ RowsSound' /\ Acc!KeepsPassword
         /\ exists' = exists /\ verified' = verified
         /\ UNCHANGED session => SessionsSound'
         /\ UNCHANGED invite => InvitesSound'
         /\ UNCHANGED accountLink => LinksSound'
  <1>1. exists' = exists /\ verified' = verified /\ linked' = linked /\ accountPassword' = accountPassword
    BY DEF Acc!rows
  <1>2. RowsSound /\ LinksSound /\ InvitesSound /\ SessionsSound
    BY AccountParts
  <1>3. RowsSound' /\ Acc!KeepsPassword
    BY <1>1, <1>2 DEF RowsSound, Acc!KeepsPassword
  <1>4. UNCHANGED session => SessionsSound'
    BY <1>1, <1>2 DEF SessionsSound, Acc!UnconfirmedHasNoSession
  <1>5. UNCHANGED invite => InvitesSound'
    BY <1>1, <1>2 DEF InvitesSound, Acc!AcceptedHasAccount
  <1>6. UNCHANGED accountLink => LinksSound'
    BY <1>2 DEF LinksSound
  <1> QED BY <1>1, <1>3, <1>4, <1>5, <1>6

(* A handler that only takes its next position.                            *)
LEMMA OnlyMoves ==
  ASSUME AccountInv, NEW q \in AccountRequest, NEW j \in Job, accountJob' = [accountJob EXCEPT ![q] = j],
         UNCHANGED <<exists, verified, linked, accountPassword, accountLink, invite, session>>,
         JobFits(j, accountLink[q], exists, verified)
  PROVE  AccountInv' /\ Acc!KeepsPassword
  <1>1. accountLink' = accountLink /\ exists' = exists /\ verified' = verified
    OBVIOUS
  <1>2. accountJob' \in [AccountRequest -> Job] /\ (\A r \in AccountRequest : JobSound(r))'
    BY <1>1, JobsStaySound
  <1>3. JobsSound'
    BY <1>2 DEF JobsSound
  <1>4. RowsSound' /\ LinksSound' /\ InvitesSound' /\ SessionsSound' /\ Acc!KeepsPassword
    BY RowsStay DEF Acc!rows
  <1> QED BY <1>3, <1>4, AccountPartsNext

LEMMA InviteStep ==
  ASSUME AccountInv, NEW e \in Email, Acc!Invite(e)
  PROVE  AccountInv' /\ Acc!KeepsPassword
  <1>1. UNCHANGED <<Acc!rows, accountLink, session, accountJob>>
    BY DEF Acc!Invite
  <1>2. invite \in [Email -> {"none", "open", "accepted", "gone"}] /\ Acc!AcceptedHasAccount /\ JobsSound
    BY AccountParts DEF InvitesSound
  <1>3. invite' = [invite EXCEPT ![e] = "open"] \/ invite' = [invite EXCEPT ![e] = "gone"]
    BY DEF Acc!Invite
  <1>4. InvitesSound'
    BY <1>1, <1>2, <1>3 DEF InvitesSound, Acc!AcceptedHasAccount, Acc!rows
  <1>5. JobsSound'
    BY <1>1, <1>2 DEF JobsSound, JobSound, Acc!rows
  <1>6. RowsSound' /\ LinksSound' /\ SessionsSound' /\ Acc!KeepsPassword
    BY <1>1, RowsStay
  <1> QED BY <1>4, <1>5, <1>6, AccountPartsNext

LEMMA LinkExpiresStep ==
  ASSUME AccountInv, NEW q \in AccountRequest, Acc!LinkExpires(q)
  PROVE  AccountInv' /\ Acc!KeepsPassword
  <1>1. UNCHANGED <<Acc!rows, invite, session, accountJob>> /\ accountLink' = [accountLink EXCEPT ![q] = "over"]
        /\ accountLink[q] = "sent"
    BY DEF Acc!LinkExpires
  <1>2. LinksSound /\ JobsSound
    BY AccountParts
  <1>3. LinksSound'
    BY <1>1, <1>2 DEF LinksSound
  <1>4. \A r \in AccountRequest : accountLink'[r] = IF r = q THEN "over" ELSE accountLink[r]
    BY <1>1, <1>2 DEF LinksSound
  <1>5. JobsSound'
    BY <1>1, <1>2, <1>4 DEF JobsSound, JobSound, JobFits, Acc!rows
  <1>6. RowsSound' /\ InvitesSound' /\ SessionsSound' /\ Acc!KeepsPassword
    BY <1>1, RowsStay
  <1> QED BY <1>3, <1>5, <1>6, AccountPartsNext

LEMMA NewRecords ==
  /\ \A e \in Email : \A s \in Acc!Stages :
         [Acc!New EXCEPT !.at = s, !.email = e] \in Job /\ [Acc!New EXCEPT !.at = s, !.email = e].at = s
         /\ [Acc!New EXCEPT !.at = s, !.email = e].email = e
  /\ \A s \in Acc!Stages : [Acc!New EXCEPT !.at = s] \in Job /\ [Acc!New EXCEPT !.at = s].at = s
  BY DEF Acc!New, Job

(* The requests that begin a handler: they look, and write later.          *)
LEMMA BeginStep ==
  ASSUME AccountInv, NEW q \in AccountRequest, Acc!FreshAssumption
  PROVE  /\ \A e \in Email : Acc!RegisterReplace(q, e) \/ Acc!RegisterCreate(q, e) \/ Acc!Login(q, e)
                             => AccountInv' /\ Acc!KeepsPassword
         /\ Acc!GoogleStart(q) \/ Acc!OidcStart(q) => AccountInv' /\ Acc!KeepsPassword
  <1>1. ASSUME NEW j \in Job, Acc!Start(q, j), UNCHANGED <<Acc!rows, accountLink, invite, session>>,
               JobFits(j, "none", exists, verified)
        PROVE  AccountInv' /\ Acc!KeepsPassword
    <2>1. accountJob' = [accountJob EXCEPT ![q] = j] /\ accountLink[q] = "none"
      BY <1>1, JobStarts
    <2> QED BY <1>1, <2>1, OnlyMoves DEF Acc!rows
  <1>2. RowsSound /\ verified \subseteq exists
    BY AccountParts DEF RowsSound
  <1>3. ASSUME NEW e \in Email, Acc!RegisterReplace(q, e) PROVE AccountInv' /\ Acc!KeepsPassword
    <2> DEFINE j == [Acc!New EXCEPT !.at = "replace", !.email = e]
    <2>1. "replace" \in Acc!Stages
      BY DEF Acc!Stages
    <2>2. j \in Job /\ j.at = "replace" /\ j.email = e
      BY <2>1, NewRecords
    <2>3. Acc!Start(q, j) /\ e \in exists /\ UNCHANGED <<Acc!rows, accountLink, invite, session>>
      BY <1>3 DEF Acc!RegisterReplace
    <2> HIDE DEF j
    <2> QED BY <1>1, <2>2, <2>3 DEF JobFits
  <1>4. ASSUME NEW e \in Email, Acc!RegisterCreate(q, e) PROVE AccountInv' /\ Acc!KeepsPassword
    <2>1. PICK invited \in BOOLEAN :
              /\ Acc!Start(q, [at |-> "create", email |-> e, invited |-> invited,
                               first |-> Alone /\ ~invited /\ exists = {}])
              /\ UNCHANGED <<Acc!rows, accountLink, invite, session>>
      BY <1>4 DEF Acc!RegisterCreate
    <2> DEFINE j == [at |-> "create", email |-> e, invited |-> invited, first |-> Alone /\ ~invited /\ exists = {}]
    <2>2. j \in Job /\ j.at = "create" /\ j.email = e
      BY DEF Job, Acc!Stages, Acc!FreshAssumption
    <2>3. Acc!Start(q, j)
      BY <2>1
    <2> HIDE DEF j
    <2> QED BY <1>1, <2>1, <2>2, <2>3 DEF JobFits
  <1>5. ASSUME NEW e \in Email, Acc!Login(q, e) PROVE AccountInv' /\ Acc!KeepsPassword
    <2> DEFINE stage == IF Acc!Admits(e) THEN "issue" ELSE "mail"
               j == [Acc!New EXCEPT !.at = stage, !.email = e]
    <2>1. stage \in Acc!Stages
      BY DEF Acc!Stages
    <2>2. j \in Job /\ j.at = stage /\ j.email = e
      BY <2>1, NewRecords
    <2>3. Acc!Start(q, j) /\ accountPassword[e] # Acc!None /\ UNCHANGED <<Acc!rows, accountLink, invite, session>>
      BY <1>5 DEF Acc!Login
    <2>4. e \in exists /\ (stage = "issue" => e \in verified)
      BY <1>2, <2>3 DEF RowsSound, Acc!Admits
    <2>5. stage \in {"issue", "mail"}
      OBVIOUS
    <2> HIDE DEF j, stage
    <2>6. JobFits(j, "none", exists, verified)
      BY <2>2, <2>4, <2>5 DEF JobFits
    <2> QED BY <1>1, <2>2, <2>3, <2>6
  <1>6. ASSUME NEW s \in {"google", "oidc"}, Acc!Start(q, [Acc!New EXCEPT !.at = s]),
               UNCHANGED <<Acc!rows, accountLink, invite, session>>
        PROVE  AccountInv' /\ Acc!KeepsPassword
    <2> DEFINE j == [Acc!New EXCEPT !.at = s]
    <2>1. s \in Acc!Stages
      BY DEF Acc!Stages
    <2>2. j \in Job /\ j.at = s
      BY <2>1, NewRecords
    <2>3. Acc!Start(q, j)
      BY <1>6
    <2> HIDE DEF j
    <2> QED BY <1>1, <1>6, <2>2, <2>3 DEF JobFits
  <1> QED BY <1>3, <1>4, <1>5, <1>6 DEF Acc!GoogleStart, Acc!OidcStart


(* A handler goes on to one of its later positions.                        *)
LEMMA GoesSound ==
  ASSUME AccountInv, NEW q \in AccountRequest,
         NEW stage \in {"over", "issue", "endsessions", "mail", "droplinks"}, Acc!Go(q, stage),
         exists \subseteq exists', verified \subseteq verified',
         \A r \in AccountRequest \ {q} :
             accountLink'[r] = accountLink[r] \/ (accountLink[r] = "sent" /\ accountLink'[r] = "over"),
         stage # "over" => Acc!Mine(q) \in exists' /\ accountLink'[q] = "none",
         stage \in {"issue", "droplinks"} => Acc!Mine(q) \in verified',
         accountLink'[q] = "sent" => Acc!Mine(q) \in exists'
  PROVE  JobsSound'
  <1>1. stage \in Acc!Stages
    BY DEF Acc!Stages
  <1>2. PICK j \in Job : accountJob' = [accountJob EXCEPT ![q] = j] /\ j.at = stage /\ j.email = Acc!Mine(q)
    BY <1>1, JobGoes
  <1>3. JobFits(j, accountLink'[q], exists', verified')
    BY <1>2 DEF JobFits
  <1>4. accountJob' \in [AccountRequest -> Job] /\ (\A r \in AccountRequest : JobSound(r))'
    BY <1>2, <1>3, JobsStaySound
  <1> QED BY <1>4 DEF JobsSound

(* What a handler knows at the position where it is.                       *)
LEMMA HandlerKnows ==
  ASSUME AccountInv, NEW q \in AccountRequest
  PROVE  /\ Acc!At(q, "create") \/ Acc!At(q, "join") => Acc!Mine(q) \in Email
         /\ \A s \in {"replace", "endsessions", "mail", "issue", "claim", "droplinks"} :
                Acc!At(q, s) => Acc!Mine(q) \in exists /\ Acc!Mine(q) \in Email
         /\ Acc!At(q, "issue") \/ Acc!At(q, "droplinks") => Acc!Mine(q) \in verified
         /\ ~Acc!At(q, "over") => accountLink[q] = "none"
         /\ accountLink[q] = "sent" => Acc!Mine(q) \in exists /\ Acc!Mine(q) \in Email
         /\ accountLink[q] # "none" => Acc!At(q, "over")
  <1>1. JobSound(q) /\ exists \subseteq Email
    BY AccountParts DEF JobsSound, RowsSound
  <1> QED BY <1>1 DEF JobSound, JobFits, Acc!At, Acc!Mine

LEMMA CreateStep ==
  ASSUME AccountInv, NEW q \in AccountRequest, Acc!CreateCommit(q) \/ Acc!CreateFails(q)
  PROVE  AccountInv' /\ Acc!KeepsPassword
  <1> DEFINE e == Acc!Mine(q)
  <1>1. /\ e \in Email /\ accountLink[q] = "none"
        /\ RowsSound /\ LinksSound /\ InvitesSound /\ SessionsSound
    <2>1. Acc!At(q, "create") /\ ~Acc!At(q, "over")
      BY DEF Acc!CreateCommit, Acc!CreateFails, Acc!At
    <2> QED BY <2>1, HandlerKnows, AccountParts
  <1>2. CASE Acc!CreateFails(q)
    <2>1. Acc!Go(q, "over") /\ UNCHANGED <<Acc!rows, accountLink, invite, session>>
      BY <1>2 DEF Acc!CreateFails, Acc!InviteAfterFailure
    <2>2. exists' = exists /\ verified' = verified /\ accountLink' = accountLink
      BY <2>1 DEF Acc!rows
    <2>3. JobsSound'
      BY <1>1, <2>1, <2>2, GoesSound
    <2> QED BY <2>1, <2>3, RowsStay, AccountPartsNext
  <1>3. CASE Acc!CreateCommit(q)
    <2> DEFINE stage == IF accountJob[q].invited \/ accountJob[q].first THEN "issue" ELSE "mail"
    <2>1. /\ e \notin exists /\ exists' = exists \cup {e}
          /\ accountPassword' = [accountPassword EXCEPT ![e] = q]
          /\ verified' = IF accountJob[q].invited \/ accountJob[q].first THEN verified \cup {e} ELSE verified
          /\ invite' \in {invite, [invite EXCEPT ![e] = "accepted"]}
          /\ Acc!Go(q, stage) /\ UNCHANGED <<linked, accountLink, session>>
      BY <1>3 DEF Acc!CreateCommit, Acc!Accept
    <2>2. stage \in {"issue", "mail"} /\ (stage = "issue" => e \in verified') /\ verified \subseteq verified'
          /\ verified' \subseteq verified \cup {e}
      BY <2>1
    <2> HIDE DEF stage, e
    <2>3. RowsSound'
      BY <1>1, <2>1, <2>2 DEF RowsSound
    <2>4. Acc!KeepsPassword
      BY <1>1, <2>1 DEF RowsSound, Acc!KeepsPassword
    <2>5. InvitesSound'
      BY <1>1, <2>1 DEF InvitesSound, Acc!AcceptedHasAccount
    <2>6. SessionsSound' /\ LinksSound'
      BY <1>1, <2>1, <2>2 DEF SessionsSound, LinksSound, Acc!UnconfirmedHasNoSession
    <2>7. JobsSound'
      <3>1. stage # "over" /\ stage # "droplinks" /\ accountLink'[q] = "none" /\ e \in exists'
        BY <1>1, <2>1, <2>2
      <3> QED BY <2>1, <2>2, <3>1, GoesSound DEF e
    <2> QED BY <2>3, <2>4, <2>5, <2>6, <2>7, AccountPartsNext
  <1> QED BY <1>2, <1>3

LEMMA ReplaceStep ==
  ASSUME AccountInv, NEW q \in AccountRequest,
         Acc!ReplacePassword(q) \/ Acc!EndSessions(q) \/ Acc!SendEmailVerification(q)
  PROVE  AccountInv' /\ Acc!KeepsPassword
  <1> DEFINE e == Acc!Mine(q)
  <1>1. /\ e \in Email /\ e \in exists /\ accountLink[q] = "none"
        /\ RowsSound /\ LinksSound /\ InvitesSound /\ SessionsSound
    <2>1. (Acc!At(q, "replace") \/ Acc!At(q, "endsessions") \/ Acc!At(q, "mail")) /\ ~Acc!At(q, "over")
      BY DEF Acc!ReplacePassword, Acc!EndSessions, Acc!SendEmailVerification, Acc!At
    <2> QED BY <2>1, HandlerKnows, AccountParts
  <1>2. CASE Acc!ReplacePassword(q)
    <2>1. /\ accountPassword' = IF e \notin verified THEN [accountPassword EXCEPT ![e] = q] ELSE accountPassword
          /\ Acc!Go(q, "endsessions") /\ UNCHANGED <<exists, verified, linked, accountLink, invite, session>>
      BY <1>2 DEF Acc!ReplacePassword, Acc!Replaceable
    <2> HIDE DEF e
    <2>2. RowsSound' /\ Acc!KeepsPassword
      BY <1>1, <2>1 DEF RowsSound, Acc!KeepsPassword
    <2>3. InvitesSound' /\ SessionsSound' /\ LinksSound'
      BY <1>1, <2>1 DEF InvitesSound, SessionsSound, LinksSound, Acc!UnconfirmedHasNoSession, Acc!AcceptedHasAccount
    <2>4. JobsSound'
      BY <1>1, <2>1, GoesSound DEF e
    <2> QED BY <2>2, <2>3, <2>4, AccountPartsNext
  <1>3. CASE Acc!EndSessions(q)
    <2>1. /\ session' = [session EXCEPT ![e] = {}]
          /\ Acc!Go(q, "mail") /\ UNCHANGED <<Acc!rows, accountLink, invite>>
      BY <1>3 DEF Acc!EndSessions
    <2> HIDE DEF e
    <2>2. exists' = exists /\ verified' = verified /\ RowsSound' /\ Acc!KeepsPassword /\ InvitesSound' /\ LinksSound'
      BY <2>1, RowsStay
    <2>3. SessionsSound'
      BY <1>1, <2>1, <2>2 DEF SessionsSound, Acc!UnconfirmedHasNoSession
    <2>4. JobsSound'
      BY <1>1, <2>1, <2>2, GoesSound DEF e
    <2> QED BY <2>2, <2>3, <2>4, AccountPartsNext
  <1>4. CASE Acc!SendEmailVerification(q)
    <2>1. /\ accountLink' = [accountLink EXCEPT ![q] = "sent"]
          /\ Acc!Go(q, "over") /\ UNCHANGED <<Acc!rows, invite, session>>
      BY <1>4 DEF Acc!SendEmailVerification
    <2>2. exists' = exists /\ verified' = verified /\ RowsSound' /\ Acc!KeepsPassword /\ InvitesSound' /\ SessionsSound'
      BY <2>1, RowsStay
    <2>3. LinksSound' /\ \A r \in AccountRequest : accountLink'[r] = IF r = q THEN "sent" ELSE accountLink[r]
      BY <1>1, <2>1 DEF LinksSound
    <2>4. JobsSound'
      BY <1>1, <2>1, <2>2, <2>3, GoesSound
    <2> QED BY <2>2, <2>3, <2>4, AccountPartsNext
  <1> QED BY <1>2, <1>3, <1>4


LEMMA LinksOverEnds ==
  ASSUME AccountInv, NEW e, accountLink' \in {Acc!LinksOver(e), accountLink}
  PROVE  /\ LinksSound'
         /\ \A r \in AccountRequest :
                accountLink'[r] = accountLink[r] \/ (accountLink[r] = "sent" /\ accountLink'[r] = "over")
  <1>1. LinksSound
    BY AccountParts
  <1> QED BY <1>1 DEF LinksSound, Acc!LinksOver

LEMMA VerifyEmailStep ==
  ASSUME AccountInv, NEW q \in AccountRequest, Acc!VerifyEmail(q)
  PROVE  AccountInv' /\ Acc!KeepsPassword
  <1> DEFINE e == Acc!Mine(q)
  <1>1. /\ accountLink[q] = "sent" /\ verified' = verified \cup {e}
        /\ accountLink' \in {Acc!LinksOver(e), accountLink}
        /\ UNCHANGED <<exists, linked, accountPassword, invite, session, accountJob>>
    BY DEF Acc!VerifyEmail
  <1>2. e \in exists /\ RowsSound /\ InvitesSound /\ SessionsSound /\ JobsSound
    BY <1>1, HandlerKnows, AccountParts
  <1>3. /\ LinksSound'
        /\ \A r \in AccountRequest :
               accountLink'[r] = accountLink[r] \/ (accountLink[r] = "sent" /\ accountLink'[r] = "over")
    BY <1>1, LinksOverEnds
  <1> HIDE DEF e
  <1>4. RowsSound' /\ Acc!KeepsPassword
    BY <1>1, <1>2 DEF RowsSound, Acc!KeepsPassword
  <1>5. InvitesSound' /\ SessionsSound'
    BY <1>1, <1>2 DEF InvitesSound, SessionsSound, Acc!UnconfirmedHasNoSession, Acc!AcceptedHasAccount
  <1>6. ASSUME NEW r \in AccountRequest PROVE JobSound(r)'
    <2>1. JobFits(accountJob[r], accountLink[r], exists, verified)
      BY <1>2 DEF JobsSound, JobSound
    <2>2. accountLink'[r] = accountLink[r] \/ (accountLink[r] = "sent" /\ accountLink'[r] = "over")
      BY <1>3
    <2>3. JobFits(accountJob[r], accountLink'[r], exists, verified')
      BY <1>1, <2>1, <2>2 DEF JobFits
    <2> QED BY <1>1, <2>3 DEF JobSound
  <1>7. JobsSound'
    BY <1>1, <1>2, <1>6 DEF JobsSound
  <1> QED BY <1>3, <1>4, <1>5, <1>7, AccountPartsNext

LEMMA IssueStep ==
  ASSUME AccountInv, NEW q \in AccountRequest, Acc!IssueRefreshToken(q) \/ Acc!DropLinks(q)
  PROVE  AccountInv' /\ Acc!KeepsPassword
  <1> DEFINE e == Acc!Mine(q)
  <1>1. e \in Email /\ e \in exists /\ e \in verified /\ accountLink[q] = "none" /\ SessionsSound /\ RowsSound
    <2>1. (Acc!At(q, "issue") \/ Acc!At(q, "droplinks")) /\ ~Acc!At(q, "over")
      BY DEF Acc!IssueRefreshToken, Acc!DropLinks, Acc!At
    <2> QED BY <2>1, HandlerKnows, AccountParts
  <1>2. UNCHANGED <<Acc!rows, invite>>
    BY DEF Acc!IssueRefreshToken, Acc!DropLinks
  <1>3. exists' = exists /\ verified' = verified /\ RowsSound' /\ Acc!KeepsPassword /\ InvitesSound'
    BY <1>2, RowsStay
  <1>4. CASE Acc!IssueRefreshToken(q)
    <2>1. session' = [session EXCEPT ![e] = session[e] \cup {q}] /\ Acc!Go(q, "over") /\ accountLink' = accountLink
      BY <1>4 DEF Acc!IssueRefreshToken
    <2>2. LinksSound'
      BY <1>2, <2>1, RowsStay
    <2>3. JobsSound'
      BY <1>1, <1>3, <2>1, GoesSound
    <2> HIDE DEF e
    <2>4. SessionsSound'
      BY <1>1, <1>3, <2>1 DEF SessionsSound, Acc!UnconfirmedHasNoSession
    <2> QED BY <1>3, <2>2, <2>3, <2>4, AccountPartsNext
  <1>5. CASE Acc!DropLinks(q)
    <2>1. session' = [session EXCEPT ![e] = {}] /\ Acc!Go(q, "issue") /\ accountLink' = Acc!LinksOver(e)
      BY <1>5 DEF Acc!DropLinks
    <2>2. /\ LinksSound'
          /\ \A r \in AccountRequest :
                 accountLink'[r] = accountLink[r] \/ (accountLink[r] = "sent" /\ accountLink'[r] = "over")
      BY <2>1, LinksOverEnds
    <2>3. accountLink'[q] = "none"
      BY <1>1, <2>2
    <2>4. JobsSound'
      BY <1>1, <1>3, <2>1, <2>2, <2>3, GoesSound
    <2> HIDE DEF e
    <2>5. SessionsSound'
      BY <1>1, <1>3, <2>1 DEF SessionsSound, Acc!UnconfirmedHasNoSession
    <2> QED BY <1>3, <2>2, <2>4, <2>5, AccountPartsNext
  <1> QED BY <1>4, <1>5

LEMMA CallbackStep ==
  ASSUME AccountInv, NEW q \in AccountRequest, Acc!GoogleCallback(q) \/ Acc!OidcCallback(q)
  PROVE  AccountInv' /\ Acc!KeepsPassword
  <1>1. ~Acc!At(q, "over") /\ (Acc!Refused(q) \/ \E e \in Email : Acc!ResolveIdentity(q, e))
    BY DEF Acc!GoogleCallback, Acc!OidcCallback, Acc!At
  <1>2. accountLink[q] = "none" /\ RowsSound /\ LinksSound /\ InvitesSound /\ SessionsSound
    BY <1>1, HandlerKnows, AccountParts
  <1>3. CASE Acc!Refused(q)
    <2>1. Acc!Go(q, "over") /\ UNCHANGED <<Acc!rows, accountLink, invite, session>>
      BY <1>3 DEF Acc!Refused
    <2>2. exists' = exists /\ verified' = verified
      BY <2>1 DEF Acc!rows
    <2>3. JobsSound'
      BY <1>2, <2>1, <2>2, GoesSound
    <2> QED BY <2>1, <2>3, RowsStay, AccountPartsNext
  <1>4. ASSUME NEW e \in Email, Acc!ResolveIdentity(q, e) PROVE AccountInv' /\ Acc!KeepsPassword
    <2> DEFINE stage == IF e \in linked THEN "issue"
                        ELSE IF e \notin exists THEN "join"
                        ELSE IF e \in verified THEN "issue" ELSE "claim"
               j == [Acc!New EXCEPT !.email = e, !.at = stage]
    <2>1. /\ accountJob' = [accountJob EXCEPT ![q] = j]
          /\ linked' = IF e \in verified THEN linked \cup {e} ELSE linked
          /\ UNCHANGED <<exists, verified, accountPassword, accountLink, invite, session>>
      BY <1>4 DEF Acc!ResolveIdentity
    <2>2. stage \in {"issue", "join", "claim"} /\ (stage = "issue" => e \in verified)
          /\ (stage = "claim" => e \in exists) /\ verified \subseteq exists
      BY <1>2 DEF RowsSound
    <2>3. stage \in Acc!Stages
      BY <2>2 DEF Acc!Stages
    <2> HIDE DEF stage
    <2>4. j \in Job /\ j.at = stage /\ j.email = e
      BY <2>3 DEF Acc!New, Job
    <2> HIDE DEF j
    <2>5. JobFits(j, accountLink'[q], exists', verified')
      BY <1>2, <2>1, <2>2, <2>4 DEF JobFits
    <2>6. accountJob' \in [AccountRequest -> Job] /\ (\A r \in AccountRequest : JobSound(r))'
      BY <2>1, <2>4, <2>5, JobsStaySound
    <2>7. JobsSound'
      BY <2>6 DEF JobsSound
    <2>8. RowsSound' /\ Acc!KeepsPassword
      BY <1>2, <2>1 DEF RowsSound, Acc!KeepsPassword
    <2>9. InvitesSound' /\ SessionsSound' /\ LinksSound'
      BY <1>2, <2>1 DEF InvitesSound, SessionsSound, LinksSound, Acc!UnconfirmedHasNoSession, Acc!AcceptedHasAccount
    <2> QED BY <2>7, <2>8, <2>9, AccountPartsNext
  <1> QED BY <1>1, <1>3, <1>4

LEMMA JoinStep ==
  ASSUME AccountInv, NEW q \in AccountRequest, Acc!Join(q) \/ Acc!Claim(q)
  PROVE  AccountInv' /\ Acc!KeepsPassword
  <1> DEFINE e == Acc!Mine(q)
  <1>1. /\ e \in Email /\ accountLink[q] = "none" /\ (Acc!At(q, "claim") => e \in exists)
        /\ RowsSound /\ LinksSound /\ InvitesSound /\ SessionsSound
    <2>1. (Acc!At(q, "join") \/ Acc!At(q, "claim")) /\ ~Acc!At(q, "over")
      BY DEF Acc!Join, Acc!Claim, Acc!At
    <2> QED BY <2>1, HandlerKnows, AccountParts
  <1>2. CASE Acc!Join(q) /\ e \in exists
    <2>1. Acc!Go(q, "over") /\ UNCHANGED <<Acc!rows, accountLink, invite, session>>
      BY <1>2 DEF Acc!Join, Acc!rows
    <2>2. exists' = exists /\ verified' = verified /\ accountLink' = accountLink
      BY <2>1 DEF Acc!rows
    <2>3. JobsSound'
      BY <1>1, <2>1, <2>2, GoesSound
    <2> QED BY <2>1, <2>3, RowsStay, AccountPartsNext
  <1>3. CASE Acc!Join(q) /\ e \notin exists
    <2>1. /\ exists' = exists \cup {e} /\ verified' = verified \cup {e} /\ linked' = linked \cup {e}
          /\ invite' \in {invite, [invite EXCEPT ![e] = "accepted"]}
          /\ Acc!Go(q, "issue") /\ UNCHANGED <<accountPassword, accountLink, session>>
      BY <1>3 DEF Acc!Join
    <2> HIDE DEF e
    <2>2. RowsSound' /\ Acc!KeepsPassword
      BY <1>1, <2>1 DEF RowsSound, Acc!KeepsPassword
    <2>3. InvitesSound'
      BY <1>1, <2>1 DEF InvitesSound, Acc!AcceptedHasAccount
    <2>4. SessionsSound' /\ LinksSound'
      BY <1>1, <2>1 DEF SessionsSound, LinksSound, Acc!UnconfirmedHasNoSession
    <2>5. JobsSound'
      BY <1>1, <2>1, GoesSound DEF e
    <2> QED BY <2>2, <2>3, <2>4, <2>5, AccountPartsNext
  <1>4. CASE Acc!Claim(q)
    <2>1. /\ Acc!Go(q, "droplinks") /\ UNCHANGED <<exists, accountLink, invite, session>> /\ Acc!At(q, "claim")
          /\ IF e \notin verified
             THEN /\ linked' = linked \cup {e} /\ verified' = verified \cup {e}
                  /\ accountPassword' = [accountPassword EXCEPT ![e] = Acc!None]
             ELSE UNCHANGED <<linked, verified, accountPassword>>
      BY <1>4 DEF Acc!Claim, Acc!Replaceable
    <2>2. e \in exists /\ e \in verified' /\ verified \subseteq verified'
      BY <1>1, <2>1
    <2> HIDE DEF e
    <2>3. RowsSound' /\ Acc!KeepsPassword
      BY <1>1, <2>1, <2>2 DEF RowsSound, Acc!KeepsPassword
    <2>4. InvitesSound' /\ LinksSound'
      BY <1>1, <2>1 DEF InvitesSound, LinksSound, Acc!AcceptedHasAccount
    <2>5. SessionsSound'
      BY <1>1, <2>1, <2>2 DEF SessionsSound, Acc!UnconfirmedHasNoSession
    <2>6. JobsSound'
      BY <1>1, <2>1, <2>2, GoesSound DEF e
    <2> QED BY <2>3, <2>4, <2>5, <2>6, AccountPartsNext
  <1> QED BY <1>2, <1>3, <1>4

LEMMA AccountStep ==
  ASSUME Acc!FreshAssumption, AccountInv, [Acc!Next]_(Acc!vars)
  PROVE  AccountInv' /\ Acc!KeepsPassword
  <1>1. ASSUME NEW q \in AccountRequest, Acc!Handle(q) PROVE AccountInv' /\ Acc!KeepsPassword
    BY <1>1, BeginStep, CallbackStep, CreateStep, ReplaceStep, VerifyEmailStep, IssueStep, JoinStep, LinkExpiresStep
    DEF Acc!Handle
  <1>2. CASE UNCHANGED Acc!vars
    <2>1. RowsSound' /\ InvitesSound' /\ SessionsSound' /\ LinksSound' /\ Acc!KeepsPassword
      BY <1>2, RowsStay DEF Acc!vars, Acc!rows
    <2>2. JobsSound
      BY AccountParts
    <2>3. JobsSound'
      BY <1>2, <2>2 DEF Acc!vars, JobsSound, JobSound
    <2> QED BY <2>1, <2>3, AccountPartsNext
  <1> QED BY <1>1, <1>2, InviteStep DEF Acc!Next

(* Accounts: however registrations, logins, provider callbacks, links and  *)
(* invitations of an address interleave, no session belongs to an account  *)
(* that nobody has confirmed, an invitation is used up only with its       *)
(* account, and the password of a confirmed account stays.                 *)
THEOREM ConfirmedBeforeSessions ==
  ASSUME Acc!FreshAssumption
  PROVE  Acc!Spec => [](Acc!TypeOK /\ Acc!UnconfirmedHasNoSession /\ Acc!AcceptedHasAccount)
                     /\ [][Acc!KeepsPassword]_(Acc!vars)
  <1>1. AccountInv => Acc!TypeOK /\ Acc!UnconfirmedHasNoSession /\ Acc!AcceptedHasAccount
    BY DEF AccountInv
  <1> QED BY AccountsStart, AccountStep, <1>1, PTL DEF Acc!Spec


-----------------------------------------------------------------------------
(* Sessions.                                                               *)

CONSTANTS SessionRequest, Token, Link, Grace, TokenTTL, LinkTTL, LinkPause, SessionEnd
VARIABLES sessionNow, password, token, link, sessionJob, redeemed, raced

Ses == INSTANCE Sessions WITH
    now <- sessionNow, job <- sessionJob, Request <- SessionRequest, MaxClock <- SessionEnd

TokenRow(p) == [state : {"free", "open", "live", "revoked"}, since : 0..SessionEnd, born : 0..SessionEnd,
                password : 0..p]
LinkRow == [state : {"free", "sent", "used"}, born : 0..SessionEnd]
SessionJob(p) == [at : Ses!Stage, old : Token \cup Link \cup {Ses!None}, new : Token \cup {Ses!None},
                  sees : SUBSET (Token \cup Link), knows : 0..p, racing : BOOLEAN]

(* A rotation holds its live token and an open successor of the same       *)
(* session; a reset sees every live token but the racing ones; a login     *)
(* that no revocation overlapped knows the password.                       *)
SessionJobSound(q) == LET j == sessionJob[q] IN
    /\ j.at = "rotate" => /\ j.old \in Token /\ token[j.old].state = "live"
                          /\ j.new \in Token /\ token[j.new].state = "open"
                          /\ token[j.new].password = token[j.old].password
    /\ j.at = "reset" => j.old \in Link /\ link[j.old].state # "free" /\ Ses!Live \subseteq j.sees \cup raced
    /\ j.at = "login" => j.racing \/ j.knows = password

(* No row is held twice, and whoever issues a token during a reset is a    *)
(* racing one.                                                             *)
Apart(q, r) ==
    /\ {sessionJob[q].at, sessionJob[r].at} \subseteq {"rotate", "reset"} => sessionJob[q].old # sessionJob[r].old
    /\ {sessionJob[q].at, sessionJob[r].at} \subseteq {"rotate"} => sessionJob[q].new # sessionJob[r].new
    /\ sessionJob[q].at = "reset" /\ sessionJob[r].at \in {"login", "rotate"} => sessionJob[r].racing

TokensSound ==
    /\ token \in [Token -> TokenRow(password)] /\ redeemed \in [Token -> Nat] /\ raced \subseteq Token
    /\ \A t \in Token : redeemed[t] = 0 \/ (redeemed[t] = 1 /\ token[t].state = "revoked")
    /\ Ses!ResetEndsSessions

SessionJobsSound ==
    /\ sessionJob \in [SessionRequest -> SessionJob(password)]
    /\ \A q \in SessionRequest : SessionJobSound(q)
    /\ \A q, r \in SessionRequest : q # r => Apart(q, r)

(* The links that were used for a reset that has committed.                *)
Held == {sessionJob[q].old : q \in {q \in SessionRequest : sessionJob[q].at = "reset"}}
Spent == {k \in Link : link[k].state = "used"} \ Held
ResetLinksSound == link \in [Link -> LinkRow] /\ password <= Cardinality(Spent)

SessionInv ==
    /\ sessionNow \in 0..SessionEnd /\ password \in Nat
    /\ TokensSound /\ SessionJobsSound /\ ResetLinksSound

LEMMA SessionsStart ==
  ASSUME Ses!SessionsAssumption, Ses!Init
  PROVE  SessionInv
  <1>1. /\ sessionNow = 0 /\ password = 0 /\ token = [t \in Token |-> Ses!Free] /\ link = [k \in Link |-> Ses!NoLink]
        /\ sessionJob = [q \in SessionRequest |-> Ses!Idle] /\ redeemed = [t \in Token |-> 0] /\ raced = {}
    BY DEF Ses!Init
  <1>2. SessionEnd \in Nat
    BY DEF Ses!SessionsAssumption
  <1>3. Ses!Free \in TokenRow(0) /\ Ses!NoLink \in LinkRow /\ Ses!Free.state = "free" /\ Ses!NoLink.state = "free"
    BY <1>2 DEF Ses!Free, Ses!NoLink, TokenRow, LinkRow
  <1>4. Ses!Idle \in SessionJob(0) /\ Ses!Idle.at = "idle"
    BY DEF Ses!Idle, SessionJob, Ses!Stage
  <1>5. TokensSound
    BY <1>1, <1>3 DEF TokensSound, Ses!ResetEndsSessions, Ses!Live, Ses!With
  <1>6. SessionJobsSound
    BY <1>1, <1>4 DEF SessionJobsSound, SessionJobSound, Apart
  <1>7. Spent = {}
    BY <1>1, <1>3 DEF Spent
  <1>8. ResetLinksSound
    BY <1>1, <1>3, <1>7, FS_EmptySet DEF ResetLinksSound
  <1> QED BY <1>1, <1>2, <1>5, <1>6, <1>8 DEF SessionInv

LEMMA TokenRows ==
  ASSUME SessionInv
  PROVE  /\ password \in Nat /\ sessionNow \in 0..SessionEnd
         /\ \A t \in Token : /\ token[t] \in TokenRow(password) /\ redeemed[t] \in Nat
                             /\ redeemed[t] = 0 \/ (redeemed[t] = 1 /\ token[t].state = "revoked")
                             /\ token[t].password \in 0..password
         /\ Ses!Live = {t \in Token : token[t].state = "live"}
         /\ \A t \in Token : token[t].state = "live" /\ t \notin raced => token[t].password = password
         /\ raced \subseteq Token
  <1>1. token \in [Token -> TokenRow(password)] /\ redeemed \in [Token -> Nat]
    BY DEF SessionInv, TokensSound
  <1>2. \A t \in Token : token[t] \in TokenRow(password) /\ redeemed[t] \in Nat
    BY <1>1
  <1>3. \A t \in Token : token[t].password \in 0..password
    BY <1>2 DEF TokenRow
  <1> QED BY <1>2, <1>3 DEF SessionInv, TokensSound, Ses!ResetEndsSessions, Ses!Live, Ses!With

(* One request changes to j; the others at most become racing.             *)
Moves(q, j) ==
    /\ sessionJob' \in [SessionRequest -> SessionJob(password)]
    /\ sessionJob'[q] = j
    /\ \A r \in SessionRequest \ {q} :
        /\ sessionJob'[r].at = sessionJob[r].at /\ sessionJob'[r].old = sessionJob[r].old
        /\ sessionJob'[r].new = sessionJob[r].new /\ sessionJob'[r].sees = sessionJob[r].sees
        /\ sessionJob'[r].knows = sessionJob[r].knows /\ (sessionJob[r].racing => sessionJob'[r].racing)

LEMMA MovesBy ==
  ASSUME SessionInv, NEW q \in SessionRequest, NEW j \in SessionJob(password)
  PROVE  /\ sessionJob' = [sessionJob EXCEPT ![q] = j] => Moves(q, j)
         /\ Ses!Overlap(q, j) =>
                /\ Moves(q, j)
                /\ \A r \in SessionRequest \ {q} : sessionJob[r].at \in {"login", "rotate"} => sessionJob'[r].racing
  <1>1. sessionJob \in [SessionRequest -> SessionJob(password)]
    BY DEF SessionInv, SessionJobsSound
  <1>2. ASSUME sessionJob' = [sessionJob EXCEPT ![q] = j] PROVE Moves(q, j)
    <2> HIDE DEF SessionJob
    <2>1. sessionJob' \in [SessionRequest -> SessionJob(password)] /\ sessionJob'[q] = j
          /\ \A r \in SessionRequest \ {q} : sessionJob'[r] = sessionJob[r]
      BY <1>1, <1>2
    <2> QED BY <2>1 DEF Moves
  <1>3. ASSUME Ses!Overlap(q, j)
        PROVE  /\ Moves(q, j)
               /\ \A r \in SessionRequest \ {q} : sessionJob[r].at \in {"login", "rotate"} => sessionJob'[r].racing
    <2> DEFINE after(r) == [sessionJob[r] EXCEPT !.racing = sessionJob[r].racing \/ sessionJob[r].at \in {"login", "rotate"}]
    <2>1. sessionJob' = [r \in SessionRequest |-> IF r = q THEN j ELSE after(r)]
      BY <1>3 DEF Ses!Overlap
    <2>2. ASSUME NEW r \in SessionRequest
          PROVE  /\ after(r) \in SessionJob(password)
                 /\ after(r).at = sessionJob[r].at /\ after(r).old = sessionJob[r].old
                 /\ after(r).new = sessionJob[r].new /\ after(r).sees = sessionJob[r].sees
                 /\ after(r).knows = sessionJob[r].knows
                 /\ after(r).racing = (sessionJob[r].racing \/ sessionJob[r].at \in {"login", "rotate"})
      <3>1. sessionJob[r] \in SessionJob(password)
        BY <1>1
      <3> QED BY <3>1 DEF SessionJob
    <2> HIDE DEF after
    <2>3. sessionJob' \in [SessionRequest -> SessionJob(password)] /\ sessionJob'[q] = j
      BY <2>1, <2>2
    <2>4. \A r \in SessionRequest \ {q} : sessionJob'[r] = after(r)
      BY <2>1
    <2> QED BY <2>2, <2>3, <2>4 DEF Moves
  <1> QED BY <1>2, <1>3


(* What the others rely on holds as long as nobody changes a row that they *)
(* hold and a new live token that a reset has not seen is a racing one.    *)
LEMMA OthersKeep ==
  ASSUME SessionInv, NEW q \in SessionRequest, NEW j, Moves(q, j), password' \in {password, password + 1},
         \A r \in SessionRequest \ {q} :
             /\ password' # password /\ sessionJob[r].at = "login" => sessionJob'[r].racing
             /\ sessionJob[r].at = "rotate" => /\ token'[sessionJob[r].old] = token[sessionJob[r].old]
                                               /\ token'[sessionJob[r].new] = token[sessionJob[r].new]
             /\ sessionJob[r].at = "reset" => Ses!Live' \subseteq sessionJob[r].sees \cup raced',
         \A k \in Link : link[k].state # "free" => link'[k].state # "free",
         SessionJobSound(q)', (\A r \in SessionRequest : r # q => Apart(q, r) /\ Apart(r, q))'
  PROVE  SessionJobsSound'
  <1>1. password \in Nat /\ SessionJobsSound
    BY DEF SessionInv
  <1>2. sessionJob' \in [SessionRequest -> SessionJob(password')]
    <2>1. 0..password \subseteq 0..password'
      BY <1>1
    <2>2. SessionJob(password) \subseteq SessionJob(password')
      BY <2>1 DEF SessionJob
    <2>3. sessionJob' \in [SessionRequest -> SessionJob(password)]
      BY DEF Moves
    <2> HIDE DEF SessionJob
    <2> QED BY <2>2, <2>3
  <1>3. ASSUME NEW r \in SessionRequest, r # q PROVE SessionJobSound(r)'
    <2>1. SessionJobSound(r)
      BY <1>1 DEF SessionJobsSound
    <2>2. /\ sessionJob'[r].at = sessionJob[r].at /\ sessionJob'[r].old = sessionJob[r].old
          /\ sessionJob'[r].new = sessionJob[r].new /\ sessionJob'[r].sees = sessionJob[r].sees
          /\ sessionJob'[r].knows = sessionJob[r].knows /\ (sessionJob[r].racing => sessionJob'[r].racing)
      BY <1>3 DEF Moves
    <2>3. /\ password' # password /\ sessionJob[r].at = "login" => sessionJob'[r].racing
          /\ sessionJob[r].at = "rotate" => /\ token'[sessionJob[r].old] = token[sessionJob[r].old]
                                            /\ token'[sessionJob[r].new] = token[sessionJob[r].new]
          /\ sessionJob[r].at = "reset" => Ses!Live' \subseteq sessionJob[r].sees \cup raced'
      BY <1>3
    <2>4. sessionJob[r].at = "rotate" => /\ sessionJob[r].old \in Token /\ token'[sessionJob[r].old].state = "live"
                          /\ sessionJob[r].new \in Token /\ token'[sessionJob[r].new].state = "open"
                          /\ token'[sessionJob[r].new].password = token'[sessionJob[r].old].password
      BY <2>1, <2>3 DEF SessionJobSound
    <2>5. sessionJob[r].at = "reset" => sessionJob[r].old \in Link /\ link'[sessionJob[r].old].state # "free"
                          /\ Ses!Live' \subseteq sessionJob[r].sees \cup raced'
      BY <2>1, <2>3 DEF SessionJobSound
    <2>6. sessionJob[r].at = "login" => sessionJob'[r].racing \/ sessionJob[r].knows = password'
      BY <2>1, <2>2, <2>3 DEF SessionJobSound
    <2> QED BY <2>2, <2>4, <2>5, <2>6 DEF SessionJobSound
  <1>4. ASSUME NEW r \in SessionRequest, NEW s \in SessionRequest, r # q, s # q, r # s PROVE Apart(r, s)'
    <2>1. Apart(r, s)
      BY <1>1, <1>4 DEF SessionJobsSound
    <2>2. /\ sessionJob'[r].at = sessionJob[r].at /\ sessionJob'[r].old = sessionJob[r].old
          /\ sessionJob'[r].new = sessionJob[r].new
          /\ sessionJob'[s].at = sessionJob[s].at /\ sessionJob'[s].old = sessionJob[s].old
          /\ sessionJob'[s].new = sessionJob[s].new /\ (sessionJob[s].racing => sessionJob'[s].racing)
      BY <1>4 DEF Moves
    <2> QED BY <2>1, <2>2 DEF Apart
  <1>5. \A r, s \in SessionRequest : r # s => Apart(r, s)'
    <2> TAKE r, s \in SessionRequest
    <2>1. CASE r = q
      BY <2>1
    <2>2. CASE s = q
      BY <2>2
    <2> QED BY <1>4, <2>1, <2>2
  <1> QED BY <1>2, <1>3, <1>5 DEF SessionJobsSound

(* A request that holds nothing needs nothing.                             *)
LEMMA IdleSound ==
  ASSUME NEW q \in SessionRequest, sessionJob'[q].at \in {"idle", "revoke", "forgot"}
  PROVE  SessionJobSound(q)' /\ (\A r \in SessionRequest : r # q => Apart(q, r) /\ Apart(r, q))'
  BY DEF SessionJobSound, Apart

LEMMA JobKinds ==
  ASSUME SessionInv
  PROVE  /\ Ses!Idle \in SessionJob(password) /\ Ses!Idle.at = "idle"
         /\ \A q \in SessionRequest : \A stage :
              Ses!Leave(q, stage) => Moves(q, Ses!Idle) /\ sessionJob[q].at = stage
         /\ \A q \in SessionRequest : sessionJob[q] \in SessionJob(password) /\ SessionJobSound(q)
         /\ \A q, r \in SessionRequest : q # r => Apart(q, r)
  <1>1. Ses!Idle \in SessionJob(password) /\ Ses!Idle.at = "idle"
    BY DEF SessionInv, Ses!Idle, SessionJob, Ses!Stage
  <1>2. sessionJob \in [SessionRequest -> SessionJob(password)] /\ SessionJobsSound
    BY DEF SessionInv, SessionJobsSound
  <1> HIDE DEF SessionJob
  <1>3. \A q \in SessionRequest : \A stage :
              Ses!Leave(q, stage) => Moves(q, Ses!Idle) /\ sessionJob[q].at = stage
    BY <1>1, MovesBy DEF Ses!Leave
  <1> QED BY <1>1, <1>2, <1>3 DEF SessionJobsSound

(* The links: a step that uses up none of them, and lets go of none.       *)
LEMMA LinksKeep ==
  ASSUME SessionInv, IsFiniteSet(Link), link' \in [Link -> LinkRow], Spent \subseteq Spent', password' = password
  PROVE  ResetLinksSound'
  <1>1. IsFiniteSet(Spent') /\ password <= Cardinality(Spent) /\ password \in Nat
    BY FS_Subset DEF Spent, SessionInv, ResetLinksSound
  <1>2. IsFiniteSet(Spent) /\ Cardinality(Spent) <= Cardinality(Spent')
    BY <1>1, FS_Subset
  <1>3. Cardinality(Spent) \in Nat /\ Cardinality(Spent') \in Nat
    BY <1>1, <1>2, FS_CardinalityType
  <1>4. password' <= Cardinality(Spent')
    BY <1>1, <1>2, <1>3
  <1> QED BY <1>4 DEF ResetLinksSound

LEMMA LinksStay ==
  ASSUME SessionInv, IsFiniteSet(Link), NEW q \in SessionRequest, NEW j, Moves(q, j), j.at # "reset",
         UNCHANGED <<link, password>>
  PROVE  ResetLinksSound'
  <1>1. Held' \subseteq Held
    BY DEF Held, Moves
  <1>2. Spent \subseteq Spent' /\ link' \in [Link -> LinkRow]
    BY <1>1 DEF Spent, SessionInv, ResetLinksSound
  <1> QED BY <1>2, LinksKeep


LEMMA SessionTypes ==
  ASSUME SessionInv, Ses!SessionsAssumption
  PROVE  /\ SessionEnd \in Nat /\ sessionNow \in 0..SessionEnd /\ password \in Nat
         /\ token \in [Token -> TokenRow(password)] /\ redeemed \in [Token -> Nat] /\ raced \subseteq Token
         /\ link \in [Link -> LinkRow]
  BY DEF SessionInv, TokensSound, ResetLinksSound, Ses!SessionsAssumption

LEMMA TickStep ==
  ASSUME SessionInv, Ses!SessionsAssumption, Ses!Tick
  PROVE  SessionInv'
  <1>1. sessionNow' \in 0..SessionEnd /\ UNCHANGED <<password, token, link, sessionJob, redeemed, raced>>
    BY SessionTypes DEF Ses!Tick
  <1>2. Ses!Live' = Ses!Live /\ Spent' = Spent
    BY <1>1 DEF Ses!Live, Ses!With, Spent, Held
  <1>3. TokensSound' /\ ResetLinksSound'
    BY <1>1, <1>2 DEF SessionInv, TokensSound, ResetLinksSound, Ses!ResetEndsSessions
  <1>4. SessionJobsSound'
    BY <1>1, <1>2 DEF SessionInv, SessionJobsSound, SessionJobSound, Apart
  <1> QED BY <1>1, <1>3, <1>4 DEF SessionInv

(* A step that leaves the tokens alone.                                    *)
LEMMA TokensStay ==
  ASSUME SessionInv, UNCHANGED <<token, redeemed, raced, password>>
  PROVE  TokensSound' /\ Ses!Live' = Ses!Live
  <1>1. Ses!Live' = Ses!Live
    BY DEF Ses!Live, Ses!With
  <1>2. TokensSound'
    BY <1>1 DEF SessionInv, TokensSound, Ses!ResetEndsSessions
  <1> QED BY <1>1, <1>2

(* A request moves, and no row changes.                                    *)
LEMMA OnlyTheJob ==
  ASSUME SessionInv, Ses!SessionsAssumption, IsFiniteSet(Link),
         NEW q \in SessionRequest, NEW j, Moves(q, j), j.at # "reset",
         UNCHANGED <<sessionNow, password, token, link, redeemed, raced>>,
         SessionJobSound(q)', (\A r \in SessionRequest : r # q => Apart(q, r) /\ Apart(r, q))'
  PROVE  SessionInv'
  <1>1. TokensSound' /\ Ses!Live' = Ses!Live
    BY TokensStay
  <1>2. ResetLinksSound'
    BY LinksStay
  <1>3. \A r \in SessionRequest : SessionJobSound(r)
    BY JobKinds
  <1>4. \A r \in SessionRequest \ {q} : sessionJob[r].at = "reset" => Ses!Live' \subseteq sessionJob[r].sees \cup raced'
    BY <1>1, <1>3 DEF SessionJobSound
  <1>5. SessionJobsSound'
    BY <1>4, OthersKeep
  <1> QED BY <1>1, <1>2, <1>5, SessionTypes DEF SessionInv

(* One field of a job at a time.                                           *)
LEMMA SessionExcept ==
  ASSUME NEW p \in Nat, NEW j \in SessionJob(p)
  PROVE  /\ \A x \in Ses!Stage : LET i == [j EXCEPT !.at = x] IN
             i \in SessionJob(p) /\ i.at = x /\ i.old = j.old /\ i.new = j.new /\ i.sees = j.sees /\ i.knows = j.knows /\ i.racing = j.racing
         /\ \A x \in Token \cup Link \cup {Ses!None} : LET i == [j EXCEPT !.old = x] IN
             i \in SessionJob(p) /\ i.old = x /\ i.at = j.at /\ i.new = j.new /\ i.sees = j.sees /\ i.knows = j.knows /\ i.racing = j.racing
         /\ \A x \in Token \cup {Ses!None} : LET i == [j EXCEPT !.new = x] IN
             i \in SessionJob(p) /\ i.new = x /\ i.at = j.at /\ i.old = j.old /\ i.sees = j.sees /\ i.knows = j.knows /\ i.racing = j.racing
         /\ \A x \in SUBSET (Token \cup Link) : LET i == [j EXCEPT !.sees = x] IN
             i \in SessionJob(p) /\ i.sees = x /\ i.at = j.at /\ i.old = j.old /\ i.new = j.new /\ i.knows = j.knows /\ i.racing = j.racing
         /\ \A x \in 0..p : LET i == [j EXCEPT !.knows = x] IN
             i \in SessionJob(p) /\ i.knows = x /\ i.at = j.at /\ i.old = j.old /\ i.new = j.new /\ i.sees = j.sees /\ i.racing = j.racing
         /\ \A x \in BOOLEAN : LET i == [j EXCEPT !.racing = x] IN
             i \in SessionJob(p) /\ i.racing = x /\ i.at = j.at /\ i.old = j.old /\ i.new = j.new /\ i.sees = j.sees /\ i.knows = j.knows
  <1>1. \A x \in Ses!Stage : LET i == [j EXCEPT !.at = x] IN
            i \in SessionJob(p) /\ i.at = x /\ i.old = j.old /\ i.new = j.new /\ i.sees = j.sees /\ i.knows = j.knows /\ i.racing = j.racing
    BY DEF SessionJob
  <1>2. \A x \in Token \cup Link \cup {Ses!None} : LET i == [j EXCEPT !.old = x] IN
            i \in SessionJob(p) /\ i.old = x /\ i.at = j.at /\ i.new = j.new /\ i.sees = j.sees /\ i.knows = j.knows /\ i.racing = j.racing
    BY DEF SessionJob
  <1>3. \A x \in Token \cup {Ses!None} : LET i == [j EXCEPT !.new = x] IN
            i \in SessionJob(p) /\ i.new = x /\ i.at = j.at /\ i.old = j.old /\ i.sees = j.sees /\ i.knows = j.knows /\ i.racing = j.racing
    BY DEF SessionJob
  <1>4. \A x \in SUBSET (Token \cup Link) : LET i == [j EXCEPT !.sees = x] IN
            i \in SessionJob(p) /\ i.sees = x /\ i.at = j.at /\ i.old = j.old /\ i.new = j.new /\ i.knows = j.knows /\ i.racing = j.racing
    BY DEF SessionJob
  <1>5. \A x \in 0..p : LET i == [j EXCEPT !.knows = x] IN
            i \in SessionJob(p) /\ i.knows = x /\ i.at = j.at /\ i.old = j.old /\ i.new = j.new /\ i.sees = j.sees /\ i.racing = j.racing
    BY DEF SessionJob
  <1>6. \A x \in BOOLEAN : LET i == [j EXCEPT !.racing = x] IN
            i \in SessionJob(p) /\ i.racing = x /\ i.at = j.at /\ i.old = j.old /\ i.new = j.new /\ i.sees = j.sees /\ i.knows = j.knows
    BY DEF SessionJob
  <1> QED BY <1>1, <1>2, <1>3, <1>4, <1>5, <1>6

(* The positions that requests enter.                                      *)
LoggingIn(knows, racing) == [Ses!Idle EXCEPT !.at = "login", !.knows = knows, !.racing = racing]
Looking(at, sees) == [Ses!Idle EXCEPT !.at = at, !.sees = sees]
Rotating(old, new, racing) == [Ses!Idle EXCEPT !.at = "rotate", !.old = old, !.new = new, !.racing = racing]
Resetting(old, sees) == [Ses!Idle EXCEPT !.at = "reset", !.old = old, !.sees = sees]

LEMMA NewSessionJobs ==
  ASSUME NEW p \in Nat
  PROVE  /\ \A knows \in 0..p : \A racing \in BOOLEAN : LET j == LoggingIn(knows, racing) IN
             j \in SessionJob(p) /\ j.at = "login" /\ j.knows = knows /\ j.racing = racing
         /\ \A at \in Ses!Stage : \A sees \in SUBSET (Token \cup Link) : LET j == Looking(at, sees) IN
             j \in SessionJob(p) /\ j.at = at /\ j.sees = sees
         /\ \A old \in Token : \A new \in Token : \A racing \in BOOLEAN : LET j == Rotating(old, new, racing) IN
             j \in SessionJob(p) /\ j.at = "rotate" /\ j.old = old /\ j.new = new /\ j.racing = racing
         /\ \A old \in Link : \A sees \in SUBSET (Token \cup Link) : LET j == Resetting(old, sees) IN
             j \in SessionJob(p) /\ j.at = "reset" /\ j.old = old /\ j.sees = sees
  <1>1. Ses!Idle \in SessionJob(p)
    BY DEF Ses!Idle, SessionJob, Ses!Stage
  <1>2. ASSUME NEW knows \in 0..p, NEW racing \in BOOLEAN
        PROVE  LET j == LoggingIn(knows, racing) IN
               j \in SessionJob(p) /\ j.at = "login" /\ j.knows = knows /\ j.racing = racing
    <2> DEFINE here == [Ses!Idle EXCEPT !.at = "login"]
               one == [here EXCEPT !.knows = knows]
               two == [one EXCEPT !.racing = racing]
    <2>1. LoggingIn(knows, racing) = two
      BY DEF LoggingIn
    <2>2. "login" \in Ses!Stage
      BY DEF Ses!Stage
    <2>3. here \in SessionJob(p) /\ here.at = "login"
      BY <1>1, <2>2, SessionExcept
    <2> HIDE DEF here
    <2>4. one \in SessionJob(p) /\ one.at = "login" /\ one.knows = knows
      BY <2>3, SessionExcept
    <2> HIDE DEF one
    <2>5. two \in SessionJob(p) /\ two.at = "login" /\ two.knows = knows /\ two.racing = racing
      BY <2>4, SessionExcept
    <2> HIDE DEF two
    <2> QED BY <2>1, <2>5
  <1>3. ASSUME NEW at \in Ses!Stage, NEW sees \in SUBSET (Token \cup Link)
        PROVE  LET j == Looking(at, sees) IN
               j \in SessionJob(p) /\ j.at = at /\ j.sees = sees
    <2> DEFINE here == [Ses!Idle EXCEPT !.at = at]
               one == [here EXCEPT !.sees = sees]
    <2>1. Looking(at, sees) = one
      BY DEF Looking
    <2>2. at \in Ses!Stage
      BY DEF Ses!Stage
    <2>3. here \in SessionJob(p) /\ here.at = at
      BY <1>1, <2>2, SessionExcept
    <2> HIDE DEF here
    <2>4. one \in SessionJob(p) /\ one.at = at /\ one.sees = sees
      BY <2>3, SessionExcept
    <2> HIDE DEF one
    <2> QED BY <2>1, <2>4
  <1>4. ASSUME NEW old \in Token, NEW new \in Token, NEW racing \in BOOLEAN
        PROVE  LET j == Rotating(old, new, racing) IN
               j \in SessionJob(p) /\ j.at = "rotate" /\ j.old = old /\ j.new = new /\ j.racing = racing
    <2> DEFINE here == [Ses!Idle EXCEPT !.at = "rotate"]
               one == [here EXCEPT !.old = old]
               two == [one EXCEPT !.new = new]
               three == [two EXCEPT !.racing = racing]
    <2>1. Rotating(old, new, racing) = three
      BY DEF Rotating
    <2>2. "rotate" \in Ses!Stage
      BY DEF Ses!Stage
    <2>3. here \in SessionJob(p) /\ here.at = "rotate"
      BY <1>1, <2>2, SessionExcept
    <2> HIDE DEF here
    <2>4. one \in SessionJob(p) /\ one.at = "rotate" /\ one.old = old
      BY <2>3, SessionExcept
    <2> HIDE DEF one
    <2>5. two \in SessionJob(p) /\ two.at = "rotate" /\ two.old = old /\ two.new = new
      BY <2>4, SessionExcept
    <2> HIDE DEF two
    <2>6. three \in SessionJob(p) /\ three.at = "rotate" /\ three.old = old /\ three.new = new /\ three.racing = racing
      BY <2>5, SessionExcept
    <2> HIDE DEF three
    <2> QED BY <2>1, <2>6
  <1>5. ASSUME NEW old \in Link, NEW sees \in SUBSET (Token \cup Link)
        PROVE  LET j == Resetting(old, sees) IN
               j \in SessionJob(p) /\ j.at = "reset" /\ j.old = old /\ j.sees = sees
    <2> DEFINE here == [Ses!Idle EXCEPT !.at = "reset"]
               one == [here EXCEPT !.old = old]
               two == [one EXCEPT !.sees = sees]
    <2>1. Resetting(old, sees) = two
      BY DEF Resetting
    <2>2. "reset" \in Ses!Stage
      BY DEF Ses!Stage
    <2>3. here \in SessionJob(p) /\ here.at = "reset"
      BY <1>1, <2>2, SessionExcept
    <2> HIDE DEF here
    <2>4. one \in SessionJob(p) /\ one.at = "reset" /\ one.old = old
      BY <2>3, SessionExcept
    <2> HIDE DEF one
    <2>5. two \in SessionJob(p) /\ two.at = "reset" /\ two.old = old /\ two.sees = sees
      BY <2>4, SessionExcept
    <2> HIDE DEF two
    <2> QED BY <2>1, <2>5
  <1> QED BY <1>2, <1>3, <1>4, <1>5

LEMMA LoginCheckStep ==
  ASSUME SessionInv, Ses!SessionsAssumption, IsFiniteSet(Link), NEW q \in SessionRequest, Ses!LoginCheck(q)
  PROVE  SessionInv'
  <1> DEFINE j == LoggingIn(password, Ses!Revoking)
  <1>1. sessionJob' = [sessionJob EXCEPT ![q] = j] /\ UNCHANGED <<sessionNow, password, token, link, redeemed, raced>>
    BY DEF Ses!LoginCheck, Ses!Enter, LoggingIn
  <1>2. Ses!Revoking \in BOOLEAN
    BY DEF Ses!Revoking
  <1>3. j \in SessionJob(password) /\ j.at = "login" /\ j.knows = password /\ j.racing = Ses!Revoking
    <2>1. "login" \in Ses!Stage /\ password \in 0..password /\ password \in Nat
      BY SessionTypes DEF Ses!Stage
    <2> QED BY <1>2, <2>1, NewSessionJobs
  <1> HIDE DEF j
  <1>4. Moves(q, j)
    BY <1>1, <1>3, MovesBy
  <1>5. sessionJob'[q] = j /\ SessionJobSound(q)'
    BY <1>1, <1>3, <1>4 DEF Moves, SessionJobSound
  <1>6. \A r \in SessionRequest : r # q => sessionJob'[r].at = sessionJob[r].at
    BY <1>4 DEF Moves
  <1>7. ASSUME NEW r \in SessionRequest, r # q PROVE (Apart(q, r) /\ Apart(r, q))'
    <2>1. sessionJob[r].at = "reset" => Ses!Revoking
      BY DEF Ses!Revoking
    <2> QED BY <1>3, <1>5, <1>6, <1>7, <2>1 DEF Apart
  <1> QED BY <1>1, <1>3, <1>4, <1>5, <1>7, OnlyTheJob

LEMMA LookStep ==
  ASSUME SessionInv, Ses!SessionsAssumption, IsFiniteSet(Link), NEW q \in SessionRequest,
         Ses!ForgotBegin(q) \/ (\E t \in Token : Ses!ReuseDetected(q, t)) \/ Ses!RolledBack(q)
  PROVE  SessionInv'
  <1> DEFINE f == Looking("forgot", Ses!Sent)
             v == Looking("revoke", Ses!Live)
  <1>1. UNCHANGED <<sessionNow, password, token, link, redeemed, raced>>
    BY DEF Ses!ForgotBegin, Ses!ReuseDetected, Ses!RolledBack
  <1>2. f \in SessionJob(password) /\ f.at = "forgot" /\ v \in SessionJob(password) /\ v.at = "revoke"
    <2>1. {"forgot", "revoke"} \subseteq Ses!Stage /\ password \in Nat
      BY SessionTypes DEF Ses!Stage
    <2>2. Ses!Sent \in SUBSET (Token \cup Link) /\ Ses!Live \in SUBSET (Token \cup Link)
      BY DEF Ses!Sent, Ses!Live, Ses!With
    <2>3. f \in SessionJob(password) /\ f.at = "forgot"
      BY <2>1, <2>2, NewSessionJobs
    <2>4. v \in SessionJob(password) /\ v.at = "revoke"
      BY <2>1, <2>2, NewSessionJobs
    <2> QED BY <2>3, <2>4
  <1>3. /\ Ses!ForgotBegin(q) => sessionJob' = [sessionJob EXCEPT ![q] = f]
        /\ (\E t \in Token : Ses!ReuseDetected(q, t)) => Ses!Overlap(q, v)
        /\ Ses!RolledBack(q) => \E stage : Ses!Leave(q, stage)
    BY DEF Ses!ForgotBegin, Ses!Enter, Ses!ReuseDetected, Ses!RolledBack, Looking
  <1> HIDE DEF f, v
  <1>4. PICK j : Moves(q, j) /\ j.at \in {"forgot", "revoke", "idle"}
    BY <1>2, <1>3, MovesBy, JobKinds
  <1>5. sessionJob'[q].at \in {"idle", "revoke", "forgot"} /\ j.at # "reset"
    BY <1>4 DEF Moves
  <1>6. SessionJobSound(q)' /\ (\A r \in SessionRequest : r # q => Apart(q, r) /\ Apart(r, q))'
    BY <1>5, IdleSound
  <1> QED BY <1>1, <1>4, <1>5, <1>6, OnlyTheJob

LEMMA FreshOnes ==
  ASSUME SessionInv, Ses!With("free") # {}
  PROVE  \A t \in Ses!Fresh : t \in Token /\ token[t].state = "free" /\ redeemed[t] = 0
  <1>1. \A t \in Ses!Fresh : t \in Ses!With("free")
    BY DEF Ses!Fresh
  <1> QED BY <1>1, TokenRows DEF Ses!With

LEMMA LoginIssueStep ==
  ASSUME SessionInv, Ses!SessionsAssumption, IsFiniteSet(Link), NEW q \in SessionRequest, Ses!LoginIssue(q)
  PROVE  SessionInv'
  <1>1. PICK t \in Token :
            /\ token[t].state = "free" /\ redeemed[t] = 0 /\ Ses!Leave(q, "login")
            /\ token' = [token EXCEPT ![t] = Ses!Issued(sessionJob[q].knows)]
            /\ raced' = IF sessionJob[q].racing THEN raced \cup {t} ELSE raced
            /\ UNCHANGED <<sessionNow, password, link, redeemed>>
    BY FreshOnes DEF Ses!LoginIssue
  <1> DEFINE row == Ses!Issued(sessionJob[q].knows)
  <1>2. /\ Moves(q, Ses!Idle) /\ Ses!Idle.at = "idle" /\ sessionJob[q].at = "login"
        /\ sessionJob[q] \in SessionJob(password) /\ \A r \in SessionRequest : SessionJobSound(r)
        /\ \A r \in SessionRequest : r # q => Apart(r, q)
    BY <1>1, JobKinds
  <1>3. row \in TokenRow(password) /\ row.state = "live" /\ row.password = sessionJob[q].knows
    BY <1>2, SessionTypes DEF SessionJob, TokenRow, Ses!Issued
  <1> HIDE DEF row
  <1>4. token' \in [Token -> TokenRow(password)] /\ \A u \in Token : token'[u] = IF u = t THEN row ELSE token[u]
    <2>1. token' = [token EXCEPT ![t] = row]
      BY <1>1 DEF row
    <2> HIDE DEF TokenRow
    <2> QED BY <1>3, <2>1, SessionTypes
  <1>5. Ses!Live' = Ses!Live \cup {t}
    BY <1>3, <1>4 DEF Ses!Live, Ses!With
  <1>6. sessionJob[q].racing \/ sessionJob[q].knows = password
    BY <1>2 DEF SessionJobSound
  <1>7. \A u \in Ses!Live' \ raced' : token'[u].password = password'
    BY <1>1, <1>3, <1>4, <1>5, <1>6, TokenRows
  <1>8. TokensSound'
    <2>1. raced' \subseteq Token /\ redeemed' \in [Token -> Nat] /\ password' = password
      BY <1>1, SessionTypes
    <2>2. \A u \in Token : redeemed'[u] = 0 \/ (redeemed'[u] = 1 /\ token'[u].state = "revoked")
      BY <1>1, <1>4, TokenRows
    <2> QED BY <1>4, <1>7, <2>1, <2>2 DEF TokensSound, Ses!ResetEndsSessions
  <1>9. ASSUME NEW r \in SessionRequest \ {q}
        PROVE  /\ sessionJob[r].at = "rotate" => /\ token'[sessionJob[r].old] = token[sessionJob[r].old]
                                                 /\ token'[sessionJob[r].new] = token[sessionJob[r].new]
               /\ sessionJob[r].at = "reset" => Ses!Live' \subseteq sessionJob[r].sees \cup raced'
    <2>1. SessionJobSound(r) /\ Apart(r, q)
      BY <1>2
    <2>2. CASE sessionJob[r].at = "rotate"
      BY <1>1, <1>4, <2>1, <2>2 DEF SessionJobSound
    <2>3. CASE sessionJob[r].at = "reset"
      <3>1. sessionJob[q].racing
        BY <1>2, <2>1, <2>3 DEF Apart
      <3> QED BY <1>1, <1>5, <2>1, <2>3, <3>1 DEF SessionJobSound
    <2> QED BY <2>2, <2>3
  <1>10. SessionJobSound(q)' /\ (\A r \in SessionRequest : r # q => Apart(q, r) /\ Apart(r, q))'
    BY <1>2, IdleSound DEF Moves
  <1>11. SessionJobsSound'
    BY <1>1, <1>2, <1>9, <1>10, OthersKeep
  <1>12. ResetLinksSound'
    BY <1>1, <1>2, LinksStay
  <1> QED BY <1>1, <1>8, <1>11, <1>12, SessionTypes DEF SessionInv


LEMMA RowKinds ==
  ASSUME SessionInv, Ses!SessionsAssumption
  PROVE  /\ \A t \in Token : \A p \in 0..password :
              LET row == [Ses!Issued(p) EXCEPT !.state = "open"] IN
              row \in TokenRow(password) /\ row.state = "open" /\ row.password = p
         /\ Ses!Free \in TokenRow(password) /\ Ses!Free.state = "free"
         /\ \A row \in TokenRow(password) :
              LET gone == [row EXCEPT !.state = "revoked", !.since = sessionNow] IN
              gone \in TokenRow(password) /\ gone.state = "revoked" /\ gone.password = row.password
         /\ \A row \in TokenRow(password) :
              LET on == [row EXCEPT !.state = "live"] IN
              on \in TokenRow(password) /\ on.state = "live" /\ on.password = row.password
  <1>1. sessionNow \in 0..SessionEnd /\ 0 \in 0..SessionEnd /\ 0 \in 0..password
    BY SessionTypes
  <1>2. \A p \in 0..password :
              LET row == [Ses!Issued(p) EXCEPT !.state = "open"] IN
              row \in TokenRow(password) /\ row.state = "open" /\ row.password = p
    BY <1>1 DEF Ses!Issued, TokenRow
  <1>3. Ses!Free \in TokenRow(password) /\ Ses!Free.state = "free"
    BY <1>1 DEF Ses!Free, TokenRow
  <1>4. \A row \in TokenRow(password) :
              LET gone == [row EXCEPT !.state = "revoked", !.since = sessionNow] IN
              gone \in TokenRow(password) /\ gone.state = "revoked" /\ gone.password = row.password
    BY <1>1 DEF TokenRow
  <1>5. \A row \in TokenRow(password) :
              LET on == [row EXCEPT !.state = "live"] IN
              on \in TokenRow(password) /\ on.state = "live" /\ on.password = row.password
    BY DEF TokenRow
  <1> QED BY <1>2, <1>3, <1>4, <1>5

LEMMA RefreshBeginStep ==
  ASSUME SessionInv, Ses!SessionsAssumption, IsFiniteSet(Link), NEW q \in SessionRequest, NEW t \in Token,
         Ses!RefreshBegin(q, t)
  PROVE  SessionInv'
  <1>1. PICK n \in Token :
            /\ token[n].state = "free" /\ redeemed[n] = 0 /\ Ses!Redeemable(t)
            /\ sessionJob' = [sessionJob EXCEPT ![q] = Rotating(t, n, Ses!Revoking)]
            /\ token' = [token EXCEPT ![n] = [Ses!Issued(token[t].password) EXCEPT !.state = "open"]]
            /\ UNCHANGED <<sessionNow, password, link, redeemed, raced>>
    BY FreshOnes DEF Ses!RefreshBegin, Ses!Enter, Rotating
  <1> DEFINE j == Rotating(t, n, Ses!Revoking)
             row == [Ses!Issued(token[t].password) EXCEPT !.state = "open"]
  <1>2. Ses!Revoking \in BOOLEAN /\ password \in Nat
    BY SessionTypes DEF Ses!Revoking
  <1>3. j \in SessionJob(password) /\ j.at = "rotate" /\ j.old = t /\ j.new = n /\ j.racing = Ses!Revoking
    BY <1>2, NewSessionJobs
  <1>4. row \in TokenRow(password) /\ row.state = "open" /\ row.password = token[t].password
    BY TokenRows, RowKinds
  <1>5. token' \in [Token -> TokenRow(password)] /\ \A u \in Token : token'[u] = IF u = n THEN row ELSE token[u]
    <2>1. token' = [token EXCEPT ![n] = row]
      BY <1>1
    <2> HIDE DEF TokenRow, row
    <2> QED BY <1>4, <2>1, SessionTypes
  <1> HIDE DEF j, row
  <1>6. Moves(q, j)
    BY <1>1, <1>3, MovesBy DEF j
  <1>7. token[t].state = "live" /\ t # n /\ \A r \in SessionRequest :
            sessionJob[r].at \in {"rotate", "reset"} => sessionJob[r].old # t
    BY <1>1 DEF Ses!Redeemable, Ses!Live, Ses!With, Ses!Locked
  <1>8. Ses!Live' = Ses!Live
    BY <1>1, <1>4, <1>5 DEF Ses!Live, Ses!With
  <1>9. TokensSound'
    <2>1. raced' = raced /\ redeemed' = redeemed /\ password' = password
      BY <1>1
    <2>2. \A u \in Token : redeemed'[u] = 0 \/ (redeemed'[u] = 1 /\ token'[u].state = "revoked")
      BY <1>1, <1>5, TokenRows
    <2>3. \A u \in Ses!Live' \ raced' : token'[u].password = password'
      BY <1>1, <1>5, <1>8, <2>1, TokenRows
    <2> QED BY <1>5, <2>1, <2>2, <2>3, SessionTypes DEF TokensSound, Ses!ResetEndsSessions
  <1>10. \A r \in SessionRequest : SessionJobSound(r)
    BY JobKinds
  <1>11. ASSUME NEW r \in SessionRequest \ {q}
         PROVE  /\ sessionJob[r].at = "rotate" => /\ token'[sessionJob[r].old] = token[sessionJob[r].old]
                                                  /\ token'[sessionJob[r].new] = token[sessionJob[r].new]
                /\ sessionJob[r].at = "reset" => Ses!Live' \subseteq sessionJob[r].sees \cup raced'
    BY <1>1, <1>5, <1>8, <1>10 DEF SessionJobSound
  <1>12. sessionJob'[q] = j /\ \A r \in SessionRequest \ {q} :
             sessionJob'[r].at = sessionJob[r].at /\ sessionJob'[r].old = sessionJob[r].old
             /\ sessionJob'[r].new = sessionJob[r].new
    BY <1>6 DEF Moves
  <1>13. SessionJobSound(q)'
    BY <1>3, <1>4, <1>5, <1>7, <1>12 DEF SessionJobSound
  <1>14. ASSUME NEW r \in SessionRequest, r # q PROVE (Apart(q, r) /\ Apart(r, q))'
    <2>1. sessionJob[r].at = "rotate" => sessionJob[r].new # n
      BY <1>1, <1>10 DEF SessionJobSound
    <2>2. sessionJob[r].at = "reset" => Ses!Revoking
      BY DEF Ses!Revoking
    <2>3. sessionJob'[r].at = sessionJob[r].at /\ sessionJob'[r].old = sessionJob[r].old
             /\ sessionJob'[r].new = sessionJob[r].new
      BY <1>12, <1>14
    <2>4. sessionJob[r].at \in {"rotate", "reset"} => sessionJob[r].old # t
      BY <1>7
    <2> QED BY <1>3, <1>12, <2>1, <2>2, <2>3, <2>4 DEF Apart
  <1>15. SessionJobsSound'
    BY <1>1, <1>6, <1>11, <1>13, <1>14, OthersKeep
  <1>16. ResetLinksSound'
    BY <1>1, <1>3, <1>6, LinksStay
  <1> QED BY <1>1, <1>9, <1>15, <1>16, SessionTypes DEF SessionInv

LEMMA RefreshEndStep ==
  ASSUME SessionInv, Ses!SessionsAssumption, IsFiniteSet(Link), NEW q \in SessionRequest,
         Ses!RefreshCommit(q) \/ Ses!RefreshRollback(q)
  PROVE  SessionInv'
  <1> DEFINE t == sessionJob[q].old
             n == sessionJob[q].new
  <1>1. Ses!Leave(q, "rotate") /\ UNCHANGED <<sessionNow, password, link>>
    BY DEF Ses!RefreshCommit, Ses!RefreshRollback
  <1>2. /\ Moves(q, Ses!Idle) /\ Ses!Idle.at = "idle" /\ sessionJob[q].at = "rotate"
        /\ \A r \in SessionRequest : SessionJobSound(r)
        /\ \A r \in SessionRequest : r # q => Apart(r, q)
    BY <1>1, JobKinds
  <1>3. /\ t \in Token /\ token[t].state = "live" /\ n \in Token /\ token[n].state = "open"
        /\ token[n].password = token[t].password /\ redeemed[t] = 0 /\ redeemed[n] = 0
    BY <1>2, TokenRows DEF SessionJobSound
  <1>4. ASSUME NEW r \in SessionRequest \ {q}, sessionJob[r].at = "rotate"
        PROVE  sessionJob[r].old \notin {t, n} /\ sessionJob[r].new \notin {t, n}
               /\ sessionJob[r].old \in Token /\ sessionJob[r].new \in Token
    BY <1>2, <1>3, <1>4 DEF Apart, SessionJobSound
  <1>5. ASSUME NEW r \in SessionRequest \ {q}, sessionJob[r].at = "reset"
        PROVE  sessionJob[q].racing /\ Ses!Live \subseteq sessionJob[r].sees \cup raced
    BY <1>2, <1>5 DEF Apart, SessionJobSound
  <1>6. ASSUME TokensSound', \A u \in Token \ {t, n} : token'[u] = token[u],
               Ses!Live' \subseteq Ses!Live \cup {x \in {n} : sessionJob[q].racing => n \in raced'}, raced \subseteq raced'
        PROVE  SessionInv'
    <2>1. ASSUME NEW r \in SessionRequest \ {q}
          PROVE  /\ sessionJob[r].at = "rotate" => /\ token'[sessionJob[r].old] = token[sessionJob[r].old]
                                                   /\ token'[sessionJob[r].new] = token[sessionJob[r].new]
                 /\ sessionJob[r].at = "reset" => Ses!Live' \subseteq sessionJob[r].sees \cup raced'
      <3>1. CASE sessionJob[r].at = "rotate"
        BY <1>4, <1>6, <3>1
      <3>2. CASE sessionJob[r].at = "reset"
        BY <1>5, <1>6, <3>2
      <3> QED BY <3>1, <3>2
    <2>2. SessionJobSound(q)' /\ (\A r \in SessionRequest : r # q => Apart(q, r) /\ Apart(r, q))'
      BY <1>2, IdleSound DEF Moves
    <2>3. SessionJobsSound'
      BY <1>1, <1>2, <2>1, <2>2, OthersKeep
    <2>4. ResetLinksSound'
      BY <1>1, <1>2, LinksStay
    <2> QED BY <1>1, <1>6, <2>3, <2>4, SessionTypes DEF SessionInv
  <1> HIDE DEF t, n
  <1>7. CASE Ses!RefreshRollback(q)
    <2>1. token' = [token EXCEPT ![n] = Ses!Free] /\ UNCHANGED <<redeemed, raced, password>>
      BY <1>7 DEF Ses!RefreshRollback, n
    <2>2. Ses!Free \in TokenRow(password) /\ Ses!Free.state = "free"
      BY RowKinds
    <2>3. token' \in [Token -> TokenRow(password)] /\ \A u \in Token : token'[u] = IF u = n THEN Ses!Free ELSE token[u]
      BY <1>3, <2>1, <2>2, SessionTypes
    <2>4. Ses!Live' = Ses!Live
      BY <1>3, <2>2, <2>3 DEF Ses!Live, Ses!With
    <2>5. \A u \in Token : redeemed'[u] = 0 \/ (redeemed'[u] = 1 /\ token'[u].state = "revoked")
      BY <1>3, <2>1, <2>3, TokenRows
    <2>6. \A u \in Ses!Live' \ raced' : token'[u].password = password'
      BY <1>3, <2>1, <2>3, <2>4, TokenRows
    <2>7. TokensSound'
      BY <2>1, <2>3, <2>5, <2>6, SessionTypes DEF TokensSound, Ses!ResetEndsSessions
    <2> QED BY <1>6, <2>1, <2>3, <2>4, <2>7
  <1>8. CASE Ses!RefreshCommit(q)
    <2>1. /\ token' = [token EXCEPT ![t].state = "revoked", ![t].since = sessionNow, ![n].state = "live"]
          /\ redeemed' = [redeemed EXCEPT ![t] = redeemed[t] + 1]
          /\ raced' = IF sessionJob[q].racing \/ t \in raced THEN raced \cup {n} ELSE raced
          /\ UNCHANGED <<sessionNow, password, link>>
      BY <1>8 DEF Ses!RefreshCommit, t, n
    <2> DEFINE gone == [token[t] EXCEPT !.state = "revoked", !.since = sessionNow]
               on == [token[n] EXCEPT !.state = "live"]
    <2>2. /\ gone \in TokenRow(password) /\ gone.state = "revoked"
          /\ on \in TokenRow(password) /\ on.state = "live" /\ on.password = token[n].password
      <3>1. token[t] \in TokenRow(password) /\ token[n] \in TokenRow(password)
        BY <1>3, TokenRows
      <3> QED BY <3>1, RowKinds
    <2>3. t # n
      BY <1>3
    <2>4. token' = [token EXCEPT ![t] = gone, ![n] = on]
      <3>1. [token EXCEPT ![t].state = "revoked", ![t].since = sessionNow] = [token EXCEPT ![t] = gone]
        BY <1>3, SessionTypes
      <3>2. [token EXCEPT ![t] = gone][n] = token[n]
        BY <1>3, <2>3, SessionTypes
      <3> HIDE DEF gone
      <3>3. [[token EXCEPT ![t] = gone] EXCEPT ![n].state = "live"] = [token EXCEPT ![t] = gone, ![n] = on]
        BY <3>2
      <3> QED BY <2>1, <3>1, <3>3
    <2> HIDE DEF gone, on
    <2>5. /\ token' \in [Token -> TokenRow(password)]
          /\ \A u \in Token : token'[u] = IF u = n THEN on ELSE IF u = t THEN gone ELSE token[u]
      BY <1>3, <2>2, <2>3, <2>4, SessionTypes
    <2>6. Ses!Live' = (Ses!Live \cup {n}) \ {t}
      BY <1>3, <2>2, <2>3, <2>5 DEF Ses!Live, Ses!With
    <2>7. redeemed' \in [Token -> Nat] /\ \A u \in Token : redeemed'[u] = IF u = t THEN 1 ELSE redeemed[u]
      BY <1>3, <2>1, SessionTypes
    <2>8. \A u \in Token : redeemed'[u] = 0 \/ (redeemed'[u] = 1 /\ token'[u].state = "revoked")
      BY <1>3, <2>2, <2>3, <2>5, <2>7, TokenRows
    <2>9. ASSUME NEW u \in Ses!Live' \ raced' PROVE token'[u].password = password'
      <3>1. CASE u = n
        <4>1. t \notin raced
          BY <2>1, <3>1, <2>9
        <4> QED BY <1>3, <2>1, <2>2, <2>5, <3>1, <4>1, TokenRows
      <3>2. CASE u # n
        BY <2>1, <2>5, <2>6, <2>9, <3>2, TokenRows
      <3> QED BY <3>1, <3>2
    <2>10. raced' \subseteq Token /\ raced \subseteq raced' /\ (sessionJob[q].racing => n \in raced')
      BY <1>3, <2>1, SessionTypes
    <2>11. TokensSound'
      BY <2>1, <2>5, <2>7, <2>8, <2>9, <2>10 DEF TokensSound, Ses!ResetEndsSessions
    <2> QED BY <1>6, <2>5, <2>6, <2>10, <2>11
  <1> QED BY <1>7, <1>8


(* Tokens that are revoked together.                                       *)
LEMMA RevokedOnes ==
  ASSUME SessionInv, Ses!SessionsAssumption, NEW T, token' = Ses!Revoked(T)
  PROVE  /\ token' \in [Token -> TokenRow(password)]
         /\ \A u \in Token : u \notin T \/ u \notin Ses!Live => token'[u] = token[u]
         /\ Ses!Live' = Ses!Live \ T
         /\ \A u \in Token : token[u].state = "revoked" => token'[u].state = "revoked"
  <1> DEFINE gone(u) == [token[u] EXCEPT !.state = "revoked", !.since = sessionNow]
  <1>1. \A u \in Token : gone(u) \in TokenRow(password) /\ gone(u).state = "revoked" /\ token[u] \in TokenRow(password)
    BY TokenRows, RowKinds
  <1>2. token' = [u \in Token |-> IF u \in T /\ u \in Ses!Live THEN gone(u) ELSE token[u]]
    BY DEF Ses!Revoked
  <1> HIDE DEF gone, TokenRow
  <1>3. token' \in [Token -> TokenRow(password)]
        /\ \A u \in Token : token'[u] = IF u \in T /\ u \in Ses!Live THEN gone(u) ELSE token[u]
    BY <1>1, <1>2
  <1>4. Ses!Live' = Ses!Live \ T
    BY <1>1, <1>3 DEF Ses!Live, Ses!With
  <1> QED BY <1>1, <1>3, <1>4

LEMMA RevokedSound ==
  ASSUME SessionInv, Ses!SessionsAssumption, NEW T, token' = Ses!Revoked(T), UNCHANGED <<redeemed, raced>>,
         password' = password \/ (password' = password + 1 /\ Ses!Live \subseteq T \cup raced)
  PROVE  TokensSound'
  <1>1. /\ token' \in [Token -> TokenRow(password)]
        /\ \A u \in Token : u \notin T \/ u \notin Ses!Live => token'[u] = token[u]
        /\ Ses!Live' = Ses!Live \ T
        /\ \A u \in Token : token[u].state = "revoked" => token'[u].state = "revoked"
    BY RevokedOnes
  <1>2. \A u \in Token : redeemed'[u] = 0 \/ (redeemed'[u] = 1 /\ token'[u].state = "revoked")
    BY <1>1, TokenRows
  <1>3. \A u \in Ses!Live' \ raced' : token'[u].password = password'
    <2> TAKE u \in Ses!Live' \ raced'
    <2>1. u \in Token /\ u \in Ses!Live /\ token[u].state = "live" /\ u \notin raced /\ u \notin T
      BY <1>1, TokenRows
    <2>2. password' = password
      BY <2>1
    <2> QED BY <1>1, <2>1, <2>2, TokenRows
  <1>4. token' \in [Token -> TokenRow(password')]
    <2>1. 0..password \subseteq 0..password'
      BY SessionTypes
    <2>2. TokenRow(password) \subseteq TokenRow(password')
      BY <2>1 DEF TokenRow
    <2> HIDE DEF TokenRow
    <2> QED BY <1>1, <2>2
  <1> QED BY <1>2, <1>3, <1>4, SessionTypes DEF TokensSound, Ses!ResetEndsSessions

(* The rows that a rotation holds are not among those that are revoked.    *)
LEMMA RevokedLeaves ==
  ASSUME SessionInv, Ses!SessionsAssumption, NEW T, token' = Ses!Revoked(T), raced' = raced,
         NEW r \in SessionRequest, sessionJob[r].at = "rotate" => sessionJob[r].old \notin T
  PROVE  /\ sessionJob[r].at = "rotate" => /\ token'[sessionJob[r].old] = token[sessionJob[r].old]
                                           /\ token'[sessionJob[r].new] = token[sessionJob[r].new]
         /\ sessionJob[r].at = "reset" => Ses!Live' \subseteq sessionJob[r].sees \cup raced'
  <1>1. SessionJobSound(r)
    BY JobKinds
  <1>2. /\ \A u \in Token : u \notin T \/ u \notin Ses!Live => token'[u] = token[u]
        /\ Ses!Live' = Ses!Live \ T
    BY RevokedOnes
  <1>3. \A u \in Token : token[u].state = "open" => u \notin Ses!Live
    BY DEF Ses!Live, Ses!With
  <1> QED BY <1>1, <1>2, <1>3 DEF SessionJobSound

LEMMA RevokeStep ==
  ASSUME SessionInv, Ses!SessionsAssumption, IsFiniteSet(Link), NEW q \in SessionRequest, Ses!RevokeCommit(q)
  PROVE  SessionInv'
  <1>1. /\ Ses!Unblocked(q) /\ Ses!Leave(q, "revoke") /\ token' = Ses!Revoked(sessionJob[q].sees)
        /\ UNCHANGED <<sessionNow, password, link, redeemed, raced>>
    BY DEF Ses!RevokeCommit
  <1>2. Moves(q, Ses!Idle) /\ Ses!Idle.at = "idle"
    BY <1>1, JobKinds
  <1>3. TokensSound'
    BY <1>1, RevokedSound
  <1>4. \A r \in SessionRequest :
             /\ sessionJob[r].at = "rotate" => /\ token'[sessionJob[r].old] = token[sessionJob[r].old]
                                               /\ token'[sessionJob[r].new] = token[sessionJob[r].new]
             /\ sessionJob[r].at = "reset" => Ses!Live' \subseteq sessionJob[r].sees \cup raced'
    BY <1>1, RevokedLeaves DEF Ses!Unblocked
  <1>5. SessionJobSound(q)' /\ (\A r \in SessionRequest : r # q => Apart(q, r) /\ Apart(r, q))'
    BY <1>2, IdleSound DEF Moves
  <1>6. SessionJobsSound'
    BY <1>1, <1>2, <1>4, <1>5, OthersKeep
  <1>7. ResetLinksSound'
    BY <1>1, <1>2, LinksStay
  <1> QED BY <1>1, <1>3, <1>6, <1>7, SessionTypes DEF SessionInv

LEMMA LogoutStep ==
  ASSUME SessionInv, Ses!SessionsAssumption, NEW t \in Token, Ses!Logout(t)
  PROVE  SessionInv'
  <1>1. /\ ~Ses!Locked(t) /\ token' = Ses!Revoked({t})
        /\ UNCHANGED <<sessionNow, password, link, sessionJob, redeemed, raced>>
    BY DEF Ses!Logout
  <1>2. TokensSound'
    BY <1>1, RevokedSound
  <1>3. \A r \in SessionRequest : sessionJob[r].at = "rotate" => sessionJob[r].old \notin {t}
    BY <1>1 DEF Ses!Locked
  <1>4. \A r \in SessionRequest :
             /\ sessionJob[r].at = "rotate" => /\ token'[sessionJob[r].old] = token[sessionJob[r].old]
                                               /\ token'[sessionJob[r].new] = token[sessionJob[r].new]
             /\ sessionJob[r].at = "reset" => Ses!Live' \subseteq sessionJob[r].sees \cup raced'
    BY <1>1, <1>3, RevokedLeaves
  <1>5. ASSUME NEW r \in SessionRequest PROVE SessionJobSound(r)'
    <2>1. SessionJobSound(r)
      BY JobKinds
    <2> QED BY <1>1, <1>4, <2>1 DEF SessionJobSound
  <1>6. SessionJobsSound'
    BY <1>1, <1>5 DEF SessionInv, SessionJobsSound, Apart
  <1>7. ResetLinksSound'
    BY <1>1 DEF SessionInv, ResetLinksSound, Spent, Held
  <1> QED BY <1>1, <1>2, <1>6, <1>7 DEF SessionInv

LEMMA LinkRows ==
  ASSUME SessionInv, Ses!SessionsAssumption
  PROVE  /\ \A k \in Link : link[k] \in LinkRow
         /\ \A row \in LinkRow : LET used == [row EXCEPT !.state = "used"] IN used \in LinkRow /\ used.state = "used"
         /\ [state |-> "sent", born |-> sessionNow] \in LinkRow
         /\ "used" # "free" /\ "used" # "sent" /\ "sent" # "free"
  <1>1. link \in [Link -> LinkRow]
    BY SessionTypes
  <1>2. \A k \in Link : link[k] \in LinkRow
    BY <1>1
  <1>3. \A row \in LinkRow : LET used == [row EXCEPT !.state = "used"] IN used \in LinkRow /\ used.state = "used"
    BY DEF LinkRow
  <1>4. [state |-> "sent", born |-> sessionNow] \in LinkRow
    BY SessionTypes DEF LinkRow
  <1> QED BY <1>2, <1>3, <1>4

LEMMA ForgotEndStep ==
  ASSUME SessionInv, Ses!SessionsAssumption, IsFiniteSet(Link), NEW q \in SessionRequest, Ses!ForgotEnd(q)
  PROVE  SessionInv'
  <1>1. PICK k \in Link :
            /\ link[k].state = "free" /\ Ses!Leave(q, "forgot")
            /\ link' = [j \in Link |-> IF j = k THEN [state |-> "sent", born |-> sessionNow]
                               ELSE IF j \in sessionJob[q].sees THEN [link[j] EXCEPT !.state = "used"] ELSE link[j]]
            /\ UNCHANGED <<sessionNow, password, token, redeemed, raced>>
    BY DEF Ses!ForgotEnd
  <1>2. Moves(q, Ses!Idle) /\ Ses!Idle.at = "idle" /\ sessionJob[q].at = "forgot"
        /\ \A r \in SessionRequest : SessionJobSound(r)
    BY <1>1, JobKinds
  <1> DEFINE used(j) == [link[j] EXCEPT !.state = "used"]
  <1>3. \A j \in Link : used(j) \in LinkRow /\ used(j).state = "used" /\ link[j] \in LinkRow
    BY LinkRows
  <1>4. link' = [j \in Link |-> IF j = k THEN [state |-> "sent", born |-> sessionNow]
                               ELSE IF j \in sessionJob[q].sees THEN used(j) ELSE link[j]]
    BY <1>1
  <1> HIDE DEF used
  <1>5. /\ link' \in [Link -> LinkRow]
        /\ \A j \in Link : link'[j] = IF j = k THEN [state |-> "sent", born |-> sessionNow]
                               ELSE IF j \in sessionJob[q].sees THEN used(j) ELSE link[j]
    <2>1. [state |-> "sent", born |-> sessionNow] \in LinkRow
      BY LinkRows
    <2> HIDE DEF LinkRow
    <2> QED BY <1>3, <1>4, <2>1
  <1>6. \A j \in Link : /\ link[j].state # "free" => link'[j].state # "free"
                        /\ link[j].state = "used" => link'[j].state = "used"
    BY <1>1, <1>3, <1>5
  <1>7. Held' \subseteq Held
    BY <1>2 DEF Held, Moves
  <1>8. Spent \subseteq Spent'
    BY <1>6, <1>7 DEF Spent
  <1>9. ResetLinksSound'
    BY <1>1, <1>5, <1>8, LinksKeep
  <1>10. TokensSound' /\ Ses!Live' = Ses!Live
    BY <1>1, TokensStay
  <1>11. \A r \in SessionRequest : sessionJob[r].at = "reset" => Ses!Live' \subseteq sessionJob[r].sees \cup raced'
    BY <1>1, <1>2, <1>10 DEF SessionJobSound
  <1>12. SessionJobSound(q)' /\ (\A r \in SessionRequest : r # q => Apart(q, r) /\ Apart(r, q))'
    BY <1>2, IdleSound DEF Moves
  <1>13. SessionJobsSound'
    BY <1>1, <1>2, <1>6, <1>11, <1>12, OthersKeep
  <1> QED BY <1>1, <1>9, <1>10, <1>13, SessionTypes DEF SessionInv


LEMMA ResetBeginStep ==
  ASSUME SessionInv, Ses!SessionsAssumption, IsFiniteSet(Link), NEW q \in SessionRequest, NEW k \in Link,
         Ses!ResetBegin(q, k)
  PROVE  SessionInv'
  <1> DEFINE j == Resetting(k, Ses!Live)
  <1>1. /\ link[k].state = "sent" /\ ~Ses!Locked(k) /\ sessionJob[q] = Ses!Idle
        /\ Ses!Overlap(q, j) /\ UNCHANGED <<sessionNow, password, token, link, redeemed, raced>>
    BY DEF Ses!ResetBegin, Ses!Valid, Ses!Sent, Resetting
  <1>2. j \in SessionJob(password) /\ j.at = "reset" /\ j.old = k /\ j.sees = Ses!Live
    <2>1. Ses!Live \in SUBSET (Token \cup Link) /\ password \in Nat
      BY SessionTypes DEF Ses!Live, Ses!With
    <2> QED BY <2>1, NewSessionJobs
  <1> HIDE DEF j
  <1>3. /\ Moves(q, j)
        /\ \A r \in SessionRequest \ {q} : sessionJob[r].at \in {"login", "rotate"} => sessionJob'[r].racing
    BY <1>1, <1>2, MovesBy
  <1>4. sessionJob'[q] = j /\ \A r \in SessionRequest \ {q} :
             sessionJob'[r].at = sessionJob[r].at /\ sessionJob'[r].old = sessionJob[r].old
    BY <1>3 DEF Moves
  <1>5. TokensSound' /\ Ses!Live' = Ses!Live
    BY <1>1, TokensStay
  <1>6. \A r \in SessionRequest : SessionJobSound(r)
    BY JobKinds
  <1>7. \A r \in SessionRequest : sessionJob[r].at = "reset" => Ses!Live' \subseteq sessionJob[r].sees \cup raced'
    BY <1>1, <1>5, <1>6 DEF SessionJobSound
  <1>8. SessionJobSound(q)'
    BY <1>1, <1>2, <1>4, <1>5 DEF SessionJobSound
  <1>9. ASSUME NEW r \in SessionRequest, r # q PROVE (Apart(q, r) /\ Apart(r, q))'
    <2>1. sessionJob[r].at \in {"rotate", "reset"} => sessionJob[r].old # k
      BY <1>1 DEF Ses!Locked
    <2>2. sessionJob'[r].at = sessionJob[r].at /\ sessionJob'[r].old = sessionJob[r].old
          /\ (sessionJob[r].at \in {"login", "rotate"} => sessionJob'[r].racing)
      BY <1>3, <1>4, <1>9
    <2> QED BY <1>2, <1>4, <2>1, <2>2 DEF Apart
  <1>10. SessionJobsSound'
    BY <1>1, <1>3, <1>7, <1>8, <1>9, OthersKeep
  <1>11. Held' \subseteq Held \cup {k}
    BY <1>2, <1>4 DEF Held
  <1>12. Spent \subseteq Spent' /\ link' \in [Link -> LinkRow]
    BY <1>1, <1>11, SessionTypes DEF Spent
  <1>13. ResetLinksSound'
    BY <1>1, <1>12, LinksKeep
  <1> QED BY <1>1, <1>5, <1>10, <1>13, SessionTypes DEF SessionInv

LEMMA ResetCommitStep ==
  ASSUME SessionInv, Ses!SessionsAssumption, IsFiniteSet(Link), NEW q \in SessionRequest, Ses!ResetCommit(q)
  PROVE  SessionInv'
  <1> DEFINE k == sessionJob[q].old
             used(j) == [link[j] EXCEPT !.state = "used"]
  <1>1. /\ sessionJob[q].at = "reset" /\ Ses!Unblocked(q) /\ Ses!Overlap(q, Ses!Idle)
        /\ password' = password + 1 /\ token' = Ses!Revoked(sessionJob[q].sees)
        /\ link' = [j \in Link |-> IF link[j].state = "sent" THEN used(j) ELSE link[j]]
        /\ UNCHANGED <<sessionNow, redeemed, raced>>
    BY DEF Ses!ResetCommit, Ses!Ends, Ses!UsedUp, Ses!Sent
  <1>2. /\ Moves(q, Ses!Idle) /\ Ses!Idle.at = "idle"
        /\ \A r \in SessionRequest \ {q} : sessionJob[r].at \in {"login", "rotate"} => sessionJob'[r].racing
    BY <1>1, JobKinds, MovesBy
  <1>3. /\ \A r \in SessionRequest : SessionJobSound(r)
        /\ \A r \in SessionRequest : r # q => Apart(q, r)
    BY JobKinds
  <1>4. k \in Link /\ link[k].state # "free" /\ Ses!Live \subseteq sessionJob[q].sees \cup raced
    BY <1>1, <1>3 DEF SessionJobSound
  <1>5. TokensSound'
    BY <1>1, <1>4, RevokedSound
  <1>6. \A j \in Link : used(j) \in LinkRow /\ used(j).state = "used" /\ link[j] \in LinkRow
    BY LinkRows
  <1> HIDE DEF used
  <1>7. /\ link' \in [Link -> LinkRow]
        /\ \A j \in Link : link'[j] = IF link[j].state = "sent" THEN used(j) ELSE link[j]
    <2> HIDE DEF LinkRow
    <2> QED BY <1>1, <1>6
  <1>8. \A j \in Link : /\ link[j].state # "free" => link'[j].state = "used"
                        /\ link[j].state = "used" => link'[j].state = "used"
    <2> TAKE j \in Link
    <2>1. link[j].state \in {"free", "sent", "used"}
      BY <1>6 DEF LinkRow
    <2> QED BY <1>6, <1>7, <2>1
  <1>9. \A r \in SessionRequest :
             /\ sessionJob[r].at = "rotate" => /\ token'[sessionJob[r].old] = token[sessionJob[r].old]
                                               /\ token'[sessionJob[r].new] = token[sessionJob[r].new]
             /\ sessionJob[r].at = "reset" => Ses!Live' \subseteq sessionJob[r].sees \cup raced'
    BY <1>1, RevokedLeaves DEF Ses!Unblocked
  <1>10. SessionJobSound(q)' /\ (\A r \in SessionRequest : r # q => Apart(q, r) /\ Apart(r, q))'
    BY <1>2, IdleSound DEF Moves
  <1>11. SessionJobsSound'
    <2>1. password' \in {password, password + 1} /\ \A j \in Link : link[j].state # "free" => link'[j].state # "free"
      BY <1>1, <1>8
    <2> QED BY <1>2, <1>9, <1>10, <2>1, OthersKeep
  <1>12. Held' \subseteq Held \ {k}
    <2> SUFFICES ASSUME NEW r \in SessionRequest, sessionJob'[r].at = "reset"
                 PROVE  sessionJob'[r].old \in Held \ {k}
      BY DEF Held
    <2>1. r # q
      BY <1>2 DEF Moves
    <2>2. sessionJob[r].at = "reset" /\ sessionJob'[r].old = sessionJob[r].old
      BY <1>2, <2>1 DEF Moves
    <2>3. sessionJob[r].old # k
      BY <1>1, <1>3, <2>1, <2>2 DEF Apart
    <2> QED BY <2>2, <2>3 DEF Held
  <1>13. k \in Held /\ k \notin Spent
    BY <1>1 DEF Held, Spent
  <1>14. Spent \cup {k} \subseteq Spent'
    BY <1>4, <1>8, <1>12 DEF Spent
  <1>15. ResetLinksSound'
    <2>1. IsFiniteSet(Spent') /\ IsFiniteSet(Spent)
      BY FS_Subset DEF Spent
    <2>2. Cardinality(Spent \cup {k}) = Cardinality(Spent) + 1
      BY <1>13, <2>1, FS_AddElement
    <2>3. Cardinality(Spent \cup {k}) <= Cardinality(Spent')
      BY <1>14, <2>1, FS_Subset
    <2>4. Cardinality(Spent) \in Nat /\ Cardinality(Spent') \in Nat
      BY <2>1, FS_CardinalityType
    <2>5. password <= Cardinality(Spent) /\ password \in Nat
      BY DEF SessionInv, ResetLinksSound
    <2>6. password' <= Cardinality(Spent')
      BY <1>1, <2>2, <2>3, <2>4, <2>5
    <2> QED BY <1>7, <2>6 DEF ResetLinksSound
  <1> QED BY <1>1, <1>5, <1>11, <1>15, SessionTypes DEF SessionInv

LEMMA SessionStep ==
  ASSUME Ses!SessionsAssumption, IsFiniteSet(Link), SessionInv, [Ses!Next]_(Ses!vars)
  PROVE  SessionInv'
  <1>1. CASE UNCHANGED Ses!vars
    <2>1. UNCHANGED <<sessionNow, password, token, link, sessionJob, redeemed, raced>>
      BY <1>1 DEF Ses!vars
    <2>2. Ses!Live' = Ses!Live /\ Spent' = Spent
      BY <2>1 DEF Ses!Live, Ses!With, Spent, Held
    <2>3. TokensSound' /\ ResetLinksSound'
      BY <2>1, <2>2 DEF SessionInv, TokensSound, ResetLinksSound, Ses!ResetEndsSessions
    <2>4. SessionJobsSound'
      BY <2>1, <2>2 DEF SessionInv, SessionJobsSound, SessionJobSound, Apart
    <2> QED BY <2>1, <2>3, <2>4 DEF SessionInv
  <1>2. ASSUME NEW q \in SessionRequest,
               \/ Ses!LoginCheck(q) \/ Ses!LoginIssue(q)
               \/ \E t \in Token : Ses!RefreshBegin(q, t) \/ Ses!ReuseDetected(q, t)
               \/ Ses!RefreshCommit(q) \/ Ses!RefreshRollback(q) \/ Ses!RevokeCommit(q)
               \/ Ses!ForgotBegin(q) \/ Ses!ForgotEnd(q)
               \/ \E k \in Link : Ses!ResetBegin(q, k)
               \/ Ses!ResetCommit(q) \/ Ses!RolledBack(q)
        PROVE  SessionInv'
    BY <1>2, LoginCheckStep, LoginIssueStep, RefreshBeginStep, RefreshEndStep, LookStep, RevokeStep, ForgotEndStep,
       ResetBeginStep, ResetCommitStep
  <1> QED BY <1>1, <1>2, TickStep, LogoutStep DEF Ses!Next

LEMMA SessionInvImplies ==
  ASSUME Ses!SessionsAssumption, IsFiniteSet(Link), SessionInv
  PROVE  Ses!TypeOK /\ Ses!RedeemedOnce /\ Ses!ResetEndsSessions /\ Ses!LinkUsedOnce
  <1>1. Ses!TypeOK
    BY DEF SessionInv, TokensSound, SessionJobsSound, ResetLinksSound, Ses!TypeOK, TokenRow, LinkRow, SessionJob
  <1>2. Ses!RedeemedOnce /\ Ses!ResetEndsSessions
    BY TokenRows DEF SessionInv, TokensSound, Ses!RedeemedOnce
  <1>3. Ses!LinkUsedOnce
    <2> DEFINE U == {k \in Link : link[k].state = "used"}
    <2>1. \A S : Ses!Cardinality(S) = Cardinality(S)
      BY DEF Ses!Cardinality, Cardinality
    <2>2. IsFiniteSet(U) /\ Spent \subseteq U
      BY FS_Subset DEF Spent
    <2>3. IsFiniteSet(Spent) /\ Cardinality(Spent) <= Cardinality(U)
      BY <2>2, FS_Subset
    <2>4. Cardinality(Spent) \in Nat /\ Cardinality(U) \in Nat
      BY <2>2, <2>3, FS_CardinalityType
    <2>5. password <= Cardinality(Spent) /\ password \in Nat
      BY DEF SessionInv, ResetLinksSound
    <2>6. password <= Cardinality(U)
      BY <2>3, <2>4, <2>5
    <2> QED BY <2>1, <2>6 DEF Ses!LinkUsedOnce
  <1> QED BY <1>1, <1>2, <1>3

(* Sessions: whatever logins, rotations, reuses, resets and rollbacks      *)
(* overlap, a refresh token is redeemed once, a link sets one password,    *)
(* and a reset ends the sessions of older passwords but for the tokens     *)
(* that were being issued while sessions were being ended.                 *)
THEOREM SessionsEndOnReset ==
  ASSUME Ses!SessionsAssumption, IsFiniteSet(Link)
  PROVE  Ses!Spec => [](Ses!TypeOK /\ Ses!RedeemedOnce /\ Ses!ResetEndsSessions /\ Ses!LinkUsedOnce)
  <1> QED BY SessionsStart, SessionStep, SessionInvImplies, PTL DEF Ses!Spec


-----------------------------------------------------------------------------
(* OAuth connections.                                                      *)

CONSTANTS User, Provider, Nonce, OAuthRequest, MaxGrant, MaxId
VARIABLES states, rows, oauthJob, grants, ids, minted, origin, given

Con == INSTANCE OAuthConnections WITH job <- oauthJob, Request <- OAuthRequest

Owner == [user : User, provider : Provider]
Row == [id : 1..MaxId, user : User, provider : Provider, refresh : 1..MaxGrant, access : 1..MaxGrant, live : BOOLEAN]
Coding == [at : {"code"}, nonce : Nonce, user : User, provider : Provider]
Storing == [at : {"store"}, user : User, provider : Provider, grant : 1..MaxGrant, live : BOOLEAN]
Refreshing == [at : {"expired", "update"}, row : Row, by : {"api", "worker"}]
OAuthJob == {Con!Idle} \cup Coding \cup Storing \cup Refreshing

Owns(g, u, p) == g \in 1..grants /\ minted[origin[g]] = [user |-> u, provider |-> p]
Stored(i, g) == \E x \in DOMAIN given[i] : given[i][x] = g

StatesSound ==
    /\ states \in [Nonce -> Owner \cup {Con!None}] /\ minted \in [Nonce -> Owner \cup {Con!None}]
    /\ \A n \in Nonce : states[n] # Con!None => minted[n] = states[n]

(* A grant's nonce was minted once and is spent.                           *)
GrantsSound ==
    /\ grants \in 0..MaxGrant /\ ids \in 0..MaxId
    /\ origin \in [1..MaxGrant -> Nonce \cup {Con!None}] /\ given \in [1..MaxId -> Seq(1..MaxGrant)]
    /\ \A g \in 1..grants :
           origin[g] \in Nonce /\ states[origin[g]] = Con!None /\ minted[origin[g]] # Con!None
    /\ Con!StateSpentOnce

RowSound(r) ==
    /\ r.id <= ids /\ Owns(r.refresh, r.user, r.provider) /\ Owns(r.access, r.user, r.provider)
    /\ Stored(r.id, r.refresh) /\ Stored(r.id, r.access) /\ r.refresh = given[r.id][Len(given[r.id])]

RowsApart(r, s) == r.id = s.id \/ (r.user = s.user /\ r.provider = s.provider) => r = s
ConnectionsSound ==
    /\ rows \subseteq Row /\ \A r \in rows : RowSound(r)
    /\ \A r, s \in rows : RowsApart(r, s)

(* What a callback or a refresh has read: a state that is spent but has    *)
(* brought no grant yet, a grant of its own user, a row that may be gone   *)
(* by now but whose id no other connection gets.                           *)
CodeSound(j) ==
    /\ states[j.nonce] = Con!None /\ minted[j.nonce] = [user |-> j.user, provider |-> j.provider]
    /\ \A g \in 1..grants : origin[g] # j.nonce
SnapshotSound(r) ==
    /\ r.id <= ids /\ Owns(r.refresh, r.user, r.provider) /\ Stored(r.id, r.refresh)
    /\ \A s \in rows : s.id = r.id => s.user = r.user /\ s.provider = r.provider
OAuthJobSound(j) ==
    /\ j \in Coding => CodeSound(j)
    /\ j \in Storing => Owns(j.grant, j.user, j.provider)
    /\ j \in Refreshing => SnapshotSound(j.row)
CallbacksApart(i, j) == i \in Coding /\ j \in Coding => i.nonce # j.nonce

OAuthJobsSound ==
    /\ oauthJob \in [OAuthRequest -> OAuthJob]
    /\ \A q \in OAuthRequest : OAuthJobSound(oauthJob[q])
    /\ \A q, r \in OAuthRequest : q # r => CallbacksApart(oauthJob[q], oauthJob[r])

OAuthInv == StatesSound /\ GrantsSound /\ ConnectionsSound /\ OAuthJobsSound

LEMMA OAuthKinds ==
  ASSUME Con!OAuthAssumption
  PROVE  /\ Con!None \notin Owner /\ MaxGrant \in Nat /\ MaxId \in Nat
         /\ \A j \in OAuthJob : /\ j.at = "code" => j \in Coding
                                /\ j.at = "store" => j \in Storing
                                /\ j.at \in {"expired", "update"} => j \in Refreshing
                                /\ j.at \in {"idle", "code", "store", "expired", "update"}
         /\ \A j \in Coding : j.at = "code" /\ j.nonce \in Nonce /\ j.user \in User /\ j.provider \in Provider
         /\ \A j \in Storing : /\ j.at = "store" /\ j.user \in User /\ j.provider \in Provider
                               /\ j.grant \in 1..MaxGrant /\ j.live \in BOOLEAN
         /\ \A j \in Refreshing : j.at \in {"expired", "update"} /\ j.row \in Row /\ j.by \in {"api", "worker"}
         /\ Con!Idle \in OAuthJob /\ Con!Idle.at = "idle"
  <1>1. Con!None \notin Owner
    <2>1. Con!None.provider = "none" /\ "none" \notin Provider
      BY DEF Con!None, Con!OAuthAssumption
    <2> QED BY <2>1 DEF Owner
  <1>2. \A j \in Coding : j.at = "code" /\ j.nonce \in Nonce /\ j.user \in User /\ j.provider \in Provider
    BY DEF Coding
  <1>3. \A j \in Storing : /\ j.at = "store" /\ j.user \in User /\ j.provider \in Provider
                           /\ j.grant \in 1..MaxGrant /\ j.live \in BOOLEAN
    BY DEF Storing
  <1>4. \A j \in Refreshing : j.at \in {"expired", "update"} /\ j.row \in Row /\ j.by \in {"api", "worker"}
    <2> HIDE DEF Row
    <2> QED BY DEF Refreshing
  <1>5. Con!Idle.at = "idle" /\ Con!Idle \in OAuthJob
    BY DEF Con!Idle, OAuthJob
  <1> HIDE DEF Coding, Storing, Refreshing
  <1>6. \A j \in OAuthJob : /\ j.at = "code" => j \in Coding
                            /\ j.at = "store" => j \in Storing
                            /\ j.at \in {"expired", "update"} => j \in Refreshing
                            /\ j.at \in {"idle", "code", "store", "expired", "update"}
    <2> SUFFICES ASSUME NEW j \in OAuthJob
                 PROVE  /\ j.at = "code" => j \in Coding
                        /\ j.at = "store" => j \in Storing
                        /\ j.at \in {"expired", "update"} => j \in Refreshing
                        /\ j.at \in {"idle", "code", "store", "expired", "update"}
      OBVIOUS
    <2>1. j = Con!Idle \/ j \in Coding \/ j \in Storing \/ j \in Refreshing
      BY DEF OAuthJob
    <2> QED BY <1>2, <1>3, <1>4, <1>5, <2>1
  <1>7. MaxGrant \in Nat /\ MaxId \in Nat
    BY DEF Con!OAuthAssumption
  <1> QED BY <1>1, <1>2, <1>3, <1>4, <1>5, <1>6, <1>7

LEMMA RowFields ==
  ASSUME NEW r \in Row
  PROVE  /\ r.id \in 1..MaxId /\ r.user \in User /\ r.provider \in Provider
         /\ r.refresh \in 1..MaxGrant /\ r.access \in 1..MaxGrant /\ r.live \in BOOLEAN
  BY DEF Row

LEMMA OAuthStarts ==
  ASSUME Con!OAuthAssumption, Con!Init
  PROVE  OAuthInv
  <1>1. /\ states = [n \in Nonce |-> Con!None] /\ rows = {} /\ oauthJob = [q \in OAuthRequest |-> Con!Idle]
        /\ grants = 0 /\ ids = 0
        /\ minted = [n \in Nonce |-> Con!None] /\ origin = [g \in 1..MaxGrant |-> Con!None]
        /\ given = [i \in 1..MaxId |-> <<>>]
    BY DEF Con!Init, Con!Grant
  <1> HIDE DEF Owner, OAuthJob, Row
  <1>2. StatesSound
    BY <1>1 DEF StatesSound
  <1>3. GrantsSound
    <2>1. <<>> \in Seq(1..MaxGrant)
      OBVIOUS
    <2>2. given \in [1..MaxId -> Seq(1..MaxGrant)] /\ origin \in [1..MaxGrant -> Nonce \cup {Con!None}]
      BY <1>1, <2>1
    <2>3. grants \in 0..MaxGrant /\ ids \in 0..MaxId /\ 1..grants = {}
      BY <1>1, OAuthKinds
    <2> QED BY <2>2, <2>3 DEF GrantsSound, Con!StateSpentOnce
  <1>4. ConnectionsSound
    BY <1>1 DEF ConnectionsSound
  <1>5. OAuthJobsSound
    <2>1. Con!Idle \notin Coding /\ Con!Idle \notin Storing /\ Con!Idle \notin Refreshing /\ Con!Idle \in OAuthJob
      BY OAuthKinds
    <2>2. OAuthJobSound(Con!Idle) /\ CallbacksApart(Con!Idle, Con!Idle)
      BY <2>1 DEF OAuthJobSound, CallbacksApart
    <2> QED BY <1>1, <2>1, <2>2 DEF OAuthJobsSound
  <1> QED BY <1>2, <1>3, <1>4, <1>5 DEF OAuthInv


(* What a step keeps of the past: grants, spent nonces, stored tokens, and *)
(* to whom an id belongs.                                                  *)
KeepsGrants ==
    /\ grants <= grants' /\ grants' \in Int /\ \A g \in 1..grants : origin'[g] = origin[g]
    /\ \A n \in Nonce : minted[n] # Con!None => minted'[n] = minted[n] /\ (states[n] = Con!None => states'[n] = Con!None)
KeepsRows ==
    /\ ids <= ids' /\ ids' \in Int /\ \A i \in 1..ids, g \in 1..MaxGrant : Stored(i, g) => Stored(i, g)'
    /\ \A s \in rows' : s.id <= ids => \E t \in rows : t.id = s.id /\ t.user = s.user /\ t.provider = s.provider

LEMMA OwnsKept ==
  ASSUME Con!OAuthAssumption, OAuthInv, KeepsGrants, NEW g, NEW u \in User, NEW p \in Provider, Owns(g, u, p)
  PROVE  Owns(g, u, p)'
  <1>1. grants \in Nat
    BY OAuthKinds DEF OAuthInv, GrantsSound
  <1>2. g \in 1..grants /\ minted[origin[g]] = [user |-> u, provider |-> p] /\ origin[g] \in Nonce
        /\ minted[origin[g]] # Con!None
    BY DEF Owns, OAuthInv, GrantsSound
  <1>3. g \in 1..grants' /\ origin'[g] = origin[g] /\ minted'[origin[g]] = minted[origin[g]]
    BY <1>1, <1>2 DEF KeepsGrants
  <1> QED BY <1>2, <1>3 DEF Owns

LEMMA SnapshotKept ==
  ASSUME Con!OAuthAssumption, OAuthInv, KeepsGrants, KeepsRows, NEW r \in Row, SnapshotSound(r)
  PROVE  SnapshotSound(r)'
  <1>1. r.id \in 1..MaxId /\ r.user \in User /\ r.provider \in Provider /\ r.refresh \in 1..MaxGrant
    BY RowFields
  <1>2. r.id <= ids /\ Owns(r.refresh, r.user, r.provider) /\ Stored(r.id, r.refresh)
        /\ \A s \in rows : s.id = r.id => s.user = r.user /\ s.provider = r.provider
    BY DEF SnapshotSound
  <1>3. ids \in Nat /\ MaxId \in Nat
    BY OAuthKinds DEF OAuthInv, GrantsSound
  <1>4. Owns(r.refresh, r.user, r.provider)'
    BY <1>1, <1>2, OwnsKept
  <1>5. Stored(r.id, r.refresh)' /\ r.id <= ids'
    BY <1>1, <1>2, <1>3 DEF KeepsRows
  <1>6. \A s \in rows' : s.id = r.id => s.user = r.user /\ s.provider = r.provider
    BY <1>2 DEF KeepsRows
  <1> QED BY <1>4, <1>5, <1>6 DEF SnapshotSound

LEMMA JobKept ==
  ASSUME Con!OAuthAssumption, OAuthInv, KeepsGrants, KeepsRows, NEW x \in OAuthJob, OAuthJobSound(x),
         x \in Coding => \A g \in (grants + 1)..grants' : origin'[g] # x.nonce
  PROVE  OAuthJobSound(x)'
  <1>1. ASSUME x \in Coding PROVE CodeSound(x)'
    <2>1. x.nonce \in Nonce /\ x.user \in User /\ x.provider \in Provider
      BY <1>1, OAuthKinds
    <2>2. /\ states[x.nonce] = Con!None /\ minted[x.nonce] = [user |-> x.user, provider |-> x.provider]
          /\ \A g \in 1..grants : origin[g] # x.nonce
      BY <1>1 DEF OAuthJobSound, CodeSound
    <2>3. minted[x.nonce] # Con!None
      BY <2>1, <2>2, OAuthKinds DEF Owner
    <2>4. states'[x.nonce] = Con!None /\ minted'[x.nonce] = minted[x.nonce]
      BY <2>1, <2>2, <2>3 DEF KeepsGrants
    <2>5. ASSUME NEW g \in 1..grants' PROVE origin'[g] # x.nonce
      <3>1. grants \in Nat /\ grants' \in Int /\ (g \in 1..grants \/ g \in (grants + 1)..grants')
        BY OAuthKinds DEF OAuthInv, GrantsSound, KeepsGrants
      <3> QED BY <1>1, <2>2, <3>1 DEF KeepsGrants
    <2> QED BY <2>2, <2>4, <2>5 DEF CodeSound
  <1>2. ASSUME x \in Storing PROVE Owns(x.grant, x.user, x.provider)'
    BY <1>2, OAuthKinds, OwnsKept DEF OAuthJobSound
  <1>3. ASSUME x \in Refreshing PROVE SnapshotSound(x.row)'
    BY <1>3, OAuthKinds, SnapshotKept DEF OAuthJobSound
  <1> QED BY <1>1, <1>2, <1>3 DEF OAuthJobSound

LEMMA OAuthJobsMove ==
  ASSUME Con!OAuthAssumption, OAuthInv, KeepsGrants, KeepsRows, NEW q \in OAuthRequest, NEW j \in OAuthJob,
         oauthJob' = [oauthJob EXCEPT ![q] = j],
         \A r \in OAuthRequest \ {q} :
             oauthJob[r] \in Coding => \A g \in (grants + 1)..grants' : origin'[g] # oauthJob[r].nonce,
         OAuthJobSound(j)', \A r \in OAuthRequest \ {q} : CallbacksApart(oauthJob[r], j)
  PROVE  OAuthJobsSound'
  <1> HIDE DEF OAuthJob
  <1>1. /\ oauthJob \in [OAuthRequest -> OAuthJob]
        /\ \A r \in OAuthRequest : oauthJob[r] \in OAuthJob /\ OAuthJobSound(oauthJob[r])
        /\ \A r, s \in OAuthRequest : r # s => CallbacksApart(oauthJob[r], oauthJob[s])
    BY DEF OAuthInv, OAuthJobsSound
  <1>2. /\ oauthJob' \in [OAuthRequest -> OAuthJob] /\ oauthJob'[q] = j
        /\ \A r \in OAuthRequest \ {q} : oauthJob'[r] = oauthJob[r]
    BY <1>1
  <1>3. ASSUME NEW r \in OAuthRequest \ {q} PROVE OAuthJobSound(oauthJob[r])'
    <2> PICK x \in OAuthJob : x = oauthJob[r]
      BY <1>1
    <2>1. OAuthJobSound(x)'
      BY <1>1, <1>3, JobKept
    <2>2. oauthJob'[r] = x
      BY <1>2
    <2> QED BY <2>1, <2>2
  <1>4. OAuthJobSound(oauthJob[q])'
    BY <1>2
  <1>5. \A r, s \in OAuthRequest : r # s => CallbacksApart(oauthJob'[r], oauthJob'[s])
    <2> SUFFICES ASSUME NEW r \in OAuthRequest, NEW s \in OAuthRequest, r # s
                 PROVE  CallbacksApart(oauthJob'[r], oauthJob'[s])
      OBVIOUS
    <2>1. CASE r # q /\ s # q
      BY <1>1, <1>2, <2>1
    <2>2. CASE r = q
      BY <1>2, <2>2 DEF CallbacksApart
    <2>3. CASE s = q
      BY <1>2, <2>3 DEF CallbacksApart
    <2> QED BY <2>1, <2>2, <2>3
  <1> QED BY <1>2, <1>3, <1>4, <1>5 DEF OAuthJobsSound

(* The callbacks and refreshes stay as they are.                           *)
LEMMA OAuthJobsStay ==
  ASSUME Con!OAuthAssumption, OAuthInv, KeepsGrants, KeepsRows, oauthJob' = oauthJob, grants' = grants
  PROVE  OAuthJobsSound'
  <1> HIDE DEF OAuthJob
  <1>1. /\ oauthJob \in [OAuthRequest -> OAuthJob]
        /\ \A r \in OAuthRequest : oauthJob[r] \in OAuthJob /\ OAuthJobSound(oauthJob[r])
        /\ \A r, s \in OAuthRequest : r # s => CallbacksApart(oauthJob[r], oauthJob[s])
    BY DEF OAuthInv, OAuthJobsSound
  <1>2. ASSUME NEW r \in OAuthRequest PROVE OAuthJobSound(oauthJob[r])'
    <2> PICK x \in OAuthJob : x = oauthJob[r]
      BY <1>1
    <2>1. (grants + 1)..grants' = {}
      BY OAuthKinds DEF OAuthInv, GrantsSound
    <2>2. OAuthJobSound(x)'
      BY <1>1, <2>1, JobKept
    <2> QED BY <2>2
  <1> QED BY <1>1, <1>2 DEF OAuthJobsSound


LEMMA OAuthTypes ==
  ASSUME Con!OAuthAssumption, OAuthInv
  PROVE  /\ MaxGrant \in Nat /\ MaxId \in Nat /\ grants \in Nat /\ grants <= MaxGrant /\ ids \in Nat /\ ids <= MaxId
         /\ states \in [Nonce -> Owner \cup {Con!None}] /\ minted \in [Nonce -> Owner \cup {Con!None}]
         /\ origin \in [1..MaxGrant -> Nonce \cup {Con!None}] /\ given \in [1..MaxId -> Seq(1..MaxGrant)]
         /\ rows \subseteq Row
         /\ \A q \in OAuthRequest : oauthJob[q] \in OAuthJob /\ OAuthJobSound(oauthJob[q])
  <1>1. oauthJob \in [OAuthRequest -> OAuthJob] /\ \A q \in OAuthRequest : OAuthJobSound(oauthJob[q])
    BY DEF OAuthInv, OAuthJobsSound
  <1> HIDE DEF OAuthJob
  <1>2. \A q \in OAuthRequest : oauthJob[q] \in OAuthJob /\ OAuthJobSound(oauthJob[q])
    BY <1>1
  <1> QED BY <1>2, OAuthKinds DEF OAuthInv, StatesSound, GrantsSound, ConnectionsSound

(* A request that is idle, or reads a row.                                 *)
LEMMA IdleOAuth ==
  ASSUME Con!OAuthAssumption
  PROVE  /\ Con!Idle \in OAuthJob /\ OAuthJobSound(Con!Idle)' /\ \A i : CallbacksApart(i, Con!Idle)
         /\ \A j \in Refreshing : j \in OAuthJob /\ (SnapshotSound(j.row)' => OAuthJobSound(j)') /\ \A i : CallbacksApart(i, j)
         /\ \A j \in Storing : j \in OAuthJob /\ \A i : CallbacksApart(i, j)
         /\ \A j \in Storing : Owns(j.grant, j.user, j.provider)' => OAuthJobSound(j)'
  <1>1. Con!Idle \notin Coding /\ Con!Idle \notin Storing /\ Con!Idle \notin Refreshing /\ Con!Idle \in OAuthJob
    BY OAuthKinds
  <1>2. \A j \in Refreshing : j \in OAuthJob /\ j \notin Coding /\ j \notin Storing
    BY OAuthKinds DEF OAuthJob
  <1>3. \A j \in Storing : j \in OAuthJob /\ j \notin Coding /\ j \notin Refreshing
    BY OAuthKinds DEF OAuthJob
  <1>4. OAuthJobSound(Con!Idle)' /\ \A i : CallbacksApart(i, Con!Idle)
    BY <1>1 DEF OAuthJobSound, CallbacksApart
  <1>5. \A j \in Refreshing : (SnapshotSound(j.row)' => OAuthJobSound(j)') /\ \A i : CallbacksApart(i, j)
    BY <1>2 DEF OAuthJobSound, CallbacksApart
  <1>6. \A j \in Storing : (Owns(j.grant, j.user, j.provider)' => OAuthJobSound(j)') /\ \A i : CallbacksApart(i, j)
    BY <1>3 DEF OAuthJobSound, CallbacksApart
  <1> QED BY <1>1, <1>2, <1>3, <1>4, <1>5, <1>6

(* Nothing but jobs, states and mints changes.                             *)
LEMMA NothingStored ==
  ASSUME Con!OAuthAssumption, OAuthInv, UNCHANGED <<grants, ids, origin, given>>,
         \A s \in rows' : \E t \in rows : t.id = s.id /\ t.user = s.user /\ t.provider = s.provider,
         \A n \in Nonce : minted[n] # Con!None => minted'[n] = minted[n] /\ (states[n] = Con!None => states'[n] = Con!None)
  PROVE  KeepsGrants /\ KeepsRows
  BY OAuthTypes DEF KeepsGrants, KeepsRows, Stored

LEMMA GrantsStay ==
  ASSUME Con!OAuthAssumption, OAuthInv, UNCHANGED <<grants, ids, origin>>, KeepsGrants,
         given' \in [1..MaxId -> Seq(1..MaxGrant)]
  PROVE  GrantsSound'
  <1>1. GrantsSound
    BY DEF OAuthInv
  <1>2. \A g \in 1..grants : origin[g] \in Nonce /\ states'[origin[g]] = Con!None /\ minted'[origin[g]] # Con!None
    BY <1>1 DEF GrantsSound, KeepsGrants
  <1> QED BY <1>1, <1>2 DEF GrantsSound, Con!StateSpentOnce

LEMMA RowsStaySound ==
  ASSUME Con!OAuthAssumption, OAuthInv, KeepsGrants, UNCHANGED <<ids, given>>
  PROVE  \A r \in rows : RowSound(r)'
  <1> SUFFICES ASSUME NEW r \in rows PROVE RowSound(r)'
    OBVIOUS
  <1>1. r \in Row /\ RowSound(r)
    BY DEF OAuthInv, ConnectionsSound
  <1>2. r.user \in User /\ r.provider \in Provider
    BY <1>1, RowFields
  <1>3. Owns(r.refresh, r.user, r.provider)' /\ Owns(r.access, r.user, r.provider)'
    BY <1>1, <1>2, OwnsKept DEF RowSound
  <1> QED BY <1>1, <1>3 DEF RowSound, Stored

LEMMA MintStep ==
  ASSUME Con!OAuthAssumption, OAuthInv, NEW u \in User, NEW p, NEW n \in Nonce, Con!MintOAuthState(u, p, n)
  PROVE  OAuthInv'
  <1> DEFINE o == [user |-> u, provider |-> p]
  <1>1. /\ o \in Owner /\ minted[n] = Con!None
        /\ states' = [states EXCEPT ![n] = o] /\ minted' = [minted EXCEPT ![n] = o]
        /\ UNCHANGED <<rows, oauthJob, grants, ids, origin, given>>
    BY DEF Con!MintOAuthState, Owner
  <1> HIDE DEF o, Owner
  <1>2. /\ states' \in [Nonce -> Owner \cup {Con!None}] /\ minted' \in [Nonce -> Owner \cup {Con!None}]
        /\ \A m \in Nonce : states'[m] = IF m = n THEN o ELSE states[m]
        /\ \A m \in Nonce : minted'[m] = IF m = n THEN o ELSE minted[m]
    BY <1>1, OAuthTypes
  <1>3. StatesSound'
    BY <1>2 DEF OAuthInv, StatesSound
  <1>4. KeepsGrants /\ KeepsRows
    BY <1>1, <1>2, NothingStored
  <1>5. GrantsSound'
    BY <1>1, <1>4, GrantsStay, OAuthTypes
  <1>6. ConnectionsSound'
    BY <1>1, <1>4, RowsStaySound DEF OAuthInv, ConnectionsSound, RowsApart
  <1>7. OAuthJobsSound'
    BY <1>1, <1>4, OAuthJobsStay
  <1> QED BY <1>3, <1>5, <1>6, <1>7 DEF OAuthInv

LEMMA StateExpiresStep ==
  ASSUME Con!OAuthAssumption, OAuthInv, NEW n \in Nonce, Con!StateExpires(n)
  PROVE  OAuthInv'
  <1>1. states' = [states EXCEPT ![n] = Con!None] /\ UNCHANGED <<rows, oauthJob, grants, ids, minted, origin, given>>
    BY DEF Con!StateExpires
  <1> HIDE DEF Owner
  <1>2. /\ states' \in [Nonce -> Owner \cup {Con!None}]
        /\ \A m \in Nonce : states'[m] = IF m = n THEN Con!None ELSE states[m]
    BY <1>1, OAuthTypes
  <1>3. StatesSound'
    BY <1>1, <1>2 DEF OAuthInv, StatesSound
  <1>4. KeepsGrants /\ KeepsRows
    BY <1>1, <1>2, NothingStored
  <1>5. GrantsSound'
    BY <1>1, <1>4, GrantsStay, OAuthTypes
  <1>6. ConnectionsSound'
    BY <1>1, <1>4, RowsStaySound DEF OAuthInv, ConnectionsSound, RowsApart
  <1>7. OAuthJobsSound'
    BY <1>1, <1>4, OAuthJobsStay
  <1> QED BY <1>3, <1>5, <1>6, <1>7 DEF OAuthInv

LEMMA CallbackConsumes ==
  ASSUME Con!OAuthAssumption, OAuthInv, NEW q \in OAuthRequest, NEW n \in Nonce, NEW p, Con!ConsumeOAuthState(q, n, p)
  PROVE  OAuthInv'
  <1>0. PICK j : j = [at |-> "code", nonce |-> n, user |-> states[n].user, provider |-> p]
    OBVIOUS
  <1>1. /\ p \in Provider /\ states[n] # Con!None /\ states' = [states EXCEPT ![n] = Con!None]
        /\ UNCHANGED <<rows, grants, ids, minted, origin, given>>
        /\ oauthJob' = oauthJob \/ (oauthJob' = [oauthJob EXCEPT ![q] = j] /\ states[n].provider = p)
    BY <1>0 DEF Con!ConsumeOAuthState, Con!Left, Con!ValidFor, Con!Enter, Con!Held
  <1>2. states[n] \in Owner /\ minted[n] = states[n]
    BY <1>1, OAuthTypes DEF OAuthInv, StatesSound
  <1>3. j \in Coding /\ j \in OAuthJob /\ j \notin Storing /\ j \notin Refreshing
    <2>1. j \in Coding
      BY <1>0, <1>1, <1>2 DEF Owner, Coding
    <2> QED BY <2>1, OAuthKinds DEF OAuthJob
  <1>4. states[n].provider = p => minted[n] = [user |-> j.user, provider |-> j.provider]
    BY <1>0, <1>2 DEF Owner
  <1>5. j.nonce = n
    BY <1>0
  <1> HIDE DEF Owner
  <1>6. /\ states' \in [Nonce -> Owner \cup {Con!None}]
        /\ \A m \in Nonce : states'[m] = IF m = n THEN Con!None ELSE states[m]
    BY <1>1, OAuthTypes
  <1>7. StatesSound'
    BY <1>1, <1>6 DEF OAuthInv, StatesSound
  <1>8. KeepsGrants /\ KeepsRows
    BY <1>1, <1>6, NothingStored
  <1>9. GrantsSound'
    BY <1>1, <1>8, GrantsStay, OAuthTypes
  <1>10. ConnectionsSound'
    BY <1>1, <1>8, RowsStaySound DEF OAuthInv, ConnectionsSound, RowsApart
  <1>11. ASSUME oauthJob' = [oauthJob EXCEPT ![q] = j], states[n].provider = p PROVE OAuthJobsSound'
    <2>1. \A g \in 1..grants : origin[g] # n
      BY <1>1 DEF OAuthInv, GrantsSound
    <2>2. \A r \in OAuthRequest : oauthJob[r] \in Coding => oauthJob[r].nonce # n
      BY <1>1, OAuthTypes DEF OAuthJobSound, CodeSound
    <2>3. (grants + 1)..grants' = {}
      BY <1>1, OAuthTypes
    <2>4. OAuthJobSound(j)'
      <3>1. states'[j.nonce] = Con!None
        BY <1>5, <1>6
      <3>2. minted'[j.nonce] = [user |-> j.user, provider |-> j.provider]
        BY <1>1, <1>4, <1>5, <1>11
      <3>3. CodeSound(j)'
        BY <1>1, <1>5, <2>1, <3>1, <3>2 DEF CodeSound
      <3> QED BY <1>3, <3>3 DEF OAuthJobSound
    <2>5. \A r \in OAuthRequest \ {q} : CallbacksApart(oauthJob[r], j)
      BY <1>5, <2>2 DEF CallbacksApart
    <2> QED BY <1>3, <1>8, <1>11, <2>3, <2>4, <2>5, OAuthJobsMove
  <1>12. OAuthJobsSound'
    BY <1>1, <1>8, <1>11, OAuthJobsStay
  <1> QED BY <1>7, <1>9, <1>10, <1>12 DEF OAuthInv


LEMMA ExchangeStep ==
  ASSUME Con!OAuthAssumption, OAuthInv, NEW q \in OAuthRequest, NEW p, NEW live \in BOOLEAN, Con!Exchanged(q, p, live)
  PROVE  OAuthInv'
  <1> DEFINE n == oauthJob[q].nonce
             g == grants + 1
  <1>0. PICK j : j = [at |-> "store", user |-> oauthJob[q].user, provider |-> p, grant |-> grants + 1, live |-> live]
    OBVIOUS
  <1>1. /\ oauthJob[q].at = "code" /\ oauthJob[q].provider = p /\ grants < MaxGrant /\ grants' = g
        /\ origin' = [origin EXCEPT ![g] = n] /\ oauthJob' = [oauthJob EXCEPT ![q] = j]
        /\ UNCHANGED <<states, rows, ids, minted, given>>
    BY <1>0 DEF Con!Exchanged, Con!At, Con!Goto
  <1>2. /\ oauthJob[q] \in Coding /\ n \in Nonce /\ oauthJob[q].user \in User /\ p \in Provider
        /\ states[n] = Con!None /\ minted[n] = [user |-> oauthJob[q].user, provider |-> p]
        /\ \A h \in 1..grants : origin[h] # n
    <2>1. oauthJob[q] \in OAuthJob /\ OAuthJobSound(oauthJob[q])
      BY OAuthTypes
    <2>2. oauthJob[q] \in Coding
      BY <1>1, <2>1, OAuthKinds
    <2> QED BY <1>1, <2>1, <2>2, OAuthKinds DEF OAuthJobSound, CodeSound
  <1>3. grants \in Nat /\ MaxGrant \in Nat /\ g \in 1..MaxGrant
    BY <1>1, OAuthTypes
  <1>4. /\ j \in Storing /\ j.user = oauthJob[q].user /\ j.provider = p /\ j.grant = g
    BY <1>0, <1>2, <1>3 DEF Storing
  <1> HIDE DEF n, g
  <1>5. /\ origin' \in [1..MaxGrant -> Nonce \cup {Con!None}]
        /\ \A h \in 1..MaxGrant : origin'[h] = IF h = g THEN n ELSE origin[h]
    BY <1>1, <1>2, <1>3, OAuthTypes
  <1>6. 1..grants' = 1..grants \cup {g} /\ g \notin 1..grants /\ grants' = grants + 1 /\ (grants + 1)..grants' = {g}
        /\ 1..grants' \subseteq 1..MaxGrant
    BY <1>1, <1>3 DEF g
  <1>7. \A h \in 1..grants : origin'[h] = origin[h]
    BY <1>5, <1>6
  <1>8. KeepsGrants /\ KeepsRows
    <2>1. KeepsGrants
      BY <1>1, <1>3, <1>6, <1>7 DEF KeepsGrants
    <2> QED BY <1>1, <2>1, OAuthTypes DEF KeepsRows, Stored
  <1>9. minted[n] # Con!None
    BY <1>2, OAuthKinds DEF Owner
  <1>10. GrantsSound'
    <2>1. GrantsSound
      BY DEF OAuthInv
    <2>2. \A h \in 1..grants' : origin'[h] \in Nonce /\ states'[origin'[h]] = Con!None /\ minted'[origin'[h]] # Con!None
      BY <1>1, <1>2, <1>3, <1>5, <1>6, <1>7, <1>9, <2>1 DEF GrantsSound
    <2>3. \A h, i \in 1..grants' : origin'[h] = origin'[i] => h = i
      BY <1>2, <1>3, <1>5, <1>6, <1>7, <2>1 DEF GrantsSound, Con!StateSpentOnce
    <2>4. grants' \in 0..MaxGrant
      BY <1>1, <1>3, <1>6
    <2> QED BY <1>1, <1>5, <2>1, <2>2, <2>3, <2>4 DEF GrantsSound, Con!StateSpentOnce
  <1>11. ConnectionsSound' /\ StatesSound'
    BY <1>1, <1>8, RowsStaySound DEF OAuthInv, ConnectionsSound, StatesSound, RowsApart
  <1>12. OAuthJobsSound'
    <2>1. Owns(j.grant, j.user, j.provider)'
      <3>1. origin'[j.grant] = n /\ j.grant \in 1..grants'
        BY <1>3, <1>4, <1>5, <1>6
      <3>2. minted'[n] = [user |-> j.user, provider |-> j.provider]
        BY <1>1, <1>2, <1>4
      <3> QED BY <3>1, <3>2 DEF Owns
    <2>2. OAuthJobSound(j)' /\ j \in OAuthJob /\ \A i : CallbacksApart(i, j)
      BY <1>4, <2>1, IdleOAuth
    <2>3. \A r \in OAuthRequest \ {q} :
             oauthJob[r] \in Coding => \A h \in (grants + 1)..grants' : origin'[h] # oauthJob[r].nonce
      <3>1. \A r \in OAuthRequest \ {q} : CallbacksApart(oauthJob[q], oauthJob[r])
        BY DEF OAuthInv, OAuthJobsSound
      <3> QED BY <1>2, <1>3, <1>5, <1>6, <3>1 DEF CallbacksApart, n
    <2> QED BY <1>1, <1>8, <2>2, <2>3, OAuthJobsMove
  <1> QED BY <1>10, <1>11, <1>12 DEF OAuthInv

(* A request ends, or reads a row, or hears from the provider.             *)
LEMMA ReadStep ==
  ASSUME Con!OAuthAssumption, OAuthInv, NEW q \in OAuthRequest, NEW j \in OAuthJob,
         oauthJob' = [oauthJob EXCEPT ![q] = j],
         UNCHANGED <<states, rows, grants, ids, minted, origin, given>>,
         OAuthJobSound(j)', \A i : CallbacksApart(i, j)
  PROVE  OAuthInv'
  <1>1. KeepsGrants /\ KeepsRows
    BY NothingStored
  <1>2. GrantsSound'
    BY <1>1, GrantsStay, OAuthTypes
  <1>3. ConnectionsSound' /\ StatesSound'
    BY <1>1, RowsStaySound DEF OAuthInv, ConnectionsSound, StatesSound, RowsApart
  <1>4. (grants + 1)..grants' = {}
    BY OAuthTypes
  <1>5. OAuthJobsSound'
    BY <1>1, <1>4, OAuthJobsMove
  <1> QED BY <1>2, <1>3, <1>5 DEF OAuthInv

LEMMA RowIsSnapshot ==
  ASSUME OAuthInv, NEW r \in rows, UNCHANGED <<rows, grants, ids, minted, origin, given>>
  PROVE  r \in Row /\ SnapshotSound(r)'
  <1>1. r \in Row /\ RowSound(r) /\ \A s \in rows : s.id = r.id => s = r
    BY DEF OAuthInv, ConnectionsSound, RowsApart
  <1>2. SnapshotSound(r)
    BY <1>1 DEF SnapshotSound, RowSound
  <1> QED BY <1>1, <1>2 DEF SnapshotSound, Owns, Stored

LEMMA RefreshReads ==
  ASSUME Con!OAuthAssumption, OAuthInv, NEW q \in OAuthRequest, NEW r \in rows, Con!LiveToken(q, r) \/ Con!Unauthorized(q, r)
  PROVE  OAuthInv'
  <1>1. PICK by \in {"api", "worker"} :
            /\ oauthJob' = [oauthJob EXCEPT ![q] = [at |-> "expired", row |-> r, by |-> by]]
            /\ UNCHANGED <<states, rows, grants, ids, minted, origin, given>>
    BY DEF Con!LiveToken, Con!Unauthorized, Con!Enter
  <1>2. PICK s : s = r
    OBVIOUS
  <1>3. PICK j : j = [at |-> "expired", row |-> s, by |-> by]
    OBVIOUS
  <1>4. s \in Row /\ SnapshotSound(s)'
    BY <1>1, <1>2, RowIsSnapshot
  <1>5. j \in Refreshing /\ j.row = s
    BY <1>3, <1>4 DEF Refreshing
  <1>6. j \in OAuthJob /\ OAuthJobSound(j)' /\ \A i : CallbacksApart(i, j)
    BY <1>4, <1>5, IdleOAuth
  <1>7. oauthJob' = [oauthJob EXCEPT ![q] = j]
    BY <1>1, <1>2, <1>3
  <1> QED BY <1>1, <1>6, <1>7, ReadStep

LEMMA RefreshEnds ==
  ASSUME Con!OAuthAssumption, OAuthInv, NEW q \in OAuthRequest,
         Con!ExchangeFails(q) \/ Con!RefreshRefused(q) \/ Con!RefreshAnswered(q)
  PROVE  OAuthInv'
  <1>1. UNCHANGED <<states, rows, grants, ids, minted, origin, given>>
    BY DEF Con!ExchangeFails, Con!RefreshRefused, Con!RefreshAnswered
  <1>2. CASE oauthJob' = [oauthJob EXCEPT ![q] = Con!Idle]
    BY <1>1, <1>2, IdleOAuth, ReadStep
  <1>3. CASE Con!RefreshAnswered(q)
    <2>1. oauthJob[q].at = "expired"
      BY <1>3 DEF Con!RefreshAnswered, Con!At
    <2>2. PICK x : x = oauthJob[q]
      OBVIOUS
    <2>3. x \in Refreshing /\ SnapshotSound(x.row)
      BY <2>1, <2>2, OAuthTypes, OAuthKinds DEF OAuthJobSound
    <2>4. PICK j : j = [x EXCEPT !.at = "update"]
      OBVIOUS
    <2>5. j \in Refreshing /\ j.row = x.row
      <3> HIDE DEF Row
      <3> QED BY <2>3, <2>4 DEF Refreshing
    <2>6. SnapshotSound(j.row)'
      BY <1>1, <2>3, <2>5 DEF SnapshotSound, Owns, Stored
    <2>7. oauthJob' = [oauthJob EXCEPT ![q] = j]
      BY <1>3, <2>2, <2>4 DEF Con!RefreshAnswered, Con!Goto
    <2> QED BY <1>1, <2>5, <2>6, <2>7, IdleOAuth, ReadStep
  <1> QED BY <1>2, <1>3 DEF Con!ExchangeFails, Con!RefreshRefused, Con!Goto


LEMMA Appended ==
  ASSUME NEW S, NEW s \in Seq(S), NEW e \in S
  PROVE  /\ Append(s, e) \in Seq(S) /\ Len(Append(s, e)) \in DOMAIN Append(s, e)
         /\ Append(s, e)[Len(Append(s, e))] = e
         /\ \A i \in DOMAIN s : i \in DOMAIN Append(s, e) /\ Append(s, e)[i] = s[i]
  OBVIOUS

(* One row takes the place of the old one, if any.                         *)
LEMMA RowPlaced ==
  ASSUME OAuthInv, NEW w \in Row, NEW old \in SUBSET rows, rows' = (rows \ old) \cup {w}, RowSound(w)',
         \A s \in rows \ old : RowSound(s)' /\ s.id # w.id /\ ~(s.user = w.user /\ s.provider = w.provider)
  PROVE  ConnectionsSound'
  <1>1. rows \subseteq Row /\ \A r, s \in rows : RowsApart(r, s)
    BY DEF OAuthInv, ConnectionsSound
  <1>2. \A s \in rows' : s \in rows \ old \/ s = w
    OBVIOUS
  <1>3. \A s \in rows' : RowSound(s)'
    <2> SUFFICES ASSUME NEW s \in rows' PROVE RowSound(s)'
      OBVIOUS
    <2>1. CASE s \in rows \ old
      BY <2>1
    <2>2. CASE s = w
      BY <2>2
    <2> QED BY <1>2, <2>1, <2>2
  <1>4. \A r, s \in rows' : RowsApart(r, s)
    BY <1>1, <1>2 DEF RowsApart
  <1>5. rows' \subseteq Row
    BY <1>1
  <1> QED BY <1>3, <1>4, <1>5 DEF ConnectionsSound, RowsApart

(* A row changes but keeps its id, its user and its provider.              *)
LEMMA RowReplaced ==
  ASSUME Con!OAuthAssumption, OAuthInv, NEW r \in rows, NEW w \in Row,
         w.id = r.id, w.user = r.user, w.provider = r.provider, w.refresh = r.refresh,
         Owns(w.access, w.user, w.provider), Stored(w.id, w.access),
         rows' = (rows \ {r}) \cup {w}, UNCHANGED <<states, grants, ids, minted, origin, given>>
  PROVE  KeepsGrants /\ KeepsRows /\ StatesSound' /\ GrantsSound' /\ ConnectionsSound'
  <1>1. RowSound(r) /\ \A s \in rows \ {r} : s.id # r.id /\ ~(s.user = r.user /\ s.provider = r.provider)
    BY DEF OAuthInv, ConnectionsSound, RowsApart
  <1>2. KeepsGrants /\ KeepsRows
    <2>1. \A s \in rows' : \E t \in rows : t.id = s.id /\ t.user = s.user /\ t.provider = s.provider
      OBVIOUS
    <2> QED BY <2>1, NothingStored
  <1>3. StatesSound'
    BY DEF OAuthInv, StatesSound
  <1>4. GrantsSound'
    BY <1>2, GrantsStay, OAuthTypes
  <1>5. RowSound(w)'
    BY <1>1 DEF RowSound, Owns, Stored
  <1>6. ConnectionsSound'
    <2>1. \A s \in rows \ {r} : RowSound(s)' /\ s.id # w.id /\ ~(s.user = w.user /\ s.provider = w.provider)
      BY <1>1, <1>2, RowsStaySound
    <2>2. {r} \in SUBSET rows
      OBVIOUS
    <2> HIDE DEF Row
    <2> QED BY <1>5, <2>1, <2>2, RowPlaced
  <1> QED BY <1>2, <1>3, <1>4, <1>6

LEMMA TokenExpiresStep ==
  ASSUME Con!OAuthAssumption, OAuthInv, NEW r \in rows, Con!TokenExpires(r)
  PROVE  OAuthInv'
  <1>1. PICK w : w = [r EXCEPT !.live = FALSE]
    OBVIOUS
  <1>2. rows' = (rows \ {r}) \cup {w} /\ UNCHANGED <<states, oauthJob, grants, ids, minted, origin, given>>
    BY <1>1 DEF Con!TokenExpires
  <1>3. r \in Row /\ RowSound(r)
    BY DEF OAuthInv, ConnectionsSound
  <1>4. /\ w \in Row /\ w.id = r.id /\ w.user = r.user /\ w.provider = r.provider
        /\ w.refresh = r.refresh /\ w.access = r.access
    BY <1>1, <1>3 DEF Row
  <1>5. KeepsGrants /\ KeepsRows /\ StatesSound' /\ GrantsSound' /\ ConnectionsSound'
    BY <1>2, <1>3, <1>4, RowReplaced DEF RowSound
  <1>6. OAuthJobsSound'
    BY <1>2, <1>5, OAuthJobsStay
  <1> QED BY <1>5, <1>6 DEF OAuthInv

LEMMA ConnectorDeleteStep ==
  ASSUME Con!OAuthAssumption, OAuthInv, NEW r \in rows, Con!ConnectorDelete(r)
  PROVE  OAuthInv'
  <1>1. rows' = rows \ {r} /\ UNCHANGED <<states, oauthJob, grants, ids, minted, origin, given>>
    BY DEF Con!ConnectorDelete
  <1>2. KeepsGrants /\ KeepsRows
    BY <1>1, NothingStored
  <1>3. GrantsSound' /\ StatesSound'
    BY <1>1, <1>2, GrantsStay, OAuthTypes DEF OAuthInv, StatesSound
  <1>4. ConnectionsSound'
    BY <1>1, <1>2, RowsStaySound DEF OAuthInv, ConnectionsSound, RowsApart
  <1>5. OAuthJobsSound'
    BY <1>1, <1>2, OAuthJobsStay
  <1> QED BY <1>3, <1>4, <1>5 DEF OAuthInv

LEMMA StoreRefreshedStep ==
  ASSUME Con!OAuthAssumption, OAuthInv, NEW q \in OAuthRequest, Con!StoreRefreshed(q)
  PROVE  OAuthInv'
  <1>1. PICK j : j = oauthJob[q]
    OBVIOUS
  <1>2. /\ j.at = "update" /\ oauthJob' = [oauthJob EXCEPT ![q] = Con!Idle]
        /\ rows' = (rows \ Con!Updated(j.row)) \cup {Con!Written(s, j) : s \in Con!Updated(j.row)}
        /\ UNCHANGED <<states, grants, ids, minted, origin, given>>
    BY <1>1 DEF Con!StoreRefreshed, Con!At, Con!Goto
  <1>3. j \in Refreshing /\ SnapshotSound(j.row)
    BY <1>1, <1>2, OAuthTypes, OAuthKinds DEF OAuthJobSound
  <1>4. CASE Con!Updated(j.row) = {}
    <2>1. rows' = rows
      BY <1>2, <1>4
    <2> QED BY <1>2, <2>1, IdleOAuth, ReadStep
  <1>5. CASE Con!Updated(j.row) # {}
    <2>1. PICK r \in rows : r.id = j.row.id
      BY <1>5 DEF Con!Updated
    <2>2. Con!Updated(j.row) = {r}
      BY <2>1 DEF Con!Updated, OAuthInv, ConnectionsSound, RowsApart
    <2>3. PICK w : w = Con!Written(r, j)
      OBVIOUS
    <2>4. rows' = (rows \ {r}) \cup {w}
      BY <1>2, <2>2, <2>3
    <2>5. r \in Row /\ j.row \in Row
      BY <1>3, OAuthTypes, OAuthKinds
    <2>6. /\ w \in Row /\ w.id = r.id /\ w.user = r.user /\ w.provider = r.provider
          /\ w.refresh = r.refresh /\ w.access = j.row.refresh
      <3>1. j.row.refresh \in 1..MaxGrant
        BY <2>5, RowFields
      <3>2. PICK a : a = j.row.refresh
        OBVIOUS
      <3>3. PICK l \in BOOLEAN : l = (r.live \/ j.by = "api")
        OBVIOUS
      <3>4. w = [[r EXCEPT !.access = a] EXCEPT !.live = l]
        <4>1. r.live \in BOOLEAN
          BY <2>5, RowFields
        <4> QED BY <2>3, <2>5, <3>2, <3>3, <4>1 DEF Con!Written, Row
      <3> QED BY <2>5, <3>1, <3>2, <3>4 DEF Row
    <2>7. Owns(w.access, w.user, w.provider) /\ Stored(w.id, w.access)
      BY <1>3, <2>1, <2>6 DEF SnapshotSound
    <2>8. KeepsGrants /\ KeepsRows /\ StatesSound' /\ GrantsSound' /\ ConnectionsSound'
      BY <1>2, <2>4, <2>6, <2>7, RowReplaced
    <2>9. (grants + 1)..grants' = {}
      BY <1>2, OAuthTypes
    <2>10. OAuthJobsSound'
      BY <1>2, <2>8, <2>9, IdleOAuth, OAuthJobsMove
    <2> QED BY <2>8, <2>10 DEF OAuthInv
  <1> QED BY <1>4, <1>5


(* The callback stores its grant: in the row its user already has with     *)
(* this provider, else in one with an id that no row ever had.             *)
LEMMA UpsertStep ==
  ASSUME Con!OAuthAssumption, OAuthInv, NEW q \in OAuthRequest, Con!UpsertOAuth(q)
  PROVE  OAuthInv'
  <1> PICK j : j = oauthJob[q]
    OBVIOUS
  <1> PICK old : old = {r \in rows : Con!Same(r, j)}
    OBVIOUS
  <1> PICK id : id = IF old = {} THEN ids + 1 ELSE (CHOOSE r \in old : TRUE).id
    OBVIOUS
  <1> PICK w : w = [id |-> id, user |-> j.user, provider |-> j.provider,
                    refresh |-> j.grant, access |-> j.grant, live |-> j.live]
    OBVIOUS
  <1>1. /\ j.at = "store" /\ id <= MaxId /\ oauthJob' = [oauthJob EXCEPT ![q] = Con!Idle]
        /\ ids' = (IF old = {} THEN id ELSE ids) /\ rows' = (rows \ old) \cup {w}
        /\ given' = [given EXCEPT ![id] = Append(given[id], j.grant)]
        /\ UNCHANGED <<states, grants, minted, origin>>
    BY DEF Con!UpsertOAuth, Con!At, Con!Goto
  <1>2. j \in Storing /\ Owns(j.grant, j.user, j.provider)
    BY <1>1, OAuthTypes, OAuthKinds DEF OAuthJobSound
  <1>3. j.user \in User /\ j.provider \in Provider /\ j.grant \in 1..MaxGrant /\ j.live \in BOOLEAN
    BY <1>2, OAuthKinds
  <1>4. /\ ids \in Nat /\ MaxId \in Nat /\ rows \subseteq Row /\ given \in [1..MaxId -> Seq(1..MaxGrant)]
        /\ ids <= MaxId
    BY OAuthTypes
  <1>5. \A r \in rows : r.id \in 1..ids /\ RowSound(r)
    BY <1>4, RowFields DEF OAuthInv, ConnectionsSound, RowSound
  <1>6. old \in SUBSET rows /\ \A r \in rows : r \in old <=> r.user = j.user /\ r.provider = j.provider
    BY DEF Con!Same
  <1>7. /\ id \in 1..MaxId /\ ids' \in Nat /\ ids <= ids' /\ ids' <= MaxId /\ id <= ids'
        /\ \A s \in rows \ old : s.id # id
        /\ id <= ids => \E t \in rows : t.id = id /\ t.user = j.user /\ t.provider = j.provider
    <2>1. CASE old = {}
      BY <1>1, <1>4, <1>5, <2>1
    <2>2. CASE old # {}
      <3>1. PICK r \in old : id = r.id
        BY <2>2
      <3>2. r \in rows /\ ids' = ids /\ r.user = j.user /\ r.provider = j.provider
        BY <1>1, <1>6, <2>2, <3>1
      <3>3. \A s \in rows \ old : s.id # id
        BY <1>6, <3>1, <3>2 DEF OAuthInv, ConnectionsSound, RowsApart
      <3>4. r.id \in 1..ids
        BY <1>5, <3>2
      <3>5. id \in 1..MaxId /\ id <= ids'
        BY <1>4, <3>1, <3>2, <3>4
      <3>6. \E t \in rows : t.id = id /\ t.user = j.user /\ t.provider = j.provider
        BY <3>1, <3>2
      <3>7. ids' \in Nat /\ ids <= ids' /\ ids' <= MaxId
        BY <1>4, <3>2
      <3> QED BY <3>3, <3>5, <3>6, <3>7
    <2> QED BY <2>1, <2>2
  <1>8. /\ w.id = id /\ w.user = j.user /\ w.provider = j.provider /\ w.refresh = j.grant /\ w.access = j.grant
        /\ w \in Row
    BY <1>3, <1>7 DEF Row
  <1> HIDE DEF Row
  <1>9. /\ given' \in [1..MaxId -> Seq(1..MaxGrant)]
        /\ given'[id] = Append(given[id], j.grant)
        /\ \A i \in 1..MaxId \ {id} : given'[i] = given[i]
        /\ given[id] \in Seq(1..MaxGrant)
    <2>1. given[id] \in Seq(1..MaxGrant)
      BY <1>4, <1>7
    <2>2. Append(given[id], j.grant) \in Seq(1..MaxGrant)
      BY <1>3, <2>1, Appended
    <2> QED BY <1>1, <1>4, <1>7, <2>1, <2>2
  <1>10. \A i \in 1..MaxId, g \in 1..MaxGrant : Stored(i, g) => Stored(i, g)'
    <2> SUFFICES ASSUME NEW i \in 1..MaxId, NEW g \in 1..MaxGrant, Stored(i, g) PROVE Stored(i, g)'
      OBVIOUS
    <2>1. PICK x \in DOMAIN given[i] : given[i][x] = g
      BY DEF Stored
    <2>2. x \in DOMAIN given'[i] /\ given'[i][x] = g
      <3>1. CASE i = id
        <4>1. x \in DOMAIN given[id] /\ given[id][x] = g
          BY <2>1, <3>1
        <4>2. x \in DOMAIN Append(given[id], j.grant) /\ Append(given[id], j.grant)[x] = given[id][x]
          BY <1>3, <1>9, <4>1, Appended
        <4> QED BY <1>9, <3>1, <4>1, <4>2
      <3>2. CASE i # id
        BY <1>9, <2>1, <3>2
      <3> QED BY <3>1, <3>2
    <2> QED BY <2>2 DEF Stored
  <1>11. KeepsGrants
    BY <1>1, OAuthTypes DEF KeepsGrants
  <1>12. KeepsRows
    <2>1. ASSUME NEW s \in rows', s.id <= ids
          PROVE  \E t \in rows : t.id = s.id /\ t.user = s.user /\ t.provider = s.provider
      BY <1>1, <1>7, <1>8, <2>1
    <2> QED BY <1>4, <1>7, <1>10, <2>1 DEF KeepsRows
  <1>13. StatesSound'
    BY <1>1 DEF OAuthInv, StatesSound
  <1>14. GrantsSound'
    <2>1. GrantsSound
      BY DEF OAuthInv
    <2>2. grants' \in 0..MaxGrant /\ origin' \in [1..MaxGrant -> Nonce \cup {Con!None}] /\ Con!StateSpentOnce'
      BY <1>1, <2>1 DEF GrantsSound, Con!StateSpentOnce
    <2>3. \A g \in 1..grants' :
             origin'[g] \in Nonce /\ states'[origin'[g]] = Con!None /\ minted'[origin'[g]] # Con!None
      BY <1>1, <2>1 DEF GrantsSound
    <2>4. ids' \in 0..MaxId
      BY <1>4, <1>7
    <2> QED BY <1>9, <2>2, <2>3, <2>4 DEF GrantsSound
  <1>15. ConnectionsSound'
    <2>1. RowSound(w)'
      <3>1. Owns(j.grant, j.user, j.provider)'
        BY <1>1, <1>2 DEF Owns
      <3>2. Len(given'[id]) \in DOMAIN given'[id] /\ given'[id][Len(given'[id])] = j.grant
        BY <1>3, <1>9, Appended
      <3>3. Stored(id, j.grant)'
        BY <3>2 DEF Stored
      <3> QED BY <1>7, <1>8, <3>1, <3>2, <3>3 DEF RowSound
    <2>2. ASSUME NEW s \in rows \ old
          PROVE  RowSound(s)' /\ s.id # w.id /\ ~(s.user = w.user /\ s.provider = w.provider)
      <3>1. s \in Row /\ RowSound(s) /\ s.id \in 1..MaxId /\ s.id # id /\ s.id <= ids
        BY <1>4, <1>5, <1>7
      <3>2. given'[s.id] = given[s.id]
        BY <1>9, <3>1
      <3>3. RowSound(s)'
        <4>1. s.id <= ids'
          BY <1>4, <1>7, <3>1
        <4>2. Owns(s.refresh, s.user, s.provider)' /\ Owns(s.access, s.user, s.provider)'
          BY <1>1, <3>1 DEF RowSound, Owns
        <4>3. Stored(s.id, s.refresh)' /\ Stored(s.id, s.access)'
          BY <3>1, <3>2 DEF RowSound, Stored
        <4>4. s.refresh = given'[s.id][Len(given'[s.id])]
          BY <3>1, <3>2 DEF RowSound
        <4> QED BY <4>1, <4>2, <4>3, <4>4 DEF RowSound
      <3> QED BY <1>6, <1>8, <3>1, <3>3
    <2> QED BY <1>1, <1>6, <1>8, <2>1, <2>2, RowPlaced
  <1>16. OAuthJobsSound'
    <2>1. (grants + 1)..grants' = {}
      BY <1>1, OAuthTypes
    <2> QED BY <1>1, <1>11, <1>12, <2>1, IdleOAuth, OAuthJobsMove
  <1> QED BY <1>13, <1>14, <1>15, <1>16 DEF OAuthInv

LEMMA OAuthMoves ==
  ASSUME Con!OAuthAssumption, OAuthInv, [Con!Next]_(Con!vars)
  PROVE  OAuthInv'
  <1>1. ASSUME NEW u \in User, NEW n \in Nonce,
               Con!GoogleConnectorStart(u, n) \/ Con!MicrosoftConnectorStart(u, n) \/ Con!ZendeskStart(u, n)
        PROVE  OAuthInv'
    BY <1>1, MintStep DEF Con!GoogleConnectorStart, Con!MicrosoftConnectorStart, Con!ZendeskStart
  <1>2. ASSUME NEW n \in Nonce, Con!StateExpires(n) PROVE OAuthInv'
    BY <1>2, StateExpiresStep
  <1>3. ASSUME NEW q \in OAuthRequest, NEW n \in Nonce,
               Con!GoogleConnectorCallback(q, n) \/ Con!MicrosoftConnectorCallback(q, n) \/ Con!ZendeskCallback(q, n)
        PROVE  OAuthInv'
    BY <1>3, CallbackConsumes DEF Con!GoogleConnectorCallback, Con!MicrosoftConnectorCallback, Con!ZendeskCallback
  <1>4. ASSUME NEW q \in OAuthRequest, Con!GoogleExchange(q) \/ Con!MicrosoftExchange(q) \/ Con!ZendeskExchange(q)
        PROVE  OAuthInv'
    BY <1>4, ExchangeStep DEF Con!GoogleExchange, Con!MicrosoftExchange, Con!ZendeskExchange
  <1>5. ASSUME NEW q \in OAuthRequest, NEW r \in rows, Con!LiveToken(q, r) \/ Con!Unauthorized(q, r) PROVE OAuthInv'
    BY <1>5, RefreshReads
  <1>6. ASSUME NEW q \in OAuthRequest, Con!ExchangeFails(q) \/ Con!RefreshRefused(q) \/ Con!RefreshAnswered(q)
        PROVE  OAuthInv'
    BY <1>6, RefreshEnds
  <1>7. ASSUME NEW q \in OAuthRequest, Con!UpsertOAuth(q) \/ Con!StoreRefreshed(q) PROVE OAuthInv'
    BY <1>7, UpsertStep, StoreRefreshedStep
  <1>8. ASSUME NEW r \in rows, Con!TokenExpires(r) \/ Con!ConnectorDelete(r) PROVE OAuthInv'
    BY <1>8, TokenExpiresStep, ConnectorDeleteStep
  <1>9. CASE UNCHANGED Con!vars
    <2>1. UNCHANGED <<states, rows, oauthJob, grants, ids, minted, origin, given>>
      BY <1>9 DEF Con!vars
    <2>2. KeepsGrants /\ KeepsRows
      BY <2>1, NothingStored
    <2>3. ConnectionsSound' /\ StatesSound' /\ GrantsSound'
      BY <2>1, <2>2, RowsStaySound, GrantsStay, OAuthTypes DEF OAuthInv, ConnectionsSound, StatesSound, RowsApart
    <2>4. OAuthJobsSound'
      BY <2>1, <2>2, OAuthJobsStay
    <2> QED BY <2>3, <2>4 DEF OAuthInv
  <1> QED BY <1>1, <1>2, <1>3, <1>4, <1>5, <1>6, <1>7, <1>8, <1>9 DEF Con!Next

LEMMA OAuthKept ==
  ASSUME Con!OAuthAssumption, OAuthInv
  PROVE  Con!TypeOK /\ Con!StateSpentOnce /\ Con!ConnectedByOwner /\ Con!TokensOfTheRow /\ Con!ReconnectSurvives
  <1>1. Con!StateSpentOnce
    BY DEF OAuthInv, GrantsSound
  <1>2. \A r \in rows : r \in Row /\ RowSound(r)
    BY DEF OAuthInv, ConnectionsSound
  <1>3. Con!ConnectedByOwner /\ Con!TokensOfTheRow /\ Con!ReconnectSurvives
    <2>1. Con!ConnectedByOwner
      BY <1>2 DEF Con!ConnectedByOwner, RowSound, Owns
    <2>2. Con!TokensOfTheRow
      BY <1>2 DEF Con!TokensOfTheRow, RowSound, Stored
    <2>3. Con!ReconnectSurvives
      BY <1>2 DEF Con!ReconnectSurvives, RowSound
    <2> QED BY <2>1, <2>2, <2>3
  <1>4. Con!TypeOK
    <2>1. \A n \in Con!Held : states[n] \in [user : User, provider : Provider]
      BY OAuthTypes DEF Con!Held, Owner
    <2>2. \A r \in rows : /\ r.id \in 1..ids /\ r.user \in User /\ r.provider \in Provider
                          /\ {r.refresh, r.access} \subseteq 1..grants /\ r.live \in BOOLEAN
      <3> SUFFICES ASSUME NEW r \in rows
                   PROVE  /\ r.id \in 1..ids /\ r.user \in User /\ r.provider \in Provider
                          /\ {r.refresh, r.access} \subseteq 1..grants /\ r.live \in BOOLEAN
        OBVIOUS
      <3>1. /\ r.id \in 1..MaxId /\ r.user \in User /\ r.provider \in Provider /\ r.live \in BOOLEAN
            /\ ids \in Nat /\ MaxId \in Nat
        BY <1>2, RowFields, OAuthTypes
      <3>2. r.id <= ids /\ r.refresh \in 1..grants /\ r.access \in 1..grants
        BY <1>2 DEF RowSound, Owns
      <3> QED BY <3>1, <3>2
    <2>3. \A r, s \in rows : r.id = s.id \/ <<r.user, r.provider>> = <<s.user, s.provider>> => r = s
      BY DEF OAuthInv, ConnectionsSound, RowsApart
    <2>4. \A q \in OAuthRequest : oauthJob[q].at \in {"idle", "code", "store", "expired", "update"}
      BY OAuthTypes, OAuthKinds
    <2>5. grants \in 0..MaxGrant /\ ids \in 0..MaxId
      BY DEF OAuthInv, GrantsSound
    <2> QED BY <2>1, <2>2, <2>3, <2>4, <2>5 DEF Con!TypeOK
  <1> QED BY <1>1, <1>3, <1>4

(* However callbacks, refreshes, reconnects and deletions interleave, a    *)
(* state is redeemed for tokens once, a connection holds tokens of         *)
(* consents its own user gave and that were stored into this very row, and *)
(* its refresh token is the one of the last consent.                       *)
THEOREM ConnectionsStayTheirOwners ==
  ASSUME Con!OAuthAssumption
  PROVE  Con!Spec => [](Con!TypeOK /\ Con!StateSpentOnce /\ Con!ConnectedByOwner
                        /\ Con!TokensOfTheRow /\ Con!ReconnectSurvives)
  <1>1. Con!Init => OAuthInv
    BY OAuthStarts
  <1>2. OAuthInv /\ [Con!Next]_(Con!vars) => OAuthInv'
    BY OAuthMoves
  <1>3. OAuthInv => Con!TypeOK /\ Con!StateSpentOnce /\ Con!ConnectedByOwner /\ Con!TokensOfTheRow /\ Con!ReconnectSurvives
    BY OAuthKept
  <1> QED BY <1>1, <1>2, <1>3, PTL DEF Con!Spec


-----------------------------------------------------------------------------
(* The rate limiter.                                                       *)

CONSTANTS RateRequest, Replica, Limit, Window, MaxTime
VARIABLES clock, redis, local, req, passed

Rate == INSTANCE RateLimit WITH Request <- RateRequest

Counter == [count : Nat, expires : Nat]
Pending == [at : {"redis", "local"}, replica : Replica, bucket : Rate!Bucket]
RateJob == [at : {"new", "passed", "refused"}] \cup Pending

(* Entries of passed, by the times at which they were let through.         *)
Of(b, c) == {e \in passed : e[2] = b /\ e[3] = c}
In(E, t, u) == {e \in E : e[4] \in t .. u}
Many(E, t, u) == Cardinality(In(E, t, u))

(* The counter of Redis: it lives on for a window after the last request   *)
(* it let through, so that it has counted every one of a stretch of that   *)
(* length that is not over.                                                *)
RedisOK(E, now, c) ==
    /\ c \in Counter /\ c.expires <= now + Window
    /\ \A e \in E : e[4] \in 0 .. now /\ e[4] + Window <= c.expires
    /\ \A t \in Int : /\ Many(E, t, t + Window - 1) <= Limit
                      /\ t + Window > now => Many(E, t, t + Window - 1) <= c.count

(* The counter of a replica: when it was begun, and the next time it could *)
(* be; those before and since; and those in the window from f on.          *)
Begun(now, c) == IF c.count = 0 THEN now ELSE c.expires - Window
LocalOK(E, now, c, f) ==
    /\ c \in Counter /\ c.expires <= now + Window
    /\ \A e \in E : e[4] \in 0 .. now /\ (c.count > 0 => e[4] <= c.expires)
    /\ c.count > 0 => c.expires >= f + Window
    /\ Many(E, Begun(now, c), now) <= Limit
    /\ Many(E, Begun(now, c), now) <= c.count
    /\ \A t \in Int : t + Window > Begun(now, c) => Many(E, t, Begun(now, c) - 1) <= Limit
    /\ \A t \in Int : Many(E, t, t + Window - 1) <= 2 * Limit
    /\ Many(E, f, f + Window - 1) <= Limit
    /\ now < f + Window => Many(E, f, f + Window - 1) <= c.count

CountersSound ==
    /\ \A b \in Rate!Bucket : RedisOK(Of(b, "redis"), clock, redis[b])
    /\ \A p \in Replica, b \in Rate!Bucket : LocalOK(Of(b, p), clock, local[p][b], b * Window)

RequestsSound ==
    /\ req \in [RateRequest -> RateJob]
    /\ \A q \in RateRequest : req[q] \in Pending => req[q].bucket * Window <= clock

PassedSound ==
    passed \subseteq RateRequest \X Rate!Bucket \X (Replica \cup {"redis"}) \X (0 .. clock) /\ IsFiniteSet(passed)
RateTypes ==
    /\ clock \in 0 .. MaxTime /\ redis \in [Rate!Bucket -> Counter] /\ local \in [Replica -> [Rate!Bucket -> Counter]]
    /\ PassedSound

(* A counter counts no request twice.                                      *)
Tried == {q \in RateRequest : req[q].at \notin {"new", "redis"}}
Decided == {q \in RateRequest : req[q].at \in {"passed", "refused"}}
CountsBounded ==
    /\ \A b \in Rate!Bucket : redis[b].count <= Cardinality(Tried)
    /\ \A p \in Replica, b \in Rate!Bucket : local[p][b].count <= Cardinality(Decided)

RateInv == RateTypes /\ RequestsSound /\ CountersSound /\ CountsBounded

(* What a decision does to the passed ones: it adds to those of its own    *)
(* bucket and counter, if the count n allows it.                           *)
EntriesMove(b, c, n) ==
    /\ \A d, e : d # b \/ e # c => Of(d, e)' = Of(d, e)
    /\ \/ Of(b, c)' = Of(b, c)
       \/ n <= Limit /\ \E x : x[4] = clock /\ Of(b, c)' = Of(b, c) \cup {x}


LEMMA Fewer ==
  ASSUME NEW S, IsFiniteSet(S), NEW T \in SUBSET S
  PROVE  IsFiniteSet(T) /\ Cardinality(T) \in Nat /\ Cardinality(S) \in Nat /\ Cardinality(T) <= Cardinality(S)
  BY FS_Subset, FS_CardinalityType

LEMMA OneMore ==
  ASSUME NEW S, IsFiniteSet(S), NEW x, NEW T \in SUBSET (S \cup {x})
  PROVE  IsFiniteSet(T) /\ Cardinality(T) \in Nat /\ Cardinality(S) \in Nat /\ Cardinality(T) <= Cardinality(S) + 1
  <1>1. IsFiniteSet(S \cup {x}) /\ Cardinality(S \cup {x}) <= Cardinality(S) + 1 /\ Cardinality(S) \in Nat
    BY FS_AddElement, FS_CardinalityType
  <1>2. IsFiniteSet(T) /\ Cardinality(T) \in Nat /\ Cardinality(S \cup {x}) \in Nat
        /\ Cardinality(T) <= Cardinality(S \cup {x})
    BY <1>1, Fewer
  <1> QED BY <1>1, <1>2

LEMMA TwoParts ==
  ASSUME NEW S, IsFiniteSet(S), NEW R, IsFiniteSet(R), NEW T \in SUBSET (S \cup R)
  PROVE  Cardinality(T) \in Nat /\ Cardinality(S) \in Nat /\ Cardinality(R) \in Nat
         /\ Cardinality(T) <= Cardinality(S) + Cardinality(R)
  <1>1. IsFiniteSet(S \cup R) /\ Cardinality(S \cup R) = Cardinality(S) + Cardinality(R) - Cardinality(S \cap R)
    BY FS_Union
  <1>2. Cardinality(S \cap R) \in Nat /\ Cardinality(R) \in Nat /\ Cardinality(S) \in Nat
    BY FS_Subset, FS_CardinalityType
  <1>3. Cardinality(T) \in Nat /\ Cardinality(S \cup R) \in Nat /\ Cardinality(T) <= Cardinality(S \cup R)
    BY <1>1, Fewer
  <1> QED BY <1>1, <1>2, <1>3

LEMMA InFinite ==
  ASSUME NEW E, IsFiniteSet(E), NEW t \in Int, NEW u \in Int
  PROVE  IsFiniteSet(In(E, t, u)) /\ Cardinality(In(E, t, u)) \in Nat
  <1>1. In(E, t, u) \in SUBSET E
    BY DEF In
  <1> QED BY <1>1, Fewer

LEMMA Counts ==
  ASSUME NEW E, IsFiniteSet(E), NEW t \in Int, NEW u \in Int
  PROVE  Many(E, t, u) \in Nat /\ (In(E, t, u) = {} => Many(E, t, u) = 0)
  BY InFinite, FS_EmptySet DEF Many

(* One entry more at x.                                                    *)
LEMMA Another ==
  ASSUME NEW E, IsFiniteSet(E), NEW t \in Int, NEW u \in Int, NEW x
  PROVE  /\ Many(E \cup {x}, t, u) \in Nat /\ Many(E \cup {x}, t, u) <= Many(E, t, u) + 1
         /\ x[4] \notin t .. u => Many(E \cup {x}, t, u) = Many(E, t, u)
  <1>1. In(E \cup {x}, t, u) \in SUBSET (In(E, t, u) \cup {x})
    BY DEF In
  <1>2. x[4] \notin t .. u => In(E \cup {x}, t, u) = In(E, t, u)
    BY DEF In
  <1> QED BY <1>1, <1>2, InFinite, OneMore DEF Many

LEMMA RedisTick ==
  ASSUME Rate!RateAssumption, NEW E, NEW now \in Nat, NEW c, RedisOK(E, now, c)
  PROVE  RedisOK(E, now + 1, c)
  <1>1. Window \in Nat /\ c \in Counter /\ c.expires \in Nat /\ c.count \in Nat /\ c.expires <= now + Window
    BY DEF Rate!RateAssumption, RedisOK, Counter
  <1>2. \A e \in E : e[4] \in 0 .. now + 1 /\ e[4] + Window <= c.expires
    BY DEF RedisOK
  <1>3. ASSUME NEW t \in Int
        PROVE  /\ Many(E, t, t + Window - 1) <= Limit
               /\ t + Window > now + 1 => Many(E, t, t + Window - 1) <= c.count
    BY <1>1 DEF RedisOK
  <1>4. c.expires <= now + 1 + Window
    BY <1>1
  <1> QED BY <1>1, <1>2, <1>3, <1>4 DEF RedisOK

LEMMA RedisCounts ==
  ASSUME Rate!RateAssumption, NEW E, IsFiniteSet(E), NEW now \in Nat, NEW c, RedisOK(E, now, c),
         NEW w, w = [count |-> (IF now >= c.expires THEN 0 ELSE c.count) + 1, expires |-> now + Window]
  PROVE  /\ RedisOK(E, now, w)
         /\ \A x : x[4] = now /\ w.count <= Limit => RedisOK(E \cup {x}, now, w)
  <1> DEFINE n(t) == Many(E, t, t + Window - 1)
  <1>1. Window \in Nat \ {0} /\ Limit \in Nat /\ c.count \in Nat /\ c.expires \in Nat
    BY DEF Rate!RateAssumption, RedisOK, Counter
  <1>2. w \in Counter /\ w.expires = now + Window /\ w.count \in Nat \ {0}
        /\ w.count = (IF now >= c.expires THEN 0 ELSE c.count) + 1
    BY <1>1 DEF Counter
  <1>3. \A e \in E : e[4] \in 0 .. now /\ e[4] + Window <= c.expires /\ e[4] + Window <= now + Window
    BY <1>1 DEF RedisOK
  <1>4. \A t \in Int : n(t) \in Nat /\ n(t) <= Limit /\ (t + Window > now => n(t) <= c.count)
    BY <1>1, Counts DEF RedisOK
  <1> HIDE DEF n
  <1>5. ASSUME NEW t \in Int, t + Window > now PROVE n(t) <= w.count - 1
    <2>1. CASE now >= c.expires
      <3>1. In(E, t, t + Window - 1) = {}
        BY <1>1, <1>3, <1>5, <2>1 DEF In
      <3>2. n(t) = 0
        BY <1>1, <3>1, Counts DEF n
      <3> QED BY <1>2, <3>2
    <2>2. CASE now < c.expires
      BY <1>1, <1>2, <1>4, <1>5, <2>2
    <2> QED BY <1>1, <2>1, <2>2
  <1>6. RedisOK(E, now, w)
    <2>1. ASSUME NEW t \in Int PROVE n(t) <= Limit /\ (t + Window > now => n(t) <= w.count)
      BY <1>2, <1>4, <1>5
    <2>2. \A e \in E : e[4] \in 0 .. now /\ e[4] + Window <= w.expires
      BY <1>2, <1>3
    <2>3. w \in Counter /\ w.expires <= now + Window
      BY <1>1, <1>2
    <2> QED BY <2>1, <2>2, <2>3 DEF RedisOK, n
  <1>7. ASSUME NEW x, x[4] = now, w.count <= Limit PROVE RedisOK(E \cup {x}, now, w)
    <2> DEFINE m(t) == Many(E \cup {x}, t, t + Window - 1)
    <2>1. \A e \in E \cup {x} : e[4] \in 0 .. now /\ e[4] + Window <= w.expires
      BY <1>1, <1>2, <1>3, <1>7
    <2>2. ASSUME NEW t \in Int PROVE m(t) <= Limit /\ (t + Window > now => m(t) <= w.count)
      <3>1. CASE t + Window > now
        <4>1. m(t) \in Nat /\ m(t) <= n(t) + 1
          <5>1. t + Window - 1 \in Int
            BY <1>1
          <5> QED BY <5>1, Another DEF n
        <4> HIDE DEF m
        <4> QED BY <1>1, <1>2, <1>4, <1>5, <1>7, <3>1, <4>1
      <3>2. CASE ~(t + Window > now)
        <4>1. x[4] \notin t .. t + Window - 1
          BY <1>1, <1>7, <3>2
        <4>2. m(t) = n(t)
          BY <1>1, <4>1, Another DEF n
        <4> QED BY <1>4, <3>2, <4>2
      <3> QED BY <3>1, <3>2
    <2>3. w \in Counter /\ w.expires <= now + Window
      BY <1>1, <1>2
    <2> HIDE DEF m
    <2> QED BY <2>1, <2>2, <2>3 DEF RedisOK, m
  <1> QED BY <1>6, <1>7


LEMMA Fits ==
  ASSUME NEW E, IsFiniteSet(E), NEW t \in Int, NEW u \in Int, NEW v \in Int, NEW w \in Int,
         \A e \in E : e[4] \in t .. u => e[4] \in v .. w
  PROVE  Many(E, t, u) \in Nat /\ Many(E, v, w) \in Nat /\ Many(E, t, u) <= Many(E, v, w)
  <1>1. In(E, t, u) \in SUBSET In(E, v, w)
    BY DEF In
  <1> QED BY <1>1, InFinite, Fewer DEF Many

LEMMA Parts ==
  ASSUME NEW E, IsFiniteSet(E), NEW t \in Int, NEW u \in Int, NEW s \in Int, NEW now \in Int,
         \A e \in E : e[4] \in Int /\ e[4] <= now
  PROVE  /\ Many(E, t, u) \in Nat /\ Many(E, t, s - 1) \in Nat /\ Many(E, s, now) \in Nat
         /\ Many(E, t, u) <= Many(E, t, s - 1) + Many(E, s, now)
  <1>1. In(E, t, u) \in SUBSET (In(E, t, s - 1) \cup In(E, s, now))
    BY DEF In
  <1>2. s - 1 \in Int
    OBVIOUS
  <1> QED BY <1>1, <1>2, InFinite, TwoParts DEF Many

LEMMA LocalFacts ==
  ASSUME Rate!RateAssumption, NEW E, IsFiniteSet(E), NEW now \in Nat, NEW f \in Nat, NEW c, LocalOK(E, now, c, f)
  PROVE  /\ Window \in Nat \ {0} /\ Limit \in Nat /\ c.count \in Nat /\ c.expires \in Nat /\ c \in Counter
         /\ c.expires <= now + Window
         /\ Begun(now, c) \in Int /\ Begun(now, c) <= now /\ Begun(now, c) - 1 \in Int
         /\ Begun(now, c) = IF c.count = 0 THEN now ELSE c.expires - Window
         /\ Many(E, Begun(now, c), now) \in Nat /\ Many(E, Begun(now, c), now) <= Limit
         /\ Many(E, Begun(now, c), now) <= c.count
         /\ c.count > 0 => c.expires >= f + Window
         /\ Many(E, f, f + Window - 1) \in Nat /\ Many(E, f, f + Window - 1) <= Limit
         /\ now < f + Window => Many(E, f, f + Window - 1) <= c.count
  <1>1. Window \in Nat \ {0} /\ Limit \in Nat /\ c.count \in Nat /\ c.expires \in Nat /\ c.expires <= now + Window
    BY DEF Rate!RateAssumption, LocalOK, Counter
  <1>2. Begun(now, c) \in Int /\ Begun(now, c) <= now /\ Begun(now, c) - 1 \in Int
    BY <1>1 DEF Begun
  <1>3. Begun(now, c) = IF c.count = 0 THEN now ELSE c.expires - Window
    BY DEF Begun
  <1>4. Many(E, Begun(now, c), now) \in Nat
    BY <1>2, Counts
  <1>5. f + Window - 1 \in Int
    BY <1>1
  <1>6. Many(E, f, f + Window - 1) \in Nat
    BY <1>5, Counts
  <1> QED BY <1>1, <1>2, <1>3, <1>4, <1>6 DEF LocalOK

LEMMA Entries ==
  ASSUME NEW E, NEW now \in Nat, NEW f \in Nat, NEW c, LocalOK(E, now, c, f), NEW e \in E
  PROVE  e[4] \in Int /\ 0 <= e[4] /\ e[4] <= now /\ (c.count > 0 => e[4] <= c.expires)
  BY DEF LocalOK

LEMMA Before ==
  ASSUME Rate!RateAssumption, NEW E, IsFiniteSet(E), NEW now \in Nat, NEW f \in Nat, NEW c, LocalOK(E, now, c, f),
         NEW t \in Int
  PROVE  /\ Many(E, t, Begun(now, c) - 1) \in Nat /\ Many(E, t, t + Window - 1) \in Nat
         /\ t + Window > Begun(now, c) => Many(E, t, Begun(now, c) - 1) <= Limit
         /\ Many(E, t, t + Window - 1) <= 2 * Limit
  <1>1. Begun(now, c) - 1 \in Int /\ t + Window - 1 \in Int
    BY LocalFacts
  <1> QED BY <1>1, Counts DEF LocalOK

LEMMA LocalTick ==
  ASSUME Rate!RateAssumption, NEW E, IsFiniteSet(E), NEW now \in Nat, NEW f \in Nat, NEW c, LocalOK(E, now, c, f)
  PROVE  LocalOK(E, now + 1, c, f)
  <1> PICK s : s = Begun(now, c)
    OBVIOUS
  <1> PICK r : r = Begun(now + 1, c)
    OBVIOUS
  <1>1. /\ Window \in Nat \ {0} /\ Limit \in Nat /\ c.count \in Nat /\ c.expires \in Nat /\ s \in Int /\ s <= now
        /\ c.expires <= now + Window
        /\ s - 1 \in Int /\ s = IF c.count = 0 THEN now ELSE c.expires - Window
    BY LocalFacts
  <1>2. Many(E, s, now) \in Nat /\ Many(E, s, now) <= Limit /\ Many(E, s, now) <= c.count
    BY LocalFacts
  <1>3. r = (IF c.count = 0 THEN now + 1 ELSE s) /\ r \in Int /\ r - 1 \in Int /\ now + 1 \in Int
    BY <1>1 DEF Begun
  <1>4. Many(E, r, now + 1) \in Nat /\ Many(E, r, now + 1) <= Many(E, s, now)
    <2>1. ASSUME NEW e \in E PROVE e[4] \in r .. now + 1 => e[4] \in s .. now
      BY <1>1, <1>3, Entries
    <2> QED BY <1>1, <1>3, <2>1, Fits
  <1>5. ASSUME NEW t \in Int, t + Window > r PROVE Many(E, t, r - 1) <= Limit
    <2>1. CASE c.count = 0
      <3>1. Many(E, s, now) = 0 /\ s = now
        BY <1>1, <1>2, <2>1
      <3>2. In(E, s, now) = {}
        <4>1. IsFiniteSet(In(E, s, now))
          BY <1>1, InFinite
        <4> QED BY <3>1, <4>1, FS_EmptySet DEF Many
      <3>3. ASSUME NEW e \in E PROVE e[4] \in t .. r - 1 => e[4] \in t .. s - 1
        <4>1. e[4] \notin s .. now
          BY <3>2 DEF In
        <4> QED BY <1>1, <1>3, <2>1, <3>1, <4>1, Entries
      <3>4. Many(E, t, r - 1) \in Nat /\ Many(E, t, s - 1) \in Nat /\ Many(E, t, r - 1) <= Many(E, t, s - 1)
        BY <1>1, <1>3, <3>3, Fits
      <3>5. t + Window > s
        BY <1>1, <1>3, <1>5, <2>1, <3>1
      <3>6. Many(E, t, s - 1) <= Limit
        BY <3>5, Before
      <3> QED BY <1>1, <3>4, <3>6
    <2>2. CASE c.count # 0
      BY <1>3, <1>5, <2>2, Before
    <2> QED BY <2>1, <2>2
  <1>6. Many(E, r, now + 1) <= Limit /\ Many(E, r, now + 1) <= c.count
    BY <1>1, <1>2, <1>4
  <1>7. c \in Counter /\ c.expires <= now + 1 + Window /\ (c.count > 0 => c.expires >= f + Window)
    BY <1>1, LocalFacts
  <1>8. ASSUME NEW e \in E PROVE e[4] \in 0 .. now + 1 /\ (c.count > 0 => e[4] <= c.expires)
    BY Entries
  <1>9. now + 1 < f + Window => Many(E, f, f + Window - 1) <= c.count
    BY <1>1, LocalFacts
  <1>10. Many(E, f, f + Window - 1) <= Limit
    BY LocalFacts
  <1> QED BY <1>4, <1>5, <1>6, <1>7, <1>8, <1>9, <1>10, Before DEF LocalOK

(* A counter that has expired is dropped.                                  *)
LEMMA LocalSwept ==
  ASSUME Rate!RateAssumption, NEW E, IsFiniteSet(E), NEW now \in Nat, NEW f \in Nat, NEW c, LocalOK(E, now, c, f),
         now > c.expires, NEW w, w = [count |-> 0, expires |-> 0]
  PROVE  LocalOK(E, now, w, f)
  <1> PICK s : s = Begun(now, c)
    OBVIOUS
  <1>1. /\ Window \in Nat \ {0} /\ Limit \in Nat /\ c.count \in Nat /\ c.expires \in Nat /\ s \in Int /\ s <= now
        /\ s - 1 \in Int /\ s = IF c.count = 0 THEN now ELSE c.expires - Window
    BY LocalFacts
  <1>2. Many(E, s, now) \in Nat /\ Many(E, s, now) <= Limit /\ Many(E, s, now) <= c.count
    BY LocalFacts
  <1>3. w \in Counter /\ w.count = 0 /\ w.expires = 0 /\ Begun(now, w) = now
    BY DEF Counter, Begun
  <1>4. Many(E, now, now) = 0
    <2>1. CASE c.count = 0
      BY <1>1, <1>2, <2>1
    <2>2. CASE c.count # 0
      <3>1. ASSUME NEW e \in E PROVE e[4] \notin now .. now
        BY <1>1, <2>2, Entries
      <3>2. In(E, now, now) = {}
        BY <3>1 DEF In
      <3> QED BY <3>2, Counts
    <2> QED BY <2>1, <2>2
  <1>5. ASSUME NEW t \in Int, t + Window > now PROVE Many(E, t, now - 1) <= Limit
    <2>1. CASE c.count = 0
      BY <1>1, <1>5, <2>1, Before
    <2>2. CASE c.count # 0
      <3>1. t >= s
        BY <1>1, <1>5, <2>2
      <3>2. ASSUME NEW e \in E PROVE e[4] \in t .. now - 1 => e[4] \in s .. now
        BY <1>1, <3>1, Entries
      <3>3. now - 1 \in Int
        OBVIOUS
      <3>4. Many(E, t, now - 1) \in Nat /\ Many(E, s, now) \in Nat /\ Many(E, t, now - 1) <= Many(E, s, now)
        BY <1>1, <3>2, <3>3, Fits
      <3> QED BY <1>1, <1>2, <3>4
    <2> QED BY <2>1, <2>2
  <1>6. now < f + Window => Many(E, f, f + Window - 1) <= w.count
    <2>1. c.count > 0 => c.expires >= f + Window
      BY LocalFacts
    <2>2. now < f + Window => Many(E, f, f + Window - 1) <= c.count
      BY LocalFacts
    <2> QED BY <1>1, <1>3, <2>1, <2>2
  <1>7. w.expires <= now + Window /\ 0 <= Limit /\ ~(w.count > 0)
    BY <1>1, <1>3
  <1>8. ASSUME NEW e \in E PROVE e[4] \in 0 .. now
    BY Entries
  <1>9. Many(E, f, f + Window - 1) <= Limit
    BY LocalFacts
  <1>10. Many(E, Begun(now, w), now) <= Limit /\ Many(E, Begun(now, w), now) <= w.count
    BY <1>1, <1>3, <1>4
  <1>11. \A t \in Int : Many(E, t, t + Window - 1) <= 2 * Limit
    BY Before
  <1>12. \A t \in Int : t + Window > Begun(now, w) => Many(E, t, Begun(now, w) - 1) <= Limit
    BY <1>3, <1>5
  <1> QED BY <1>3, <1>6, <1>7, <1>8, <1>9, <1>10, <1>11, <1>12 DEF LocalOK


(* One request more is counted, and let through if the limit allows it.    *)
LEMMA LocalAdds ==
  ASSUME Rate!RateAssumption, NEW E, IsFiniteSet(E), NEW now \in Nat, NEW f \in Nat, NEW c, LocalOK(E, now, c, f),
         f <= now, NEW w \in Counter, w.count = c.count + 1, Begun(now, w) = Begun(now, c),
         now <= w.expires, w.expires <= now + Window, w.expires >= f + Window
  PROVE  /\ LocalOK(E, now, w, f)
         /\ \A x : x[4] = now /\ w.count <= Limit => LocalOK(E \cup {x}, now, w, f)
  <1> PICK s : s = Begun(now, c)
    OBVIOUS
  <1>1. /\ Window \in Nat \ {0} /\ Limit \in Nat /\ c.count \in Nat /\ s \in Int /\ s <= now /\ s - 1 \in Int
        /\ w.count \in Nat /\ w.expires \in Nat
    BY LocalFacts DEF Counter
  <1>2. Many(E, s, now) \in Nat /\ Many(E, s, now) <= Limit /\ Many(E, s, now) <= c.count
    BY LocalFacts
  <1>3. /\ Many(E, f, f + Window - 1) \in Nat /\ Many(E, f, f + Window - 1) <= Limit
        /\ now < f + Window => Many(E, f, f + Window - 1) <= c.count
    BY LocalFacts
  <1>4. ASSUME NEW e \in E PROVE e[4] \in Int /\ e[4] <= now /\ e[4] \in 0 .. now /\ e[4] <= w.expires
    BY <1>1, Entries
  <1>5. Begun(now, w) = s
    OBVIOUS
  <1>6. LocalOK(E, now, w, f)
    <2>1. Many(E, s, now) <= w.count /\ (now < f + Window => Many(E, f, f + Window - 1) <= w.count)
      BY <1>1, <1>2, <1>3
    <2> QED BY <1>2, <1>3, <1>4, <1>5, <2>1, Before DEF LocalOK
  <1>7. ASSUME NEW x, x[4] = now, w.count <= Limit PROVE LocalOK(E \cup {x}, now, w, f)
    <2> DEFINE F == E \cup {x}
    <2>1. IsFiniteSet(F)
      BY FS_AddElement
    <2>2. ASSUME NEW e \in F PROVE e[4] \in Int /\ e[4] <= now /\ e[4] \in 0 .. now /\ e[4] <= w.expires
      BY <1>4, <1>7
    <2> HIDE DEF F
    <2>3. Many(F, s, now) \in Nat /\ Many(F, s, now) <= Many(E, s, now) + 1
      <3>1. s \in Int /\ now \in Int
        BY <1>1
      <3> QED BY <3>1, Another, Zenon DEF F
    <2>4. Many(F, s, now) <= Limit /\ Many(F, s, now) <= w.count
      BY <1>1, <1>2, <1>7, <2>3
    <2>5. ASSUME NEW t \in Int, t + Window > s PROVE Many(F, t, s - 1) \in Nat /\ Many(F, t, s - 1) <= Limit
      <3>1. x[4] \notin t .. s - 1
        BY <1>1, <1>7
      <3>2. Many(F, t, s - 1) = Many(E, t, s - 1)
        BY <1>1, <3>1, Another DEF F
      <3> QED BY <2>5, <3>2, Before
    <2>6. ASSUME NEW t \in Int PROVE Many(F, t, t + Window - 1) <= 2 * Limit
      <3>1. t + Window - 1 \in Int
        BY <1>1
      <3>2. CASE t + Window > now
        <4>1. t + Window > s
          BY <1>1, <3>2
        <4>2. Many(F, t, s - 1) \in Nat /\ Many(F, t, s - 1) <= Limit
          BY <2>5, <4>1
        <4>3. Many(F, t, t + Window - 1) \in Nat /\ Many(F, t, t + Window - 1) <= Many(F, t, s - 1) + Many(F, s, now)
          BY <1>1, <2>1, <2>2, <3>1, Parts
        <4> QED BY <1>1, <2>3, <2>4, <4>2, <4>3
      <3>3. CASE ~(t + Window > now)
        <4>1. x[4] \notin t .. t + Window - 1
          BY <1>1, <1>7, <3>3
        <4>2. Many(F, t, t + Window - 1) = Many(E, t, t + Window - 1)
          BY <3>1, <4>1, Another DEF F
        <4> QED BY <4>2, Before
      <3> QED BY <3>2, <3>3
    <2>7. Many(F, f, f + Window - 1) <= Limit /\ (now < f + Window => Many(F, f, f + Window - 1) <= w.count)
      <3>1. f + Window - 1 \in Int
        BY <1>1
      <3>2. CASE now < f + Window
        <4>1. Many(F, f, f + Window - 1) \in Nat /\ Many(F, f, f + Window - 1) <= Many(E, f, f + Window - 1) + 1
          <5>1. f \in Int
            OBVIOUS
          <5> QED BY <3>1, <5>1, Another, Zenon DEF F
        <4> QED BY <1>1, <1>3, <1>7, <3>2, <4>1
      <3>3. CASE ~(now < f + Window)
        <4>1. x[4] \notin f .. f + Window - 1
          BY <1>1, <1>7, <3>3
        <4>2. Many(F, f, f + Window - 1) = Many(E, f, f + Window - 1)
          BY <3>1, <4>1, Another DEF F
        <4> QED BY <1>3, <3>3, <4>2
      <3> QED BY <3>2, <3>3
    <2> QED BY <1>5, <2>2, <2>4, <2>5, <2>6, <2>7 DEF LocalOK, F
  <1> QED BY <1>6, <1>7

LEMMA LocalCounts ==
  ASSUME Rate!RateAssumption, NEW E, IsFiniteSet(E), NEW now \in Nat, NEW f \in Nat, NEW c, LocalOK(E, now, c, f),
         f <= now,
         NEW w, w = IF c.count = 0 \/ now > c.expires THEN [count |-> 1, expires |-> now + Window]
                    ELSE [c EXCEPT !.count = @ + 1]
  PROVE  /\ LocalOK(E, now, w, f) /\ w.count <= c.count + 1
         /\ \A x : x[4] = now /\ w.count <= Limit => LocalOK(E \cup {x}, now, w, f)
  <1>1. /\ Window \in Nat \ {0} /\ c.count \in Nat /\ c.expires \in Nat /\ c \in Counter
        /\ c.expires <= now + Window /\ (c.count > 0 => c.expires >= f + Window)
    BY LocalFacts
  <1>2. CASE c.count = 0
    <2>1. w \in Counter /\ w.count = 1 /\ w.expires = now + Window
      BY <1>1, <1>2 DEF Counter
    <2>2. Begun(now, c) = now /\ Begun(now, w) = now
      BY <1>1, <1>2, <2>1 DEF Begun
    <2> QED BY <1>1, <1>2, <2>1, <2>2, LocalAdds
  <1>3. CASE c.count # 0 /\ now > c.expires
    <2>1. PICK z : z = [count |-> 0, expires |-> 0]
      OBVIOUS
    <2>2. LocalOK(E, now, z, f) /\ z.count = 0
      BY <1>3, <2>1, LocalSwept
    <2>3. w \in Counter /\ w.count = 1 /\ w.expires = now + Window
      BY <1>1, <1>3 DEF Counter
    <2>4. Begun(now, z) = now /\ Begun(now, w) = now
      BY <1>1, <2>2, <2>3 DEF Begun
    <2>5. LocalOK(E, now, w, f) /\ \A x : x[4] = now /\ w.count <= Limit => LocalOK(E \cup {x}, now, w, f)
      BY <1>1, <2>2, <2>3, <2>4, LocalAdds
    <2> QED BY <1>1, <1>3, <2>3, <2>5
  <1>4. CASE c.count # 0 /\ ~(now > c.expires)
    <2>1. w \in Counter /\ w.count = c.count + 1 /\ w.expires = c.expires
      BY <1>1, <1>4 DEF Counter
    <2>2. Begun(now, w) = Begun(now, c)
      BY <1>1, <1>4, <2>1 DEF Begun
    <2>3. now <= w.expires /\ w.expires <= now + Window /\ w.expires >= f + Window
      BY <1>1, <1>4, <2>1
    <2>4. LocalOK(E, now, w, f) /\ \A x : x[4] = now /\ w.count <= Limit => LocalOK(E \cup {x}, now, w, f)
      BY <2>1, <2>2, <2>3, LocalAdds
    <2>5. w.count <= c.count + 1
      BY <1>1, <2>1
    <2> QED BY <2>4, <2>5
  <1> QED BY <1>2, <1>3, <1>4


LEMMA Buckets ==
  ASSUME Rate!RateAssumption
  PROVE  /\ Window \in Nat \ {0} /\ Limit \in Nat /\ MaxTime \in Nat /\ "redis" \notin Replica
         /\ \A b \in Rate!Bucket : b \in Nat /\ b * Window \in Nat
         /\ \A t \in 0 .. MaxTime : t \div Window \in Rate!Bucket /\ (t \div Window) * Window <= t
  <1>1. Window \in Nat \ {0} /\ Limit \in Nat /\ MaxTime \in Nat /\ "redis" \notin Replica
    BY DEF Rate!RateAssumption
  <1>2. ASSUME NEW t \in 0 .. MaxTime PROVE t \div Window \in Rate!Bucket /\ (t \div Window) * Window <= t
    <2>1. t \div Window \in Nat /\ MaxTime \div Window \in Nat /\ (t \div Window) * Window <= t
      BY <1>1
    <2>2. t \div Window <= MaxTime \div Window
      BY <1>1, SMTT(30)
    <2> QED BY <2>1, <2>2 DEF Rate!Bucket
  <1>3. ASSUME NEW b \in Rate!Bucket PROVE b \in Nat /\ b * Window \in Nat
    BY <1>1, <1>3 DEF Rate!Bucket
  <1> QED BY <1>1, <1>2, <1>3

LEMMA JobsOfRate ==
  /\ \A j \in RateJob : /\ j.at \in {"new", "redis", "local", "passed", "refused"}
                        /\ j.at \in {"redis", "local"} => j \in Pending
  /\ \A j \in Pending : /\ j.at \in {"redis", "local"} /\ j.replica \in Replica /\ j.bucket \in Rate!Bucket
                        /\ j \in RateJob
  BY DEF RateJob, Pending

LEMMA OfFinite ==
  ASSUME Rate!RateAssumption, RateTypes, NEW b, NEW c
  PROVE  IsFiniteSet(Of(b, c)) /\ clock \in Nat /\ Of(b, c) \subseteq passed
  <1>1. Of(b, c) \in SUBSET passed
    BY DEF Of
  <1> QED BY <1>1, FS_Subset, Buckets DEF RateTypes, PassedSound

LEMMA RateStarts ==
  ASSUME Rate!RateAssumption, IsFiniteSet(RateRequest), Rate!Init
  PROVE  RateInv
  <1> PICK z : z = [count |-> 0, expires |-> 0]
    OBVIOUS
  <1>1. /\ clock = 0 /\ redis = [b \in Rate!Bucket |-> z]
        /\ local = [p \in Replica |-> [b \in Rate!Bucket |-> z]]
        /\ req = [q \in RateRequest |-> [at |-> "new"]] /\ passed = {}
    BY DEF Rate!Init, Rate!Fresh
  <1>2. z \in Counter /\ z.count = 0 /\ z.expires = 0 /\ Window \in Nat /\ Limit \in Nat /\ MaxTime \in Nat
    BY Buckets DEF Counter
  <1>3. IsFiniteSet({})
    BY FS_EmptySet
  <1>4. RateTypes
    BY <1>1, <1>2, <1>3 DEF RateTypes, PassedSound
  <1>5. RequestsSound
    BY <1>1 DEF RequestsSound, RateJob, Pending
  <1>6. \A t, u \in Int : Many({}, t, u) = 0
    <2>1. \A t, u \in Int : In({}, t, u) = {}
      BY DEF In
    <2> QED BY <1>3, <2>1, Counts
  <1>7. \A b, c : Of(b, c) = {}
    BY <1>1 DEF Of
  <1>8. RedisOK({}, 0, z)
    <2>1. \A t \in Int : t + Window - 1 \in Int
      BY <1>2
    <2>2. \A t \in Int : Many({}, t, t + Window - 1) = 0
      BY <1>6, <2>1
    <2> QED BY <1>2, <2>2 DEF RedisOK
  <1>9. ASSUME NEW f \in Nat PROVE LocalOK({}, 0, z, f)
    <2>1. Begun(0, z) = 0
      BY <1>2 DEF Begun
    <2>2. ASSUME NEW t \in Int PROVE Many({}, t, t + Window - 1) = 0 /\ Many({}, t, 0 - 1) = 0 /\ Many({}, t, 0) = 0
      <3>1. t + Window - 1 \in Int /\ 0 - 1 \in Int /\ 0 \in Int
        BY <1>2
      <3> QED BY <1>6, <3>1
    <2>3. Many({}, f, f + Window - 1) = 0 /\ Many({}, 0, 0) = 0
      BY <2>2
    <2>4. 0 <= 2 * Limit /\ 0 <= Limit /\ 0 <= 0 + Window
      BY <1>2
    <2> QED BY <1>2, <2>1, <2>2, <2>3, <2>4 DEF LocalOK
  <1>10. CountersSound
    BY <1>1, <1>7, <1>8, <1>9, Buckets DEF CountersSound
  <1>11. CountsBounded
    <2>1. Tried \in SUBSET RateRequest /\ Decided \in SUBSET RateRequest
      BY DEF Tried, Decided
    <2>2. Cardinality(Tried) \in Nat /\ Cardinality(Decided) \in Nat
      BY <2>1, Fewer
    <2> QED BY <1>1, <1>2, <2>2 DEF CountsBounded
  <1> QED BY <1>4, <1>5, <1>10, <1>11 DEF RateInv


LEMMA RequestMoves ==
  ASSUME RequestsSound, NEW q \in RateRequest, NEW j \in RateJob, req' = [req EXCEPT ![q] = j],
         clock' = clock, j \in Pending => j.bucket * Window <= clock
  PROVE  RequestsSound'
  <1> USE DEF RequestsSound
  <1>1. req' \in [RateRequest -> RateJob] /\ \A r \in RateRequest : req'[r] = IF r = q THEN j ELSE req[r]
    OBVIOUS
  <1> QED BY <1>1

(* A request that has counted itself is one of those that have.            *)
LEMMA OneMoreTried ==
  ASSUME IsFiniteSet(RateRequest), RequestsSound, NEW q \in RateRequest, NEW j \in RateJob,
         req' = [req EXCEPT ![q] = j],
         \/ req[q].at = "new" /\ j.at = "redis"
         \/ req[q].at = "redis" /\ j.at \in {"local", "passed", "refused"}
         \/ req[q].at = "local" /\ j.at \in {"passed", "refused"}
  PROVE  /\ Cardinality(Tried) \in Nat /\ Cardinality(Tried') \in Nat /\ Cardinality(Tried) <= Cardinality(Tried')
         /\ Cardinality(Decided) \in Nat /\ Cardinality(Decided') \in Nat
         /\ Cardinality(Decided) <= Cardinality(Decided')
         /\ req[q].at = "redis" => Cardinality(Tried') = Cardinality(Tried) + 1
         /\ req[q].at = "local" => Cardinality(Decided') = Cardinality(Decided) + 1
  <1>1. \A r \in RateRequest : req'[r] = IF r = q THEN j ELSE req[r]
    BY DEF RequestsSound
  <1>2. Tried \in SUBSET RateRequest /\ Decided \in SUBSET RateRequest
    BY DEF Tried, Decided
  <1>3. IsFiniteSet(Tried) /\ IsFiniteSet(Decided) /\ Cardinality(Tried) \in Nat /\ Cardinality(Decided) \in Nat
    BY <1>2, Fewer
  <1>4. Tried' = (IF req[q].at = "redis" THEN Tried \cup {q} ELSE Tried) /\ (req[q].at = "redis" => q \notin Tried)
    BY <1>1 DEF Tried
  <1>5. Decided' = (IF j.at = "redis" \/ j.at = "local" THEN Decided ELSE Decided \cup {q}) /\ q \notin Decided
    BY <1>1 DEF Decided
  <1>6. /\ Cardinality(Tried') \in Nat /\ Cardinality(Tried) <= Cardinality(Tried')
        /\ req[q].at = "redis" => Cardinality(Tried') = Cardinality(Tried) + 1
    <2>1. CASE req[q].at = "redis"
      <3>1. Cardinality(Tried \cup {q}) = Cardinality(Tried) + 1
        BY <1>3, <1>4, <2>1, FS_AddElement
      <3>2. Cardinality(Tried') = Cardinality(Tried) + 1
        BY <1>4, <2>1, <3>1
      <3> QED BY <1>3, <3>2
    <2>2. CASE req[q].at # "redis"
      BY <1>3, <1>4, <2>2
    <2> QED BY <2>1, <2>2
  <1>7. /\ Cardinality(Decided') \in Nat /\ Cardinality(Decided) <= Cardinality(Decided')
        /\ req[q].at = "local" => Cardinality(Decided') = Cardinality(Decided) + 1
    <2>1. CASE j.at = "redis" \/ j.at = "local"
      BY <1>3, <1>5, <2>1
    <2>2. CASE ~(j.at = "redis" \/ j.at = "local")
      <3>1. Cardinality(Decided \cup {q}) = Cardinality(Decided) + 1
        BY <1>3, <1>5, FS_AddElement
      <3>2. Cardinality(Decided') = Cardinality(Decided) + 1
        BY <1>5, <2>2, <3>1
      <3> QED BY <1>3, <3>2
    <2> QED BY <2>1, <2>2
  <1> QED BY <1>3, <1>6, <1>7

LEMMA Decides ==
  ASSUME Rate!RateAssumption, RateTypes, RequestsSound, NEW q \in RateRequest, NEW c \in Replica \cup {"redis"}, NEW n \in Nat,
         NEW b \in Rate!Bucket, req[q].bucket = b, Rate!Decide(q, c, n), clock' = clock
  PROVE  /\ PassedSound' /\ EntriesMove(b, c, n)
         /\ \E j \in RateJob : j.at \in {"passed", "refused"} /\ j \notin Pending /\ req' = [req EXCEPT ![q] = j]
  <1>1. \E j \in RateJob : j.at \in {"passed", "refused"} /\ j \notin Pending /\ req' = [req EXCEPT ![q] = j]
    <2>1. PICK j : j = [at |-> IF n > Limit THEN "refused" ELSE "passed"] /\ req' = [req EXCEPT ![q] = j]
      BY DEF Rate!Decide
    <2>2. j \in RateJob /\ j.at \in {"passed", "refused"}
      BY <2>1 DEF RateJob
    <2> QED BY <2>1, <2>2, JobsOfRate
  <1>2. PICK x : x = <<q, b, c, clock>>
    OBVIOUS
  <1>3. passed' = passed \/ (n <= Limit /\ passed' = passed \cup {x})
    BY <1>2, Buckets DEF Rate!Decide
  <1>4. /\ x[2] = b /\ x[3] = c /\ x[4] = clock /\ clock \in Nat
        /\ x \in RateRequest \X Rate!Bucket \X (Replica \cup {"redis"}) \X (0 .. clock)
    BY <1>2, Buckets DEF RateTypes
  <1>5. PassedSound'
    BY <1>3, <1>4, FS_AddElement DEF RateTypes, PassedSound
  <1>6. \A d, e : d # b \/ e # c => Of(d, e)' = Of(d, e)
    BY <1>3, <1>4 DEF Of
  <1>7. \/ Of(b, c)' = Of(b, c)
        \/ n <= Limit /\ Of(b, c)' = Of(b, c) \cup {x}
    BY <1>3, <1>4 DEF Of
  <1>8. \/ Of(b, c)' = Of(b, c)
        \/ n <= Limit /\ \E y : y[4] = clock /\ Of(b, c)' = Of(b, c) \cup {y}
    BY <1>4, <1>7
  <1> QED BY <1>1, <1>5, <1>6, <1>8 DEF EntriesMove


LEMMA ArriveStep ==
  ASSUME Rate!RateAssumption, IsFiniteSet(RateRequest), RateInv, NEW q \in RateRequest, Rate!Arrive(q)
  PROVE  RateInv'
  <1>1. PICK p \in Replica :
            /\ req[q].at = "new" /\ UNCHANGED <<clock, redis, local, passed>>
            /\ req' = [req EXCEPT ![q] = [at |-> "redis", replica |-> p, bucket |-> clock \div Window]]
    BY DEF Rate!Arrive
  <1> PICK j : j = [at |-> "redis", replica |-> p, bucket |-> clock \div Window]
    OBVIOUS
  <1>2. j \in RateJob /\ j.at = "redis" /\ j.bucket * Window <= clock
    <2>1. clock \div Window \in Rate!Bucket /\ (clock \div Window) * Window <= clock
      BY Buckets DEF RateInv, RateTypes
    <2>2. j \in Pending
      BY <1>1, <2>1 DEF Pending
    <2> QED BY <1>1, <2>1, <2>2, JobsOfRate
  <1>3. RequestsSound'
    BY <1>1, <1>2, RequestMoves DEF RateInv
  <1>4. RateTypes' /\ CountersSound'
    BY <1>1 DEF RateInv, RateTypes, PassedSound, CountersSound, Of
  <1>5. CountsBounded'
    <2>1. Cardinality(Tried) \in Nat /\ Cardinality(Tried') \in Nat /\ Cardinality(Tried) <= Cardinality(Tried')
          /\ Cardinality(Decided) \in Nat /\ Cardinality(Decided') \in Nat
          /\ Cardinality(Decided) <= Cardinality(Decided')
      BY <1>1, <1>2, OneMoreTried DEF RateInv
    <2>2. \A b \in Rate!Bucket : redis[b].count \in Nat /\ \A r \in Replica : local[r][b].count \in Nat
      BY DEF RateInv, RateTypes, Counter
    <2> QED BY <1>1, <2>1, <2>2 DEF RateInv, CountsBounded
  <1> QED BY <1>3, <1>4, <1>5 DEF RateInv

LEMMA RateClockStep ==
  ASSUME Rate!RateAssumption, IsFiniteSet(RateRequest), RateInv, Rate!Tick
  PROVE  RateInv'
  <1>1. clock \in 0 .. MaxTime /\ clock < MaxTime /\ clock' = clock + 1 /\ UNCHANGED <<redis, local, req, passed>>
    BY DEF Rate!Tick, RateInv, RateTypes
  <1>2. clock \in Nat /\ clock' \in 0 .. MaxTime /\ 0 .. clock \subseteq 0 .. clock'
    BY <1>1, Buckets
  <1>3. RateTypes'
    <2>1. RateTypes
      BY DEF RateInv
    <2>2. PassedSound'
      <3> PICK N : N = 0 .. clock
        OBVIOUS
      <3> PICK M : M = 0 .. clock'
        OBVIOUS
      <3>1. N \subseteq M /\ passed \subseteq RateRequest \X Rate!Bucket \X (Replica \cup {"redis"}) \X N
        BY <1>2, <2>1 DEF RateTypes, PassedSound
      <3> QED BY <1>1, <2>1, <3>1 DEF RateTypes, PassedSound
    <2> QED BY <1>1, <1>2, <2>1, <2>2 DEF RateTypes
  <1>4. RequestsSound'
    <2>1. \A q \in RateRequest : req[q] \in Pending => req[q].bucket * Window \in Nat
      BY Buckets, JobsOfRate
    <2> QED BY <1>1, <1>2, <2>1 DEF RateInv, RequestsSound
  <1>5. \A b, c : Of(b, c)' = Of(b, c)
    BY <1>1 DEF Of
  <1>6. ASSUME NEW b \in Rate!Bucket PROVE RedisOK(Of(b, "redis")', clock', redis'[b])
    <2>1. RedisOK(Of(b, "redis"), clock, redis[b])
      BY DEF RateInv, CountersSound
    <2>2. RedisOK(Of(b, "redis"), clock + 1, redis[b])
      BY <1>2, <2>1, RedisTick
    <2> QED BY <1>1, <1>5, <2>2
  <1>7. ASSUME NEW b \in Rate!Bucket, NEW p \in Replica PROVE LocalOK(Of(b, p)', clock', local'[p][b], b * Window)
    <2>1. LocalOK(Of(b, p), clock, local[p][b], b * Window) /\ IsFiniteSet(Of(b, p)) /\ b * Window \in Nat
      BY Buckets, OfFinite DEF RateInv, CountersSound
    <2>2. LocalOK(Of(b, p), clock + 1, local[p][b], b * Window)
      BY <1>2, <2>1, LocalTick
    <2> QED BY <1>1, <1>5, <2>2
  <1>8. CountersSound'
    BY <1>6, <1>7 DEF CountersSound
  <1>9. CountsBounded'
    BY <1>1 DEF RateInv, CountsBounded, Tried, Decided
  <1> QED BY <1>3, <1>4, <1>8, <1>9 DEF RateInv

LEMMA SweepStep ==
  ASSUME Rate!RateAssumption, IsFiniteSet(RateRequest), RateInv, NEW p \in Replica, Rate!Sweep(p)
  PROVE  RateInv'
  <1> PICK z : z = [count |-> 0, expires |-> 0]
    OBVIOUS
  <1>1. /\ local' = [local EXCEPT ![p] = [b \in Rate!Bucket |-> IF clock > local[p][b].expires THEN z ELSE local[p][b]]]
        /\ UNCHANGED <<clock, redis, req, passed>>
    BY DEF Rate!Sweep, Rate!Swept, Rate!Fresh
  <1>2. local \in [Replica -> [Rate!Bucket -> Counter]] /\ z \in Counter /\ z.count = 0 /\ clock \in Nat
    BY DEF RateInv, RateTypes, Counter
  <1>3. /\ local' \in [Replica -> [Rate!Bucket -> Counter]]
        /\ \A r \in Replica, b \in Rate!Bucket :
               local'[r][b] = local[r][b] \/ (clock > local[r][b].expires /\ local'[r][b] = z)
    BY <1>1, <1>2
  <1>4. RateTypes' /\ RequestsSound'
    BY <1>1, <1>3 DEF RateInv, RateTypes, PassedSound, RequestsSound
  <1>5. \A b, c : Of(b, c)' = Of(b, c)
    BY <1>1 DEF Of
  <1>6. ASSUME NEW b \in Rate!Bucket, NEW r \in Replica PROVE LocalOK(Of(b, r)', clock', local'[r][b], b * Window)
    <2>1. LocalOK(Of(b, r), clock, local[r][b], b * Window) /\ IsFiniteSet(Of(b, r)) /\ b * Window \in Nat
      BY Buckets, OfFinite DEF RateInv, CountersSound
    <2>2. LocalOK(Of(b, r), clock, local'[r][b], b * Window)
      BY <1>2, <1>3, <2>1, LocalSwept
    <2> QED BY <1>1, <1>5, <2>2
  <1>7. CountersSound'
    BY <1>1, <1>5, <1>6 DEF RateInv, CountersSound
  <1>8. CountsBounded'
    <2>1. Tried' = Tried /\ Decided' = Decided
      BY <1>1 DEF Tried, Decided
    <2>2. Decided \in SUBSET RateRequest
      BY DEF Decided
    <2>3. Cardinality(Decided) \in Nat
      BY <2>2, Fewer
    <2> QED BY <1>1, <1>2, <1>3, <2>1, <2>3 DEF RateInv, CountsBounded
  <1> QED BY <1>4, <1>7, <1>8 DEF RateInv


(* The counter of Redis for a bucket after one more request.               *)
LEMMA RedisWrites ==
  ASSUME Rate!RateAssumption, RateInv, NEW q \in RateRequest, NEW b \in Rate!Bucket, NEW w, w = Rate!RedisIncr(redis[b])
  PROVE  /\ w \in Counter /\ w.count \in Nat /\ redis[b].count \in Nat /\ w.count <= redis[b].count + 1
         /\ RedisOK(Of(b, "redis"), clock, w)
         /\ \A x : x[4] = clock /\ w.count <= Limit => RedisOK(Of(b, "redis") \cup {x}, clock, w)
  <1>1. RedisOK(Of(b, "redis"), clock, redis[b]) /\ IsFiniteSet(Of(b, "redis")) /\ clock \in Nat
    BY OfFinite DEF RateInv, CountersSound
  <1>2. w = [count |-> (IF clock >= redis[b].expires THEN 0 ELSE redis[b].count) + 1, expires |-> clock + Window]
    BY DEF Rate!RedisIncr
  <1>3. RedisOK(Of(b, "redis"), clock, w) /\ \A x : x[4] = clock /\ w.count <= Limit => RedisOK(Of(b, "redis") \cup {x}, clock, w)
    BY <1>1, <1>2, RedisCounts
  <1>4. redis[b] \in Counter
    BY DEF RateInv, RateTypes
  <1>5. w \in Counter
    BY <1>3 DEF RedisOK
  <1>6. redis[b].count \in Nat /\ redis[b].expires \in Nat /\ w.count \in Nat
    BY <1>4, <1>5 DEF Counter
  <1>7. w.count <= redis[b].count + 1
    BY <1>1, <1>2, <1>6
  <1> QED BY <1>3, <1>5, <1>6, <1>7

LEMMA CountInRedisStep ==
  ASSUME Rate!RateAssumption, IsFiniteSet(RateRequest), RateInv, NEW q \in RateRequest, Rate!CountInRedis(q)
  PROVE  RateInv'
  <1> PICK b : b = req[q].bucket
    OBVIOUS
  <1> PICK w : w = Rate!RedisIncr(redis[b])
    OBVIOUS
  <1>1. /\ req[q].at = "redis" /\ redis' = [redis EXCEPT ![b] = w] /\ Rate!Decide(q, "redis", redis'[b].count)
        /\ UNCHANGED <<clock, local>>
    BY DEF Rate!CountInRedis
  <1>2. req[q] \in Pending /\ b \in Rate!Bucket
    BY <1>1, JobsOfRate DEF RateInv, RequestsSound
  <1>3. /\ w \in Counter /\ w.count \in Nat /\ redis[b].count \in Nat /\ w.count <= redis[b].count + 1
        /\ RedisOK(Of(b, "redis"), clock, w)
        /\ \A x : x[4] = clock /\ w.count <= Limit => RedisOK(Of(b, "redis") \cup {x}, clock, w)
    BY <1>2, RedisWrites
  <1>4. /\ redis' \in [Rate!Bucket -> Counter] /\ redis'[b] = w
        /\ \A d \in Rate!Bucket : d # b => redis'[d] = redis[d]
    BY <1>1, <1>2, <1>3 DEF RateInv, RateTypes
  <1>5. Rate!Decide(q, "redis", w.count)
    BY <1>1, <1>4
  <1>6. /\ PassedSound' /\ EntriesMove(b, "redis", w.count)
        /\ \E j \in RateJob : j.at \in {"passed", "refused"} /\ j \notin Pending /\ req' = [req EXCEPT ![q] = j]
    <2>1. RateTypes /\ RequestsSound /\ clock' = clock /\ req[q].bucket = b
      BY <1>1 DEF RateInv
    <2> QED BY <1>2, <1>3, <1>5, <2>1, Decides
  <1>7. PICK j \in RateJob : j.at \in {"passed", "refused"} /\ j \notin Pending /\ req' = [req EXCEPT ![q] = j]
    BY <1>6
  <1>8. RateTypes'
    BY <1>1, <1>4, <1>6 DEF RateInv, RateTypes
  <1>9. RequestsSound'
    BY <1>1, <1>7, RequestMoves DEF RateInv
  <1>10. CountersSound'
    <2>1. ASSUME NEW d \in Rate!Bucket PROVE RedisOK(Of(d, "redis")', clock', redis'[d])
      <3>1. CASE d = b
        BY <1>1, <1>3, <1>4, <1>6, <3>1 DEF EntriesMove
      <3>2. CASE d # b
        BY <1>1, <1>4, <1>6, <3>2 DEF RateInv, CountersSound, EntriesMove
      <3> QED BY <3>1, <3>2
    <2>2. ASSUME NEW d \in Rate!Bucket, NEW p \in Replica PROVE LocalOK(Of(d, p)', clock', local'[p][d], d * Window)
      <3>1. p # "redis"
        BY Buckets
      <3> QED BY <1>1, <1>6, <3>1 DEF RateInv, CountersSound, EntriesMove
    <2> QED BY <2>1, <2>2 DEF CountersSound
  <1>11. CountsBounded'
    <2>1. /\ Cardinality(Tried) \in Nat /\ Cardinality(Tried') = Cardinality(Tried) + 1
          /\ Cardinality(Decided) \in Nat /\ Cardinality(Decided') \in Nat
          /\ Cardinality(Decided) <= Cardinality(Decided')
      BY <1>1, <1>7, OneMoreTried DEF RateInv
    <2>2. \A d \in Rate!Bucket : redis[d].count \in Nat /\ \A r \in Replica : local[r][d].count \in Nat
      BY DEF RateInv, RateTypes, Counter
    <2>3. ASSUME NEW d \in Rate!Bucket PROVE redis'[d].count <= Cardinality(Tried')
      <3>1. redis[d].count <= Cardinality(Tried) /\ redis[b].count <= Cardinality(Tried)
        BY <1>2 DEF RateInv, CountsBounded
      <3>2. redis'[d] = w \/ redis'[d] = redis[d]
        BY <1>4
      <3> QED BY <1>3, <2>1, <2>2, <3>1, <3>2
    <2>4. ASSUME NEW d \in Rate!Bucket, NEW p \in Replica PROVE local'[p][d].count <= Cardinality(Decided')
      <3>1. local[p][d].count <= Cardinality(Decided)
        BY DEF RateInv, CountsBounded
      <3> QED BY <1>1, <2>1, <2>2, <3>1
    <2> QED BY <2>3, <2>4 DEF CountsBounded
  <1> QED BY <1>8, <1>9, <1>10, <1>11 DEF RateInv

LEMMA RedisFailsStep ==
  ASSUME Rate!RateAssumption, IsFiniteSet(RateRequest), RateInv, NEW q \in RateRequest, Rate!RedisFails(q)
  PROVE  RateInv'
  <1> PICK b : b = req[q].bucket
    OBVIOUS
  <1> PICK w : w = Rate!RedisIncr(redis[b])
    OBVIOUS
  <1> PICK j : j = [req[q] EXCEPT !.at = "local"]
    OBVIOUS
  <1>1. /\ req[q].at = "redis" /\ (redis' = redis \/ redis' = [redis EXCEPT ![b] = w])
        /\ req' = [req EXCEPT ![q] = j] /\ UNCHANGED <<clock, local, passed>>
    BY DEF Rate!RedisFails
  <1>2. req[q] \in Pending /\ b \in Rate!Bucket /\ b * Window <= clock
    BY <1>1, JobsOfRate DEF RateInv, RequestsSound
  <1>3. j \in Pending /\ j \in RateJob /\ j.at = "local" /\ j.bucket = b
    <2>1. j \in Pending /\ j.at = "local" /\ j.bucket = b
      BY <1>2 DEF Pending
    <2> QED BY <2>1, JobsOfRate
  <1>4. /\ w \in Counter /\ w.count \in Nat /\ redis[b].count \in Nat /\ w.count <= redis[b].count + 1
        /\ RedisOK(Of(b, "redis"), clock, w)
    BY <1>2, RedisWrites
  <1>5. /\ redis' \in [Rate!Bucket -> Counter]
        /\ \A d \in Rate!Bucket : redis'[d] = redis[d] \/ (d = b /\ redis'[d] = w)
    BY <1>1, <1>2, <1>4 DEF RateInv, RateTypes
  <1>6. RateTypes'
    BY <1>1, <1>5 DEF RateInv, RateTypes, PassedSound
  <1>7. RequestsSound'
    BY <1>1, <1>2, <1>3, RequestMoves DEF RateInv
  <1>8. CountersSound'
    <2>1. \A d, e : Of(d, e)' = Of(d, e)
      BY <1>1 DEF Of
    <2> QED BY <1>1, <1>4, <1>5, <2>1 DEF RateInv, CountersSound
  <1>9. CountsBounded'
    <2>1. /\ Cardinality(Tried) \in Nat /\ Cardinality(Tried') = Cardinality(Tried) + 1
          /\ Cardinality(Decided) \in Nat /\ Cardinality(Decided') \in Nat
          /\ Cardinality(Decided) <= Cardinality(Decided')
      BY <1>1, <1>3, OneMoreTried DEF RateInv
    <2>2. \A d \in Rate!Bucket : redis[d].count \in Nat /\ \A r \in Replica : local[r][d].count \in Nat
      BY DEF RateInv, RateTypes, Counter
    <2>3. ASSUME NEW d \in Rate!Bucket PROVE redis'[d].count <= Cardinality(Tried')
      <3>1. redis[d].count <= Cardinality(Tried) /\ redis[b].count <= Cardinality(Tried)
        BY <1>2 DEF RateInv, CountsBounded
      <3> QED BY <1>4, <1>5, <2>1, <2>2, <3>1
    <2>4. ASSUME NEW d \in Rate!Bucket, NEW p \in Replica PROVE local'[p][d].count <= Cardinality(Decided')
      <3>1. local[p][d].count <= Cardinality(Decided)
        BY DEF RateInv, CountsBounded
      <3> QED BY <1>1, <2>1, <2>2, <3>1
    <2> QED BY <2>3, <2>4 DEF CountsBounded
  <1> QED BY <1>6, <1>7, <1>8, <1>9 DEF RateInv

LEMMA CountLocallyStep ==
  ASSUME Rate!RateAssumption, IsFiniteSet(RateRequest), RateInv, NEW q \in RateRequest, Rate!CountLocally(q)
  PROVE  RateInv'
  <1> PICK b : b = req[q].bucket
    OBVIOUS
  <1> PICK p : p = req[q].replica
    OBVIOUS
  <1> PICK c : c = local[p][b]
    OBVIOUS
  <1> PICK w : w = Rate!LocalIncr(c)
    OBVIOUS
  <1>1. /\ req[q].at = "local" /\ local' = [local EXCEPT ![p] = [local[p] EXCEPT ![b] = w]]
        /\ Rate!Decide(q, p, local'[p][b].count) /\ UNCHANGED <<clock, redis>>
    BY DEF Rate!CountLocally
  <1>2. req[q] \in Pending /\ b \in Rate!Bucket /\ p \in Replica /\ b * Window <= clock /\ b * Window \in Nat /\ p # "redis"
    BY <1>1, JobsOfRate, Buckets DEF RateInv, RequestsSound
  <1>3. /\ clock \in Nat /\ LocalOK(Of(b, p), clock, c, b * Window) /\ IsFiniteSet(Of(b, p)) /\ c.count \in Nat
        /\ local \in [Replica -> [Rate!Bucket -> Counter]]
    BY <1>2, OfFinite DEF RateInv, RateTypes, CountersSound, Counter
  <1>4. /\ LocalOK(Of(b, p), clock, w, b * Window) /\ w.count <= c.count + 1
        /\ \A x : x[4] = clock /\ w.count <= Limit => LocalOK(Of(b, p) \cup {x}, clock, w, b * Window)
    <2>1. w = IF c.count = 0 \/ clock > c.expires THEN [count |-> 1, expires |-> clock + Window]
              ELSE [c EXCEPT !.count = @ + 1]
      BY DEF Rate!LocalIncr
    <2> QED BY <1>2, <1>3, <2>1, LocalCounts
  <1>5. w \in Counter /\ w.count \in Nat
    BY <1>4 DEF LocalOK, Counter
  <1>6. /\ local' \in [Replica -> [Rate!Bucket -> Counter]] /\ local'[p][b] = w
        /\ \A r \in Replica, d \in Rate!Bucket : r # p \/ d # b => local'[r][d] = local[r][d]
    BY <1>1, <1>2, <1>3, <1>5
  <1>7. Rate!Decide(q, p, w.count)
    BY <1>1, <1>6
  <1>8. /\ PassedSound' /\ EntriesMove(b, p, w.count)
        /\ \E j \in RateJob : j.at \in {"passed", "refused"} /\ j \notin Pending /\ req' = [req EXCEPT ![q] = j]
    <2>1. RateTypes /\ RequestsSound /\ clock' = clock /\ req[q].bucket = b
      BY <1>1 DEF RateInv
    <2> QED BY <1>2, <1>5, <1>7, <2>1, Decides
  <1>9. PICK j \in RateJob : j.at \in {"passed", "refused"} /\ j \notin Pending /\ req' = [req EXCEPT ![q] = j]
    BY <1>8
  <1>10. RateTypes'
    BY <1>1, <1>6, <1>8 DEF RateInv, RateTypes
  <1>11. RequestsSound'
    BY <1>1, <1>9, RequestMoves DEF RateInv
  <1>12. CountersSound'
    <2>1. ASSUME NEW d \in Rate!Bucket PROVE RedisOK(Of(d, "redis")', clock', redis'[d])
      BY <1>1, <1>2, <1>8 DEF RateInv, CountersSound, EntriesMove
    <2>2. ASSUME NEW d \in Rate!Bucket, NEW r \in Replica PROVE LocalOK(Of(d, r)', clock', local'[r][d], d * Window)
      <3>1. CASE d = b /\ r = p
        <4>1. LocalOK(Of(b, p)', clock, w, b * Window)
          BY <1>4, <1>8 DEF EntriesMove
        <4> QED BY <1>1, <1>6, <3>1, <4>1
      <3>2. CASE d # b \/ r # p
        <4>1. LocalOK(Of(d, r), clock, local[r][d], d * Window)
          BY DEF RateInv, CountersSound
        <4>2. Of(d, r)' = Of(d, r) /\ local'[r][d] = local[r][d]
          BY <1>6, <1>8, <3>2 DEF EntriesMove
        <4> QED BY <1>1, <4>1, <4>2
      <3> QED BY <3>1, <3>2
    <2> QED BY <2>1, <2>2 DEF CountersSound
  <1>13. CountsBounded'
    <2>1. /\ Cardinality(Tried) \in Nat /\ Cardinality(Tried') \in Nat /\ Cardinality(Tried) <= Cardinality(Tried')
          /\ Cardinality(Decided) \in Nat /\ Cardinality(Decided') = Cardinality(Decided) + 1
      BY <1>1, <1>9, OneMoreTried DEF RateInv
    <2>2. \A d \in Rate!Bucket : redis[d].count \in Nat /\ \A r \in Replica : local[r][d].count \in Nat
      BY DEF RateInv, RateTypes, Counter
    <2>3. ASSUME NEW d \in Rate!Bucket PROVE redis'[d].count <= Cardinality(Tried')
      <3>1. redis[d].count <= Cardinality(Tried)
        BY DEF RateInv, CountsBounded
      <3> QED BY <1>1, <2>1, <2>2, <3>1
    <2>4. ASSUME NEW d \in Rate!Bucket, NEW r \in Replica PROVE local'[r][d].count <= Cardinality(Decided')
      <3>1. local[r][d].count <= Cardinality(Decided) /\ c.count <= Cardinality(Decided)
        BY <1>2 DEF RateInv, CountsBounded
      <3>2. local'[r][d] = w \/ local'[r][d] = local[r][d]
        BY <1>6
      <3>3. w.count <= c.count + 1 /\ w.count \in Nat /\ c.count \in Nat
        BY <1>3, <1>4, <1>5
      <3>4. local[r][d].count \in Nat
        BY <2>2
      <3> QED BY <2>1, <3>1, <3>2, <3>3, <3>4
    <2> QED BY <2>3, <2>4 DEF CountsBounded
  <1> QED BY <1>10, <1>11, <1>12, <1>13 DEF RateInv


LEMMA RateMoves ==
  ASSUME Rate!RateAssumption, IsFiniteSet(RateRequest), RateInv, [Rate!Next]_(Rate!vars)
  PROVE  RateInv'
  <1>1. ASSUME Rate!Tick PROVE RateInv'
    BY <1>1, RateClockStep
  <1>2. ASSUME NEW q \in RateRequest, Rate!Arrive(q) PROVE RateInv'
    BY <1>2, ArriveStep
  <1>3. ASSUME NEW q \in RateRequest, Rate!CountInRedis(q) PROVE RateInv'
    BY <1>3, CountInRedisStep
  <1>4. ASSUME NEW q \in RateRequest, Rate!RedisFails(q) PROVE RateInv'
    BY <1>4, RedisFailsStep
  <1>5. ASSUME NEW q \in RateRequest, Rate!CountLocally(q) PROVE RateInv'
    BY <1>5, CountLocallyStep
  <1>6. ASSUME NEW p \in Replica, Rate!Sweep(p) PROVE RateInv'
    BY <1>6, SweepStep
  <1>7. CASE UNCHANGED Rate!vars
    <2>1. UNCHANGED <<clock, redis, local, req, passed>>
      BY <1>7 DEF Rate!vars
    <2>2. RateTypes' /\ RequestsSound' /\ CountsBounded'
      BY <2>1 DEF RateInv, RateTypes, PassedSound, RequestsSound, CountsBounded, Tried, Decided
    <2>3. CountersSound'
      BY <2>1 DEF RateInv, CountersSound, Of
    <2> QED BY <2>2, <2>3 DEF RateInv
  <1> QED BY <1>1, <1>2, <1>3, <1>4, <1>5, <1>6, <1>7 DEF Rate!Next

LEMMA RateBounds ==
  ASSUME Rate!RateAssumption, IsFiniteSet(RateRequest), RateInv
  PROVE  Rate!TypeOK /\ Rate!LimitPerCounter
  <1>1. \A S : Rate!Cardinality(S) = Cardinality(S)
    BY DEF Rate!Cardinality, Cardinality
  <1>2. \A b, c, t, u : Rate!Counted(b, c, t, u) = Many(Of(b, c), t, u)
    <2> SUFFICES ASSUME NEW b, NEW c, NEW t, NEW u PROVE Rate!Counted(b, c, t, u) = Many(Of(b, c), t, u)
      OBVIOUS
    <2>1. {e \in passed : e[2] = b /\ e[3] = c /\ e[4] \in t .. u} = In(Of(b, c), t, u)
      BY DEF In, Of
    <2> QED BY <1>1, <2>1 DEF Rate!Counted, Many
  <1>3. /\ \A b \in Rate!Bucket : RedisOK(Of(b, "redis"), clock, redis[b])
        /\ \A p \in Replica, b \in Rate!Bucket : LocalOK(Of(b, p), clock, local[p][b], b * Window)
        /\ clock \in 0 .. MaxTime
    BY DEF RateInv, CountersSound, RateTypes
  <1>4. Rate!LimitPerCounter
    <2> SUFFICES ASSUME NEW b \in Rate!Bucket
                 PROVE  /\ \A c \in Replica \cup {"redis"} :
                              Rate!Counted(b, c, b * Window, b * Window + Window - 1) <= Limit
                        /\ \A t \in 0 .. MaxTime :
                              /\ Rate!Counted(b, "redis", t, t + Window - 1) <= Limit
                              /\ \A p \in Replica : Rate!Counted(b, p, t, t + Window - 1) <= 2 * Limit
      BY DEF Rate!LimitPerCounter
    <2>1. b * Window \in Int /\ Window \in Nat
      BY Buckets
    <2>2. \A t \in Int : Many(Of(b, "redis"), t, t + Window - 1) <= Limit
      BY <1>3 DEF RedisOK
    <2>3. ASSUME NEW p \in Replica
          PROVE  /\ Many(Of(b, p), b * Window, b * Window + Window - 1) <= Limit
                 /\ \A t \in Int : Many(Of(b, p), t, t + Window - 1) <= 2 * Limit
      BY <1>3 DEF LocalOK
    <2>4. \A c \in Replica \cup {"redis"} : Many(Of(b, c), b * Window, b * Window + Window - 1) <= Limit
      BY <2>1, <2>2, <2>3
    <2>5. \A t \in 0 .. MaxTime : t \in Int
      OBVIOUS
    <2> QED BY <1>2, <2>2, <2>3, <2>4, <2>5
  <1>5. Rate!TypeOK
    <2>1. Tried \in SUBSET RateRequest /\ Decided \in SUBSET RateRequest
      BY DEF Tried, Decided
    <2>2. /\ Cardinality(RateRequest) \in Nat
          /\ Cardinality(Tried) \in Nat /\ Cardinality(Tried) <= Cardinality(RateRequest)
          /\ Cardinality(Decided) \in Nat /\ Cardinality(Decided) <= Cardinality(RateRequest)
      BY <2>1, Fewer
    <2>3. /\ redis \in [Rate!Bucket -> Counter] /\ local \in [Replica -> [Rate!Bucket -> Counter]]
          /\ \A b \in Rate!Bucket : redis[b].count <= Cardinality(Tried)
          /\ \A p \in Replica, b \in Rate!Bucket : local[p][b].count <= Cardinality(Decided)
      BY DEF RateInv, RateTypes, CountsBounded
    <2>4. MaxTime \in Nat /\ Window \in Nat /\ clock \in Nat /\ clock <= MaxTime
      BY <1>3, Buckets
    <2>5. ASSUME NEW b \in Rate!Bucket
          PROVE  redis[b].count \in 0 .. Cardinality(RateRequest) /\ redis[b].expires \in 0 .. MaxTime + Window
      <3>1. redis[b].count \in Nat /\ redis[b].expires \in Nat /\ redis[b].count <= Cardinality(Tried)
        BY <2>3 DEF Counter
      <3>2. redis[b].expires <= clock + Window
        BY <1>3 DEF RedisOK
      <3> QED BY <2>2, <2>4, <3>1, <3>2
    <2>6. ASSUME NEW b \in Rate!Bucket, NEW p \in Replica
          PROVE  local[p][b].count \in 0 .. Cardinality(RateRequest) /\ local[p][b].expires \in 0 .. MaxTime + Window
      <3>1. local[p][b].count \in Nat /\ local[p][b].expires \in Nat /\ local[p][b].count <= Cardinality(Decided)
        BY <2>3 DEF Counter
      <3>2. local[p][b].expires <= clock + Window
        BY <1>3 DEF LocalOK
      <3> QED BY <2>2, <2>4, <3>1, <3>2
    <2>7. passed \subseteq RateRequest \X Rate!Bucket \X (Replica \cup {"redis"}) \X (0 .. MaxTime)
      <3> PICK N : N = 0 .. clock
        OBVIOUS
      <3> PICK M : M = 0 .. MaxTime
        OBVIOUS
      <3>1. N \subseteq M /\ passed \subseteq RateRequest \X Rate!Bucket \X (Replica \cup {"redis"}) \X N
        BY <2>4 DEF RateInv, RateTypes, PassedSound
      <3> QED BY <3>1
    <2> QED BY <1>1, <1>3, <2>5, <2>6, <2>7 DEF Rate!TypeOK, Rate!Bounded
  <1> QED BY <1>4, <1>5

(* However often Redis comes and goes, whatever expires or is swept and    *)
(* however late a request is counted, no counter lets more than the limit  *)
(* through in the window of its bucket; Redis not in any stretch of that   *)
(* length either, and a replica at most the limit twice.                   *)
THEOREM CountersKeepTheLimit ==
  ASSUME Rate!RateAssumption, IsFiniteSet(RateRequest)
  PROVE  Rate!Spec => [](Rate!TypeOK /\ Rate!LimitPerCounter)
  <1>1. Rate!Init => RateInv
    BY RateStarts
  <1>2. RateInv /\ [Rate!Next]_(Rate!vars) => RateInv'
    BY RateMoves
  <1>3. RateInv => Rate!TypeOK /\ Rate!LimitPerCounter
    BY RateBounds
  <1> QED BY <1>1, <1>2, <1>3, PTL DEF Rate!Spec


=============================================================================
