----------------------------- MODULE MCIdentity -----------------------------
(* Who may use the system, side by side: refresh tokens and reset links,   *)
(* accounts and their confirmation, the key cache of the OIDC issuer, the  *)
(* OAuth connections and the rate limiter in front of them.  A behaviour   *)
(* takes the steps of the component that `concern` names, and leaves the  *)
(* others where they begin.                                                *)
EXTENDS Integers

VARIABLES
    concern,
    sessionNow, password, token, link, sessionJob, redeemed, raced,                \* Sessions
    exists, verified, linked, accountPassword, accountLink, invite,
    session, accountJob,                                   \* Accounts
    jwksNow, offered, since, entry, asking, reply, keyAnswer, served, early, \* JwksCache
    states, rows, oauthJob, grants, ids, minted, origin, given,      \* OAuthConnections
    clock, redis, local, req, passed                                 \* RateLimit

sessionVars == <<sessionNow, password, token, link, sessionJob, redeemed, raced>>
accountVars == <<exists, verified, linked, accountPassword, accountLink, invite, session, accountJob>>
jwksVars == <<jwksNow, offered, since, entry, asking, reply, keyAnswer, served, early>>
oauthVars == <<states, rows, oauthJob, grants, ids, minted, origin, given>>
rateVars == <<clock, redis, local, req, passed>>
identityVars == <<concern, sessionVars, accountVars, jwksVars, oauthVars, rateVars>>

-----------------------------------------------------------------------------
(* Two requests of one account at a time, and a reset link; and two links  *)
(* that were mailed at once.                                               *)
Tokens == INSTANCE Sessions WITH
    now <- sessionNow, job <- sessionJob,
    Request <- {"q1", "q2"}, Token <- {"t1", "t2", "t3"}, Link <- {"k1"}, Grace <- 1, TokenTTL <- 2, LinkTTL <- 2,
    LinkPause <- 1, MaxClock <- 2
Resets == INSTANCE Sessions WITH
    now <- sessionNow, job <- sessionJob,
    Request <- {"q1", "q2"}, Token <- {"t1"}, Link <- {"k1", "k2"}, Grace <- 1, TokenTTL <- 2, LinkTTL <- 2,
    LinkPause <- 1, MaxClock <- 2

(* Three concurrent requests about one address.                            *)
Address == INSTANCE Accounts WITH
    password <- accountPassword, link <- accountLink, job <- accountJob,
    Email <- {"e1"}, Request <- {"q1", "q2", "q3"}, Fresh <- FALSE

(* Two keys and one of a type that is not supported.                       *)
Issuer == INSTANCE JwksCache WITH
    now <- jwksNow, answer <- keyAnswer, Kid <- {"k1", "k2", "odd"}, Odd <- {"odd"},
    MaxAge <- 3, Backoff <- 2, MaxClock <- 4

(* Two users and every provider; and one connection with three consents.   *)
Connect == INSTANCE OAuthConnections WITH
    job <- oauthJob, User <- {"u1", "u2"}, Provider <- {"google", "microsoft", "zendesk"},
    Nonce <- {"n1", "n2"}, Request <- {"q1", "q2"}, MaxGrant <- 2, MaxId <- 2
Refresh == INSTANCE OAuthConnections WITH
    job <- oauthJob, User <- {"u1"}, Provider <- {"google"},
    Nonce <- {"n1", "n2", "n3"}, Request <- {"q1", "q2"}, MaxGrant <- 3, MaxId <- 2

(* Three requests, two replicas and one request per window.                *)
Limiter == INSTANCE RateLimit WITH
    Request <- {"q1", "q2", "q3"}, Replica <- {"r1", "r2"}, Limit <- 1, Window <- 2, MaxTime <- 3

ASSUME IdentityAssumption ==
    /\ Tokens!SessionsAssumption /\ Resets!SessionsAssumption /\ Address!FreshAssumption /\ Issuer!JwksAssumption
    /\ Connect!OAuthAssumption /\ Refresh!OAuthAssumption
    /\ Limiter!RateAssumption

-----------------------------------------------------------------------------
IdentityInit ==
    /\ concern \in {"sessions", "resets", "accounts", "issuer", "connect", "refresh", "limiter"}
    /\ IF concern = "resets" THEN Resets!Init ELSE Tokens!Init
    /\ Address!Init
    /\ Issuer!Init /\ (concern # "issuer" => offered = {"k1"})
    /\ IF concern = "refresh" THEN Refresh!Init ELSE Connect!Init
    /\ Limiter!Init

SessionStep ==
    /\ \/ concern = "sessions" /\ Tokens!Next
       \/ concern = "resets" /\ Resets!Next
    /\ UNCHANGED <<concern, accountVars, jwksVars, oauthVars, rateVars>>

AccountStep ==
    /\ concern = "accounts" /\ Address!Next
    /\ UNCHANGED <<concern, sessionVars, jwksVars, oauthVars, rateVars>>

IssuerStep ==
    /\ concern = "issuer" /\ Issuer!Next
    /\ UNCHANGED <<concern, sessionVars, accountVars, oauthVars, rateVars>>

OAuthStep ==
    /\ \/ concern = "connect" /\ Connect!Next
       \/ concern = "refresh" /\ Refresh!Next
    /\ UNCHANGED <<concern, sessionVars, accountVars, jwksVars, rateVars>>

LimiterStep ==
    /\ concern = "limiter" /\ Limiter!Next
    /\ UNCHANGED <<concern, sessionVars, accountVars, jwksVars, oauthVars>>

IdentityNext == SessionStep \/ AccountStep \/ IssuerStep \/ OAuthStep \/ LimiterStep
IdentitySpec == IdentityInit /\ [][IdentityNext]_identityVars

-----------------------------------------------------------------------------
(* authRefresh: "only one request can redeem a token", also when several   *)
(* try at once.  resetPassword ends every session of an older password,    *)
(* but for tokens that a login or a rotation was issuing at that very      *)
(* time, and a link sets one password, whoever else uses it.               *)
SessionsEnd ==
    /\ concern = "sessions" => Tokens!TypeOK /\ Tokens!RedeemedOnce /\ Tokens!ResetEndsSessions /\ Tokens!LinkUsedOnce
    /\ concern = "resets" => Resets!ResetEndsSessions /\ Resets!LinkUsedOnce

(* Whatever registrations, logins and claims of an address run at once, no *)
(* session belongs to an account that nobody has confirmed, an invitation  *)
(* is used up only together with its account, and the password of a        *)
(* confirmed account is never touched by a request that looked before.     *)
AccountsProtected ==
    [][concern = "accounts" =>
        /\ Address!KeepsPassword
        /\ (Address!TypeOK /\ Address!UnconfirmedHasNoSession /\ Address!AcceptedHasAccount)']_identityVars

(* jwksCache.key: a key that the issuer has taken back is accepted for     *)
(* less than jwksMaxAge, one that has been offered for the backoff works,  *)
(* each plus the time that the cached document was on its way, and a set   *)
(* that was fetched is not fetched again within the backoff, whatever kids *)
(* are asked for.                                                          *)
KeysFollowIssuer ==
    concern = "issuer" =>
        Issuer!TypeOK /\ Issuer!RetiredKeysEnd /\ Issuer!NewKeysWork /\ Issuer!GoodFetchesSpaced

(* Two callbacks with the same state never both get tokens, and a          *)
(* connection holds tokens of a redirect that its own user began for this  *)
(* provider.  A refresh that ends late does not touch the row of a         *)
(* connection made again meanwhile, nor brings an older refresh token back.*)
ConnectionsKept ==
    /\ concern = "connect" => Connect!TypeOK /\ Connect!StateSpentOnce /\ Connect!ConnectedByOwner
    /\ concern = "refresh" => Refresh!TokensOfTheRow /\ Refresh!ReconnectSurvives

(* rateLimit: no counter lets more than the limit through in the window of *)
(* its bucket, however often Redis comes and goes; requests that are       *)
(* counted late get at most the limit once more.                           *)
LimitPerCounter == concern = "limiter" => Limiter!TypeOK /\ Limiter!LimitPerCounter

=============================================================================
