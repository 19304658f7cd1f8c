-------------------------- MODULE OAuthConnections --------------------------
(***************************************************************************)
(* The OAuth connections of a workspace: the authorization redirect with   *)
(* its one-time state in Redis, the callback that stores the tokens, and   *)
(* the requests and worker activities that refresh its access token.       *)
(*                                                                         *)
(* A grant is one consent at the provider: a code that was exchanged for a *)
(* refresh token.  An access token is abstracted to the grant it was       *)
(* issued under and to whether it expires within the minute that liveToken *)
(* keeps.  A refresh reads, calls the provider and writes in three steps.  *)
(***************************************************************************)
EXTENDS Naturals, Sequences

CONSTANTS
    User,      \* users of the workspace
    Provider,  \* of {"google", "microsoft", "zendesk"}
    Nonce,     \* values of the state parameter
    Request,   \* requests in progress at a time
    MaxGrant,  \* bound on the consents
    MaxId      \* bound on the rows ever inserted

OAuthAssumption ==
    /\ Provider \subseteq {"google", "microsoft", "zendesk"}
    /\ MaxGrant \in Nat /\ MaxId \in Nat

VARIABLES
    states,  \* oauth:state:<nonce> in Redis
    rows,    \* connector_instances of kind oauth
    job,     \* job[q]: what request q is in the middle of
    grants,  \* consents so far
    ids,     \* rows inserted so far
    \* History variables, read by properties only.
    minted,  \* minted[n]: what nonce n was minted for
    origin,  \* origin[g]: the nonce that grant g was obtained with
    given    \* given[i]: the grants that were stored into row i, in order

vars == <<states, rows, job, grants, ids, minted, origin, given>>

None == [user |-> "none", provider |-> "none"]
Idle == [at |-> "idle"]
Grant == 1..MaxGrant
Held == {n \in Nonce : states[n] # None}

TypeOK ==
    /\ \A n \in Held : states[n] \in [user : User, provider : Provider]
    /\ \A r \in rows : /\ r.id \in 1..ids /\ r.user \in User /\ r.provider \in Provider
                       /\ {r.refresh, r.access} \subseteq 1..grants /\ r.live \in BOOLEAN
    /\ \A r, s \in rows : r.id = s.id \/ <<r.user, r.provider>> = <<s.user, s.provider>> => r = s
    /\ \A q \in Request : job[q].at \in {"idle", "code", "store", "expired", "update"}
    /\ grants \in 0..MaxGrant /\ ids \in 0..MaxId

Init ==
    /\ states = [n \in Nonce |-> None] /\ rows = {} /\ job = [q \in Request |-> Idle]
    /\ grants = 0 /\ ids = 0
    /\ minted = [n \in Nonce |-> None] /\ origin = [g \in Grant |-> None]
    /\ given = [i \in 1..MaxId |-> <<>>]

Enter(q, j) == job[q] = Idle /\ job' = [job EXCEPT ![q] = j]
Goto(q, j) == job' = [job EXCEPT ![q] = j]
At(q, stage) == job[q].at = stage

-----------------------------------------------------------------------------
MintOAuthState(u, p, n) ==
    /\ p \in Provider /\ minted[n] = None  \* randomToken does not repeat
    /\ states' = [states EXCEPT ![n] = [user |-> u, provider |-> p]]
    /\ minted' = [minted EXCEPT ![n] = [user |-> u, provider |-> p]]
    /\ UNCHANGED <<rows, job, grants, ids, origin, given>>

GoogleConnectorStart(u, n) == MintOAuthState(u, "google", n)
MicrosoftConnectorStart(u, n) == MintOAuthState(u, "microsoft", n)
ZendeskStart(u, n) == MintOAuthState(u, "zendesk", n)

StateExpires(n) ==
    /\ n \in Held /\ states' = [states EXCEPT ![n] = None]
    /\ UNCHANGED <<rows, job, grants, ids, minted, origin, given>>

(* GETDEL: the entry is gone whether or not it turns out to be valid.      *)
LeftInPlace(n) == states
Left(n) == [states EXCEPT ![n] = None]
ValidForAny(value, p) == TRUE
ValidFor(value, p) == value.provider = p

(* A callback: the state is consumed, then the code goes to the provider.  *)
ConsumeOAuthState(q, n, p) ==
    /\ p \in Provider /\ n \in Held /\ states' = Left(n)
    /\ IF ValidFor(states[n], p)
       THEN Enter(q, [at |-> "code", nonce |-> n, user |-> states[n].user, provider |-> p])
       ELSE UNCHANGED job
    /\ UNCHANGED <<rows, grants, ids, minted, origin, given>>

GoogleConnectorCallback(q, n) == ConsumeOAuthState(q, n, "google")
MicrosoftConnectorCallback(q, n) == ConsumeOAuthState(q, n, "microsoft")
ZendeskCallback(q, n) == ConsumeOAuthState(q, n, "zendesk")

(* The provider exchanges the code for a refresh and an access token.      *)
Exchanged(q, p, live) ==
    /\ At(q, "code") /\ job[q].provider = p /\ grants < MaxGrant
    /\ grants' = grants + 1
    /\ origin' = [origin EXCEPT ![grants + 1] = job[q].nonce]
    /\ Goto(q, [at |-> "store", user |-> job[q].user, provider |-> p, grant |-> grants + 1, live |-> live])
    /\ UNCHANGED <<states, rows, ids, minted, given>>

GoogleExchange(q) == Exchanged(q, "google", TRUE)
MicrosoftExchange(q) == Exchanged(q, "microsoft", TRUE)
(* Without expires_in the token counts as expired at once.                 *)
ZendeskExchange(q) == Exchanged(q, "zendesk", FALSE)

(* An error of the provider, a Google answer without refresh token, or no  *)
(* profile: the state is spent and nothing is stored.                      *)
ExchangeFails(q) ==
    /\ At(q, "code") /\ Goto(q, Idle)
    /\ UNCHANGED <<states, rows, grants, ids, minted, origin, given>>

Same(r, j) == r.user = j.user /\ r.provider = j.provider

(* INSERT ... ON CONFLICT DO UPDATE: a row keeps its id.  The account is   *)
(* taken to be the same at each consent of one user with one provider.     *)
UpsertOAuth(q) ==
    LET j == job[q]
        old == {r \in rows : Same(r, j)}
        id == IF old = {} THEN ids + 1 ELSE (CHOOSE r \in old : TRUE).id
    IN
    /\ At(q, "store") /\ id <= MaxId /\ Goto(q, Idle)
    /\ ids' = IF old = {} THEN id ELSE ids
    /\ rows' = (rows \ old) \cup {[id |-> id, user |-> j.user, provider |-> j.provider,
                                   refresh |-> j.grant, access |-> j.grant, live |-> j.live]}
    /\ given' = [given EXCEPT ![id] = Append(@, j.grant)]
    /\ UNCHANGED <<states, grants, minted, origin>>

-----------------------------------------------------------------------------
TokenExpires(r) ==
    /\ r \in rows /\ r.live
    /\ rows' = (rows \ {r}) \cup {[r EXCEPT !.live = FALSE]}
    /\ UNCHANGED <<states, job, grants, ids, minted, origin, given>>

(* liveToken of the row that connectorRefresh, connectorTest or, through   *)
(* pickOAuth, providerGet has read: a stored token is handed out while it  *)
(* is live, and for Zendesk always.                                        *)
LiveToken(q, r) ==
    /\ r \in rows /\ ~r.live /\ r.provider # "zendesk"
    /\ Enter(q, [at |-> "expired", row |-> r, by |-> "api"])
    /\ UNCHANGED <<states, rows, grants, ids, minted, origin, given>>

(* oauthJSON: a worker refreshes when the provider answers 401, which says *)
(* nothing about the stored expiry.  It cannot refresh a Zendesk token.    *)
Unauthorized(q, r) ==
    /\ r \in rows /\ r.provider # "zendesk"
    /\ Enter(q, [at |-> "expired", row |-> r, by |-> "worker"])
    /\ UNCHANGED <<states, rows, grants, ids, minted, origin, given>>

RefreshAnswered(q) ==
    /\ At(q, "expired") /\ Goto(q, [job[q] EXCEPT !.at = "update"])
    /\ UNCHANGED <<states, rows, grants, ids, minted, origin, given>>

RefreshRefused(q) ==
    /\ At(q, "expired") /\ Goto(q, Idle)
    /\ UNCHANGED <<states, rows, grants, ids, minted, origin, given>>

UpdatedByAccount(r) == {s \in rows : s.user = r.user /\ s.provider = r.provider}
Updated(r) == {s \in rows : s.id = r.id}
(* The UPDATE writes access_token and, in the API only, expires_at; the    *)
(* refresh token stays the one the row holds by now.                       *)
WrittenWhole(s, j) == [s EXCEPT !.refresh = j.row.refresh, !.access = j.row.refresh]
Written(s, j) == [s EXCEPT !.access = j.row.refresh, !.live = @ \/ j.by = "api"]

StoreRefreshed(q) ==
    LET old == Updated(job[q].row) IN
    /\ At(q, "update") /\ Goto(q, Idle)
    /\ rows' = (rows \ old) \cup {Written(s, job[q]) : s \in old}
    /\ UNCHANGED <<states, grants, ids, minted, origin, given>>

ConnectorDelete(r) ==
    /\ r \in rows /\ rows' = rows \ {r}
    /\ UNCHANGED <<states, job, grants, ids, minted, origin, given>>

-----------------------------------------------------------------------------
Next ==
    \/ \E u \in User, n \in Nonce :
         GoogleConnectorStart(u, n) \/ MicrosoftConnectorStart(u, n) \/ ZendeskStart(u, n)
    \/ \E n \in Nonce : StateExpires(n)
    \/ \E q \in Request :
         \/ \E n \in Nonce : \/ GoogleConnectorCallback(q, n) \/ MicrosoftConnectorCallback(q, n)
                             \/ ZendeskCallback(q, n)
         \/ GoogleExchange(q) \/ MicrosoftExchange(q) \/ ZendeskExchange(q) \/ ExchangeFails(q)
         \/ UpsertOAuth(q)
         \/ \E r \in rows : LiveToken(q, r) \/ Unauthorized(q, r)
         \/ RefreshAnswered(q) \/ RefreshRefused(q) \/ StoreRefreshed(q)
    \/ \E r \in rows : TokenExpires(r) \/ ConnectorDelete(r)

Spec == Init /\ [][Next]_vars

-----------------------------------------------------------------------------
(* One redirect connects at most once: two callbacks with the same state   *)
(* (a reload, a replay) never both obtain tokens, however they interleave. *)
StateSpentOnce ==
    \A g, h \in 1..grants : origin[g] = origin[h] => g = h

(* The tokens of a connection come from a redirect that its own user began *)
(* for this provider, after every exchange, reconnect and refresh.         *)
ConnectedByOwner ==
    \A r \in rows : \A g \in {r.refresh, r.access} :
        minted[origin[g]] = [user |-> r.user, provider |-> r.provider]

(* A refresh that ends late, after its connection was deleted and made     *)
(* again, does not touch the new row: a row only ever holds tokens of      *)
(* consents that were stored into this very row.                           *)
TokensOfTheRow ==
    \A r \in rows : \A g \in {r.refresh, r.access} :
        \E i \in DOMAIN given[r.id] : given[r.id][i] = g

(* A refresh that overlaps a reconnect never takes the connection back to  *)
(* the older refresh token: a row holds the consent stored last, so that   *)
(* the next refresh recovers from an access token of the older one.        *)
ReconnectSurvives ==
    \A r \in rows : r.refresh = given[r.id][Len(given[r.id])]
=============================================================================
