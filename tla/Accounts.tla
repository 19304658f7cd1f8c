------------------------------ MODULE Accounts ------------------------------
(***************************************************************************)
(* How accounts come into being and are confirmed: registration with a     *)
(* password, confirmation links, login, identities of Google or OIDC, and  *)
(* invitations.  Only single statements and transactions are atomic; the   *)
(* handlers read first and write later.                                    *)
(*                                                                         *)
(* Abstractions: an account, its address and an invitation to it have one  *)
(* name; a password, a link and a session are named by the request that    *)
(* set, caused or got it; one identity provider.                           *)
(***************************************************************************)
EXTENDS Naturals, FiniteSets

CONSTANTS
    Email, Request,
    Fresh  \* whether nobody else has an account

FreshAssumption == Fresh \in BOOLEAN

VARIABLES
    exists,    \* addresses with a users row
    verified,  \* email_verified
    linked,    \* accounts with google_sub or oidc_sub
    password,  \* password[e]: the request that set it, or None
    link,      \* link[q]: "none", "sent" or "over": the link that q caused
    invite,    \* invite[e]: "none", "open", "accepted" or "gone"
    session,   \* session[e]: requests that got a refresh token of e
    job        \* job[q]: kind, address and position of the handler of q

vars == <<exists, verified, linked, password, link, invite, session, job>>

None == "none"
New == [at |-> "new", email |-> None, invited |-> FALSE, first |-> FALSE]
Stages == {"new", "create", "replace", "endsessions", "mail", "issue", "google", "oidc", "join", "claim", "droplinks", "over"}

TypeOK ==
    /\ exists \subseteq Email /\ verified \subseteq exists /\ linked \subseteq exists
    /\ password \in [Email -> Request \cup {None}]
    /\ link \in [Request -> {"none", "sent", "over"}]
    /\ invite \in [Email -> {"none", "open", "accepted", "gone"}]
    /\ session \in [Email -> SUBSET Request]
    /\ job \in [Request -> [at : Stages, email : Email \cup {None}, invited : BOOLEAN, first : BOOLEAN]]

Init ==
    /\ exists = {} /\ verified = {} /\ linked = {}
    /\ password = [e \in Email |-> None]
    /\ link = [q \in Request |-> "none"]
    /\ invite = [e \in Email |-> "none"]
    /\ session = [e \in Email |-> {}]
    /\ job = [q \in Request |-> New]

At(q, stage) == job[q].at = stage
Go(q, stage) == job' = [job EXCEPT ![q].at = stage]
Start(q, j) == At(q, "new") /\ job' = [job EXCEPT ![q] = j]
Mine(q) == job[q].email
Pending(e) == \E q \in Request : link[q] = "sent" /\ Mine(q) = e
LinksOver(e) == [q \in Request |-> IF Mine(q) = e /\ link[q] = "sent" THEN "over" ELSE link[q]]
rows == <<exists, verified, linked, password>>

-----------------------------------------------------------------------------
(* inviteCreate and inviteDelete; links expire.                            *)

Invite(e) ==
    /\ \/ invite[e] \in {"none", "gone"} /\ e \notin exists /\ invite' = [invite EXCEPT ![e] = "open"]
       \/ invite[e] = "open" /\ invite' = [invite EXCEPT ![e] = "gone"]
    /\ UNCHANGED <<rows, link, session, job>>

LinkExpires(q) ==
    /\ link[q] = "sent" /\ link' = [link EXCEPT ![q] = "over"]
    /\ UNCHANGED <<rows, invite, session, job>>

-----------------------------------------------------------------------------
(* registerPassword.                                                       *)

RegisterReplace(q, e) ==
    /\ e \in exists \ verified /\ ~Pending(e)
    /\ Start(q, [New EXCEPT !.at = "replace", !.email = e])
    /\ UNCHANGED <<rows, link, invite, session>>

(* The transaction has looked at the invitation and for other accounts.    *)
RegisterCreate(q, e) == \E invited \in {FALSE} \cup {b \in {TRUE} : invite[e] = "open"} :
    /\ e \notin exists
    /\ Start(q, [at |-> "create", email |-> e, invited |-> invited, first |-> Fresh /\ ~invited /\ exists = {}])
    /\ UNCHANGED <<rows, link, invite, session>>

Accept(q) == IF job[q].invited /\ invite[Mine(q)] = "open"
             THEN [invite EXCEPT ![Mine(q)] = "accepted"] ELSE invite

(* users.email is unique: whoever comes second cannot insert.              *)
CreateCommit(q) == LET e == Mine(q) IN
    /\ At(q, "create") /\ e \notin exists
    /\ exists' = exists \cup {e}
    /\ password' = [password EXCEPT ![e] = q]
    /\ verified' = IF job[q].invited \/ job[q].first THEN verified \cup {e} ELSE verified
    /\ invite' = Accept(q)
    /\ Go(q, IF job[q].invited \/ job[q].first THEN "issue" ELSE "mail")
    /\ UNCHANGED <<linked, link, session>>

AcceptsAnyway(q) == Accept(q)
InviteAfterFailure(q) == invite

(* The address was taken meanwhile, or any statement fails.                *)
CreateFails(q) ==
    /\ At(q, "create")
    /\ invite' = InviteAfterFailure(q)
    /\ Go(q, "over")
    /\ UNCHANGED <<rows, link, session>>

AlwaysReplaceable(e) == TRUE
Replaceable(e) == e \notin verified

(* UPDATE users ... WHERE email_verified=false, then the sessions go.      *)
ReplacePassword(q) == LET e == Mine(q) IN
    /\ At(q, "replace")
    /\ password' = IF Replaceable(e) THEN [password EXCEPT ![e] = q] ELSE password
    /\ Go(q, "endsessions")
    /\ UNCHANGED <<exists, verified, linked, link, invite, session>>

EndSessions(q) ==
    /\ At(q, "endsessions")
    /\ session' = [session EXCEPT ![Mine(q)] = {}]
    /\ Go(q, "mail")
    /\ UNCHANGED <<rows, link, invite>>

SendEmailVerification(q) ==
    /\ At(q, "mail")
    /\ link' = [link EXCEPT ![q] = "sent"]
    /\ Go(q, "over")
    /\ UNCHANGED <<rows, invite, session>>

(* The error of the DELETE is ignored.                                     *)
VerifyEmail(q) == LET e == Mine(q) IN
    /\ link[q] = "sent"
    /\ verified' = verified \cup {e}
    /\ link' \in {LinksOver(e), link}
    /\ UNCHANGED <<exists, linked, password, invite, session, job>>

-----------------------------------------------------------------------------
(* loginPassword.                                                          *)

AdmitsAny(e) == TRUE
Admits(e) == e \in verified

Login(q, e) ==
    /\ password[e] # None
    /\ Start(q, [New EXCEPT !.at = IF Admits(e) THEN "issue" ELSE "mail", !.email = e])
    /\ UNCHANGED <<rows, link, invite, session>>

IssueRefreshToken(q) ==
    /\ At(q, "issue")
    /\ session' = [session EXCEPT ![Mine(q)] = @ \cup {q}]
    /\ Go(q, "over")
    /\ UNCHANGED <<rows, link, invite>>

-----------------------------------------------------------------------------
(* Login with Google or OIDC; resolveIdentity.                             *)

GoogleStart(q) == Start(q, [New EXCEPT !.at = "google"]) /\ UNCHANGED <<rows, link, invite, session>>
OidcStart(q) == Start(q, [New EXCEPT !.at = "oidc"]) /\ UNCHANGED <<rows, link, invite, session>>

ResolveIdentity(q, e) ==
    /\ job' = [job EXCEPT ![q] = [New EXCEPT !.email = e, !.at =
            IF e \in linked THEN "issue"
            ELSE IF e \notin exists THEN "join"
            ELSE IF e \in verified THEN "issue" ELSE "claim"]]
    /\ linked' = IF e \in verified THEN linked \cup {e} ELSE linked
    /\ UNCHANGED <<exists, verified, password, link, invite, session>>

(* No state cookie or another state, the provider does not answer, it does *)
(* not vouch for the address, or its token is not for this client.         *)
Refused(q) == Go(q, "over") /\ UNCHANGED <<rows, link, invite, session>>

GoogleCallback(q) == At(q, "google") /\ (Refused(q) \/ \E e \in Email : ResolveIdentity(q, e))
OidcCallback(q) == At(q, "oidc") /\ (Refused(q) \/ \E e \in Email : ResolveIdentity(q, e))

(* claim_email_invitation takes an open invitation if there is one.        *)
Join(q) == LET e == Mine(q) IN
    /\ At(q, "join")
    /\ IF e \in exists THEN Go(q, "over") /\ UNCHANGED <<exists, verified, linked, invite>>
       ELSE /\ exists' = exists \cup {e} /\ verified' = verified \cup {e} /\ linked' = linked \cup {e}
            /\ invite' = IF invite[e] = "open" THEN [invite EXCEPT ![e] = "accepted"] ELSE invite
            /\ Go(q, "issue")
    /\ UNCHANGED <<password, link, session>>

(* UPDATE ... WHERE email_verified=false: a confirmation in between wins.  *)
Claim(q) == LET e == Mine(q) IN
    /\ At(q, "claim")
    /\ IF Replaceable(e)
       THEN /\ linked' = linked \cup {e} /\ verified' = verified \cup {e}
            /\ password' = [password EXCEPT ![e] = None]
       ELSE UNCHANGED <<linked, verified, password>>
    /\ Go(q, "droplinks")
    /\ UNCHANGED <<exists, link, invite, session>>

(* The two DELETEs; resolveIdentity's caller then issues the token.        *)
DropLinks(q) ==
    /\ At(q, "droplinks")
    /\ link' = LinksOver(Mine(q))
    /\ session' = [session EXCEPT ![Mine(q)] = {}]
    /\ Go(q, "issue")
    /\ UNCHANGED <<rows, invite>>

Handle(q) ==
    \/ \E e \in Email : RegisterReplace(q, e) \/ RegisterCreate(q, e) \/ Login(q, e)
    \/ GoogleStart(q) \/ OidcStart(q) \/ GoogleCallback(q) \/ OidcCallback(q)
    \/ CreateCommit(q) \/ CreateFails(q) \/ ReplacePassword(q) \/ EndSessions(q)
    \/ SendEmailVerification(q) \/ VerifyEmail(q) \/ IssueRefreshToken(q)
    \/ Join(q) \/ Claim(q) \/ DropLinks(q) \/ LinkExpires(q)

Next == (\E q \in Request : Handle(q)) \/ \E e \in Email : Invite(e)
Spec == Init /\ [][Next]_vars

-----------------------------------------------------------------------------
(* Properties.                                                             *)

(* No session belongs to an account whose address nobody has confirmed,    *)
(* whatever registrations, logins and claims of it run at once.            *)
UnconfirmedHasNoSession == \A e \in Email : session[e] # {} => e \in verified

(* Registering again or a provider login never touches the password of an  *)
(* account that was confirmed after they had looked.                       *)
KeepsPassword == \A e \in verified : password'[e] = password[e]

(* An invitation is used up only together with the account it is for.      *)
AcceptedHasAccount == \A e \in Email : invite[e] = "accepted" => e \in exists

=============================================================================
