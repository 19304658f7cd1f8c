------------------------------ MODULE Sessions ------------------------------
(***************************************************************************)
(* The sessions of one account: password login, rotation of refresh        *)
(* tokens, reuse detection, logout and the password reset by e-mail.       *)
(*                                                                         *)
(* A transaction is two steps: the first fixes what its statements see     *)
(* (READ COMMITTED: the rows committed when the statement starts) and      *)
(* takes its row locks, the second commits.  A statement that meets a      *)
(* locked row waits and then looks at the row again.  Passwords are        *)
(* numbered; a token remembers the password its session began with.        *)
(***************************************************************************)
EXTENDS Integers, FiniteSets

CONSTANTS
    Request,   \* requests in progress at a time
    Token,     \* refresh tokens
    Link,      \* reset links
    Grace,     \* refreshReuseGrace
    TokenTTL,  \* refreshTTLDays
    LinkTTL,   \* the hour of a reset link
    LinkPause, \* the minute between two links
    MaxClock   \* the last time of the model

SessionsAssumption ==
    {Grace, TokenTTL, LinkTTL, LinkPause, MaxClock} \subseteq Nat \ {0}

VARIABLES
    now, password,
    token,   \* token[t]: state, time of that state, birth, password of its session
    link,    \* link[k]: state and time of creation
    job,     \* job[q]: what request q is in the middle of
    \* History variables, read by properties only.
    redeemed, \* redeemed[t]: successful rotations of t
    raced     \* tokens issued by a request that overlapped a revocation

vars == <<now, password, token, link, job, redeemed, raced>>

None == "none"
Free == [state |-> "free", since |-> 0, born |-> 0, password |-> 0]
NoLink == [state |-> "free", born |-> 0]
(* old: what is redeemed; new: the token to insert; sees: the rows that    *)
(* the statement will change; knows: the password that was compared;       *)
(* racing (history): sessions were being ended meanwhile.                  *)
Idle == [at |-> "idle", old |-> None, new |-> None, sees |-> {}, knows |-> 0, racing |-> FALSE]
Stage == {"idle", "login", "rotate", "revoke", "reset", "forgot"}

TypeOK ==
    /\ now \in 0..MaxClock /\ password \in Nat
    /\ token \in [Token -> [state : {"free", "open", "live", "revoked"}, since : 0..MaxClock,
                            born : 0..MaxClock, password : 0..password]]
    /\ link \in [Link -> [state : {"free", "sent", "used"}, born : 0..MaxClock]]
    /\ job \in [Request -> [at : Stage, old : Token \cup Link \cup {None}, new : Token \cup {None},
                            sees : SUBSET (Token \cup Link), knows : 0..password, racing : BOOLEAN]]
    /\ redeemed \in [Token -> Nat] /\ raced \subseteq Token

Init ==
    /\ now = 0 /\ password = 0
    /\ token = [t \in Token |-> Free]
    /\ link = [k \in Link |-> NoLink]
    /\ job = [q \in Request |-> Idle]
    /\ redeemed = [t \in Token |-> 0] /\ raced = {}

With(s) == {t \in Token : token[t].state = s}
Live == With("live")
(* Tokens are random and alike: a new one is any free one.                 *)
Fresh == {CHOOSE t \in With("free") : TRUE}
Expired(t) == now - token[t].born >= TokenTTL
Locked(x) == \E q \in Request : job[q].at \in {"rotate", "reset"} /\ job[q].old = x
Revoking == \E q \in Request : job[q].at \in {"revoke", "reset"}

Enter(q, j) == job[q] = Idle /\ job' = [job EXCEPT ![q] = j]
Leave(q, stage) == job[q].at = stage /\ job' = [job EXCEPT ![q] = Idle]
(* The step of q makes the requests that are issuing a token racing ones.  *)
Overlap(q, j) == job' = [r \in Request |->
    IF r = q THEN j
    ELSE [job[r] EXCEPT !.racing = @ \/ job[r].at \in {"login", "rotate"}]]

Revoked(T) == [t \in Token |->
    IF t \in T /\ t \in Live THEN [token[t] EXCEPT !.state = "revoked", !.since = now] ELSE token[t]]

Tick == now < MaxClock /\ now' = now + 1 /\ UNCHANGED <<password, token, link, job, redeemed, raced>>

-----------------------------------------------------------------------------
(* loginPassword: the password is compared, then a token is inserted.      *)

LoginCheck(q) ==
    /\ Enter(q, [Idle EXCEPT !.at = "login", !.knows = password, !.racing = Revoking])
    /\ UNCHANGED <<now, password, token, link, redeemed, raced>>

Issued(p) == [state |-> "live", since |-> now, born |-> now, password |-> p]

LoginIssue(q) == With("free") # {} /\ \E t \in Fresh :
    /\ Leave(q, "login")
    /\ token' = [token EXCEPT ![t] = Issued(job[q].knows)]
    /\ raced' = IF job[q].racing THEN raced \cup {t} ELSE raced
    /\ UNCHANGED <<now, password, link, redeemed>>

-----------------------------------------------------------------------------
(* refresh and rejectRefresh.                                              *)

RedeemableBySelect(t) == t \in Live /\ ~Expired(t)
Redeemable(t) == t \in Live /\ ~Expired(t) /\ ~Locked(t)

(* UPDATE ... RETURNING and the INSERT of the successor, not committed.    *)
RefreshBegin(q, t) == With("free") # {} /\ \E n \in Fresh :
    /\ Redeemable(t)
    /\ Enter(q, [Idle EXCEPT !.at = "rotate", !.old = t, !.new = n, !.racing = Revoking])
    /\ token' = [token EXCEPT ![n] = [Issued(token[t].password) EXCEPT !.state = "open"]]
    /\ UNCHANGED <<now, password, link, redeemed, raced>>

RefreshCommit(q) ==
    LET t == job[q].old  n == job[q].new IN
    /\ Leave(q, "rotate")
    /\ token' = [token EXCEPT ![t].state = "revoked", ![t].since = now, ![n].state = "live"]
    /\ redeemed' = [redeemed EXCEPT ![t] = @ + 1]
    /\ raced' = IF job[q].racing \/ t \in raced THEN raced \cup {n} ELSE raced
    /\ UNCHANGED <<now, password, link>>

RefreshRollback(q) ==
    /\ Leave(q, "rotate")
    /\ token' = [token EXCEPT ![job[q].new] = Free]
    /\ UNCHANGED <<now, password, link, redeemed, raced>>

(* The token was revoked longer ago than the grace: every session ends.    *)
(* The other outcomes of rejectRefresh answer 401 and change nothing.      *)
ReuseDetected(q, t) ==
    /\ token[t].state = "revoked" /\ now - token[t].since >= Grace
    /\ job[q] = Idle /\ Overlap(q, [Idle EXCEPT !.at = "revoke", !.sees = Live])
    /\ UNCHANGED <<now, password, token, link, redeemed, raced>>

(* The UPDATE waits for every row that it saw and another request holds.   *)
Unblocked(q) == \A r \in Request : job[r].at = "rotate" => job[r].old \notin job[q].sees

RevokeCommit(q) ==
    /\ Unblocked(q) /\ Leave(q, "revoke")
    /\ token' = Revoked(job[q].sees)
    /\ UNCHANGED <<now, password, link, redeemed, raced>>

Logout(t) ==
    /\ t \in Live /\ ~Locked(t)
    /\ token' = Revoked({t})
    /\ UNCHANGED <<now, password, link, job, redeemed, raced>>

-----------------------------------------------------------------------------
(* forgotPassword, sendPasswordReset and resetPassword.                    *)

Sent == {k \in Link : link[k].state = "sent"}
Recent(k) == link[k].born > now - LinkPause

ForgotBegin(q) ==
    /\ ~\E k \in Sent : Recent(k)
    /\ Enter(q, [Idle EXCEPT !.at = "forgot", !.sees = Sent])
    /\ UNCHANGED <<now, password, token, link, redeemed, raced>>

(* The links it saw are deleted, its own is inserted and mailed.           *)
ForgotEnd(q) == \E k \in {k \in Link : link[k].state = "free"} :
    /\ Leave(q, "forgot") /\ \A j \in job[q].sees : ~Locked(j)
    /\ link' = [j \in Link |-> IF j = k THEN [state |-> "sent", born |-> now]
                               ELSE IF j \in job[q].sees THEN [link[j] EXCEPT !.state = "used"] ELSE link[j]]
    /\ UNCHANGED <<now, password, token, redeemed, raced>>

Valid(k) == k \in Sent /\ now - link[k].born < LinkTTL /\ ~Locked(k)

(* DELETE ... RETURNING of the link; the other statements follow.          *)
ResetBegin(q, k) ==
    /\ Valid(k)
    /\ job[q] = Idle /\ Overlap(q, [Idle EXCEPT !.at = "reset", !.old = k, !.sees = Live])
    /\ UNCHANGED <<now, password, token, link, redeemed, raced>>

EndsNone(q) == {}
Ends(q) == job[q].sees
UsedNone(q) == {}
UsedUp(q) == Sent

(* Of two resets under way each holds a row that the other has to change:  *)
(* one of them is rolled back before the other can commit.                 *)
ResetCommit(q) ==
    /\ job[q].at = "reset" /\ Unblocked(q) /\ \A r \in Request \ {q} : job[r].at # "reset"
    /\ Overlap(q, Idle)
    /\ password' = password + 1
    /\ token' = Revoked(Ends(q))
    /\ link' = [k \in Link |-> IF k \in UsedUp(q) THEN [link[k] EXCEPT !.state = "used"] ELSE link[k]]
    /\ UNCHANGED <<now, redeemed, raced>>

(* A statement fails, or a transaction is chosen to end a deadlock: what   *)
(* it has done so far is rolled back.                                      *)
RolledBack(q) == \E stage \in {"login", "revoke", "forgot", "reset"} :
    /\ Leave(q, stage)
    /\ UNCHANGED <<now, password, token, link, redeemed, raced>>

Next ==
    \/ Tick
    \/ \E q \in Request :
        \/ LoginCheck(q) \/ LoginIssue(q)
        \/ \E t \in Token : RefreshBegin(q, t) \/ ReuseDetected(q, t)
        \/ RefreshCommit(q) \/ RefreshRollback(q) \/ RevokeCommit(q)
        \/ ForgotBegin(q) \/ ForgotEnd(q)
        \/ \E k \in Link : ResetBegin(q, k)
        \/ ResetCommit(q) \/ RolledBack(q)
    \/ \E t \in Token : Logout(t)

Spec == Init /\ [][Next]_vars

-----------------------------------------------------------------------------
(* Properties.                                                             *)

(* "only one request can redeem a token", also when several try at once.   *)
RedeemedOnce == \A t \in Token : redeemed[t] <= 1

(* A reset ends every session that was begun with an older password, but   *)
(* for tokens that a login or a rotation was issuing at that very time.    *)
ResetEndsSessions == \A t \in Live \ raced : token[t].password = password

(* A link sets one password: as many resets as links were used.            *)
LinkUsedOnce == password <= Cardinality({k \in Link : link[k].state = "used"})

=============================================================================
