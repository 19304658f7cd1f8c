-------------------------- MODULE PipelineLifecycle --------------------------
(***************************************************************************)
(* The versions of one pipeline key: saving, activating, promoting and     *)
(* moving between stages, who may do so, and the Temporal schedule that an *)
(* activation replaces.  A request reads in one transaction (the access    *)
(* check), writes in a second, and then calls Temporal.                    *)
(*                                                                         *)
(* Abstractions: a definition is whether it has a cron trigger and the     *)
(* fields its contracts promise; a version is the place of its row in the  *)
(* sequence (UNIQUE (pipeline_key, version), and MAX(version)+1).          *)
(***************************************************************************)
EXTENDS Naturals, Sequences, FiniteSets

CONSTANTS
    User, Owner, Request,
    Definition,  \* records [cron, fields]
    Existing,    \* whether a first version has been saved
    Grants,      \* the roles that are given, a subset of 0..3; 0 takes away
    Reliable,    \* after a commit the process goes on and Temporal answers
    MaxRows      \* bound on the versions

OwnerAssumption ==
    /\ Owner \subseteq User /\ Existing \in BOOLEAN /\ Grants \subseteq 0..3 /\ Reliable \in BOOLEAN
    /\ MaxRows \in Nat /\ (Existing => MaxRows > 0)

VARIABLES
    row,       \* row[v]: version v
    schedule,  \* schedule[e]: the version that sched-<key>-<e> runs, or 0
    job        \* job[q]: the request that q handles

vars == <<row, schedule, job>>

Env == {"test", "prod"}
Role == [none |-> 0, viewer |-> 1, editor |-> 2, admin |-> 3]
Versions == 1..Len(row)
Row == [env : Env, status : {"draft", "active", "archived"}, def : Definition, creator : User,
        access : [User -> 0..3], tested : BOOLEAN, from : 0..MaxRows]
Idle == [at |-> "idle", user |-> CHOOSE u \in User : TRUE, version |-> 0, def |-> CHOOSE d \in Definition : TRUE,
         sees |-> {}, override |-> FALSE]

TypeOK ==
    /\ row \in Seq(Row) /\ Len(row) <= MaxRows
    /\ schedule \in [Env -> 0..MaxRows]
    /\ \A q \in Request :
        /\ job[q].at \in {"idle", "save", "load", "gate", "compared", "activate", "promote", "unschedule", "schedule"}
        /\ job[q].version \in 0..MaxRows /\ job[q].sees \subseteq 1..MaxRows

Draft(u, d) == [env |-> "test", status |-> "draft", def |-> d, creator |-> u,
                access |-> [v \in User |-> 0], tested |-> FALSE, from |-> 0]

Init ==
    /\ row \in IF Existing THEN {<<Draft(u, d)>> : u \in User, d \in Definition} ELSE {<<>>}
    /\ schedule = [e \in Env |-> 0]
    /\ job = [q \in Request |-> Idle]

Go(q, from, j) == job[q].at = from /\ job' = [job EXCEPT ![q] = j]
Active(e) == {v \in Versions : row[v].env = e /\ row[v].status = "active"}
Tests == {v \in Versions : row[v].env = "test"}
Latest(V) == IF V = {} THEN 0 ELSE CHOOSE v \in V : \A w \in V : w <= v

(* pipelineAllows.                                                         *)
Allows(u, r, minimum) == u \in Owner \/ u = r.creator \/ r.access[u] >= Role[minimum]

-----------------------------------------------------------------------------
(* pipelineCreate.                                                         *)

(* The latest test version is read FOR UPDATE; whoever waits for the lock  *)
(* still has the version that was the latest when it began.                *)
SaveBegin(q, u, d) == LET p == Latest(Tests) IN
    /\ p # 0 => Allows(u, row[p], "editor")
    /\ Go(q, "idle", [Idle EXCEPT !.at = "save", !.user = u, !.version = p, !.def = d])
    /\ UNCHANGED <<row, schedule>>

CarriesGrants(u, p) == row[p].access
Carried(u, p) ==
    [v \in User |-> IF v = row[p].creator /\ v # u THEN Role.admin ELSE row[p].access[v]]

SaveCommit(q) == LET u == job[q].user  p == job[q].version IN
    /\ Len(row) < MaxRows
    /\ Go(q, "save", Idle)
    /\ row' = Append(row, [Draft(u, job[q].def) EXCEPT !.access = IF p = 0 THEN @ ELSE Carried(u, p)])
    /\ UNCHANGED schedule

PipelineAccessGrant(u, v, w, n) ==
    /\ Allows(u, row[v], "admin")
    /\ row' = [row EXCEPT ![v].access[w] = n]  \* 0: pipelineAccessDelete
    /\ UNCHANGED <<schedule, job>>

(* An Integration run of a version completes.                              *)
RunCompletes(v) ==
    /\ row[v].env = "test" /\ ~row[v].tested
    /\ row' = [row EXCEPT ![v].tested = TRUE]
    /\ UNCHANGED <<schedule, job>>

-----------------------------------------------------------------------------
(* pipelineActivate.                                                       *)

Load(q, u, v, stage, override) ==
    /\ Go(q, "idle", [Idle EXCEPT !.at = stage, !.user = u, !.version = v, !.override = override])
    /\ UNCHANGED <<row, schedule>>

PipelineActivate(q, u, v) == Allows(u, row[v], "editor") /\ Load(q, u, v, "load", FALSE)

(* UPDATE ... SET status='archived' works on the rows that it sees.        *)
Archive(q, from, to, e) ==
    /\ Go(q, from, [job[q] EXCEPT !.at = to, !.sees = Active(e)])
    /\ UNCHANGED <<row, schedule>>

ActivateArchives(q) == Archive(q, "load", "activate", row[job[q].version].env)
NoUniqueIndex(e, sees) == TRUE
(* one_active_version.                                                     *)
OnlyActive(e, sees) == Active(e) \subseteq sees

Retired(sees) == [v \in Versions |->
    IF v \in sees /\ row[v].status = "active" THEN [row[v] EXCEPT !.status = "archived"] ELSE row[v]]

(* Without a cron trigger syncSchedule returns at once.                    *)
Syncs(q, v, d) == IF d.cron THEN [Idle EXCEPT !.at = "unschedule", !.version = v] ELSE Idle

ActivateCommits(q) == LET v == job[q].version IN
    /\ Go(q, "activate", Syncs(q, v, row[v].def))
    /\ OnlyActive(row[v].env, job[q].sees)
    /\ row' = [Retired(job[q].sees) EXCEPT ![v].status = "active"]
    /\ UNCHANGED schedule

-----------------------------------------------------------------------------
(* pipelinePromote, createProductionVersion and pipelineStage.             *)

PipelinePromote(q, u, v) == \E override \in BOOLEAN :
    Allows(u, row[v], "admin") /\ Load(q, u, v, "gate", override)

DeriveStage(r) == IF r.status # "active" THEN "draft" ELSE IF r.env = "prod" THEN "production" ELSE "testing"

PipelineStage(q, u, v) ==
    /\ Allows(u, row[v], "admin")
    /\ \/ DeriveStage(row[v]) = "draft" /\ Load(q, u, v, "load", FALSE)
       \/ DeriveStage(row[v]) = "testing" /\ \E override \in BOOLEAN : Load(q, u, v, "gate", override)

AnythingGoes(old, new) == FALSE
(* compareContracts: fields that are gone.                                 *)
Breaks(old, new) == old.fields \ new.fields # {}

UntestedToo(r) == r.env = "test"
Promotable(r) == r.env = "test" /\ r.tested

PromoteGate(q) == LET v == job[q].version IN
    /\ Go(q, "gate", [job[q] EXCEPT !.at = "compared"])
    /\ Promotable(row[v])
    /\ job[q].override \/ \A w \in Active("prod") : ~Breaks(row[w].def, row[v].def)
    /\ UNCHANGED <<row, schedule>>

PromoteArchives(q) == Archive(q, "compared", "promote", "prod")

PromotesForUser(r, u) == [r EXCEPT !.creator = u, !.access = [w \in User |-> 0]]
Promoted(r, u) == r

PromoteCommits(q) == LET v == job[q].version IN
    /\ job[q].at = "promote" /\ Len(row) < MaxRows /\ OnlyActive("prod", job[q].sees)
    /\ row' = Append(Retired(job[q].sees),
                     [Promoted(row[v], job[q].user) EXCEPT !.env = "prod", !.status = "active", !.from = v])
    /\ Go(q, "promote", Syncs(q, Len(row) + 1, row[v].def))
    /\ UNCHANGED schedule

-----------------------------------------------------------------------------
(* syncSchedule: the schedule is deleted, errors ignored, and created.     *)

KeepsSchedule(e) == schedule
NoneScheduled(e) == [schedule EXCEPT ![e] = 0]

Unschedule(q) == LET e == row[job[q].version].env IN
    /\ Go(q, "unschedule", [job[q] EXCEPT !.at = "schedule"])
    /\ schedule' \in {NoneScheduled(e)} \cup (IF Reliable THEN {} ELSE {schedule})
    /\ UNCHANGED row

Schedule(q) == LET v == job[q].version IN
    /\ Go(q, "schedule", Idle)
    /\ schedule[row[v].env] = 0
    /\ schedule' = [schedule EXCEPT ![row[v].env] = v]
    /\ UNCHANGED row

(* Any statement, check or call may fail; a schedule that is still there   *)
(* makes the second call fail.                                             *)
Fails(q) ==
    /\ job[q].at # "idle"
    /\ Reliable => /\ job[q].at # "unschedule"
                   /\ job[q].at = "schedule" => schedule[row[job[q].version].env] # 0
    /\ job' = [job EXCEPT ![q] = Idle]
    /\ UNCHANGED <<row, schedule>>

Handle(q) ==
    \/ \E u \in User : \/ \E d \in Definition : SaveBegin(q, u, d)
                       \/ \E v \in Versions : PipelineActivate(q, u, v) \/ PipelinePromote(q, u, v) \/ PipelineStage(q, u, v)
    \/ SaveCommit(q) \/ ActivateArchives(q) \/ ActivateCommits(q)
    \/ PromoteGate(q) \/ PromoteArchives(q) \/ PromoteCommits(q)
    \/ Unschedule(q) \/ Schedule(q) \/ Fails(q)

Next ==
    \/ \E q \in Request : Handle(q)
    \/ \E v \in Versions : RunCompletes(v) \/ \E u, w \in User, n \in Grants : PipelineAccessGrant(u, v, w, n)

Spec == Init /\ [][Next]_vars

-----------------------------------------------------------------------------
(* Properties.                                                             *)

(* Two activations of different versions never leave both active.          *)
OneActive == \A e \in Env : Cardinality(Active(e)) <= 1

(* "Production promotion should require a green Integration run", and a    *)
(* production version is the version that had it.                          *)
ProductionWasTested == \A v \in Versions : row[v].env = "prod" =>
    LET o == row[row[v].from] IN o.env = "test" /\ o.tested /\ o.def = row[v].def

(* "so pipeline roles mean the same in both environments": at promotion.   *)
Added == Len(row') > Len(row)
Newest == row'[Len(row')]
CarriesRoles == (Added /\ Newest.env = "prod") =>
    \A u \in User, m \in {"viewer", "editor", "admin"} : Allows(u, row[Newest.from], m) <=> Allows(u, Newest, m)

(* "carries that version's sharing forward": whoever could use the latest  *)
(* version can use the one that is saved after it.                         *)
CarriesSharing == (Added /\ Newest.env = "test" /\ Latest(Tests) # 0) =>
    \A u \in User, m \in {"viewer", "editor", "admin"} : Allows(u, row[Latest(Tests)], m) => Allows(u, Newest, m)

(* "Production promotion compares published output contracts against the   *)
(* active production version": a promotion that does not override keeps    *)
(* what the version it replaces promised.                                  *)
KeepsContract == \A q \in Request :
    (job[q].at = "promote" /\ job'[q].at # "promote" /\ ~job[q].override /\ Added)
        => \A v \in Active("prod") : row[v].def.fields \subseteq Newest.def.fields

(* "Activation archives the previous active version [...] and synchronizes *)
(* its cron schedule": at rest, a schedule runs the active version.        *)
AtRest == \A q \in Request : job[q].at = "idle"
ScheduleFollowsActive == AtRest => \A e \in Env : schedule[e] # 0 => row[schedule[e]].status = "active"

=============================================================================
