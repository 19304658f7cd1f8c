---------------------------- MODULE PipelineProofs ----------------------------
(***************************************************************************)
(* What holds of pipelines, for every value of the constants: of their     *)
(* versions, schedules and promotions (PipelineLifecycle, first part); of  *)
(* walks through the pages of a listing (ListPages); of the plan of a      *)
(* backfill (BackfillPlan); and of the graph of nodes, as validatePipeline *)
(* and buildPlan walk it (PipelineGraph).                                  *)
(***************************************************************************)
EXTENDS PipelineLifecycle, WellFoundedInduction, SequenceTheorems, FiniteSetTheorems, TLAPS

Stage == {"idle", "save", "load", "gate", "compared", "activate", "promote", "unschedule", "schedule"}
Job == [at : Stage, user : User \cup {Idle.user}, version : 0..MaxRows, def : Definition \cup {Idle.def},
        sees : SUBSET (1..MaxRows), override : BOOLEAN]

(* A request that saves has a user, a definition and the version it takes  *)
(* the sharing from; any other works on a version that exists.             *)
JobTyped(j) ==
    /\ j.at = "save" => j.user \in User /\ j.def \in Definition /\ j.version \in {0} \cup Tests
    /\ j.at \notin {"idle", "save"} => j.version \in Versions

Types ==
    /\ row \in Seq(Row) /\ Len(row) <= MaxRows
    /\ schedule \in [Env -> 0..MaxRows]
    /\ job \in [Request -> Job]
    /\ \A q \in Request : JobTyped(job[q])

-----------------------------------------------------------------------------
(* A set of version numbers that is not empty has a greatest one.          *)
LEMMA Greatest ==
  ASSUME NEW n \in Nat, NEW V, V \subseteq 1..n, V # {}
  PROVE  Latest(V) \in V /\ \A w \in V : w <= Latest(V)
  <1> DEFINE R == OpToRel(<, Nat)
             Gaps == {n - w : w \in V}
  <1>1. IsWellFoundedOn(R, Nat)
    BY NatLessThanWellFounded
  <1>2. \A x, y \in Nat : x < y => <<x, y>> \in R
    BY DEF OpToRel
  <1>3. Gaps \subseteq Nat /\ Gaps # {}
    <2>1. \A w \in V : n - w \in Nat
      OBVIOUS
    <2> QED BY <2>1
  <1>4. PICK g \in Gaps : \A h \in Gaps : ~(<<h, g>> \in R)
    <2> HIDE DEF R, Gaps
    <2> QED BY <1>1, <1>3, WFMin
  <1>5. PICK v \in V : g = n - v
    BY <1>4
  <1>6. \A w \in V : w <= v
    <2> HIDE DEF R
    <2> TAKE w \in V
    <2>1. ~(<<n - w, g>> \in R) /\ n - w \in Nat /\ g \in Nat
      BY <1>3, <1>4
    <2>2. ~(n - w < g)
      BY <1>2, <2>1
    <2> QED BY <2>1, <2>2, <1>5
  <1> QED BY <1>5, <1>6 DEF Latest

LEMMA LatestTest ==
  ASSUME Types, Latest(Tests) # 0
  PROVE  Latest(Tests) \in Tests
  <1>1. Tests \subseteq 1..Len(row) /\ Len(row) \in Nat
    BY DEF Types, Tests, Versions
  <1>2. Tests # {}
    BY DEF Latest
  <1> QED BY <1>1, <1>2, Greatest

(* What a request and a row are made of.                                   *)
LEMMA IdleTyped == OwnerAssumption => Idle \in Job /\ Idle.at = "idle" /\ Idle.version = 0 /\ Idle.sees = {}
  BY DEF OwnerAssumption, Idle, Job, Stage
LEMMA DraftTyped == OwnerAssumption => \A u \in User, d \in Definition : Draft(u, d) \in Row
  BY DEF OwnerAssumption, Draft, Row, Env
LEMMA Rows ==
  ASSUME OwnerAssumption, Types
  PROVE  /\ Len(row) \in Nat /\ Versions = 1..Len(row) /\ Versions \subseteq 1..MaxRows
         /\ \A v \in Versions : row[v] \in Row
  BY DEF OwnerAssumption, Types, Versions

(* What the writes leave of the versions.                                  *)
LEMMA RetiredRows ==
  ASSUME OwnerAssumption, Types, NEW sees
  PROVE  /\ Retired(sees) \in Seq(Row) /\ Len(Retired(sees)) = Len(row) /\ DOMAIN Retired(sees) = Versions
         /\ \A v \in Versions : Retired(sees)[v] = IF v \in sees /\ row[v].status = "active"
                                                   THEN [row[v] EXCEPT !.status = "archived"] ELSE row[v]
  <1> DEFINE e(v) == IF v \in sees /\ row[v].status = "active" THEN [row[v] EXCEPT !.status = "archived"] ELSE row[v]
  <1>1. \A v \in 1..Len(row) : e(v) \in Row
    BY Rows DEF Row
  <1>2. [v \in 1..Len(row) |-> e(v)] \in Seq(Row)
    <2> HIDE DEF e
    <2> QED BY <1>1, Rows
  <1>3. Retired(sees) = [v \in 1..Len(row) |-> e(v)]
    BY DEF Retired, Versions
  <1>4. Len(Retired(sees)) = Len(row)
    BY <1>2, <1>3, Rows, LenProperties
  <1> QED BY <1>2, <1>3, <1>4 DEF Versions

(* No step undoes what a version is: its environment, its definition, the  *)
(* version it was made from, and that an Integration run of it was green.  *)
Keeps ==
    /\ row' \in Seq(Row) /\ Len(row) <= Len(row') /\ Len(row') <= MaxRows
    /\ \A v \in Versions : /\ row'[v].env = row[v].env /\ row'[v].def = row[v].def /\ row'[v].from = row[v].from
                           /\ row[v].tested => row'[v].tested

(* The actions that leave the versions alone.                              *)
Reads(q) ==
    \/ \E u \in User : \/ \E d \in Definition : SaveBegin(q, u, d)
                       \/ \E v \in Versions : PipelineActivate(q, u, v) \/ PipelinePromote(q, u, v) \/ PipelineStage(q, u, v)
    \/ ActivateArchives(q) \/ PromoteGate(q) \/ PromoteArchives(q) \/ Unschedule(q) \/ Schedule(q) \/ Fails(q)

LEMMA ReadsKeepRows ==
  ASSUME NEW q \in Request, Reads(q)
  PROVE  row' = row
  BY DEF Reads, SaveBegin, PipelineActivate, PipelinePromote, PipelineStage, Load, ActivateArchives, PromoteGate,
         PromoteArchives, Archive, Unschedule, Schedule, Fails

LEMMA SaveRows ==
  ASSUME OwnerAssumption, Types, NEW q \in Request, SaveCommit(q)
  PROVE  \E n \in Row :
            /\ row' = Append(row, n) /\ row' \in Seq(Row) /\ Len(row') = Len(row) + 1 /\ Len(row') <= MaxRows
            /\ \A v \in Versions : row'[v] = row[v]
            /\ row'[Len(row) + 1] = n
            /\ n.env = "test" /\ n.status = "draft" /\ n.creator = job[q].user
            /\ job[q].version # 0 => n.access = Carried(job[q].user, job[q].version)
  <1> DEFINE u == job[q].user
             p == job[q].version
             n == [Draft(u, job[q].def) EXCEPT !.access = IF p = 0 THEN @ ELSE Carried(u, p)]
  <1>1. u \in User /\ job[q].def \in Definition /\ p \in {0} \cup Tests
    BY DEF SaveCommit, Go, Types, JobTyped
  <1>2. Draft(u, job[q].def) \in Row
    BY <1>1, DraftTyped
  <1>3. p # 0 => Carried(u, p) \in [User -> 0..3]
    <2> SUFFICES ASSUME p # 0 PROVE Carried(u, p) \in [User -> 0..3]
      OBVIOUS
    <2>1. p \in Versions /\ row[p] \in Row
      BY <1>1, Rows DEF Tests
    <2> HIDE DEF u, p
    <2> QED BY <2>1 DEF Carried, Row, Role
  <1>4. /\ n \in Row /\ n.env = "test" /\ n.status = "draft" /\ n.creator = u
        /\ p # 0 => n.access = Carried(u, p)
    <2>1. n = [Draft(u, job[q].def) EXCEPT !.access = IF p = 0 THEN Draft(u, job[q].def).access ELSE Carried(u, p)]
      OBVIOUS
    <2> HIDE DEF u, p
    <2> QED BY <1>2, <1>3, <2>1 DEF Row, Draft
  <1>5. Len(row) < MaxRows /\ row' = Append(row, n)
    BY DEF SaveCommit
  <1> HIDE DEF n
  <1>6. /\ row' \in Seq(Row) /\ Len(row') = Len(row) + 1
        /\ \A v \in Versions : row'[v] = row[v]
        /\ row'[Len(row) + 1] = n
    BY <1>4, <1>5, AppendProperties DEF Types, Versions
  <1> QED BY <1>4, <1>5, <1>6, Rows DEF OwnerAssumption

(* Every write of a row but its promotion leaves what the row is.          *)
Same(x, r) == x.env = r.env /\ x.def = r.def /\ x.from = r.from /\ x.creator = r.creator
LEMMA StatusWrite ==
  ASSUME NEW r \in Row, NEW s
  PROVE  LET x == [r EXCEPT !.status = s] IN Same(x, r) /\ x.tested = r.tested /\ x.status = s
  BY DEF Row, Same
LEMMA AccessWrite ==
  ASSUME NEW r \in Row, NEW a
  PROVE  LET x == [r EXCEPT !.access = a] IN Same(x, r) /\ x.tested = r.tested /\ x.status = r.status
  BY DEF Row, Same
LEMMA TestedWrite ==
  ASSUME NEW r \in Row
  PROVE  LET x == [r EXCEPT !.tested = TRUE] IN Same(x, r) /\ x.tested /\ x.status = r.status
  BY DEF Row, Same

LEMMA RetiredKeeps ==
  ASSUME OwnerAssumption, Types, NEW sees
  PROVE  \A v \in Versions :
            LET r == Retired(sees)[v] IN
            /\ Same(r, row[v]) /\ r.tested = row[v].tested
            /\ r \in Row /\ (r.status = "active" <=> row[v].status = "active" /\ v \notin sees)
  <1> TAKE v \in Versions
  <1>1. /\ Retired(sees)[v] = IF v \in sees /\ row[v].status = "active" THEN [row[v] EXCEPT !.status = "archived"] ELSE row[v]
        /\ row[v] \in Row
    BY RetiredRows, Rows
  <1>2. LET x == [row[v] EXCEPT !.status = "archived"] IN x \in Row /\ Same(x, row[v]) /\ x.tested = row[v].tested /\ x.status = "archived"
    <2>1. [row[v] EXCEPT !.status = "archived"] \in Row
      BY <1>1 DEF Row
    <2> QED BY <1>1, <2>1, StatusWrite, Zenon
  <1>3. CASE v \in sees /\ row[v].status = "active"
    BY <1>1, <1>2, <1>3
  <1>4. CASE ~(v \in sees /\ row[v].status = "active")
    BY <1>1, <1>4 DEF Same
  <1> QED BY <1>3, <1>4

LEMMA GrantRows ==
  ASSUME OwnerAssumption, Types, NEW v \in Versions, NEW u \in User, NEW w \in User, NEW n \in Grants,
         PipelineAccessGrant(u, v, w, n)
  PROVE  /\ row' \in Seq(Row) /\ Len(row') = Len(row)
         /\ \A x \in Versions : Same(row'[x], row[x]) /\ row'[x].tested = row[x].tested /\ row'[x].status = row[x].status
  <1> DEFINE r == [row[v] EXCEPT !.access = [row[v].access EXCEPT ![w] = n]]
  <1>1. row[v] \in Row /\ n \in 0..3
    BY Rows DEF OwnerAssumption
  <1>2. r \in Row
    BY <1>1 DEF Row
  <1>3. Same(r, row[v]) /\ r.tested = row[v].tested /\ r.status = row[v].status
    BY <1>1, AccessWrite, Zenon
  <1>4. row' = [row EXCEPT ![v] = r]
    BY DEF PipelineAccessGrant
  <1> HIDE DEF r
  <1>5. /\ row' \in Seq(Row) /\ Len(row') = Len(row)
        /\ \A x \in Versions : row'[x] = IF x = v THEN r ELSE row[x]
    BY <1>2, <1>4, ExceptSeq DEF Types, Versions
  <1> QED BY <1>3, <1>5 DEF Same

LEMMA RunRows ==
  ASSUME OwnerAssumption, Types, NEW v \in Versions, RunCompletes(v)
  PROVE  /\ row' \in Seq(Row) /\ Len(row') = Len(row)
         /\ \A x \in Versions : Same(row'[x], row[x]) /\ (row[x].tested => row'[x].tested) /\ row'[x].status = row[x].status
  <1> DEFINE r == [row[v] EXCEPT !.tested = TRUE]
  <1>1. row[v] \in Row
    BY Rows
  <1>2. r \in Row
    BY <1>1 DEF Row
  <1>3. Same(r, row[v]) /\ r.tested /\ r.status = row[v].status
    BY <1>1, TestedWrite, Zenon
  <1>4. row' = [row EXCEPT ![v] = r]
    BY DEF RunCompletes
  <1> HIDE DEF r
  <1>5. /\ row' \in Seq(Row) /\ Len(row') = Len(row)
        /\ \A x \in Versions : row'[x] = IF x = v THEN r ELSE row[x]
    BY <1>2, <1>4, ExceptSeq DEF Types, Versions
  <1> QED BY <1>3, <1>5 DEF Same

(* Version v becomes active and those of sees are archived.                *)
Activates(v, sees) ==
    /\ v \in Versions /\ row' \in Seq(Row) /\ Len(row') = Len(row)
    /\ \A x \in Versions : /\ Same(row'[x], row[x]) /\ row'[x].tested = row[x].tested
                          /\ (row'[x].status = "active" <=> (x = v \/ (row[x].status = "active" /\ x \notin sees)))

LEMMA ActivateRows ==
  ASSUME OwnerAssumption, Types, NEW q \in Request, ActivateCommits(q)
  PROVE  Activates(job[q].version, job[q].sees)
  <1> DEFINE v == job[q].version
             sees == job[q].sees
             o == Retired(sees)
             r == [o[v] EXCEPT !.status = "active"]
  <1>1. v \in Versions
    BY DEF ActivateCommits, Go, Types, JobTyped
  <1>2. /\ o \in Seq(Row) /\ Len(o) = Len(row)
        /\ \A x \in Versions : /\ Same(o[x], row[x]) /\ o[x].tested = row[x].tested
                              /\ o[x] \in Row /\ (o[x].status = "active" <=> row[x].status = "active" /\ x \notin sees)
    BY RetiredRows, RetiredKeeps
  <1>3. row' = [o EXCEPT ![v] = r]
    BY DEF ActivateCommits
  <1> HIDE DEF o
  <1>4. r \in Row
    BY <1>1, <1>2 DEF Row
  <1>5. Same(r, o[v]) /\ r.tested = o[v].tested /\ r.status = "active"
    <2>1. o[v] \in Row
      BY <1>1, <1>2
    <2> QED BY <2>1, StatusWrite, Zenon
  <1> HIDE DEF r
  <1>6. /\ row' \in Seq(Row) /\ Len(row') = Len(row)
        /\ \A x \in Versions : row'[x] = IF x = v THEN r ELSE o[x]
    BY <1>1, <1>2, <1>3, <1>4, ExceptSeq DEF Versions
  <1>7. ASSUME NEW x \in Versions
        PROVE  /\ Same(row'[x], row[x]) /\ row'[x].tested = row[x].tested
               /\ (row'[x].status = "active" <=> (x = v \/ (row[x].status = "active" /\ x \notin sees)))
    BY <1>2, <1>5, <1>6 DEF Same
  <1> QED BY <1>1, <1>6, <1>7 DEF Activates

(* A production version is made from v, and those of sees are archived.    *)
Promotes(v, sees) ==
    /\ v \in Versions /\ row' \in Seq(Row) /\ Len(row') = Len(row) + 1 /\ Len(row') <= MaxRows
    /\ \A x \in Versions : /\ Same(row'[x], row[x]) /\ row'[x].tested = row[x].tested
                          /\ (row'[x].status = "active" <=> (row[x].status = "active" /\ x \notin sees))
    /\ LET n == row'[Len(row) + 1] IN
        /\ n.env = "prod" /\ n.status = "active" /\ n.from = v
        /\ n.def = row[v].def /\ n.creator = row[v].creator /\ n.access = row[v].access

LEMMA PromoteRows ==
  ASSUME OwnerAssumption, Types, NEW q \in Request, PromoteCommits(q)
  PROVE  Promotes(job[q].version, job[q].sees)
  <1> DEFINE v == job[q].version
             sees == job[q].sees
             o == Retired(sees)
             r == [row[v] EXCEPT !.env = "prod", !.status = "active", !.from = v]
  <1>1. v \in Versions /\ row[v] \in Row /\ v \in 0..MaxRows
    BY Rows DEF PromoteCommits, Types, JobTyped, OwnerAssumption
  <1>2. /\ o \in Seq(Row) /\ Len(o) = Len(row)
        /\ \A x \in Versions : /\ Same(o[x], row[x]) /\ o[x].tested = row[x].tested
                              /\ o[x] \in Row /\ (o[x].status = "active" <=> row[x].status = "active" /\ x \notin sees)
    BY RetiredRows, RetiredKeeps
  <1>3. r \in Row
    BY <1>1 DEF Row, Env
  <1>4. /\ r.env = "prod" /\ r.status = "active" /\ r.from = v
        /\ r.def = row[v].def /\ r.creator = row[v].creator /\ r.access = row[v].access
    BY <1>1 DEF Row
  <1>5. Len(row) < MaxRows /\ row' = Append(o, r)
    BY DEF PromoteCommits, Promoted
  <1> HIDE DEF r, o
  <1>6. /\ row' \in Seq(Row) /\ Len(row') = Len(o) + 1 /\ row'[Len(o) + 1] = r
        /\ \A x \in 1..Len(o) : row'[x] = o[x]
    BY <1>2, <1>3, <1>5, AppendProperties
  <1>7. \A x \in Versions : row'[x] = o[x]
    BY <1>2, <1>6 DEF Versions
  <1>8. Len(row) + 1 <= MaxRows
    BY <1>5, Rows DEF OwnerAssumption
  <1> QED BY <1>1, <1>2, <1>4, <1>6, <1>7, <1>8 DEF Promotes

-----------------------------------------------------------------------------
(* Types is inductive.                                                     *)
LEMMA StepForms ==
  ASSUME Next
  PROVE  \/ \E q \in Request : Reads(q) \/ SaveCommit(q) \/ ActivateCommits(q) \/ PromoteCommits(q)
         \/ \E v \in Versions : RunCompletes(v)
         \/ \E v \in Versions, u, w \in User, n \in Grants : PipelineAccessGrant(u, v, w, n)
  BY DEF Next, Handle, Reads

LEMMA StepKeeps ==
  ASSUME OwnerAssumption, Types, [Next]_vars
  PROVE  Keeps
  <1>0. row \in Seq(Row) /\ Len(row) <= MaxRows /\ Len(row) \in Nat
    BY Rows DEF Types
  <1>1. CASE UNCHANGED vars
    BY <1>0, <1>1 DEF Keeps, vars
  <1>2. ASSUME NEW q \in Request, Reads(q) PROVE Keeps
    BY <1>0, <1>2, ReadsKeepRows DEF Keeps
  <1>3. ASSUME NEW q \in Request, SaveCommit(q) PROVE Keeps
    BY <1>0, <1>3, SaveRows DEF Keeps
  <1>4. ASSUME NEW q \in Request, ActivateCommits(q) PROVE Keeps
    <2>1. PICK v, sees : Activates(v, sees)
      BY <1>4, ActivateRows
    <2> QED BY <1>0, <2>1 DEF Activates, Keeps, Same
  <1>5. ASSUME NEW q \in Request, PromoteCommits(q) PROVE Keeps
    <2>1. PICK v, sees : Promotes(v, sees)
      BY <1>5, PromoteRows
    <2> QED BY <1>0, <2>1 DEF Promotes, Keeps, Same
  <1>6. ASSUME NEW v \in Versions, RunCompletes(v) PROVE Keeps
    <2>1. row' \in Seq(Row) /\ Len(row') = Len(row)
          /\ \A x \in Versions : Same(row'[x], row[x]) /\ (row[x].tested => row'[x].tested)
      BY <1>6, RunRows
    <2> QED BY <1>0, <2>1 DEF Keeps, Same
  <1>7. ASSUME NEW v \in Versions, NEW u \in User, NEW w \in User, NEW n \in Grants, PipelineAccessGrant(u, v, w, n)
        PROVE  Keeps
    <2>1. row' \in Seq(Row) /\ Len(row') = Len(row)
          /\ \A x \in Versions : Same(row'[x], row[x]) /\ row'[x].tested = row[x].tested
      BY <1>7, GrantRows
    <2> QED BY <1>0, <2>1 DEF Keeps, Same
  <1> QED BY <1>1, <1>2, <1>3, <1>4, <1>5, <1>6, <1>7, StepForms

LEMMA KeptVersions ==
  ASSUME OwnerAssumption, Types, Keeps
  PROVE  /\ Len(row') \in Nat /\ Versions' = 1..Len(row') /\ Versions \subseteq Versions' /\ Tests \subseteq Tests'
         /\ \A j : JobTyped(j) => JobTyped(j)'
  <1>1. Len(row') \in Nat /\ Versions' = 1..Len(row') /\ Versions \subseteq Versions'
    BY Rows DEF Keeps, Versions
  <1>2. Tests \subseteq Tests'
    BY <1>1 DEF Tests, Keeps
  <1> QED BY <1>1, <1>2 DEF JobTyped

LEMMA GoTyped ==
  ASSUME Types, NEW q \in Request, NEW s, NEW j \in Job, Go(q, s, j)
  PROVE  /\ job[q].at = s /\ job' \in [Request -> Job] /\ job'[q] = j
         /\ \A p \in Request \ {q} : job'[p] = job[p]
  BY DEF Types, Go

LEMMA JobStep ==
  ASSUME OwnerAssumption, Types, Keeps, NEW q \in Request, NEW s, NEW j \in Job, Go(q, s, j), JobTyped(j)',
         schedule' \in [Env -> 0..MaxRows]
  PROVE  Types'
  <1>1. /\ job' \in [Request -> Job] /\ job'[q] = j
        /\ \A p \in Request \ {q} : job'[p] = job[p]
    BY GoTyped
  <1>2. ASSUME NEW p \in Request PROVE JobTyped(job[p])'
    <2>1. CASE p = q
      <3>1. (job[p])' = j
        BY <1>1, <2>1
      <3> QED BY <3>1 DEF JobTyped
    <2>2. CASE p # q
      <3>1. (job[p])' = job[p] /\ JobTyped(job[p])
        BY <1>1, <2>2 DEF Types
      <3>2. PICK k : k = job[p]
        OBVIOUS
      <3>3. JobTyped(k)'
        BY <3>1, <3>2, KeptVersions
      <3> QED BY <3>1, <3>2, <3>3 DEF JobTyped
    <2> QED BY <2>1, <2>2
  <1> QED BY <1>1, <1>2 DEF Types, Keeps, Job, Row, Stage, Env

LEMMA IdleStep ==
  ASSUME OwnerAssumption, Types, Keeps, NEW q \in Request, NEW s, Go(q, s, Idle),
         schedule' \in [Env -> 0..MaxRows]
  PROVE  Types'
  <1>1. Idle \in Job /\ JobTyped(Idle)'
    BY IdleTyped DEF JobTyped
  <1> QED BY <1>1, JobStep

(* What an action makes of the request that it handles.                    *)
LEMMA SyncsTyped ==
  ASSUME OwnerAssumption, NEW q, NEW v \in 0..MaxRows, NEW d
  PROVE  /\ Syncs(q, v, d) \in Job
         /\ Syncs(q, v, d).at \in {"idle", "unschedule"}
         /\ Syncs(q, v, d).at = "unschedule" => Syncs(q, v, d).version = v
         /\ d.cron => Syncs(q, v, d).at = "unschedule"
  BY IdleTyped DEF Syncs, Idle, Job, Stage

LEMMA ReadsTypes ==
  ASSUME OwnerAssumption, Types, Keeps, NEW q \in Request, Reads(q)
  PROVE  Types'
  <1>0. /\ schedule \in [Env -> 0..MaxRows] /\ job[q] \in Job /\ JobTyped(job[q])
        /\ Versions \subseteq 0..MaxRows
    BY Rows DEF Types, OwnerAssumption
  <1>1. ASSUME NEW u \in User, NEW d \in Definition, SaveBegin(q, u, d) PROVE Types'
    <2>0. PICK p, j : p = Latest(Tests) /\ j = [Idle EXCEPT !.at = "save", !.user = u, !.version = p, !.def = d]
      OBVIOUS
    <2>1. p \in {0} \cup Tests /\ p \in 0..MaxRows
      BY <1>0, <2>0, LatestTest DEF Tests, OwnerAssumption
    <2>2. Go(q, "idle", j) /\ schedule' = schedule
      BY <1>1, <2>0 DEF SaveBegin
    <2>3. j \in Job /\ j.at = "save" /\ j.version = p /\ j.user = u /\ j.def = d
      BY <2>0, <2>1, IdleTyped DEF Idle, Job, Stage
    <2>4. JobTyped(j)'
      BY <2>1, <2>3, KeptVersions DEF JobTyped
    <2> QED BY <1>0, <2>2, <2>3, <2>4, JobStep
  <1>2. ASSUME NEW u \in User, NEW v \in Versions, NEW s \in {"load", "gate"}, NEW o \in BOOLEAN, Load(q, u, v, s, o)
        PROVE  Types'
    <2>0. PICK j : j = [Idle EXCEPT !.at = s, !.user = u, !.version = v, !.override = o]
      OBVIOUS
    <2>1. v \in 0..MaxRows /\ s \in Stage
      BY <1>0 DEF Stage
    <2>2. Go(q, "idle", j) /\ schedule' = schedule
      BY <1>2, <2>0 DEF Load
    <2>3. j \in Job /\ j.at = s /\ j.version = v
      BY <2>0, <2>1, IdleTyped DEF Idle, Job
    <2>4. JobTyped(j)'
      BY <2>3, KeptVersions DEF JobTyped
    <2> QED BY <1>0, <2>2, <2>3, <2>4, JobStep
  <1>3. ASSUME NEW s, NEW t \in Stage, NEW e, Archive(q, s, t, e), s \notin {"idle", "save"}, t # "save" PROVE Types'
    <2>0. PICK j : j = [job[q] EXCEPT !.at = t, !.sees = Active(e)]
      OBVIOUS
    <2>1. Active(e) \in SUBSET (1..MaxRows)
      BY Rows DEF Active
    <2>2. Go(q, s, j) /\ schedule' = schedule /\ job[q].at = s
      BY <1>3, <2>0 DEF Archive, Go
    <2>3. j \in Job /\ j.at = t /\ j.version = job[q].version
      BY <1>0, <2>0, <2>1 DEF Job
    <2>4. JobTyped(j)'
      BY <1>0, <1>3, <2>2, <2>3, KeptVersions DEF JobTyped
    <2> QED BY <1>0, <2>2, <2>3, <2>4, JobStep
  <1>4. ASSUME NEW s, NEW t \in Stage, Go(q, s, [job[q] EXCEPT !.at = t]), s \notin {"idle", "save"}, t # "save",
               schedule' \in [Env -> 0..MaxRows]
        PROVE  Types'
    <2>0. PICK j : j = [job[q] EXCEPT !.at = t]
      OBVIOUS
    <2>1. j \in Job /\ j.at = t /\ j.version = job[q].version
      BY <1>0, <2>0 DEF Job
    <2>2. Go(q, s, j) /\ job[q].at = s
      BY <1>4, <2>0 DEF Go
    <2>3. JobTyped(j)'
      BY <1>0, <1>4, <2>1, <2>2, KeptVersions DEF JobTyped
    <2> QED BY <1>4, <2>1, <2>2, <2>3, JobStep
  <1>5. CASE \E u \in User : \E v \in Versions : PipelineActivate(q, u, v) \/ PipelinePromote(q, u, v) \/ PipelineStage(q, u, v)
    BY <1>2, <1>5 DEF PipelineActivate, PipelinePromote, PipelineStage
  <1>6. CASE ActivateArchives(q)
    <2>1. PICK e : Archive(q, "load", "activate", e)
      BY <1>6 DEF ActivateArchives
    <2> QED BY <2>1, <1>3 DEF Stage
  <1>7. CASE PromoteArchives(q)
    BY <1>3, <1>7 DEF PromoteArchives, Stage
  <1>8. CASE PromoteGate(q)
    BY <1>0, <1>4, <1>8 DEF PromoteGate, Stage
  <1>9. CASE Unschedule(q)
    <2>1. schedule' \in [Env -> 0..MaxRows]
      BY <1>0, <1>9 DEF Unschedule, NoneScheduled, OwnerAssumption
    <2> QED BY <1>4, <1>9, <2>1 DEF Unschedule, Stage
  <1>10. CASE Schedule(q)
    <2>1. job[q].at = "schedule" /\ job[q].version \in Versions
      BY <1>0, <1>10 DEF Schedule, Go, JobTyped
    <2>2. schedule' \in [Env -> 0..MaxRows]
      BY <1>0, <1>10, <2>1 DEF Schedule
    <2> QED BY <1>10, <2>2, IdleStep DEF Schedule
  <1>11. CASE Fails(q)
    <2>1. Go(q, job[q].at, Idle) /\ schedule' = schedule
      BY <1>11 DEF Fails, Go
    <2> QED BY <1>0, <2>1, IdleStep
  <1>12. CASE \E u \in User : \E d \in Definition : SaveBegin(q, u, d)
    BY <1>1, <1>12
  <1> QED BY <1>5, <1>6, <1>7, <1>8, <1>9, <1>10, <1>11, <1>12 DEF Reads

LEMMA StepTypes ==
  ASSUME OwnerAssumption, Types, [Next]_vars
  PROVE  Types'
  <1>0. Keeps /\ schedule \in [Env -> 0..MaxRows]
    BY StepKeeps DEF Types
  <1>1. ASSUME job' = job, schedule' = schedule PROVE Types'
    <2>1. ASSUME NEW q \in Request PROVE JobTyped(job[q])'
      <3>1. PICK j : j = job[q] /\ j = job'[q] /\ JobTyped(j)
        BY <1>1 DEF Types
      <3>2. JobTyped(j)'
        BY <1>0, <3>1, KeptVersions
      <3> QED BY <3>1, <3>2 DEF JobTyped
    <2> QED BY <1>0, <1>1, <2>1 DEF Types, Keeps, Job, Row, Stage, Env
  <1>2. CASE UNCHANGED vars
    BY <1>1, <1>2 DEF vars
  <1>3. ASSUME NEW q \in Request, Reads(q) PROVE Types'
    BY <1>0, <1>3, ReadsTypes
  <1>4. ASSUME NEW q \in Request, SaveCommit(q) PROVE Types'
    BY <1>0, <1>4, IdleStep DEF SaveCommit
  <1>5. ASSUME NEW q \in Request, NEW s, NEW v \in Versions', NEW d, Go(q, s, Syncs(q, v, d)), UNCHANGED schedule PROVE Types'
    <2>1. v \in 0..MaxRows
      BY <1>0, KeptVersions DEF OwnerAssumption, Keeps
    <2>2. PICK j : j = Syncs(q, v, d)
      OBVIOUS
    <2>3. j \in Job /\ j.at \in {"idle", "unschedule"} /\ (j.at = "unschedule" => j.version = v)
      BY <2>1, <2>2, SyncsTyped
    <2>4. JobTyped(j)'
      BY <2>3 DEF JobTyped
    <2> QED BY <1>0, <1>5, <2>2, <2>3, <2>4, JobStep
  <1>6. ASSUME NEW q \in Request, ActivateCommits(q) PROVE Types'
    <2>1. job[q].version \in Versions'
      BY <1>0, <1>6, ActivateRows, KeptVersions DEF Activates
    <2> QED BY <1>5, <1>6, <2>1 DEF ActivateCommits
  <1>7. ASSUME NEW q \in Request, PromoteCommits(q) PROVE Types'
    <2>1. Len(row) + 1 \in Versions'
      <3>1. Len(row') = Len(row) + 1 /\ Len(row) \in Nat
        BY <1>7, PromoteRows, Rows DEF Promotes
      <3> QED BY <3>1 DEF Versions
    <2> QED BY <1>5, <1>7, <2>1 DEF PromoteCommits
  <1>8. CASE \E v \in Versions : RunCompletes(v)
    BY <1>1, <1>8 DEF RunCompletes
  <1>9. CASE \E v \in Versions, u, w \in User, n \in Grants : PipelineAccessGrant(u, v, w, n)
    BY <1>1, <1>9 DEF PipelineAccessGrant
  <1> QED BY <1>2, <1>3, <1>4, <1>6, <1>7, <1>8, <1>9, StepForms

LEMMA InitTypes ==
  ASSUME OwnerAssumption, Init
  PROVE  Types
  <1>1. row \in Seq(Row) /\ Len(row) <= MaxRows
    <2>1. CASE row = <<>>
      BY <2>1 DEF OwnerAssumption
    <2>2. CASE Existing /\ \E u \in User, d \in Definition : row = <<Draft(u, d)>>
      <3>1. PICK r \in Row : row = <<r>>
        BY <2>2, DraftTyped
      <3> QED BY <2>2, <3>1 DEF OwnerAssumption
    <2> QED BY <2>1, <2>2 DEF Init
  <1>2. schedule \in [Env -> 0..MaxRows]
    BY DEF Init, OwnerAssumption
  <1>3. job \in [Request -> Job] /\ \A q \in Request : JobTyped(job[q])
    BY IdleTyped DEF Init, JobTyped
  <1> QED BY <1>1, <1>2, <1>3 DEF Types

LEMMA TypesShown == OwnerAssumption /\ Types => TypeOK
  BY Rows DEF Types, TypeOK, Job, Stage

(* Every behaviour has its versions, requests and schedules well formed.   *)
THEOREM VersionsTyped == OwnerAssumption => (Spec => []TypeOK)
  <1> SUFFICES ASSUME OwnerAssumption PROVE Spec => []TypeOK
    OBVIOUS
  <1>1. Init => Types
    BY InitTypes
  <1>2. Types /\ [Next]_vars => Types'
    BY StepTypes
  <1>3. Types => TypeOK
    BY TypesShown
  <1> QED BY <1>1, <1>2, <1>3, PTL DEF Spec

-----------------------------------------------------------------------------
(* How a request moves on when it only reads.                              *)
Moves(j, k) ==
    \/ k.at = "idle"
    \/ j.at = "idle" /\ k.at = "save" /\ k.version = Latest(Tests)
    \/ j.at = "idle" /\ k.at \in {"load", "gate"}
    \/ j.at = "load" /\ k.at = "activate" /\ k.version = j.version /\ k.sees = Active(row[j.version].env)
    \/ /\ j.at = "gate" /\ k.at = "compared" /\ k.version = j.version /\ k.override = j.override
       /\ Promotable(row[j.version])
       /\ j.override \/ \A w \in Active("prod") : ~Breaks(row[w].def, row[j.version].def)
    \/ /\ j.at = "compared" /\ k.at = "promote" /\ k.version = j.version /\ k.override = j.override
       /\ k.sees = Active("prod")
    \/ j.at = "unschedule" /\ k.at = "schedule" /\ k.version = j.version

LEMMA ReadsMove ==
  ASSUME OwnerAssumption, Types, NEW q \in Request, Reads(q)
  PROVE  /\ \A p \in Request \ {q} : job'[p] = job[p]
         /\ Moves(job[q], job'[q])
  <1>0. job[q] \in Job /\ q \in DOMAIN job
    BY DEF Types
  <1>1. ASSUME NEW s, NEW k, Go(q, s, k)
        PROVE  job[q].at = s /\ job'[q] = k /\ \A p \in Request \ {q} : job'[p] = job[p]
    BY <1>1 DEF Types, Go
  <1>2. \A s, k : Go(q, s, k) => \A p \in Request \ {q} : job'[p] = job[p]
    BY <1>1
  <1>3. \A p \in Request \ {q} : job'[p] = job[p]
    <2>1. \E s, k : Go(q, s, k)
      BY DEF Reads, SaveBegin, PipelineActivate, PipelinePromote, PipelineStage, Load, ActivateArchives, PromoteGate,
             PromoteArchives, Archive, Unschedule, Schedule, Fails, Go
    <2> QED BY <1>2, <2>1
  <1> SUFFICES Moves(job[q], job'[q])
    BY <1>3
  <1>4. ASSUME NEW u \in User, NEW d \in Definition, SaveBegin(q, u, d) PROVE Moves(job[q], job'[q])
    <2>1. PICK p, k : p = Latest(Tests) /\ k = [Idle EXCEPT !.at = "save", !.user = u, !.version = p, !.def = d]
      OBVIOUS
    <2>2. k.at = "save" /\ k.version = p
      BY <2>1 DEF Idle
    <2>3. Go(q, "idle", k)
      BY <1>4, <2>1 DEF SaveBegin
    <2> QED BY <1>1, <2>1, <2>2, <2>3 DEF Moves
  <1>5. ASSUME NEW u \in User, NEW v \in Versions, NEW s \in {"load", "gate"}, NEW o \in BOOLEAN, Load(q, u, v, s, o)
        PROVE  Moves(job[q], job'[q])
    <2>1. PICK k : k = [Idle EXCEPT !.at = s, !.user = u, !.version = v, !.override = o]
      OBVIOUS
    <2>2. k.at = s
      BY <2>1 DEF Idle
    <2>3. Go(q, "idle", k)
      BY <1>5, <2>1 DEF Load
    <2> QED BY <1>1, <2>2, <2>3 DEF Moves
  <1>6. ASSUME NEW s, NEW t, NEW e, Archive(q, s, t, e)
        PROVE  job[q].at = s /\ job'[q].at = t /\ job'[q].version = job[q].version
               /\ job'[q].override = job[q].override /\ job'[q].sees = Active(e)
    <2>1. PICK k : k = [job[q] EXCEPT !.at = t, !.sees = Active(e)]
      OBVIOUS
    <2>2. k.at = t /\ k.version = job[q].version /\ k.override = job[q].override /\ k.sees = Active(e)
      BY <1>0, <2>1 DEF Job
    <2>3. Go(q, s, k)
      BY <1>6, <2>1 DEF Archive
    <2> QED BY <1>1, <2>2, <2>3
  <1>7. ASSUME NEW s, NEW t, Go(q, s, [job[q] EXCEPT !.at = t])
        PROVE  job[q].at = s /\ job'[q].at = t /\ job'[q].version = job[q].version
               /\ job'[q].override = job[q].override
    <2>1. PICK k : k = [job[q] EXCEPT !.at = t]
      OBVIOUS
    <2>2. k.at = t /\ k.version = job[q].version /\ k.override = job[q].override
      BY <1>0, <2>1 DEF Job
    <2> QED BY <1>1, <1>7, <2>1, <2>2
  <1>8. CASE \E u \in User : \E v \in Versions : PipelineActivate(q, u, v) \/ PipelinePromote(q, u, v) \/ PipelineStage(q, u, v)
    BY <1>5, <1>8 DEF PipelineActivate, PipelinePromote, PipelineStage
  <1>9. CASE ActivateArchives(q)
    BY <1>6, <1>9 DEF ActivateArchives, Moves
  <1>10. CASE PromoteArchives(q)
    BY <1>6, <1>10 DEF PromoteArchives, Moves
  <1>11. CASE PromoteGate(q)
    BY <1>7, <1>11 DEF PromoteGate, Moves
  <1>12. CASE Unschedule(q)
    BY <1>7, <1>12 DEF Unschedule, Moves
  <1>13. CASE Schedule(q) \/ Fails(q)
    <2>1. job'[q] = Idle
      BY <1>0, <1>13 DEF Schedule, Fails, Go
    <2> QED BY <2>1, IdleTyped DEF Moves
  <1>14. CASE \E u \in User : \E d \in Definition : SaveBegin(q, u, d)
    BY <1>4, <1>14
  <1> QED BY <1>8, <1>9, <1>10, <1>11, <1>12, <1>13, <1>14 DEF Reads

(* A request that writes is done, or goes on to the schedule of the version *)
(* it has made active.                                                     *)
LEMMA CommitsMove ==
  ASSUME OwnerAssumption, Types, NEW q \in Request, SaveCommit(q) \/ ActivateCommits(q) \/ PromoteCommits(q)
  PROVE  /\ \A p \in Request \ {q} : job'[p] = job[p]
         /\ job'[q].at \in {"idle", "unschedule"}
  <1>1. ASSUME NEW s, NEW k, Go(q, s, k)
        PROVE  job'[q] = k /\ \A p \in Request \ {q} : job'[p] = job[p]
    BY <1>1 DEF Types, Go
  <1>2. CASE SaveCommit(q)
    BY <1>1, <1>2, IdleTyped DEF SaveCommit
  <1>3. ASSUME NEW s, NEW v, NEW d, Go(q, s, Syncs(q, v, d))
        PROVE  job'[q].at \in {"idle", "unschedule"} /\ \A p \in Request \ {q} : job'[p] = job[p]
    <2>1. Syncs(q, v, d).at \in {"idle", "unschedule"}
      BY DEF Syncs, Idle
    <2> QED BY <1>1, <1>3, <2>1
  <1>4. CASE ActivateCommits(q)
    BY <1>3, <1>4 DEF ActivateCommits
  <1>5. CASE PromoteCommits(q)
    BY <1>3, <1>5 DEF PromoteCommits
  <1> QED BY <1>2, <1>4, <1>5

-----------------------------------------------------------------------------
(* One version is active, and production versions were tested.             *)
Single == \A e \in Env : \A v, w \in Active(e) : v = w

TestedFirst == \A v \in Versions : row[v].env = "prod" =>
    LET f == row[v].from IN f \in Versions /\ row[f].env = "test" /\ row[f].tested /\ row[f].def = row[v].def

(* What was looked at at the gate stays so until the promotion commits.    *)
GateKept == \A q \in Request : job[q].at \in {"compared", "promote"} =>
    row[job[q].version].env = "test" /\ row[job[q].version].tested

SafeInv == Types /\ Single /\ TestedFirst /\ GateKept

LEMMA SingleStep ==
  ASSUME OwnerAssumption, Types, Single, [Next]_vars
  PROVE  Single'
  <1>0. Len(row) \in Nat /\ Versions = 1..Len(row) /\ \A v \in Versions : row[v] \in Row
    BY Rows
  <1>1. ASSUME \A e \in Env : Active(e)' \subseteq Active(e) PROVE Single'
    BY <1>1 DEF Single, Env
  <1>2. CASE row' = row
    BY <1>1, <1>2 DEF Active, Versions
  <1>3. ASSUME NEW q \in Request, SaveCommit(q) PROVE Single'
    <2>1. /\ Len(row') = Len(row) + 1 /\ (\A v \in Versions : row'[v] = row[v])
          /\ row'[Len(row) + 1].status = "draft"
      BY <1>3, SaveRows
    <2> QED BY <1>0, <1>1, <2>1 DEF Active, Versions
  <1>4. ASSUME Len(row') = Len(row), \A x \in Versions : Same(row'[x], row[x]) /\ row'[x].status = row[x].status
        PROVE  Single'
    BY <1>0, <1>1, <1>4 DEF Active, Versions, Same
  <1>5. ASSUME NEW q \in Request, ActivateCommits(q) PROVE Single'
    <2>1. PICK v, sees : Activates(v, sees) /\ v = job[q].version /\ sees = job[q].sees
      BY <1>5, ActivateRows
    <2>2. Active(row[v].env) \subseteq sees
      BY <1>5, <2>1 DEF ActivateCommits, OnlyActive
    <2>3. ASSUME NEW e \in Env, NEW x, NEW y, x \in Active(e)', y \in Active(e)' PROVE x = y
      <3>1. /\ x \in Versions /\ y \in Versions /\ v \in Versions
            /\ row[x].env = e /\ (x = v \/ (row[x].status = "active" /\ x \notin sees))
            /\ row[y].env = e /\ (y = v \/ (row[y].status = "active" /\ y \notin sees))
        BY <2>1, <2>3, <1>0 DEF Active, Versions, Activates, Same
      <3>2. (x # v => x \in Active(e)) /\ (y # v => y \in Active(e))
        BY <3>1 DEF Active
      <3>3. CASE x = v \/ y = v
        BY <2>2, <3>1, <3>2, <3>3
      <3>4. CASE x # v /\ y # v
        BY <3>2, <3>4 DEF Single
      <3> QED BY <3>3, <3>4
    <2> QED BY <2>3 DEF Single, Env
  <1>6. ASSUME NEW q \in Request, PromoteCommits(q) PROVE Single'
    <2>1. PICK v, sees : Promotes(v, sees) /\ v = job[q].version /\ sees = job[q].sees
      BY <1>6, PromoteRows
    <2>2. Active("prod") \subseteq sees
      BY <1>6, <2>1 DEF PromoteCommits, OnlyActive
    <2>3. ASSUME NEW e \in Env, NEW x, x \in Active(e)'
          PROVE  (x = Len(row) + 1 /\ e = "prod") \/ (x \in Active(e) /\ x \notin sees)
      <3>1. x \in 1..(Len(row) + 1) /\ row'[x].env = e /\ row'[x].status = "active"
        BY <2>1, <2>3 DEF Active, Versions, Promotes
      <3>2. CASE x \in Versions
        <4>1. row[x].env = e /\ row[x].status = "active" /\ x \notin sees
          BY <2>1, <3>1, <3>2 DEF Promotes, Same
        <4> QED BY <3>2, <4>1 DEF Active
      <3>3. CASE x = Len(row) + 1
        BY <2>1, <3>1, <3>3 DEF Promotes
      <3> QED BY <1>0, <3>1, <3>2, <3>3
    <2>4. ASSUME NEW e \in Env, NEW x, NEW y, x \in Active(e)', y \in Active(e)' PROVE x = y
      <3>1. /\ (x = Len(row) + 1 /\ e = "prod") \/ (x \in Active(e) /\ x \notin sees)
            /\ (y = Len(row) + 1 /\ e = "prod") \/ (y \in Active(e) /\ y \notin sees)
        BY <2>3, <2>4
      <3> QED BY <2>2, <3>1 DEF Single
    <2> QED BY <2>4 DEF Single, Env
  <1>7. ASSUME NEW v \in Versions, RunCompletes(v) PROVE Single'
    BY <1>4, <1>7, RunRows
  <1>8. ASSUME NEW v \in Versions, NEW u \in User, NEW w \in User, NEW n \in Grants, PipelineAccessGrant(u, v, w, n)
        PROVE  Single'
    BY <1>4, <1>8, GrantRows
  <1>9. CASE UNCHANGED vars
    BY <1>2, <1>9 DEF vars
  <1> QED BY <1>2, <1>3, <1>5, <1>6, <1>7, <1>8, <1>9, ReadsKeepRows, StepForms

LEMMA TestedStep ==
  ASSUME OwnerAssumption, SafeInv, [Next]_vars
  PROVE  TestedFirst'
  <1>0. Types /\ Keeps /\ Len(row) \in Nat /\ Versions = 1..Len(row)
    BY Rows, StepKeeps DEF SafeInv
  <1>1. ASSUME NEW v \in Versions, row'[v].env = "prod"
        PROVE  LET f == row'[v].from IN
               f \in Versions' /\ row'[f].env = "test" /\ row'[f].tested /\ row'[f].def = row'[v].def
    <2>1. row[v].env = "prod" /\ row'[v].from = row[v].from /\ row'[v].def = row[v].def
      BY <1>0, <1>1 DEF Keeps
    <2>2. row[v].from \in Versions /\ row[row[v].from].env = "test" /\ row[row[v].from].tested /\ row[row[v].from].def = row[v].def
      BY <2>1 DEF SafeInv, TestedFirst
    <2>3. row[v].from \in Versions'
      BY <1>0, <2>2, KeptVersions
    <2> QED BY <1>0, <2>1, <2>2, <2>3 DEF Keeps
  <1>2. ASSUME Len(row') = Len(row) PROVE TestedFirst'
    <2>1. Versions' = Versions
      BY <1>2 DEF Versions
    <2> QED BY <1>1, <2>1 DEF TestedFirst
  <1>3. ASSUME NEW q \in Request, SaveCommit(q) PROVE TestedFirst'
    <2>1. Len(row') = Len(row) + 1 /\ row'[Len(row) + 1].env = "test"
      BY <1>0, <1>3, SaveRows
    <2>2. \A v \in Versions' : v \in Versions \/ v = Len(row) + 1
      BY <1>0, <2>1 DEF Versions
    <2> QED BY <1>1, <2>1, <2>2 DEF TestedFirst
  <1>4. ASSUME NEW q \in Request, PromoteCommits(q) PROVE TestedFirst'
    <2>1. PICK v, sees : Promotes(v, sees) /\ v = job[q].version
      BY <1>0, <1>4, PromoteRows
    <2>2. row[v].env = "test" /\ row[v].tested /\ v \in Versions
      BY <1>4, <2>1 DEF SafeInv, GateKept, PromoteCommits, Promotes
    <2>3. v \in Versions' /\ row'[v].env = "test" /\ row'[v].tested /\ row'[v].def = row[v].def
      BY <1>0, <2>2, KeptVersions DEF Keeps
    <2>4. row'[Len(row) + 1].from = v /\ row'[Len(row) + 1].def = row[v].def
      BY <2>1 DEF Promotes
    <2>5. \A x \in Versions' : x \in Versions \/ x = Len(row) + 1
      BY <1>0, <2>1 DEF Versions, Promotes
    <2> QED BY <1>1, <2>3, <2>4, <2>5 DEF TestedFirst
  <1>5. ASSUME NEW q \in Request, ActivateCommits(q) PROVE TestedFirst'
    <2>1. PICK v, sees : Activates(v, sees)
      BY <1>0, <1>5, ActivateRows
    <2> QED BY <1>2, <2>1 DEF Activates
  <1>6. ASSUME NEW v \in Versions, RunCompletes(v) PROVE TestedFirst'
    BY <1>0, <1>2, <1>6, RunRows
  <1>7. ASSUME NEW v \in Versions, NEW u \in User, NEW w \in User, NEW n \in Grants, PipelineAccessGrant(u, v, w, n)
        PROVE  TestedFirst'
    BY <1>0, <1>2, <1>7, GrantRows
  <1>8. CASE UNCHANGED vars
    BY <1>2, <1>8 DEF vars
  <1>9. ASSUME NEW q \in Request, Reads(q) PROVE TestedFirst'
    <2>1. row' = row
      BY <1>9, ReadsKeepRows
    <2> QED BY <1>2, <2>1
  <1> QED BY <1>3, <1>4, <1>5, <1>6, <1>7, <1>8, <1>9, StepForms

LEMMA GateStep ==
  ASSUME OwnerAssumption, SafeInv, [Next]_vars
  PROVE  GateKept'
  <1>0. Types /\ Keeps
    BY StepKeeps DEF SafeInv
  <1>1. ASSUME NEW p \in Request, job[p].at \in {"compared", "promote"}, job'[p].version = job[p].version
        PROVE  row'[job'[p].version].env = "test" /\ row'[job'[p].version].tested
    <2>1. job[p].version \in Versions
      BY <1>0, <1>1 DEF Types, JobTyped
    <2> QED BY <1>0, <1>1, <2>1 DEF SafeInv, GateKept, Keeps
  <1>2. ASSUME job' = job PROVE GateKept'
    BY <1>1, <1>2 DEF GateKept
  <1>3. ASSUME NEW q \in Request, Reads(q) PROVE GateKept'
    <2>1. (\A p \in Request \ {q} : job'[p] = job[p]) /\ Moves(job[q], job'[q]) /\ row' = row
      BY <1>0, <1>3, ReadsMove, ReadsKeepRows
    <2>2. ASSUME NEW p \in Request, job'[p].at \in {"compared", "promote"}
          PROVE  row'[job'[p].version].env = "test" /\ row'[job'[p].version].tested
      <3>1. CASE p # q
        BY <1>1, <2>1, <2>2, <3>1
      <3>2. CASE p = q
        <4>1. \/ job[q].at = "gate" /\ Promotable(row[job[q].version]) /\ job'[q].version = job[q].version
              \/ job[q].at = "compared" /\ job'[q].version = job[q].version
          BY <2>1, <2>2, <3>2 DEF Moves
        <4> QED BY <1>1, <2>1, <3>2, <4>1 DEF Promotable
      <3> QED BY <3>1, <3>2
    <2> QED BY <2>2 DEF GateKept
  <1>4. ASSUME NEW q \in Request, SaveCommit(q) \/ ActivateCommits(q) \/ PromoteCommits(q) PROVE GateKept'
    <2>1. (\A p \in Request \ {q} : job'[p] = job[p]) /\ job'[q].at \in {"idle", "unschedule"}
      BY <1>0, <1>4, CommitsMove
    <2>2. ASSUME NEW p \in Request, job'[p].at \in {"compared", "promote"}
          PROVE  row'[job'[p].version].env = "test" /\ row'[job'[p].version].tested
      <3>1. p # q
        BY <2>1, <2>2
      <3> QED BY <1>1, <2>1, <2>2, <3>1
    <2> QED BY <2>2 DEF GateKept
  <1>5. CASE \E v \in Versions : RunCompletes(v)
    BY <1>2, <1>5 DEF RunCompletes
  <1>6. CASE \E v \in Versions, u, w \in User, n \in Grants : PipelineAccessGrant(u, v, w, n)
    BY <1>2, <1>6 DEF PipelineAccessGrant
  <1>7. CASE UNCHANGED vars
    BY <1>2, <1>7 DEF vars
  <1> QED BY <1>3, <1>4, <1>5, <1>6, <1>7, StepForms

LEMMA InitSafe ==
  ASSUME OwnerAssumption, Init
  PROVE  SafeInv
  <1>1. Types
    BY InitTypes
  <1>2. \A v \in Versions : row[v].env = "test" /\ row[v].status = "draft"
    <2>1. CASE row = <<>>
      BY <2>1 DEF Versions
    <2>2. CASE \E u \in User, d \in Definition : row = <<Draft(u, d)>>
      <3>1. PICK r : row = <<r>> /\ r.env = "test" /\ r.status = "draft"
        BY <2>2 DEF Draft
      <3> QED BY <3>1 DEF Versions
    <2> QED BY <2>1, <2>2 DEF Init
  <1>3. \A q \in Request : job[q].at = "idle"
    BY IdleTyped DEF Init
  <1>4. Single
    BY <1>2 DEF Single, Active
  <1>5. TestedFirst
    BY <1>2 DEF TestedFirst
  <1>6. GateKept
    BY <1>3 DEF GateKept
  <1> QED BY <1>1, <1>4, <1>5, <1>6 DEF SafeInv

LEMMA SafeStep == OwnerAssumption /\ SafeInv /\ [Next]_vars => SafeInv'
  BY StepTypes, SingleStep, TestedStep, GateStep DEF SafeInv

LEMMA SafeShown ==
  ASSUME OwnerAssumption, SafeInv
  PROVE  OneActive /\ ProductionWasTested
  <1>1. ASSUME NEW e \in Env PROVE Cardinality(Active(e)) <= 1
    <2>1. CASE Active(e) = {}
      BY <2>1, FS_EmptySet
    <2>2. CASE Active(e) # {}
      <3>1. PICK v : Active(e) = {v}
        BY <2>2 DEF SafeInv, Single
      <3>2. Cardinality({v}) = 1
        BY FS_Singleton, Zenon
      <3> QED BY <3>1, <3>2
    <2> QED BY <2>1, <2>2
  <1> QED BY <1>1 DEF OneActive, ProductionWasTested, SafeInv, TestedFirst

(* Activations and promotions of any number of concurrent requests, failed *)
(* ones included, never leave two versions active in an environment.       *)
THEOREM ActivationsExclude == OwnerAssumption => (Spec => []OneActive)
  <1> SUFFICES ASSUME OwnerAssumption PROVE Spec => []OneActive
    OBVIOUS
  <1>1. Init => SafeInv
    BY InitSafe
  <1>2. SafeInv /\ [Next]_vars => SafeInv'
    BY SafeStep
  <1>3. SafeInv => OneActive
    BY SafeShown
  <1> QED BY <1>1, <1>2, <1>3, PTL DEF Spec

(* A production version is a version with a green Integration run.         *)
THEOREM PromotionsTested == OwnerAssumption => (Spec => []ProductionWasTested)
  <1> SUFFICES ASSUME OwnerAssumption PROVE Spec => []ProductionWasTested
    OBVIOUS
  <1>1. Init => SafeInv
    BY InitSafe
  <1>2. SafeInv /\ [Next]_vars => SafeInv'
    BY SafeStep
  <1>3. SafeInv => ProductionWasTested
    BY SafeShown
  <1> QED BY <1>1, <1>2, <1>3, PTL DEF Spec

-----------------------------------------------------------------------------
(* One request at a time, cron triggers only, and a Temporal that answers: *)
(* a schedule runs the active version of its environment, or the request   *)
(* that made another one active is about to delete it.                     *)
OneByOne == \A p, q \in Request : p = q
OnlyCron == \A d \in Definition : d.cron

SeesStage == \A q \in Request : /\ job[q].at = "activate" =>
                                     \A x \in job[q].sees : x \in Versions /\ row[x].env = row[job[q].version].env
                                /\ job[q].at = "promote" => \A x \in job[q].sees : x \in Versions /\ row[x].env = "prod"

SyncsActive == \A q \in Request :
    /\ job[q].at \in {"unschedule", "schedule"} => row[job[q].version].status = "active"
    /\ job[q].at = "schedule" => schedule[row[job[q].version].env] = 0

Deleting(e) == \E q \in Request : job[q].at = "unschedule" /\ row[job[q].version].env = e

ScheduleKept == \A e \in Env : schedule[e] # 0 =>
    LET v == schedule[e] IN v \in Versions /\ row[v].env = e /\ (row[v].status = "active" \/ Deleting(e))

FollowInv == Types /\ SeesStage /\ SyncsActive /\ ScheduleKept

LEMMA SeesStep ==
  ASSUME OwnerAssumption, Types, SeesStage, [Next]_vars
  PROVE  SeesStage'
  <1> DEFINE Fits(j) == /\ j.at = "activate" => j.version \in Versions /\ \A x \in j.sees : x \in Versions /\ row[x].env = row[j.version].env
                        /\ j.at = "promote" => \A x \in j.sees : x \in Versions /\ row[x].env = "prod"
  <1>0. Keeps /\ Versions \subseteq Versions'
    BY StepKeeps, KeptVersions
  <1>1. ASSUME NEW j, Fits(j) PROVE Fits(j)'
    BY <1>0, <1>1 DEF Keeps
  <1>2. \A q \in Request : Fits(job[q])
    BY DEF Types, JobTyped, SeesStage
  <1>3. ASSUME NEW q \in Request, job'[q] = job[q] PROVE Fits(job[q])'
    <2>1. PICK j : j = job[q] /\ Fits(j)
      BY <1>2
    <2>2. Fits(j)'
      BY <1>1, <2>1
    <2> QED BY <1>3, <2>1, <2>2
  <1>4. ASSUME NEW q \in Request, job'[q].at \notin {"activate", "promote"} PROVE Fits(job[q])'
    BY <1>4
  <1>5. ASSUME NEW q \in Request, Reads(q) PROVE Fits(job[q])'
    <2>1. Moves(job[q], job'[q]) /\ row' = row
      BY <1>5, ReadsMove, ReadsKeepRows
    <2>2. CASE job[q].at = "load" /\ job'[q].version = job[q].version /\ job'[q].sees = Active(row[job[q].version].env)
               /\ job'[q].at = "activate"
      <3>1. job[q].version \in Versions
        BY <2>2 DEF Types, JobTyped
      <3> QED BY <1>0, <2>1, <2>2, <3>1 DEF Active
    <2>3. CASE job'[q].at = "promote" /\ job'[q].sees = Active("prod")
      BY <1>0, <2>1, <2>3 DEF Active
    <2> QED BY <1>4, <2>1, <2>2, <2>3 DEF Moves
  <1>6. ASSUME NEW q \in Request, SaveCommit(q) \/ ActivateCommits(q) \/ PromoteCommits(q) PROVE Fits(job[q])'
    BY <1>4, <1>6, CommitsMove
  <1>7. ASSUME NEW p \in Request PROVE Fits(job[p])'
    <2>1. CASE \E q \in Request : Reads(q)
      <3>1. PICK q \in Request : Reads(q)
        BY <2>1
      <3> QED BY <1>3, <1>5, <3>1, ReadsMove
    <2>2. CASE \E q \in Request : SaveCommit(q) \/ ActivateCommits(q) \/ PromoteCommits(q)
      <3>1. PICK q \in Request : SaveCommit(q) \/ ActivateCommits(q) \/ PromoteCommits(q)
        BY <2>2
      <3> QED BY <1>3, <1>6, <3>1, CommitsMove
    <2>3. CASE job' = job
      BY <1>3, <2>3
    <2> QED BY <2>1, <2>2, <2>3, StepForms DEF vars, RunCompletes, PipelineAccessGrant
  <1> QED BY <1>7 DEF SeesStage

(* After a commit of a version with a cron trigger the request goes on to  *)
(* delete the schedule.                                                    *)
LEMMA CommitSyncs ==
  ASSUME OwnerAssumption, OnlyCron, Types, NEW q \in Request, ActivateCommits(q) \/ PromoteCommits(q)
  PROVE  /\ job'[q].at = "unschedule" /\ schedule' = schedule /\ job[q].version \in Versions
         /\ ActivateCommits(q) => job'[q].version = job[q].version
         /\ PromoteCommits(q) => job'[q].version = Len(row) + 1
  <1>1. ASSUME NEW s, NEW v, NEW d \in Definition, Go(q, s, Syncs(q, v, d))
        PROVE  job'[q].at = "unschedule" /\ job'[q].version = v
    <2>1. Syncs(q, v, d).at = "unschedule" /\ Syncs(q, v, d).version = v
      BY DEF Syncs, Idle, OnlyCron
    <2> QED BY <1>1, <2>1 DEF Types, Go
  <1>2. job[q].version \in Versions
    BY DEF Types, JobTyped, ActivateCommits, PromoteCommits, Go
  <1>3. row[job[q].version].def \in Definition
    BY <1>2, Rows DEF Row
  <1> QED BY <1>1, <1>2, <1>3 DEF ActivateCommits, PromoteCommits

(* What keeps every version's stage and status keeps the schedules, as long *)
(* as the request and the schedules stay too.                              *)
LEMMA StatusFrame ==
  ASSUME OwnerAssumption, FollowInv, Keeps, UNCHANGED <<schedule, job>>,
         \A x \in Versions : row'[x].status = row[x].status
  PROVE  SyncsActive' /\ ScheduleKept'
  <1>0. Versions \subseteq Versions' /\ \A x \in Versions : row'[x].env = row[x].env
    BY KeptVersions DEF FollowInv, Keeps
  <1>1. ASSUME NEW q \in Request, job[q].at \in {"unschedule", "schedule"} PROVE job[q].version \in Versions
    BY <1>1 DEF FollowInv, Types, JobTyped
  <1>2. SyncsActive'
    BY <1>0, <1>1 DEF FollowInv, SyncsActive
  <1>3. \A e \in Env : Deleting(e) => Deleting(e)'
    BY <1>0, <1>1 DEF Deleting
  <1>4. ScheduleKept'
    BY <1>0, <1>3 DEF FollowInv, ScheduleKept
  <1> QED BY <1>2, <1>4

LEMMA CommitFollows ==
  ASSUME OwnerAssumption, OneByOne, OnlyCron, FollowInv, Keeps, NEW q \in Request, ActivateCommits(q) \/ PromoteCommits(q)
  PROVE  SyncsActive' /\ ScheduleKept'
  <1>0. /\ Types /\ Versions \subseteq Versions' /\ \A x \in Versions : row'[x].env = row[x].env
    BY KeptVersions DEF FollowInv, Keeps
  <1>1. PICK w : w = job'[q].version
    OBVIOUS
  <1>2. job'[q].at = "unschedule" /\ schedule' = schedule /\ job[q].at \in {"activate", "promote"}
    BY <1>0, CommitSyncs DEF ActivateCommits, PromoteCommits, Go
  <1>3. /\ row'[w].status = "active"
        /\ \A x \in Versions : row[x].status = "active" /\ row'[x].status # "active" => row[x].env = row'[w].env
    <2>1. CASE ActivateCommits(q)
      <3>1. PICK v, sees : Activates(v, sees) /\ v = job[q].version /\ sees = job[q].sees
        BY <1>0, <2>1, ActivateRows
      <3>2. w = v
        BY <1>0, <1>1, <2>1, <3>1, CommitSyncs
      <3>3. job[q].at = "activate"
        BY <2>1 DEF ActivateCommits, Go
      <3>4. \A x \in sees : x \in Versions /\ row[x].env = row[v].env
        BY <3>1, <3>3 DEF FollowInv, SeesStage
      <3> QED BY <1>0, <3>1, <3>2, <3>4 DEF Activates
    <2>2. CASE PromoteCommits(q)
      <3>1. PICK v, sees : Promotes(v, sees) /\ v = job[q].version /\ sees = job[q].sees
        BY <1>0, <2>2, PromoteRows
      <3>2. w = Len(row) + 1
        BY <1>0, <1>1, <2>2, CommitSyncs
      <3>3. job[q].at = "promote"
        BY <2>2 DEF PromoteCommits
      <3>4. \A x \in sees : x \in Versions /\ row[x].env = "prod"
        BY <3>1, <3>3 DEF FollowInv, SeesStage
      <3> QED BY <3>1, <3>2, <3>4 DEF Promotes
    <2> QED BY <2>1, <2>2
  <1>4. SyncsActive'
    BY <1>1, <1>2, <1>3 DEF SyncsActive, OneByOne
  <1>5. ASSUME NEW e \in Env, schedule'[e] # 0
        PROVE  LET v == schedule'[e] IN v \in Versions' /\ row'[v].env = e /\ (row'[v].status = "active" \/ Deleting(e)')
    <2>1. schedule[e] \in Versions /\ row[schedule[e]].env = e /\ (row[schedule[e]].status = "active" \/ Deleting(e))
      BY <1>2, <1>5 DEF FollowInv, ScheduleKept
    <2>2. ~Deleting(e)
      BY <1>2 DEF Deleting, OneByOne
    <2>3. row'[schedule[e]].status = "active" \/ row'[w].env = e
      BY <1>3, <2>1, <2>2
    <2>4. row'[w].env = e => Deleting(e)'
      BY <1>1, <1>2 DEF Deleting
    <2> QED BY <1>0, <1>2, <2>1, <2>3, <2>4
  <1> QED BY <1>4, <1>5 DEF ScheduleKept

LEMMA ReadFollows ==
  ASSUME OwnerAssumption, Reliable, OneByOne, FollowInv, NEW q \in Request, Reads(q)
  PROVE  SyncsActive' /\ ScheduleKept'
  <1>0. Types /\ row' = row /\ Versions' = Versions /\ Moves(job[q], job'[q]) /\ \A p \in Request : p = q
    BY ReadsMove, ReadsKeepRows DEF FollowInv, Versions, OneByOne
  <1>1. CASE Unschedule(q)
    <2>1. PICK v, e : v = job[q].version /\ e = row[v].env
      OBVIOUS
    <2>2. job[q].at = "unschedule" /\ job'[q].at = "schedule" /\ schedule' = [schedule EXCEPT ![e] = 0] /\ job'[q].version = v
      <3>1. job[q].at = "unschedule" /\ schedule' = [schedule EXCEPT ![e] = 0]
        BY <1>1, <2>1 DEF Unschedule, NoneScheduled, Go
      <3>2. PICK k : k = [job[q] EXCEPT !.at = "schedule"]
        OBVIOUS
      <3>3. job[q] \in Job
        BY <1>0 DEF Types
      <3>4. k.at = "schedule" /\ k.version = job[q].version
        BY <3>2, <3>3 DEF Job
      <3>5. job'[q] = k
        BY <1>0, <1>1, <3>2 DEF Unschedule, Go, Types
      <3> QED BY <2>1, <3>1, <3>4, <3>5
    <2>3. row[v].status = "active" /\ v \in Versions /\ e \in Env
      <3>1. row[v].status = "active" /\ v \in Versions
        BY <1>0, <2>1, <2>2 DEF FollowInv, SyncsActive, Types, JobTyped
      <3> QED BY <2>1, <3>1, <1>0, Rows DEF Row
    <2>4. schedule'[e] = 0 /\ \A d \in Env \ {e} : schedule'[d] = schedule[d] /\ ~Deleting(d)
      BY <1>0, <2>1, <2>2, <2>3 DEF Types, Deleting
    <2>5. SyncsActive'
      BY <1>0, <2>1, <2>2, <2>3, <2>4 DEF SyncsActive
    <2>6. ScheduleKept'
      BY <1>0, <2>4 DEF FollowInv, ScheduleKept
    <2> QED BY <2>5, <2>6
  <1>2. CASE Schedule(q)
    <2>1. PICK v, e : v = job[q].version /\ e = row[v].env
      OBVIOUS
    <2>2. job[q].at = "schedule" /\ job'[q].at = "idle" /\ schedule' = [schedule EXCEPT ![e] = v]
      BY <1>0, <1>2, <2>1, IdleTyped DEF Schedule, Go, Types
    <2>3. row[v].status = "active" /\ v \in Versions /\ e \in Env
      <3>1. row[v].status = "active" /\ v \in Versions
        BY <1>0, <2>1, <2>2 DEF FollowInv, SyncsActive, Types, JobTyped
      <3> QED BY <2>1, <3>1, <1>0, Rows DEF Row
    <2>4. schedule'[e] = v /\ \A d \in Env \ {e} : schedule'[d] = schedule[d]
      BY <1>0, <2>2, <2>3 DEF Types
    <2>5. \A d \in Env : ~Deleting(d)
      BY <1>0, <2>2 DEF Deleting
    <2>6. SyncsActive'
      BY <1>0, <2>2 DEF SyncsActive
    <2>7. ScheduleKept'
      BY <1>0, <2>1, <2>3, <2>4, <2>5 DEF FollowInv, ScheduleKept
    <2> QED BY <2>6, <2>7
  <1>3. CASE ~Unschedule(q) /\ ~Schedule(q)
    <2>1. schedule' = schedule
      BY <1>3 DEF Reads, SaveBegin, PipelineActivate, PipelinePromote, PipelineStage, Load, ActivateArchives, PromoteGate,
             PromoteArchives, Archive, Fails
    <2>2. job[q].at # "unschedule" /\ job'[q].at \notin {"unschedule", "schedule"}
      <3>1. CASE Fails(q)
        BY <1>0, <3>1, IdleTyped DEF Fails, Types
      <3>2. CASE ~Fails(q)
        <4>1. job[q].at \in {"idle", "load", "gate", "compared"}
          BY <1>3, <3>2 DEF Reads, SaveBegin, PipelineActivate, PipelinePromote, PipelineStage, Load, ActivateArchives,
                            PromoteGate, PromoteArchives, Archive, Go
        <4> QED BY <1>0, <4>1 DEF Moves
      <3> QED BY <3>1, <3>2
    <2>3. \A d \in Env : ~Deleting(d)
      BY <1>0, <2>2 DEF Deleting
    <2>4. SyncsActive'
      BY <1>0, <2>2 DEF SyncsActive
    <2>5. ScheduleKept'
      BY <1>0, <2>1, <2>3 DEF FollowInv, ScheduleKept
    <2> QED BY <2>4, <2>5
  <1> QED BY <1>1, <1>2, <1>3

LEMMA FollowStep ==
  ASSUME OwnerAssumption, Reliable, OneByOne, OnlyCron, FollowInv, [Next]_vars
  PROVE  FollowInv'
  <1>0. Types /\ Keeps /\ Types' /\ SeesStage'
    BY StepKeeps, StepTypes, SeesStep DEF FollowInv
  <1>1. ASSUME SyncsActive' /\ ScheduleKept' PROVE FollowInv'
    BY <1>0, <1>1 DEF FollowInv
  <1>2. ASSUME NEW q \in Request, Reads(q) PROVE FollowInv'
    BY <1>1, <1>2, ReadFollows
  <1>3. ASSUME NEW q \in Request, ActivateCommits(q) \/ PromoteCommits(q) PROVE FollowInv'
    BY <1>0, <1>1, <1>3, CommitFollows
  <1>4. ASSUME NEW q \in Request, SaveCommit(q) PROVE FollowInv'
    <2>1. \A v \in Versions : row'[v] = row[v]
      BY <1>0, <1>4, SaveRows
    <2>2. schedule' = schedule /\ job[q].at = "save" /\ job'[q].at = "idle" /\ \A p \in Request : p = q
      BY <1>0, <1>4, IdleTyped DEF SaveCommit, Go, Types, OneByOne
    <2>3. Versions \subseteq Versions'
      BY <1>0, KeptVersions
    <2>4. \A e \in Env : ~Deleting(e)
      BY <2>2 DEF Deleting
    <2>5. SyncsActive'
      BY <2>2 DEF SyncsActive
    <2>6. ScheduleKept'
      BY <2>1, <2>2, <2>3, <2>4 DEF FollowInv, ScheduleKept
    <2> QED BY <1>1, <2>5, <2>6
  <1>5. ASSUME NEW v \in Versions, RunCompletes(v) PROVE FollowInv'
    <2>1. \A x \in Versions : row'[x].status = row[x].status
      BY <1>0, <1>5, RunRows
    <2> QED BY <1>0, <1>1, <1>5, <2>1, StatusFrame DEF RunCompletes
  <1>6. ASSUME NEW v \in Versions, NEW u \in User, NEW w \in User, NEW n \in Grants, PipelineAccessGrant(u, v, w, n)
        PROVE  FollowInv'
    <2>1. \A x \in Versions : row'[x].status = row[x].status
      BY <1>0, <1>6, GrantRows
    <2> QED BY <1>0, <1>1, <1>6, <2>1, StatusFrame DEF PipelineAccessGrant
  <1>7. CASE UNCHANGED vars
    <2>1. UNCHANGED <<schedule, job>> /\ \A x \in Versions : row'[x].status = row[x].status
      BY <1>7 DEF vars
    <2> QED BY <1>0, <1>1, <2>1, StatusFrame
  <1> QED BY <1>2, <1>3, <1>4, <1>5, <1>6, <1>7, StepForms

LEMMA InitFollows ==
  ASSUME OwnerAssumption, Init
  PROVE  FollowInv
  <1>1. \A q \in Request : job[q].at = "idle"
    BY IdleTyped DEF Init
  <1>2. \A e \in Env : schedule[e] = 0
    BY DEF Init
  <1> QED BY <1>1, <1>2, InitTypes DEF FollowInv, SeesStage, SyncsActive, ScheduleKept

(* Once an activation is through, a schedule runs an active version.       *)
THEOREM SchedulesFollow ==
  OwnerAssumption /\ Reliable /\ OneByOne /\ OnlyCron => (Spec => []ScheduleFollowsActive)
  <1> SUFFICES ASSUME OwnerAssumption, Reliable, OneByOne, OnlyCron PROVE Spec => []ScheduleFollowsActive
    OBVIOUS
  <1>1. Init => FollowInv
    BY InitFollows
  <1>2. FollowInv /\ [Next]_vars => FollowInv'
    BY FollowStep
  <1>3. FollowInv => ScheduleFollowsActive
    BY DEF FollowInv, ScheduleKept, ScheduleFollowsActive, AtRest, Deleting
  <1> QED BY <1>1, <1>2, <1>3, PTL DEF Spec

-----------------------------------------------------------------------------
(* What a new version takes over.                                          *)

(* A step adds at most one version, by a save or by a promotion.           *)
LEMMA AddingSteps ==
  ASSUME OwnerAssumption, Types, Next, Added
  PROVE  \E q \in Request : SaveCommit(q) \/ PromoteCommits(q)
  <1>0. Len(row) \in Nat
    BY Rows
  <1>1. ASSUME NEW q \in Request, Reads(q) PROVE FALSE
    BY <1>0, <1>1, ReadsKeepRows DEF Added
  <1>2. ASSUME NEW q \in Request, ActivateCommits(q) PROVE FALSE
    <2>1. PICK v, sees : Activates(v, sees)
      BY <1>2, ActivateRows
    <2> QED BY <1>0, <2>1 DEF Added, Activates
  <1>3. ASSUME NEW v \in Versions, RunCompletes(v) PROVE FALSE
    BY <1>0, <1>3, RunRows DEF Added
  <1>4. ASSUME NEW v \in Versions, NEW u \in User, NEW w \in User, NEW n \in Grants, PipelineAccessGrant(u, v, w, n)
        PROVE  FALSE
    BY <1>0, <1>4, GrantRows DEF Added
  <1> QED BY <1>1, <1>2, <1>3, <1>4, StepForms

LEMMA RolesCarried ==
  ASSUME OwnerAssumption, Types, Next
  PROVE  CarriesRoles
  <1> SUFFICES ASSUME Added, Newest.env = "prod",
                      NEW u \in User, NEW m \in {"viewer", "editor", "admin"}
               PROVE  Allows(u, row[Newest.from], m) <=> Allows(u, Newest, m)
    BY DEF CarriesRoles
  <1>1. PICK q \in Request : SaveCommit(q) \/ PromoteCommits(q)
    BY AddingSteps
  <1>2. ~SaveCommit(q)
    <2>1. SaveCommit(q) => Newest.env = "test"
      BY SaveRows DEF Newest
    <2> QED BY <2>1
  <1>3. PICK v, sees : Promotes(v, sees)
    BY <1>1, <1>2, PromoteRows
  <1>4. Newest.from = v /\ Newest.creator = row[v].creator /\ Newest.access = row[v].access
    BY <1>3 DEF Promotes, Newest
  <1> QED BY <1>4 DEF Allows

(* A production version gives every member the role that the member has    *)
(* for the version it was made from.                                       *)
THEOREM PromotionsKeepRoles == OwnerAssumption => (Spec => [][CarriesRoles]_vars)
  <1> SUFFICES ASSUME OwnerAssumption PROVE Spec => [][CarriesRoles]_vars
    OBVIOUS
  <1>1. Init => Types
    BY InitTypes
  <1>2. Types /\ [Next]_vars => Types'
    BY StepTypes
  <1>3. Types /\ [Next]_vars => [CarriesRoles]_vars
    BY RolesCarried
  <1> QED BY <1>1, <1>2, <1>3, PTL DEF Spec

-----------------------------------------------------------------------------
(* One request at a time, the version that a save read is still the latest *)
(* when it commits.                                                        *)
SavesAfterLatest == \A q \in Request : job[q].at = "save" => job[q].version = Latest(Tests)
SharingInv == Types /\ SavesAfterLatest

LEMMA SharingStep ==
  ASSUME OwnerAssumption, OneByOne, SharingInv, [Next]_vars
  PROVE  SharingInv'
  <1>0. Types /\ Keeps /\ Types'
    BY StepKeeps, StepTypes DEF SharingInv
  <1>1. ASSUME Len(row') = Len(row) PROVE Latest(Tests)' = Latest(Tests)
    <2>1. Tests' = Tests
      <3>1. Versions' = Versions
        BY <1>1 DEF Versions
      <3> QED BY <1>0, <3>1 DEF Tests, Keeps
    <2> QED BY <2>1 DEF Latest
  <1>2. ASSUME NEW q \in Request, job'[q].at # "save" PROVE SavesAfterLatest'
    BY <1>2 DEF SavesAfterLatest, OneByOne
  <1>3. ASSUME NEW q \in Request, Reads(q) PROVE SavesAfterLatest'
    <2>1. Moves(job[q], job'[q]) /\ row' = row
      BY <1>0, <1>3, ReadsMove, ReadsKeepRows
    <2>2. job'[q].at = "save" => job'[q].version = Latest(Tests)'
      BY <1>1, <2>1 DEF Moves
    <2> QED BY <2>2 DEF SavesAfterLatest, OneByOne
  <1>4. ASSUME NEW q \in Request, SaveCommit(q) \/ ActivateCommits(q) \/ PromoteCommits(q) PROVE SavesAfterLatest'
    BY <1>0, <1>2, <1>4, CommitsMove
  <1>5. ASSUME Len(row') = Len(row), job' = job PROVE SavesAfterLatest'
    BY <1>1, <1>5 DEF SharingInv, SavesAfterLatest
  <1>6. ASSUME NEW v \in Versions, RunCompletes(v) PROVE SavesAfterLatest'
    BY <1>0, <1>5, <1>6, RunRows DEF RunCompletes
  <1>7. ASSUME NEW v \in Versions, NEW u \in User, NEW w \in User, NEW n \in Grants, PipelineAccessGrant(u, v, w, n)
        PROVE  SavesAfterLatest'
    BY <1>0, <1>5, <1>7, GrantRows DEF PipelineAccessGrant
  <1>8. CASE UNCHANGED vars
    <2>1. row' = row /\ job' = job
      BY <1>8 DEF vars
    <2> QED BY <1>0, <1>5, <2>1 DEF SharingInv
  <1> QED BY <1>0, <1>3, <1>4, <1>6, <1>7, <1>8, StepForms DEF SharingInv

LEMMA SharingCarried ==
  ASSUME OwnerAssumption, SharingInv, Next
  PROVE  CarriesSharing
  <1>0. Types
    BY DEF SharingInv
  <1> SUFFICES ASSUME Added, Newest.env = "test", Latest(Tests) # 0,
                      NEW w \in User, NEW m \in {"viewer", "editor", "admin"}, Allows(w, row[Latest(Tests)], m)
               PROVE  Allows(w, Newest, m)
    BY DEF CarriesSharing
  <1>1. PICK q \in Request : SaveCommit(q) \/ PromoteCommits(q)
    BY <1>0, AddingSteps
  <1>2. ~PromoteCommits(q)
    <2>1. ASSUME PromoteCommits(q) PROVE Newest.env = "prod"
      <3>1. PICK v, sees : Promotes(v, sees)
        BY <1>0, <2>1, PromoteRows
      <3> QED BY <3>1 DEF Promotes, Newest
    <2> QED BY <2>1
  <1>3. PICK p, u : p = job[q].version /\ u = job[q].user
    OBVIOUS
  <1>4. p = Latest(Tests)
    BY <1>1, <1>2, <1>3 DEF SharingInv, SavesAfterLatest, SaveCommit, Go
  <1>5. Newest.creator = u /\ Newest.access = Carried(u, p)
    BY <1>0, <1>1, <1>2, <1>3, <1>4, SaveRows DEF Newest
  <1>6. p \in Versions /\ row[p].access[w] \in 0..3
    <2>1. p \in Versions
      BY <1>0, <1>4, LatestTest DEF Tests
    <2> QED BY <1>0, <2>1, Rows DEF Row
  <1>7. Newest.access[w] = IF w = row[p].creator /\ w # u THEN 3 ELSE row[p].access[w]
    BY <1>5 DEF Carried, Role
  <1>8. Role[m] \in 0..3
    BY DEF Role
  <1> QED BY <1>4, <1>5, <1>6, <1>7, <1>8 DEF Allows

(* A save gives every member at least the role that the member has for the *)
(* latest version.                                                         *)
THEOREM SavesKeepSharing == OwnerAssumption /\ OneByOne => (Spec => [][CarriesSharing]_vars)
  <1> SUFFICES ASSUME OwnerAssumption, OneByOne PROVE Spec => [][CarriesSharing]_vars
    OBVIOUS
  <1>1. Init => SharingInv
    BY InitTypes, IdleTyped DEF Init, SharingInv, SavesAfterLatest
  <1>2. SharingInv /\ [Next]_vars => SharingInv'
    BY SharingStep
  <1>3. SharingInv /\ [Next]_vars => [CarriesSharing]_vars
    BY SharingCarried
  <1> QED BY <1>1, <1>2, <1>3, PTL DEF Spec

-----------------------------------------------------------------------------
(* One request at a time, what a promotion was compared with is still what *)
(* is in production when it commits.                                       *)
StillFits == \A q \in Request : job[q].at \in {"compared", "promote"} /\ ~job[q].override =>
    \A w \in Active("prod") : row[w].def.fields \subseteq row[job[q].version].def.fields
ContractInv == Types /\ StillFits

LEMMA ContractStep ==
  ASSUME OwnerAssumption, OneByOne, ContractInv, [Next]_vars
  PROVE  ContractInv'
  <1>0. Types /\ Keeps /\ Types'
    BY StepKeeps, StepTypes DEF ContractInv
  <1>1. ASSUME NEW q \in Request, job'[q].at \notin {"compared", "promote"} PROVE StillFits'
    BY <1>1 DEF StillFits, OneByOne
  <1>2. ASSUME NEW q \in Request, row' = row, Moves(job[q], job'[q]) PROVE StillFits'
    <2>0. Active("prod")' = Active("prod")
      BY <1>2 DEF Active, Versions
    <2>1. ASSUME job'[q].at \in {"compared", "promote"}, ~job'[q].override, NEW w \in Active("prod")
          PROVE  row[w].def.fields \subseteq row[job'[q].version].def.fields
      <3>1. CASE job'[q].at = "compared"
        <4>1. ~Breaks(row[w].def, row[job[q].version].def) /\ job'[q].version = job[q].version
          BY <1>2, <2>1, <3>1 DEF Moves
        <4> QED BY <4>1 DEF Breaks
      <3>2. CASE job'[q].at = "promote"
        <4>1. job[q].at = "compared" /\ ~job[q].override /\ job'[q].version = job[q].version
          BY <1>2, <2>1, <3>2 DEF Moves
        <4> QED BY <2>1, <4>1 DEF ContractInv, StillFits
      <3> QED BY <2>1, <3>1, <3>2
    <2> QED BY <1>2, <2>0, <2>1 DEF StillFits, OneByOne
  <1>3. ASSUME NEW q \in Request, Reads(q) PROVE StillFits'
    BY <1>0, <1>2, <1>3, ReadsMove, ReadsKeepRows
  <1>4. ASSUME NEW q \in Request, SaveCommit(q) \/ ActivateCommits(q) \/ PromoteCommits(q) PROVE StillFits'
    <2>1. job'[q].at \in {"idle", "unschedule"}
      BY <1>0, <1>4, CommitsMove
    <2> QED BY <1>1, <2>1
  <1>5. ASSUME Len(row') = Len(row), job' = job,
               \A x \in Versions : row'[x].status = row[x].status
        PROVE  StillFits'
    <2>1. Active("prod")' = Active("prod")
      <3>1. Versions' = Versions
        BY <1>5 DEF Versions
      <3> QED BY <1>0, <1>5, <3>1 DEF Active, Keeps
    <2>2. ASSUME NEW q \in Request, job[q].at \in {"compared", "promote"}, ~job[q].override, NEW w \in Active("prod")
          PROVE  row'[w].def.fields \subseteq row'[job[q].version].def.fields
      <3>1. w \in Versions /\ job[q].version \in Versions
        BY <1>0, <2>2 DEF Active, Types, JobTyped
      <3>2. row[w].def.fields \subseteq row[job[q].version].def.fields
        BY <2>2 DEF ContractInv, StillFits
      <3> QED BY <1>0, <3>1, <3>2 DEF Keeps
    <2> QED BY <1>5, <2>1, <2>2 DEF StillFits
  <1>6. ASSUME NEW v \in Versions, RunCompletes(v) PROVE StillFits'
    <2>1. Len(row') = Len(row) /\ \A x \in Versions : row'[x].status = row[x].status
      BY <1>0, <1>6, RunRows
    <2> QED BY <1>5, <1>6, <2>1 DEF RunCompletes
  <1>7. ASSUME NEW v \in Versions, NEW u \in User, NEW w \in User, NEW n \in Grants, PipelineAccessGrant(u, v, w, n)
        PROVE  StillFits'
    <2>1. Len(row') = Len(row) /\ \A x \in Versions : row'[x].status = row[x].status
      BY <1>0, <1>7, GrantRows
    <2> QED BY <1>5, <1>7, <2>1 DEF PipelineAccessGrant
  <1>8. CASE UNCHANGED vars
    <2>1. row' = row /\ job' = job
      BY <1>8 DEF vars
    <2>2. Len(row') = Len(row) /\ \A x \in Versions : row'[x].status = row[x].status
      BY <2>1
    <2> QED BY <1>0, <1>5, <2>1, <2>2 DEF ContractInv
  <1> QED BY <1>0, <1>3, <1>4, <1>6, <1>7, <1>8, StepForms DEF ContractInv

LEMMA ContractKept ==
  ASSUME OwnerAssumption, OneByOne, ContractInv, Next
  PROVE  KeepsContract
  <1>0. Types
    BY DEF ContractInv
  <1> SUFFICES ASSUME NEW q \in Request, job[q].at = "promote", ~job[q].override, Added, NEW w \in Active("prod")
               PROVE  row[w].def.fields \subseteq Newest.def.fields
    BY DEF KeepsContract
  <1>1. PICK p \in Request : SaveCommit(p) \/ PromoteCommits(p)
    BY <1>0, AddingSteps
  <1>2. PromoteCommits(q)
    BY <1>1 DEF OneByOne, SaveCommit, Go
  <1>3. PICK v, sees : Promotes(v, sees) /\ v = job[q].version
    BY <1>0, <1>2, PromoteRows
  <1>4. Newest.def = row[v].def
    BY <1>3 DEF Promotes, Newest
  <1> QED BY <1>3, <1>4 DEF ContractInv, StillFits

(* A promotion without an override keeps what the version it replaces      *)
(* promised.                                                               *)
THEOREM PromotionsKeepContracts == OwnerAssumption /\ OneByOne => (Spec => [][KeepsContract]_vars)
  <1> SUFFICES ASSUME OwnerAssumption, OneByOne PROVE Spec => [][KeepsContract]_vars
    OBVIOUS
  <1>1. Init => ContractInv
    BY InitTypes, IdleTyped DEF Init, ContractInv, StillFits
  <1>2. ContractInv /\ [Next]_vars => ContractInv'
    BY ContractStep
  <1>3. ContractInv /\ [Next]_vars => [KeepsContract]_vars
    BY ContractKept
  <1> QED BY <1>1, <1>2, <1>3, PTL DEF Spec

(* For the suite: where these invariants begin, and what every step keeps. *)
LEMMA InitSharing ==
  ASSUME OwnerAssumption, Init
  PROVE  SharingInv
  BY InitTypes, IdleTyped DEF Init, SharingInv, SavesAfterLatest

LEMMA InitContract ==
  ASSUME OwnerAssumption, Init
  PROVE  ContractInv
  BY InitTypes, IdleTyped DEF Init, ContractInv, StillFits

LEMMA FollowShown == FollowInv => ScheduleFollowsActive
  BY DEF FollowInv, ScheduleKept, ScheduleFollowsActive, AtRest, Deleting

LEMMA SharingMoves ==
  ASSUME OwnerAssumption, SharingInv, [Next]_vars
  PROVE  CarriesSharing /\ CarriesRoles
  <1>1. CASE Next
    BY <1>1, SharingCarried, RolesCarried DEF SharingInv
  <1>2. CASE UNCHANGED vars
    <2>1. row' = row /\ Len(row) \in Nat
      BY <1>2 DEF vars, SharingInv, Types
    <2> QED BY <2>1 DEF Added, CarriesSharing, CarriesRoles
  <1> QED BY <1>1, <1>2

LEMMA ContractMoves ==
  ASSUME OwnerAssumption, OneByOne, ContractInv, [Next]_vars
  PROVE  KeepsContract
  <1>1. CASE Next
    BY <1>1, ContractKept
  <1>2. CASE UNCHANGED vars
    <2>1. row' = row /\ Len(row) \in Nat
      BY <1>2 DEF vars, ContractInv, Types
    <2> QED BY <2>1 DEF Added, KeepsContract
  <1> QED BY <1>1, <1>2

(* Paged listings: the rows, the request's filters, a walk and its pages.  *)
CONSTANTS Route, Keys, MaxId, MaxTime, Limit
VARIABLES rows, match, clock, walk, cursor, listed, kept
Pages == INSTANCE ListPages

-----------------------------------------------------------------------------
(* A strict order P on a finite set R: what is above an element.           *)
Orders(P, R) ==
    /\ IsFiniteSet(R) /\ P \subseteq R \X R
    /\ \A r \in R : <<r, r>> \notin P
    /\ \A r, q, p \in R : <<r, q>> \in P /\ <<q, p>> \in P => <<r, p>> \in P

Above(P, R, r) == {q \in R : <<r, q>> \in P}

LEMMA AboveCount ==
  ASSUME NEW P, NEW R, Orders(P, R), NEW r \in R
  PROVE  Above(P, R, r) \subseteq R /\ IsFiniteSet(Above(P, R, r)) /\ Cardinality(Above(P, R, r)) \in Nat
  <1>1. Above(P, R, r) \subseteq R /\ IsFiniteSet(R)
    BY DEF Above, Orders
  <1>2. IsFiniteSet(Above(P, R, r))
    BY <1>1, FS_Subset
  <1> QED BY <1>1, <1>2, FS_CardinalityType

LEMMA AboveShrinks ==
  ASSUME NEW P, NEW R, Orders(P, R), NEW r \in R, NEW q \in R, <<r, q>> \in P
  PROVE  /\ Above(P, R, q) \subseteq Above(P, R, r)
         /\ Cardinality(Above(P, R, q)) < Cardinality(Above(P, R, r))
  <1> DEFINE T == Above(P, R, q)
             S == Above(P, R, r)
  <1>1. T \subseteq S /\ q \in S /\ q \notin T
    BY DEF Above, Orders
  <1>2. IsFiniteSet(S) /\ Cardinality(S) \in Nat /\ Cardinality(T) \in Nat
    BY AboveCount
  <1>3. Cardinality(T) <= Cardinality(S) /\ (Cardinality(S) = Cardinality(T) => S = T)
    <2> HIDE DEF T, S
    <2> QED BY <1>1, <1>2, FS_Subset
  <1> HIDE DEF T, S
  <1>4. Cardinality(T) < Cardinality(S)
    BY <1>1, <1>2, <1>3
  <1> QED BY <1>1, <1>4 DEF T, S

LEMMA Topmost ==
  ASSUME NEW P, NEW R, Orders(P, R), NEW S, S \subseteq R, S # {}
  PROVE  \E r \in S : \A q \in S : <<r, q>> \notin P
  <1> DEFINE Rel == OpToRel(<, Nat)
             Counts == {Cardinality(Above(P, R, r)) : r \in S}
  <1>1. IsWellFoundedOn(Rel, Nat)
    BY NatLessThanWellFounded
  <1>2. \A x, y \in Nat : x < y => <<x, y>> \in Rel
    BY DEF OpToRel
  <1>3. Counts \subseteq Nat /\ Counts # {}
    BY AboveCount
  <1>4. PICK g \in Counts : \A h \in Counts : ~(<<h, g>> \in Rel)
    <2> HIDE DEF Rel, Counts
    <2> QED BY <1>1, <1>3, WFMin
  <1>5. PICK r \in S : g = Cardinality(Above(P, R, r))
    BY <1>4
  <1>6. \A q \in S : <<r, q>> \notin P
    <2> SUFFICES ASSUME NEW q \in S, <<r, q>> \in P PROVE FALSE
      OBVIOUS
    <2>1. Cardinality(Above(P, R, q)) < g
      BY <1>5, AboveShrinks
    <2>2. Cardinality(Above(P, R, q)) \in Counts
      OBVIOUS
    <2> QED BY <1>2, <1>3, <1>4, <2>1, <2>2
  <1> QED BY <1>6

(* The rows of a listing, by created_at and id.                            *)
Ordered(R) ==
    /\ IsFiniteSet(R)
    /\ \A r \in R : r.at \in Nat \ {0} /\ r.id \in Nat
    /\ \A r, q \in R : r.id = q.id => r = q

Upward(R) == {p \in R \X R : Pages!Less(p[1], p[2])}
Downward(R) == {p \in R \X R : Pages!Less(p[2], p[1])}

LEMMA LessTotal ==
  ASSUME NEW R, Ordered(R), NEW r \in R, NEW q \in R
  PROVE  ~Pages!Less(r, r) /\ (r # q => Pages!Less(r, q) \/ Pages!Less(q, r)) /\ ~(Pages!Less(r, q) /\ Pages!Less(q, r))
  BY DEF Ordered, Pages!Less

LEMMA LessTransitive ==
  ASSUME NEW p, NEW q, NEW r, p.at \in Nat, p.id \in Nat, q.at \in Nat, q.id \in Nat, r.at \in Nat, r.id \in Nat,
         Pages!Less(p, q), Pages!Less(q, r)
  PROVE  Pages!Less(p, r)
  BY DEF Pages!Less

LEMMA OrderedSubset ==
  ASSUME NEW R, Ordered(R), NEW S, S \subseteq R
  PROVE  Ordered(S)
  BY FS_Subset DEF Ordered

LEMMA RowsOrdered ==
  ASSUME NEW R, Ordered(R)
  PROVE  Orders(Upward(R), R) /\ Orders(Downward(R), R)
  <1>1. \A r, q, p \in R : (Pages!Less(r, q) /\ Pages!Less(q, p) => Pages!Less(r, p)) /\ ~Pages!Less(r, r)
    BY LessTransitive, LessTotal DEF Ordered
  <1> QED BY <1>1 DEF Orders, Upward, Downward, Ordered

LEMMA GreatestRow ==
  ASSUME NEW R, Ordered(R), NEW S, S \subseteq R, S # {}
  PROVE  \E r \in S : \A q \in S : ~Pages!Less(r, q)
  <1>1. Orders(Upward(R), R)
    BY RowsOrdered
  <1>2. PICK r \in S : \A q \in S : <<r, q>> \notin Upward(R)
    BY <1>1, Topmost
  <1>3. \A q \in S : r \in R /\ q \in R
    OBVIOUS
  <1> QED BY <1>2, <1>3 DEF Upward

LEMMA LeastRow ==
  ASSUME NEW R, Ordered(R), NEW S, S \subseteq R, S # {}
  PROVE  Pages!Last(S) \in S /\ \A q \in S : ~Pages!Less(q, Pages!Last(S))
  <1>1. \E r \in S : \A q \in S : ~Pages!Less(q, r)
    <2>1. Orders(Downward(R), R)
      BY RowsOrdered
    <2>2. PICK r \in S : \A q \in S : <<r, q>> \notin Downward(R)
      BY <2>1, Topmost
    <2>3. \A q \in S : r \in R /\ q \in R
      OBVIOUS
    <2> QED BY <2>2, <2>3 DEF Downward
  <1> QED BY <1>1 DEF Pages!Last

(* LIMIT n.  What is above a row of the result is in it; and a result with *)
(* fewer than n rows is all there is.                                      *)
LEMMA PageCardinality == \A S : Pages!Cardinality(S) = Cardinality(S)
  BY DEF Pages!Cardinality, Cardinality

LEMMA TopRows ==
  ASSUME NEW R, Ordered(R), NEW n
  PROVE  Pages!Top(R, n) = {r \in R : Cardinality(Above(Upward(R), R, r)) < n}
  <1>1. \A r \in R : {q \in R : Pages!Less(r, q)} = Above(Upward(R), R, r)
    BY DEF Above, Upward
  <1>2. \A r \in R : Pages!Cardinality({q \in R : Pages!Less(r, q)}) = Cardinality(Above(Upward(R), R, r))
    BY <1>1, PageCardinality
  <1> QED BY <1>2 DEF Pages!Top

LEMMA TopUpward ==
  ASSUME NEW R, Ordered(R), NEW n \in Nat, NEW r \in R, NEW q \in Pages!Top(R, n), Pages!Less(q, r)
  PROVE  r \in Pages!Top(R, n)
  <1>1. q \in R /\ Cardinality(Above(Upward(R), R, q)) < n
    BY TopRows
  <1>2. Orders(Upward(R), R) /\ <<q, r>> \in Upward(R)
    BY <1>1, RowsOrdered DEF Upward
  <1>3. Cardinality(Above(Upward(R), R, r)) < Cardinality(Above(Upward(R), R, q))
    BY <1>1, <1>2, AboveShrinks
  <1>4. Cardinality(Above(Upward(R), R, r)) \in Nat /\ Cardinality(Above(Upward(R), R, q)) \in Nat
    BY <1>1, <1>2, AboveCount
  <1> QED BY <1>1, <1>3, <1>4, TopRows

LEMMA TopAll ==
  ASSUME NEW R, Ordered(R), NEW n \in Nat, Cardinality(Pages!Top(R, n)) < n
  PROVE  Pages!Top(R, n) = R
  <1>0. Pages!Top(R, n) \subseteq R /\ Orders(Upward(R), R)
    BY TopRows, RowsOrdered
  <1> SUFFICES ASSUME R \ Pages!Top(R, n) # {} PROVE FALSE
    BY <1>0
  <1>1. PICK r \in R \ Pages!Top(R, n) : \A q \in R \ Pages!Top(R, n) : ~Pages!Less(r, q)
    BY GreatestRow
  <1> DEFINE A == Above(Upward(R), R, r)
             T == Pages!Top(R, n)
  <1>2. A \subseteq T
    BY <1>1 DEF Above, Upward
  <1>3. IsFiniteSet(T) /\ Cardinality(T) \in Nat /\ Cardinality(A) \in Nat
    <2>1. IsFiniteSet(T)
      BY <1>0, FS_Subset DEF Ordered
    <2> QED BY <1>0, <1>1, <2>1, AboveCount, FS_CardinalityType
  <1>4. Cardinality(A) <= Cardinality(T)
    <2> HIDE DEF A, T
    <2> QED BY <1>2, <1>3, FS_Subset
  <1>5. ~(Cardinality(A) < n)
    BY <1>1, TopRows
  <1> QED BY <1>3, <1>4, <1>5

LEMMA TopFew ==
  ASSUME NEW R, Ordered(R), NEW n \in Nat, Cardinality(R) <= n
  PROVE  Pages!Top(R, n) = R
  <1>1. ASSUME NEW r \in R PROVE Cardinality(Above(Upward(R), R, r)) < n
    <2> DEFINE A == Above(Upward(R), R, r)
    <2>1. A \subseteq R /\ r \notin A /\ IsFiniteSet(R) /\ Cardinality(A) \in Nat /\ Cardinality(R) \in Nat
      <3>1. Orders(Upward(R), R)
        BY RowsOrdered
      <3>2. A \subseteq R /\ Cardinality(A) \in Nat
        BY <3>1, AboveCount
      <3>3. r \notin A
        BY <3>1 DEF Orders, Above
      <3>4. IsFiniteSet(R) /\ Cardinality(R) \in Nat
        BY FS_CardinalityType DEF Ordered
      <3> QED BY <3>2, <3>3, <3>4
    <2>2. Cardinality(A) <= Cardinality(R) /\ (Cardinality(R) = Cardinality(A) => R = A)
      <3> HIDE DEF A
      <3> QED BY <2>1, FS_Subset
    <2> HIDE DEF A
    <2>3. Cardinality(A) < n
      BY <2>1, <2>2
    <2> QED BY <2>3 DEF A
  <1> QED BY <1>1, TopRows

-----------------------------------------------------------------------------
(* The table and the walk are well formed.                                 *)
Entry == [id : Pages!Ids, key : Keys, version : 1 .. MaxId, at : 1 .. MaxTime]

TableTypes ==
    /\ rows \subseteq Entry /\ IsFiniteSet(rows)
    /\ \A r, q \in rows : r.id = q.id => r = q
    /\ match \subseteq {r.id : r \in rows}
    /\ clock \in 1 .. MaxTime

CursorTypes ==
    /\ walk \in {"idle", "walking", "done"}
    /\ cursor # Pages!None => \E r \in rows : cursor = [at |-> r.at, id |-> r.id]
    /\ listed \in [Pages!Ids -> 0 .. 2]
    /\ walk = "done" => cursor = Pages!None
    /\ walk = "idle" => cursor = Pages!None /\ \A i \in Pages!Ids : listed[i] = 0

PageTypes == TableTypes /\ CursorTypes

LEMMA RowsAreOrdered ==
  ASSUME Pages!ListPagesAssumption, TableTypes, NEW c
  PROVE  Ordered(rows) /\ Ordered(Pages!After(c, Pages!Listing)) /\ Pages!After(c, Pages!Listing) \subseteq Pages!Listing /\ Pages!Listing \subseteq rows
  <1>1. \A r \in rows : r.at \in Nat \ {0} /\ r.id \in Nat
    BY DEF TableTypes, Entry, Pages!Ids, Pages!ListPagesAssumption
  <1>2. Ordered(rows)
    BY <1>1 DEF Ordered, TableTypes
  <1>3. Pages!After(c, Pages!Listing) \subseteq Pages!Listing /\ Pages!Listing \subseteq rows
    BY DEF Pages!After, Pages!Listing, Pages!Current
  <1>4. Pages!After(c, Pages!Listing) \subseteq rows
    BY <1>3
  <1> QED BY <1>2, <1>3, <1>4, OrderedSubset

(* What a page is: rows after the cursor; if there is a next page, its     *)
(* last row has all that is missing behind it, and if there is none,       *)
(* nothing is missing.                                                     *)
PageHolds(R, page, items) ==
    /\ items \subseteq page /\ page \subseteq R
    /\ Pages!HasMore(page) => Pages!Last(items) \in items /\ \A q \in items : ~Pages!Less(q, Pages!Last(items))

PageExact(R, page, items) ==
    /\ ~Pages!HasMore(page) => items = R
    /\ Pages!HasMore(page) => \A r \in R \ items : Pages!Less(r, Pages!Last(items))

LEMMA TopHolds ==
  ASSUME Pages!ListPagesAssumption, NEW R, Ordered(R), NEW page, page \subseteq R
  PROVE  PageHolds(R, page, Pages!Top(page, Limit))
  <1> DEFINE items == Pages!Top(page, Limit)
  <1>1. Ordered(page) /\ Limit \in Nat \ {0}
    BY OrderedSubset DEF Pages!ListPagesAssumption
  <1>2. items \subseteq page /\ Ordered(items)
    BY <1>1, TopRows, OrderedSubset
  <1>3. ASSUME Pages!HasMore(page) PROVE items # {}
    <2>1. page # {}
      <3>1. Cardinality(page) > Limit
        BY <1>3, PageCardinality DEF Pages!HasMore
      <3> QED BY <1>1, <3>1, FS_EmptySet
    <2>2. PICK r \in page : \A q \in page : ~Pages!Less(r, q)
      BY <1>1, <2>1, GreatestRow
    <2>3. Above(Upward(page), page, r) = {}
      BY <2>2 DEF Above, Upward
    <2>4. Cardinality(Above(Upward(page), page, r)) = 0
      BY <2>3, FS_EmptySet
    <2> QED BY <1>1, <2>2, <2>4, TopRows
  <1> HIDE DEF items
  <1>4. Pages!HasMore(page) => Pages!Last(items) \in items /\ \A q \in items : ~Pages!Less(q, Pages!Last(items))
    BY <1>2, <1>3, LeastRow
  <1> QED BY <1>2, <1>4 DEF PageHolds, items

LEMMA TopExact ==
  ASSUME Pages!ListPagesAssumption, NEW R, Ordered(R), NEW page, page = Pages!Top(R, Limit + 1)
  PROVE  PageExact(R, page, Pages!Top(page, Limit))
  <1> DEFINE items == Pages!Top(page, Limit)
  <1>1. Limit \in Nat \ {0} /\ page \subseteq R /\ Ordered(page)
    BY TopRows, OrderedSubset DEF Pages!ListPagesAssumption
  <1>2. Cardinality(page) \in Nat
    BY <1>1, FS_CardinalityType DEF Ordered
  <1>3. ASSUME ~Pages!HasMore(page) PROVE items = R
    <2>1. Cardinality(page) <= Limit
      BY <1>1, <1>2, <1>3, PageCardinality DEF Pages!HasMore
    <2>2. Cardinality(Pages!Top(R, Limit + 1)) < Limit + 1
      BY <1>1, <1>2, <2>1
    <2>3. page = R
      BY <1>1, <2>2, TopAll
    <2>4. items = page
      BY <1>1, <2>1, TopFew
    <2> QED BY <2>3, <2>4
  <1>4. ASSUME Pages!HasMore(page), NEW r \in R \ items PROVE Pages!Less(r, Pages!Last(items))
    <2>1. Pages!Last(items) \in items /\ items \subseteq page
      BY <1>1, <1>4, TopHolds DEF PageHolds
    <2> DEFINE l == Pages!Last(items)
    <2>2. r # l /\ l \in R /\ l \in page
      BY <1>1, <1>4, <2>1
    <2> HIDE DEF l
    <2>3. CASE Pages!Less(r, l)
      BY <2>3 DEF l
    <2>4. CASE Pages!Less(l, r)
      <3>1. r \in page
        BY <1>1, <2>2, <2>4, TopUpward
      <3>2. r \in items
        BY <1>1, <2>1, <2>4, <3>1, TopUpward DEF l
      <3> QED BY <1>4, <3>2
    <2> QED BY <2>2, <2>3, <2>4, LessTotal
  <1> QED BY <1>3, <1>4 DEF PageExact

LEMMA PageRows ==
  ASSUME Pages!ListPagesAssumption, TableTypes
  PROVE  LET R == Pages!After(cursor, Pages!Listing) IN
         /\ PageHolds(R, Pages!Page, Pages!Top(Pages!Page, Limit))
         /\ Route # "executions" => PageExact(R, Pages!Page, Pages!Top(Pages!Page, Limit))
  <1> DEFINE R == Pages!After(cursor, Pages!Listing)
  <1>1. Ordered(R) /\ Limit + 1 \in Nat /\ Limit \in Nat
    BY RowsAreOrdered DEF Pages!ListPagesAssumption
  <1>2. CASE Route # "executions"
    <2>1. Pages!Page = Pages!Top(R, Limit + 1)
      BY <1>2 DEF Pages!Page, Pages!PipelinePage, Pages!RuntimeRunsPage, Pages!ListPagesAssumption
    <2>2. Pages!Page \subseteq R
      BY <1>1, <2>1, TopRows
    <2> HIDE DEF R
    <2> QED BY <1>1, <2>1, <2>2, TopHolds, TopExact DEF R
  <1>3. CASE Route = "executions"
    <2>1. Pages!Page = Pages!Top(Pages!Top(R, Limit), Limit + 1)
      BY <1>3 DEF Pages!Page, Pages!ExecutionPage
    <2>2. Pages!Top(R, Limit) \subseteq R /\ Ordered(Pages!Top(R, Limit))
      BY <1>1, TopRows, OrderedSubset
    <2>3. Pages!Page \subseteq R
      BY <1>1, <2>1, <2>2, TopRows
    <2> HIDE DEF R
    <2> QED BY <1>1, <1>3, <2>3, TopHolds DEF R
  <1> QED BY <1>2, <1>3

LEMMA PageInit ==
  ASSUME Pages!ListPagesAssumption, Pages!Init
  PROVE  PageTypes
  <1>1. IsFiniteSet({})
    BY FS_EmptySet
  <1>2. 1 \in 1 .. MaxTime
    BY DEF Pages!ListPagesAssumption
  <1> QED BY <1>1, <1>2 DEF Pages!Init, PageTypes, TableTypes, CursorTypes, Pages!FreeIds

(* A free id means that the table is not full: a version is at most MaxId. *)
LEMMA NextVersion ==
  ASSUME Pages!ListPagesAssumption, TableTypes, NEW k, NEW id \in Pages!FreeIds
  PROVE  1 + Pages!Cardinality({r \in rows : r.key = k}) \in 1 .. MaxId
  <1> DEFINE S == {r \in rows : r.key = k}
             T == Pages!Ids \ {id}
  <1>1. IsFiniteSet(Pages!Ids) /\ Pages!Cardinality(Pages!Ids) = MaxId /\ MaxId \in Nat
    <2>1. MaxId \in Nat /\ 1 \in Int /\ MaxId \in Int
      BY DEF Pages!ListPagesAssumption
    <2>2. IsFiniteSet(1 .. MaxId) /\ Cardinality(1 .. MaxId) = MaxId
      BY <2>1, FS_Interval
    <2> QED BY <2>1, <2>2, PageCardinality DEF Pages!Ids
  <1>2. id \in Pages!Ids /\ \A r \in rows : r.id \in Pages!Ids /\ r.id # id
    BY DEF TableTypes, Entry, Pages!FreeIds
  <1>3. IsFiniteSet(T) /\ Cardinality(T) = MaxId - 1
    <2>1. IsFiniteSet(Pages!Ids) /\ Cardinality(Pages!Ids) = MaxId
      BY <1>1, PageCardinality
    <2> HIDE DEF Pages!Ids
    <2> QED BY <1>2, <2>1, FS_RemoveElement
  <1> DEFINE f == [r \in S |-> r.id]
  <1>4. f \in Injection(S, T)
    <2>1. f \in [S -> T]
      BY <1>2
    <2>2. \A r, q \in S : f[r] = f[q] => r = q
      BY DEF TableTypes
    <2> QED BY <2>1, <2>2 DEF Injection, IsInjective
  <1>5. IsFiniteSet(S) /\ Cardinality(S) <= Cardinality(T) /\ Cardinality(S) \in Nat
    <2>1. IsFiniteSet(S)
      BY FS_Subset DEF TableTypes
    <2> HIDE DEF S, T, f
    <2> QED BY <1>3, <1>4, <2>1, FS_Injection, FS_CardinalityType
  <1>6. Pages!Cardinality(S) = Cardinality(S)
    BY PageCardinality
  <1> HIDE DEF S
  <1>7. 1 + Pages!Cardinality(S) \in 1 .. MaxId
    BY <1>1, <1>3, <1>5, <1>6
  <1> QED BY <1>7 DEF S

LEMMA PageStep ==
  ASSUME Pages!ListPagesAssumption, PageTypes, [Pages!Next]_Pages!vars
  PROVE  PageTypes'
  <1>0. Limit \in Nat \ {0} /\ MaxTime \in Nat /\ MaxId \in Nat
    BY DEF Pages!ListPagesAssumption
  <1>1. ASSUME NEW k \in Keys, NEW id \in Pages!Ids, Pages!Insert(k, id) PROVE PageTypes'
    <2>1. PICK at \in (clock - 1) .. clock : at > 0 /\ rows' = rows \cup {[id |-> id, key |-> k, at |-> at,
                       version |-> 1 + Pages!Cardinality({r \in rows : r.key = k})]}
      BY <1>1 DEF Pages!Insert
    <2>2. PICK e : e = [id |-> id, key |-> k, at |-> at, version |-> 1 + Pages!Cardinality({r \in rows : r.key = k})]
      OBVIOUS
    <2>3. e \in Entry /\ e.id = id
      <3>1. id \in Pages!FreeIds /\ clock \in 1 .. MaxTime
        BY <1>1 DEF Pages!Insert, PageTypes, TableTypes
      <3>2. 1 + Pages!Cardinality({r \in rows : r.key = k}) \in 1 .. MaxId
        BY <3>1, NextVersion DEF PageTypes
      <3>3. at \in 1 .. MaxTime
        BY <1>0, <2>1, <3>1
      <3> QED BY <2>2, <3>2, <3>3 DEF Entry
    <2>4. rows' = rows \cup {e} /\ \A r \in rows : r.id # id
      BY <1>1, <2>1, <2>2 DEF Pages!Insert, Pages!FreeIds
    <2>5. IsFiniteSet(rows')
      BY <2>4, FS_AddElement DEF PageTypes, TableTypes
    <2>6. rows' \subseteq Entry /\ \A r, q \in rows' : r.id = q.id => r = q
      BY <2>3, <2>4 DEF PageTypes, TableTypes
    <2>7. (match' = match \cup {id} \/ match' = match) /\ UNCHANGED <<clock, walk, cursor, listed>>
      BY <1>1 DEF Pages!Insert
    <2>8. match' \subseteq {r.id : r \in rows'}
      BY <2>3, <2>4, <2>7 DEF PageTypes, TableTypes
    <2> QED BY <2>4, <2>5, <2>6, <2>7, <2>8 DEF PageTypes, TableTypes, CursorTypes, Entry
  <1>2. ASSUME NEW r \in rows, Pages!Refilter(r) PROVE PageTypes'
    <2>1. match' \subseteq match \cup {r.id} /\ UNCHANGED <<rows, clock, walk, cursor, listed>>
      BY <1>2 DEF Pages!Refilter
    <2> QED BY <2>1 DEF PageTypes, TableTypes, CursorTypes, Entry
  <1>3. ASSUME Pages!Tick PROVE PageTypes'
    <2>1. clock' \in 1 .. MaxTime /\ UNCHANGED <<rows, match, walk, cursor, listed, kept>>
      BY <1>0, <1>3 DEF Pages!Tick, PageTypes, TableTypes
    <2> QED BY <2>1 DEF PageTypes, TableTypes, CursorTypes, Entry
  <1>4. ASSUME Pages!Begin PROVE PageTypes'
    BY <1>4 DEF Pages!Begin, PageTypes, TableTypes, CursorTypes, Entry
  <1>5. ASSUME Pages!ReadPage PROVE PageTypes'
    <2> DEFINE items == Pages!Top(Pages!Page, Limit)
               again(i) == listed[i] < 2 /\ \E r \in items : r.id = i
    <2>1. /\ listed' = [i \in Pages!Ids |-> IF again(i) THEN listed[i] + 1 ELSE listed[i]]
          /\ cursor' = IF Pages!HasMore(Pages!Page) THEN Pages!NextCursor(items) ELSE Pages!None
          /\ walk' = IF Pages!HasMore(Pages!Page) THEN "walking" ELSE "done"
          /\ UNCHANGED <<rows, match, clock>>
      BY <1>5 DEF Pages!ReadPage
    <2>2. listed' \in [Pages!Ids -> 0 .. 2]
      <3>1. \A i \in Pages!Ids : listed[i] \in 0 .. 2
        BY DEF PageTypes, CursorTypes
      <3> HIDE DEF items
      <3> QED BY <2>1, <3>1
    <2>3. Pages!HasMore(Pages!Page) => \E r \in rows : cursor' = [at |-> r.at, id |-> r.id]
      <3>1. Pages!HasMore(Pages!Page) => Pages!Last(items) \in items /\ items \subseteq rows
        BY PageRows, RowsAreOrdered DEF PageTypes, PageHolds
      <3> QED BY <2>1, <3>1 DEF Pages!NextCursor
    <2>4. CursorTypes'
      BY <2>1, <2>2, <2>3 DEF CursorTypes
    <2> QED BY <2>1, <2>4 DEF PageTypes, TableTypes, Entry
  <1>6. ASSUME UNCHANGED Pages!vars PROVE PageTypes'
    BY <1>6 DEF Pages!vars, PageTypes, TableTypes, CursorTypes, Entry
  <1> QED BY <1>1, <1>2, <1>3, <1>4, <1>5, <1>6 DEF Pages!Next

LEMMA PagesTyped ==
  ASSUME PageTypes
  PROVE  Pages!TypeOK
  BY DEF PageTypes, TableTypes, CursorTypes, Entry, Pages!TypeOK

-----------------------------------------------------------------------------
(* No row twice: of a walk under way, no listed row is behind the cursor.  *)
ListedBehind ==
    /\ Pages!ListedOnce
    /\ \A i \in Pages!Ids : listed[i] > 0 => \E r \in rows : r.id = i
    /\ walk = "walking" => \A r \in rows : listed[r.id] > 0 => cursor # Pages!None /\ ~Pages!Less(r, cursor)

(* No row lost: what was left alone is listed or still to come.            *)
KeptAhead ==
    /\ walk = "walking" =>
           \A s \in kept : \E r \in Pages!Listing : Pages!Subject(r) = s /\ (listed[r.id] > 0 \/ r \in Pages!After(cursor, Pages!Listing))
    /\ Pages!WalkComplete

LEMMA BehindInit ==
  ASSUME Pages!ListPagesAssumption, Pages!Init
  PROVE  ListedBehind /\ KeptAhead
  <1>1. \A i \in Pages!Ids : listed[i] = 0
    BY DEF Pages!Init
  <1> QED BY <1>1 DEF Pages!Init, ListedBehind, Pages!ListedOnce, KeptAhead, Pages!WalkComplete

LEMMA BehindStep ==
  ASSUME Pages!ListPagesAssumption, PageTypes, PageTypes', ListedBehind, [Pages!Next]_Pages!vars
  PROVE  ListedBehind'
  <1>0. /\ \A i \in Pages!Ids : listed[i] \in 0 .. 2
        /\ \A r \in rows : r.id \in Pages!Ids /\ r.id \in Nat /\ r.at \in Nat \ {0}
        /\ \A r, q \in rows : r.id = q.id => r = q
    BY DEF PageTypes, TableTypes, CursorTypes, Entry, Pages!Ids, Pages!ListPagesAssumption
  <1>1. ASSUME NEW k \in Keys, NEW id \in Pages!Ids, Pages!Insert(k, id) PROVE ListedBehind'
    <2>1. id \notin {r.id : r \in rows} /\ UNCHANGED <<walk, cursor, listed>>
      BY <1>1 DEF Pages!Insert, Pages!FreeIds
    <2>2. listed[id] = 0
      BY <1>0, <2>1 DEF ListedBehind
    <2>3. \A r \in rows' : r \in rows \/ r.id = id
      BY <1>1 DEF Pages!Insert
    <2>4. rows \subseteq rows'
      BY <1>1 DEF Pages!Insert
    <2> QED BY <2>1, <2>2, <2>3, <2>4 DEF ListedBehind, Pages!ListedOnce, Pages!Less
  <1>2. ASSUME NEW r \in rows, Pages!Refilter(r) PROVE ListedBehind'
    BY <1>2 DEF Pages!Refilter, ListedBehind, Pages!ListedOnce, Pages!Less
  <1>3. ASSUME Pages!Tick PROVE ListedBehind'
    BY <1>3 DEF Pages!Tick, ListedBehind, Pages!ListedOnce, Pages!Less
  <1>4. ASSUME Pages!Begin PROVE ListedBehind'
    <2>1. \A r \in rows : listed[r.id] = 0
      BY <1>0, <1>4 DEF Pages!Begin, PageTypes, CursorTypes
    <2> QED BY <1>4, <2>1 DEF Pages!Begin, ListedBehind, Pages!ListedOnce, Pages!Less
  <1>5. ASSUME Pages!ReadPage PROVE ListedBehind'
    <2> DEFINE items == Pages!Top(Pages!Page, Limit)
               again(i) == listed[i] < 2 /\ \E r \in items : r.id = i
    <2>1. /\ listed' = [i \in Pages!Ids |-> IF again(i) THEN listed[i] + 1 ELSE listed[i]]
          /\ cursor' = IF Pages!HasMore(Pages!Page) THEN Pages!NextCursor(items) ELSE Pages!None
          /\ walk' = IF Pages!HasMore(Pages!Page) THEN "walking" ELSE "done"
          /\ UNCHANGED <<rows, match, clock>>
          /\ walk = "walking"
      BY <1>5 DEF Pages!ReadPage
    <2>2. /\ items \subseteq rows /\ \A r \in items : cursor = Pages!None \/ Pages!Less(r, cursor)
          /\ Pages!HasMore(Pages!Page) => Pages!Last(items) \in items /\ \A q \in items : ~Pages!Less(q, Pages!Last(items))
      BY PageRows, RowsAreOrdered DEF PageTypes, PageHolds, Pages!After
    <2> HIDE DEF items
    <2>3. \A r \in items : listed[r.id] = 0
      BY <1>0, <2>1, <2>2 DEF ListedBehind
    <2>4. \A i \in Pages!Ids : listed'[i] = IF \E r \in items : r.id = i THEN 1 ELSE listed[i]
      BY <1>0, <2>1, <2>3
    <2>5. Pages!ListedOnce'
      BY <2>4 DEF ListedBehind, Pages!ListedOnce
    <2>6. \A i \in Pages!Ids : listed'[i] > 0 => \E r \in rows : r.id = i
      BY <2>2, <2>4 DEF ListedBehind
    <2>7. ASSUME Pages!HasMore(Pages!Page), NEW r \in rows, listed'[r.id] > 0 PROVE cursor' # Pages!None /\ ~Pages!Less(r, cursor')
      <3> DEFINE l == Pages!Last(items)
      <3>1. cursor' = [at |-> l.at, id |-> l.id] /\ l \in items
        BY <2>1, <2>2, <2>7 DEF Pages!NextCursor
      <3>2. l \in rows /\ l.at \in Nat \ {0} /\ l.id \in Nat
        BY <1>0, <2>2, <3>1
      <3>3. \A q \in items : ~Pages!Less(q, l)
        BY <2>2, <2>7
      <3>4. r \in items \/ listed[r.id] > 0
        BY <1>0, <2>2, <2>4, <2>7
      <3> HIDE DEF l
      <3>5. ASSUME listed[r.id] > 0 PROVE ~Pages!Less(r, l)
        <4>1. cursor # Pages!None /\ ~Pages!Less(r, cursor) /\ Pages!Less(l, cursor)
          BY <2>1, <2>2, <3>1, <3>5 DEF ListedBehind
        <4>2. cursor.at \in Nat /\ cursor.id \in Nat
          BY <1>0, <4>1 DEF PageTypes, CursorTypes
        <4> QED BY <1>0, <3>2, <4>1, <4>2, LessTransitive
      <3>6. ~Pages!Less(r, l)
        BY <3>3, <3>4, <3>5
      <3>7. ~Pages!Less(r, cursor')
        BY <3>1, <3>6 DEF Pages!Less
      <3>8. cursor' # Pages!None
        BY <3>1, <3>2 DEF Pages!None
      <3> QED BY <3>7, <3>8
    <2>8. (walk = "walking" => \A r \in rows : listed[r.id] > 0 => cursor # Pages!None /\ ~Pages!Less(r, cursor))'
      BY <2>1, <2>7 DEF Pages!Less
    <2> QED BY <2>1, <2>5, <2>6, <2>8 DEF ListedBehind
  <1>6. ASSUME UNCHANGED Pages!vars PROVE ListedBehind'
    BY <1>6 DEF Pages!vars, ListedBehind, Pages!ListedOnce, Pages!Less
  <1> QED BY <1>1, <1>2, <1>3, <1>4, <1>5, <1>6 DEF Pages!Next

(* A row stays in the listing while nothing happens to its subject.        *)
LEMMA ListingStays ==
  ASSUME Pages!ListPagesAssumption, PageTypes, NEW s \in kept', NEW r \in Pages!Listing, Pages!Subject(r) = s,
         (\E k \in Keys, id \in Pages!Ids : Pages!Insert(k, id)) \/ (\E q \in rows : Pages!Refilter(q))
  PROVE  r \in Pages!Listing'
  <1>0. r \in rows /\ r.id \in match /\ (Route = "current" => r \in Pages!Current(rows))
    BY DEF Pages!Listing, Pages!Current
  <1>1. ASSUME NEW k \in Keys, NEW id \in Pages!Ids, Pages!Insert(k, id) PROVE r \in Pages!Listing'
    <2>1. r.id \in match' /\ r \in rows'
      BY <1>0, <1>1 DEF Pages!Insert
    <2>2. ASSUME Route = "current" PROVE r \in Pages!Current(rows')
      <3>1. r.key # k
        BY <1>1, <2>2 DEF Pages!Insert, Pages!Subject
      <3>2. \A q \in rows' : q \in rows \/ q.key = k
        BY <1>1 DEF Pages!Insert
      <3> QED BY <1>0, <2>1, <2>2, <3>1, <3>2 DEF Pages!Current
    <2> QED BY <2>1, <2>2 DEF Pages!Listing, Pages!Current
  <1>2. ASSUME NEW q \in rows, Pages!Refilter(q) PROVE r \in Pages!Listing'
    <2>1. r # q /\ rows' = rows
      BY <1>2 DEF Pages!Refilter, Pages!Subject
    <2>2. r.id # q.id
      BY <1>0, <2>1 DEF PageTypes, TableTypes
    <2>3. r.id \in match'
      BY <1>0, <1>2, <2>2 DEF Pages!Refilter
    <2> QED BY <1>0, <2>1, <2>3 DEF Pages!Listing, Pages!Current
  <1> QED BY <1>1, <1>2

LEMMA AheadStep ==
  ASSUME Pages!ListPagesAssumption, Route # "executions", PageTypes, KeptAhead, [Pages!Next]_Pages!vars
  PROVE  KeptAhead'
  <1>0. \A i \in Pages!Ids : listed[i] \in 0 .. 2
    BY DEF PageTypes, CursorTypes
  <1>00. \A r \in rows : r.id \in Pages!Ids
    BY DEF PageTypes, TableTypes, Entry
  <1>1. ASSUME (\E k \in Keys, id \in Pages!Ids : Pages!Insert(k, id)) \/ (\E q \in rows : Pages!Refilter(q)) PROVE KeptAhead'
    <2>1. kept' \subseteq kept /\ rows \subseteq rows' /\ UNCHANGED <<walk, cursor, listed>>
      BY <1>1 DEF Pages!Insert, Pages!Refilter
    <2>2. \A r : Pages!Subject(r)' = Pages!Subject(r) /\ (cursor = Pages!None \/ Pages!Less(r, cursor))' = (cursor = Pages!None \/ Pages!Less(r, cursor))
      BY <2>1 DEF Pages!Subject, Pages!Less
    <2>3. ASSUME walk = "walking", NEW s \in kept'
          PROVE  \E r \in Pages!Listing' : Pages!Subject(r) = s /\ (listed[r.id] > 0 \/ r \in Pages!After(cursor, Pages!Listing'))
      <3>1. PICK r \in Pages!Listing : Pages!Subject(r) = s /\ (listed[r.id] > 0 \/ r \in Pages!After(cursor, Pages!Listing))
        BY <2>1, <2>3 DEF KeptAhead
      <3>2. r \in Pages!Listing'
        BY <1>1, <3>1, ListingStays
      <3> QED BY <3>1, <3>2 DEF Pages!After
    <2>4. (walk = "walking" => \A s \in kept : \E r \in Pages!Listing : Pages!Subject(r) = s /\ (listed[r.id] > 0 \/ r \in Pages!After(cursor, Pages!Listing)))'
      BY <2>1, <2>3 DEF Pages!Subject, Pages!After, Pages!Less
    <2>5. Pages!WalkComplete'
      BY <2>1 DEF KeptAhead, Pages!WalkComplete, Pages!Subject
    <2> QED BY <2>4, <2>5 DEF KeptAhead
  <1>2. ASSUME Pages!Tick \/ UNCHANGED Pages!vars PROVE KeptAhead'
    BY <1>2 DEF Pages!Tick, Pages!vars, KeptAhead, Pages!WalkComplete, Pages!Subject, Pages!After, Pages!Less, Pages!Listing, Pages!Current
  <1>3. ASSUME Pages!Begin PROVE KeptAhead'
    <2>1. walk = "idle" /\ cursor = Pages!None /\ walk' = "walking" /\ kept' = Pages!Subjects /\ UNCHANGED <<rows, match, cursor, listed>>
      BY <1>3 DEF Pages!Begin, PageTypes, CursorTypes
    <2>2. \A s \in kept' : \E r \in Pages!Listing : Pages!Subject(r) = s /\ r \in Pages!After(cursor, Pages!Listing)
      BY <2>1 DEF Pages!Subjects, Pages!After
    <2> QED BY <2>1, <2>2 DEF KeptAhead, Pages!WalkComplete, Pages!Subject, Pages!After, Pages!Less, Pages!Listing, Pages!Current
  <1>4. ASSUME Pages!ReadPage PROVE KeptAhead'
    <2> DEFINE items == Pages!Top(Pages!Page, Limit)
               R == Pages!After(cursor, Pages!Listing)
               again(i) == listed[i] < 2 /\ \E r \in items : r.id = i
    <2>1. /\ listed' = [i \in Pages!Ids |-> IF again(i) THEN listed[i] + 1 ELSE listed[i]]
          /\ cursor' = IF Pages!HasMore(Pages!Page) THEN Pages!NextCursor(items) ELSE Pages!None
          /\ walk' = IF Pages!HasMore(Pages!Page) THEN "walking" ELSE "done"
          /\ UNCHANGED <<rows, match, kept>>
          /\ walk = "walking"
      BY <1>4 DEF Pages!ReadPage
    <2>2. /\ ~Pages!HasMore(Pages!Page) => items = R
          /\ Pages!HasMore(Pages!Page) => \A r \in R \ items : Pages!Less(r, Pages!Last(items))
      BY PageRows DEF PageTypes, PageExact
    <2>3. Pages!Listing' = Pages!Listing /\ Pages!Listing \subseteq rows
      BY <2>1 DEF Pages!Listing, Pages!Current
    <2> HIDE DEF items, R
    <2>4. \A r \in rows : listed[r.id] > 0 \/ r \in items => listed'[r.id] > 0
      BY <1>0, <1>00, <2>1
    <2>5. ASSUME NEW s \in kept
          PROVE  \E r \in Pages!Listing : Pages!Subject(r) = s /\ (listed'[r.id] > 0 \/ (Pages!HasMore(Pages!Page) /\ Pages!Less(r, Pages!Last(items))))
      <3>1. PICK r \in Pages!Listing : Pages!Subject(r) = s /\ (listed[r.id] > 0 \/ r \in R)
        BY <2>1, <2>5 DEF KeptAhead, R
      <3> QED BY <2>2, <2>3, <2>4, <3>1
    <2>6. Pages!HasMore(Pages!Page) => \A r : Pages!Less(r, Pages!Last(items)) => Pages!Less(r, cursor')
      BY <2>1 DEF Pages!NextCursor, Pages!Less
    <2>7. ASSUME Pages!HasMore(Pages!Page), NEW s \in kept
          PROVE  \E r \in Pages!Listing : Pages!Subject(r) = s /\ (listed'[r.id] > 0 \/ r \in Pages!After(cursor', Pages!Listing))
      BY <2>5, <2>6, <2>7 DEF Pages!After
    <2>8. (walk = "walking" => \A s \in kept : \E r \in Pages!Listing : Pages!Subject(r) = s /\ (listed[r.id] > 0 \/ r \in Pages!After(cursor, Pages!Listing)))'
      BY <2>1, <2>3, <2>7 DEF Pages!Subject, Pages!After, Pages!Less
    <2>9. Pages!WalkComplete'
      <3>1. ASSUME ~Pages!HasMore(Pages!Page), NEW s \in kept PROVE \E r \in rows : Pages!Subject(r) = s /\ listed'[r.id] > 0
        BY <2>3, <2>5, <3>1
      <3> QED BY <2>1, <3>1 DEF Pages!WalkComplete, Pages!Subject
    <2> QED BY <2>8, <2>9 DEF KeptAhead
  <1> QED BY <1>1, <1>2, <1>3, <1>4 DEF Pages!Next

(* Every listing: the types, and no row is in two pages of a walk.         *)
THEOREM WalksList ==
  ASSUME Pages!ListPagesAssumption
  PROVE  Pages!Spec => [](Pages!TypeOK /\ Pages!ListedOnce)
  <1>1. Pages!Init => PageTypes /\ ListedBehind
    BY PageInit, BehindInit
  <1>2. (PageTypes /\ ListedBehind) /\ [Pages!Next]_Pages!vars => (PageTypes /\ ListedBehind)'
    <2> SUFFICES ASSUME PageTypes, ListedBehind, [Pages!Next]_Pages!vars PROVE PageTypes' /\ ListedBehind'
      OBVIOUS
    <2>1. PageTypes'
      BY PageStep
    <2> QED BY <2>1, BehindStep
  <1>3. PageTypes /\ ListedBehind => Pages!TypeOK /\ Pages!ListedOnce
    BY PagesTyped DEF ListedBehind
  <1> QED BY <1>1, <1>2, <1>3, PTL DEF Pages!Spec

(* A walk of the pipelines, of their current versions or of the lineage    *)
(* view, when it ends, listed every row that was there all along.          *)
THEOREM WalksMissNothing ==
  ASSUME Pages!ListPagesAssumption, Route # "executions"
  PROVE  Pages!Spec => []Pages!WalkComplete
  <1>1. Pages!Init => PageTypes /\ KeptAhead
    BY PageInit, BehindInit
  <1>2. (PageTypes /\ KeptAhead) /\ [Pages!Next]_Pages!vars => (PageTypes /\ KeptAhead)'
    <2> SUFFICES ASSUME PageTypes, KeptAhead, [Pages!Next]_Pages!vars PROVE PageTypes' /\ KeptAhead'
      OBVIOUS
    <2>1. PageTypes'
      BY PageStep
    <2> QED BY <2>1, AheadStep
  <1>3. PageTypes /\ KeptAhead => Pages!WalkComplete
    BY DEF KeptAhead
  <1> QED BY <1>1, <1>2, <1>3, PTL DEF Pages!Spec

-----------------------------------------------------------------------------
(* planBackfill: the partitions tile the requested range, and there are as *)
(* many as it needs, whatever the range, the length of a partition and the *)
(* limits.                                                                 *)
CONSTANTS Instant, DaysRequested, DayHours, MaxDays, MaxPartitions
VARIABLES from, to, partitionDays, planCursor, partitions, planOutcome
Plan == INSTANCE BackfillPlan WITH cursor <- planCursor, outcome <- planOutcome

LEMMA PlanConstants ==
  ASSUME Plan!PlanAssumption
  PROVE  /\ Instant \subseteq Nat /\ DaysRequested \subseteq Int
         /\ DayHours \in Nat \ {0} /\ MaxDays \in Nat \ {0} /\ MaxPartitions \in Nat \ {0}
  BY DEF Plan!PlanAssumption

(* In the loop: the request is valid, the partitions lie one after the     *)
(* other between the start of the range and the cursor, and hold every     *)
(* instant of the range before the cursor.                                 *)
TileInv ==
    planOutcome \in {"planning", "planned"} =>
        /\ Plan!Valid
        /\ from <= planCursor
        /\ \A i \in 1..Len(partitions) :
             from <= partitions[i].from /\ partitions[i].to <= to /\ partitions[i].to <= planCursor
        /\ \A i, j \in 1..Len(partitions) : i < j => partitions[i].to <= partitions[j].from
        /\ \A t \in Nat : from <= t /\ t < to /\ t < planCursor =>
             \E i \in 1..Len(partitions) : Plan!Holds(i, t)
        /\ planOutcome = "planned" => to <= planCursor

(* Before the loop nothing has been planned.                               *)
StartInv == planOutcome = "received" => planCursor = from /\ partitions = <<>>

PlanInv == Plan!TypeOK /\ StartInv /\ TileInv

(* The request consists of numbers.                                        *)
LEMMA RequestTyped ==
  ASSUME Plan!PlanAssumption, Plan!TypeOK
  PROVE  from \in Nat /\ to \in Nat /\ partitionDays \in Int
  <1>1. from \in Instant /\ to \in Instant /\ partitionDays \in DaysRequested
    BY DEF Plan!TypeOK
  <1> QED
    BY <1>1, PlanConstants

(* The partitions are bounded by numbers, and there are finitely many.     *)
LEMMA PartitionsTyped ==
  ASSUME Plan!PlanAssumption, Plan!TypeOK
  PROVE  /\ Len(partitions) \in Nat
         /\ \A i \in 1..Len(partitions) : partitions[i].from \in Nat /\ partitions[i].to \in Nat
  <1>1. partitions \in Seq(Plan!Range)
    BY DEF Plan!TypeOK
  <1>2. Len(partitions) \in Nat
    BY <1>1
  <1>3. \A i \in 1..Len(partitions) : partitions[i] \in Plan!Range
    BY <1>1
  <1>4. \A r \in Plan!Range : r.from \in Nat /\ r.to \in Nat
    BY DEF Plan!Range
  <1> QED
    BY <1>2, <1>3, <1>4

(* A valid number of days moves the cursor forward.                        *)
LEMMA DaysMoveForward ==
  ASSUME Plan!PlanAssumption, Plan!TypeOK, Plan!Valid
  PROVE  partitionDays * DayHours \in Nat \ {0}
  <1>1. partitionDays \in Nat \ {0} /\ DayHours \in Nat \ {0}
    BY RequestTyped, PlanConstants DEF Plan!Valid
  <1>2. ASSUME NEW a \in Nat \ {0}, NEW b \in Nat \ {0} PROVE a * b \in Nat \ {0}
    <2>1. (a - 1) * b \in Nat
      <3>1. a - 1 \in Nat /\ b \in Nat
        OBVIOUS
      <3>2. \A x, y \in Nat : x * y \in Nat
        OBVIOUS
      <3> QED
        BY <3>1, <3>2
    <2>2. a * b = (a - 1) * b + b
      OBVIOUS
    <2> QED
      BY <2>1, <2>2
  <1> QED
    BY <1>1, <1>2

(* Appending the next partition keeps the tiling.                          *)
LEMMA AppendTiles ==
  ASSUME Plan!PlanAssumption, PlanInv, Plan!AppendPartition
  PROVE  PlanInv'
  <1> DEFINE w == partitionDays * DayHours
             p == [from |-> planCursor, to |-> Plan!PartitionEnd]
             n == Len(partitions)
  <1>1. /\ from \in Nat /\ to \in Nat /\ planCursor \in Nat /\ n \in Nat
        /\ planCursor < to /\ planOutcome = "planning" /\ Plan!Valid /\ from <= planCursor
    <2>1. planCursor \in Nat /\ n \in Nat
      BY PartitionsTyped DEF PlanInv, Plan!TypeOK
    <2>2. from \in Nat /\ to \in Nat
      BY RequestTyped DEF PlanInv
    <2>3. planCursor < to /\ planOutcome = "planning"
      BY DEF Plan!AppendPartition
    <2> QED
      BY <2>1, <2>2, <2>3 DEF PlanInv, TileInv, Plan!Valid
  <1>2. w \in Nat \ {0}
    BY <1>1, DaysMoveForward DEF PlanInv
  <1>3. planCursor' = planCursor + w /\ UNCHANGED Plan!request
    BY DEF Plan!AppendPartition, Plan!AddDays
  <1> HIDE DEF w
  <1>4. /\ Plan!PartitionEnd \in Nat /\ planCursor < Plan!PartitionEnd
        /\ Plan!PartitionEnd <= to /\ Plan!PartitionEnd <= planCursor'
        /\ Plan!PartitionEnd = to \/ Plan!PartitionEnd = planCursor'
    BY <1>1, <1>2, <1>3 DEF Plan!PartitionEnd, Plan!AddDays, w
  <1>5. /\ p \in Plan!Range /\ p.from = planCursor /\ p.to = Plan!PartitionEnd
    BY <1>1, <1>4 DEF Plan!Range
  <1> HIDE DEF p
  <1>6. /\ partitions \in Seq(Plan!Range) /\ partitions' = Append(partitions, p)
    BY DEF Plan!AppendPartition, PlanInv, Plan!TypeOK, p
  <1>7. /\ Len(partitions') = n + 1
        /\ \A i \in 1..n : partitions'[i] = partitions[i] /\ partitions[i] \in Plan!Range
        /\ partitions'[n + 1] = p
        /\ partitions' \in Seq(Plan!Range)
    BY <1>5, <1>6
  <1>8. Plan!TypeOK'
    <2>1. from' \in Instant /\ to' \in Instant /\ partitionDays' \in DaysRequested
      BY <1>3 DEF Plan!TypeOK, PlanInv, Plan!request
    <2>2. planOutcome' \in {"planning", "too many"}
      BY DEF Plan!AppendPartition
    <2>3. planCursor' \in Nat
      BY <1>1, <1>2, <1>3
    <2> QED
      BY <1>7, <2>1, <2>2, <2>3 DEF Plan!TypeOK
  <1>9. StartInv'
    BY DEF StartInv, Plan!AppendPartition
  <1>10. ASSUME NEW i \in 1..Len(partitions')
         PROVE  /\ from <= partitions'[i].from
                /\ partitions'[i].to <= to /\ partitions'[i].to <= planCursor'
    <2>1. CASE i = n + 1
      BY <1>1, <1>4, <1>5, <1>7, <2>1
    <2>2. CASE i \in 1..n
      <3>1. partitions[i].to \in Nat
        BY <1>7, <2>2 DEF Plan!Range
      <3> QED
        BY <1>1, <1>2, <1>3, <1>7, <2>2, <3>1 DEF PlanInv, TileInv
    <2> QED
      BY <1>1, <1>7, <2>1, <2>2
  <1>11. ASSUME NEW i \in 1..Len(partitions'), NEW j \in 1..Len(partitions'), i < j
         PROVE  partitions'[i].to <= partitions'[j].from
    <2>1. i \in 1..n
      BY <1>1, <1>7, <1>11
    <2>2. CASE j = n + 1
      BY <1>1, <1>5, <1>7, <2>1, <2>2 DEF PlanInv, TileInv
    <2>3. CASE j \in 1..n
      BY <1>1, <1>7, <1>11, <2>1, <2>3 DEF PlanInv, TileInv
    <2> QED
      BY <1>1, <1>7, <2>2, <2>3
  <1>12. ASSUME NEW t \in Nat, from <= t, t < to, t < planCursor'
         PROVE  \E i \in 1..Len(partitions') : partitions'[i].from <= t /\ t < partitions'[i].to
    <2>1. CASE t < planCursor
      <3>1. PICK i \in 1..n : Plan!Holds(i, t)
        BY <1>1, <1>12, <2>1 DEF PlanInv, TileInv
      <3> QED
        BY <1>1, <1>7, <3>1 DEF Plan!Holds
    <2>2. CASE planCursor <= t
      BY <1>1, <1>4, <1>5, <1>7, <1>12, <2>2
    <2> QED
      BY <1>1, <2>1, <2>2
  <1>13. Plan!Valid' /\ from' = from /\ to' = to /\ from <= planCursor'
    BY <1>1, <1>2, <1>3 DEF Plan!Valid, Plan!request
  <1>14. planOutcome' # "planned"
    BY DEF Plan!AppendPartition
  <1>15. TileInv'
    BY <1>10, <1>11, <1>12, <1>13, <1>14 DEF TileInv, Plan!Holds
  <1> QED
    BY <1>8, <1>9, <1>15 DEF PlanInv

LEMMA PlanInit ==
  ASSUME Plan!PlanAssumption, Plan!Init
  PROVE  PlanInv
  BY PlanConstants DEF Plan!Init, PlanInv, Plan!TypeOK, StartInv, TileInv

LEMMA PlanStep ==
  ASSUME Plan!PlanAssumption, PlanInv, [Plan!Next]_Plan!vars
  PROVE  PlanInv'
  <1>1. CASE Plan!Validate
    <2>1. Plan!TypeOK' /\ StartInv'
      BY <1>1 DEF Plan!Validate, PlanInv, Plan!TypeOK, StartInv, Plan!request
    <2>2. TileInv'
      <3>1. /\ planCursor' = from /\ from' = from /\ to' = to /\ partitions' = <<>>
            /\ planOutcome' # "planned" /\ (planOutcome' = "planning" => Plan!Valid')
        BY <1>1 DEF Plan!Validate, PlanInv, StartInv, Plan!Valid, Plan!request
      <3>2. from \in Nat /\ Len(partitions') = 0
        BY <3>1, PlanConstants DEF PlanInv, Plan!TypeOK
      <3> QED
        BY <3>1, <3>2 DEF TileInv
    <2> QED
      BY <2>1, <2>2 DEF PlanInv
  <1>2. CASE Plan!AppendPartition
    BY <1>2, AppendTiles
  <1>3. CASE Plan!Return
    <2>1. Plan!TypeOK' /\ StartInv'
      BY <1>3 DEF Plan!Return, PlanInv, Plan!TypeOK, StartInv, Plan!request
    <2>2. to <= planCursor
      BY <1>3, PlanConstants DEF Plan!Return, PlanInv, Plan!TypeOK
    <2>3. TileInv'
      BY <1>3, <2>2 DEF Plan!Return, PlanInv, TileInv, Plan!Valid, Plan!Holds, Plan!request
    <2> QED
      BY <2>1, <2>3 DEF PlanInv
  <1>4. CASE UNCHANGED Plan!vars
    BY <1>4 DEF Plan!vars, Plan!request, PlanInv, Plan!TypeOK, StartInv, TileInv, Plan!Valid, Plan!Holds
  <1> QED
    BY <1>1, <1>2, <1>3, <1>4 DEF Plan!Next

LEMMA PlanCovers ==
  ASSUME Plan!PlanAssumption, PlanInv
  PROVE  Plan!PlanCoversRange
  <1> SUFFICES ASSUME planOutcome = "planned" PROVE
        /\ \A i \in 1..Len(partitions) : from <= partitions[i].from /\ partitions[i].to <= to
        /\ \A t \in from..(to - 1) :
             \E i \in 1..Len(partitions) :
                Plan!Holds(i, t) /\ \A j \in 1..Len(partitions) : Plan!Holds(j, t) => j = i
    BY DEF Plan!PlanCoversRange
  <1>1. /\ from \in Nat /\ to \in Nat /\ planCursor \in Nat /\ to <= planCursor
        /\ Len(partitions) \in Nat
        /\ \A i \in 1..Len(partitions) : partitions[i].from \in Nat /\ partitions[i].to \in Nat
    <2>1. from \in Nat /\ to \in Nat
      BY RequestTyped DEF PlanInv
    <2>2. planCursor \in Nat
      BY DEF PlanInv, Plan!TypeOK
    <2>3. to <= planCursor
      BY DEF PlanInv, TileInv, Plan!Valid
    <2> QED
      BY <2>1, <2>2, <2>3, PartitionsTyped DEF PlanInv
  <1>2. ASSUME NEW t \in from..(to - 1)
        PROVE  \E i \in 1..Len(partitions) :
                  Plan!Holds(i, t) /\ \A j \in 1..Len(partitions) : Plan!Holds(j, t) => j = i
    <2>1. t \in Nat /\ from <= t /\ t < to /\ t < planCursor
      BY <1>1, <1>2
    <2>2. PICK i \in 1..Len(partitions) : Plan!Holds(i, t)
      BY <2>1 DEF PlanInv, TileInv
    <2>3. ASSUME NEW j \in 1..Len(partitions), Plan!Holds(j, t) PROVE j = i
      <3>1. ~(i < j) /\ ~(j < i)
        BY <1>1, <2>1, <2>2, <2>3 DEF PlanInv, TileInv, Plan!Holds
      <3> QED
        BY <1>1, <3>1
    <2> QED
      BY <2>2, <2>3
  <1> QED
    BY <1>2 DEF PlanInv, TileInv

(* Every instant of the requested range is in exactly one partition of the *)
(* plan that planBackfill returns, and no instant outside it is in any.    *)
THEOREM PlanTiles ==
  ASSUME Plan!PlanAssumption
  PROVE  Plan!Spec => []Plan!PlanCoversRange
  <1>1. Plan!Init => PlanInv
    BY PlanInit
  <1>2. PlanInv /\ [Plan!Next]_Plan!vars => PlanInv'
    BY PlanStep
  <1>3. PlanInv => Plan!PlanCoversRange
    BY PlanCovers
  <1> QED
    BY <1>1, <1>2, <1>3, PTL DEF Plan!Spec

(***************************************************************************)
(* The size of a plan.  The cursor is as many partitions past the start of *)
(* the range as have been appended, and each was appended before the end.  *)
(***************************************************************************)
Width == partitionDays * DayHours

Refused == planOutcome = "too many"

SizeInv ==
    planOutcome \in {"planning", "planned", "too many"} =>
        /\ Plan!Valid
        /\ planCursor = from + Len(partitions) * Width
        /\ Len(partitions) > 0 => from + (Len(partitions) - 1) * Width < to
        /\ planOutcome = "planned" => to <= planCursor
        /\ IF Refused THEN Len(partitions) = MaxPartitions + 1
           ELSE Len(partitions) <= MaxPartitions

(* Products with a width do not decrease.                                  *)
LEMMA WidthsMonotone ==
  ASSUME NEW a \in Nat, NEW b \in Nat, NEW w \in Nat, a <= b
  PROVE  a * w \in Nat /\ b * w \in Nat /\ a * w <= b * w
  <1>1. \A x, y \in Nat : x * y \in Nat
    OBVIOUS
  <1>2. (b - a) * w \in Nat /\ a * w \in Nat /\ b * w \in Nat
    <2>1. b - a \in Nat
      OBVIOUS
    <2> QED
      BY <1>1, <2>1
  <1>3. b * w = a * w + (b - a) * w
    OBVIOUS
  <1> QED
    BY <1>2, <1>3

(* Dividing and rounding up: more than k widths need more than k parts, at *)
(* most k widths need at most k.                                           *)
LEMMA RoundedUp ==
  ASSUME NEW d \in Nat \ {0}, NEW w \in Nat \ {0}, NEW k \in Nat
  PROVE  /\ (d + w - 1) \div w \in Nat
         /\ k * w < d => (d + w - 1) \div w > k
         /\ d <= k * w => (d + w - 1) \div w <= k
  <1> DEFINE q == (d + w - 1) \div w
  <1>1. q \in Int /\ d + w - 1 \in Nat /\ k * w \in Nat
    <2>1. k * w \in Nat
      BY WidthsMonotone
    <2> QED
      BY <2>1
  <1>2. q * w <= d + w - 1 /\ d + w - 1 < q * w + w
    <2>1. \A x \in Nat, y \in Nat \ {0} : (x \div y) * y <= x /\ x < (x \div y) * y + y
      OBVIOUS
    <2> QED
      BY <1>1, <2>1
  <1> HIDE DEF q
  <1>3. q \in Nat
    <2>1. CASE q < 0
      <3>1. - q - 1 \in Nat /\ (- q - 1) * w \in Nat
        BY <1>1, <2>1, WidthsMonotone
      <3>2. q * w + w = - ((- q - 1) * w)
        BY <1>1
      <3> QED
        BY <1>1, <1>2, <3>1, <3>2
    <2> QED
      BY <1>1, <2>1
  <1>4. q * w \in Nat /\ (q + 1) * w = q * w + w /\ (k + 1) * w = k * w + w
    BY <1>3, WidthsMonotone
  <1>5. ASSUME k * w < d PROVE q > k
    <2>1. CASE q <= k
      <3>1. q * w <= k * w
        BY <1>3, <2>1, WidthsMonotone
      <3> QED
        BY <1>1, <1>2, <1>4, <1>5, <3>1
    <2> QED
      BY <1>3, <2>1
  <1>6. ASSUME d <= k * w PROVE q <= k
    <2>1. CASE k + 1 <= q
      <3>1. (k + 1) * w <= q * w
        BY <1>3, <2>1, WidthsMonotone
      <3> QED
        BY <1>1, <1>2, <1>4, <1>6, <3>1
    <2> QED
      BY <1>3, <2>1
  <1> QED
    BY <1>3, <1>5, <1>6 DEF q

(* Appending a partition moves the cursor by one width.                    *)
LEMMA AppendSizes ==
  ASSUME Plan!PlanAssumption, PlanInv, SizeInv, Plan!AppendPartition
  PROVE  SizeInv'
  <1> DEFINE n == Len(partitions)
  <1>1. /\ n \in Nat /\ from \in Nat /\ to \in Nat /\ planCursor < to
        /\ MaxPartitions \in Nat \ {0}
    BY PartitionsTyped, RequestTyped, PlanConstants DEF PlanInv, Plan!AppendPartition
  <1>2. Plan!Valid /\ planCursor = from + n * Width /\ n <= MaxPartitions
    BY Zenon DEF SizeInv, Plan!AppendPartition, Refused
  <1>3. Width \in Nat \ {0}
    BY <1>2, DaysMoveForward DEF PlanInv, Width
  <1>4. UNCHANGED Plan!request /\ Width' = Width /\ Plan!Valid' /\ planCursor' = planCursor + Width
    BY <1>2, Zenon DEF Plan!AppendPartition, Plan!request, Width, Plan!Valid, Plan!AddDays
  <1>5. Len(partitions') = n + 1
    <2>1. partitions \in Seq(Plan!Range)
      BY Zenon DEF PlanInv, Plan!TypeOK
    <2>2. \A s \in Seq(Plan!Range) : \A p : Len(Append(s, p)) = Len(s) + 1
      OBVIOUS
    <2> QED
      BY <2>1, <2>2, Zenon DEF Plan!AppendPartition
  <1>6. Refused' <=> n + 1 > MaxPartitions
    BY Zenon DEF Plan!AppendPartition, Plan!TooMany, Refused
  <1> HIDE DEF n, Width
  <1>7. (n + 1) * Width = n * Width + Width /\ n * Width \in Nat /\ (n + 1) - 1 = n
    BY <1>1, <1>3, WidthsMonotone
  <1>8. planCursor' = from + (n + 1) * Width
    BY <1>1, <1>2, <1>3, <1>4, <1>7
  <1>9. from + n * Width < to
    BY <1>1, <1>2
  <1>10. IF Refused' THEN n + 1 = MaxPartitions + 1 ELSE n + 1 <= MaxPartitions
    <2>1. CASE n + 1 > MaxPartitions
      BY <1>1, <1>2, <1>6, <2>1
    <2>2. CASE n + 1 <= MaxPartitions
      BY <1>1, <1>6, <2>2
    <2> QED
      BY <1>1, <2>1, <2>2
  <1>11. from' = from /\ to' = to /\ planOutcome' # "planned"
    BY <1>4, Zenon DEF Plan!request, Plan!AppendPartition
  <1>12. /\ planCursor' = from' + Len(partitions') * Width'
         /\ from' + (Len(partitions') - 1) * Width' < to'
    BY <1>4, <1>5, <1>7, <1>8, <1>9, <1>11, Zenon
  <1>13. IF Refused' THEN Len(partitions') = MaxPartitions + 1 ELSE Len(partitions') <= MaxPartitions
    BY <1>5, <1>10, Zenon
  <1> QED
    BY <1>4, <1>11, <1>12, <1>13, Zenon DEF SizeInv

LEMMA SizeInit ==
  ASSUME Plan!Init
  PROVE  SizeInv
  BY DEF Plan!Init, SizeInv

LEMMA SizeStep ==
  ASSUME Plan!PlanAssumption, PlanInv, SizeInv, [Plan!Next]_Plan!vars
  PROVE  SizeInv'
  <1>1. CASE Plan!Validate
    <2>1. /\ planCursor' = from /\ from' = from /\ to' = to /\ partitions' = <<>>
          /\ planOutcome' # "planned" /\ ~Refused' /\ Width' = Width
      BY <1>1, Zenon DEF Plan!Validate, PlanInv, StartInv, Plan!request, Width, Refused
    <2>2. CASE Plan!Valid
      <3>1. Width \in Nat /\ Plan!Valid'
        BY <1>1, <2>2, DaysMoveForward DEF PlanInv, Width, Plan!Valid, Plan!Validate, Plan!request
      <3>2. from \in Nat /\ Len(partitions') = 0 /\ from + 0 * Width = from
        BY <2>1, <3>1, RequestTyped, WidthsMonotone DEF PlanInv
      <3>3. 0 <= MaxPartitions /\ ~(0 > 0)
        BY PlanConstants
      <3>4. planCursor' = from' + Len(partitions') * Width'
        BY <2>1, <3>2, Zenon
      <3> QED
        BY <2>1, <3>1, <3>2, <3>3, <3>4, Zenon DEF SizeInv
    <2>3. CASE ~Plan!Valid
      BY <1>1, <2>3, Zenon DEF Plan!Validate, SizeInv
    <2> QED
      BY <2>2, <2>3
  <1>2. CASE Plan!AppendPartition
    BY <1>2, AppendSizes
  <1>3. CASE Plan!Return
    <2>1. to <= planCursor
      BY <1>3, PlanConstants DEF Plan!Return, PlanInv, Plan!TypeOK
    <2> QED
      BY <1>3, <2>1, Zenon DEF Plan!Return, SizeInv, Plan!Valid, Width, Refused, Plan!request
  <1>4. CASE UNCHANGED Plan!vars
    BY <1>4, Zenon DEF Plan!vars, Plan!request, SizeInv, Plan!Valid, Width, Refused
  <1> QED
    BY <1>1, <1>2, <1>3, <1>4 DEF Plan!Next

LEMMA PlanSized ==
  ASSUME Plan!PlanAssumption, PlanInv, SizeInv
  PROVE  Plan!PlanSizeExact
  <1> DEFINE n == Len(partitions)
  <1>1. /\ from \in Nat /\ to \in Nat /\ n \in Nat /\ MaxPartitions \in Nat \ {0}
    BY RequestTyped, PartitionsTyped, PlanConstants DEF PlanInv
  <1>2. ASSUME Plan!Valid PROVE Width \in Nat \ {0} /\ to - from \in Nat \ {0}
    <2>1. Width \in Nat \ {0}
      BY <1>2, DaysMoveForward DEF PlanInv, Width
    <2>2. to - from \in Nat \ {0}
      BY <1>1, <1>2 DEF Plan!Valid
    <2> QED
      BY <2>1, <2>2
  <1>3. Plan!Needed = ((to - from) + Width - 1) \div Width
    BY Zenon DEF Plan!Needed, Width
  <1>4. ASSUME planOutcome = "planned"
        PROVE  /\ Plan!Valid /\ planCursor = from + n * Width /\ to <= planCursor /\ n <= MaxPartitions
               /\ n > 0 => from + (n - 1) * Width < to
    BY <1>4, Zenon DEF SizeInv, Refused
  <1>5. ASSUME Refused
        PROVE  /\ Plan!Valid /\ n = MaxPartitions + 1
               /\ n > 0 => from + (n - 1) * Width < to
    BY <1>5, Zenon DEF SizeInv, Refused
  <1> HIDE DEF n, Width
  <1>6. ASSUME planOutcome = "planned" PROVE n = Plan!Needed /\ Plan!Needed <= MaxPartitions
    <2>1. Width \in Nat \ {0} /\ to - from \in Nat \ {0}
      BY <1>2, <1>4, <1>6
    <2>2. to <= from + n * Width /\ n <= MaxPartitions
      BY <1>4, <1>6
    <2>3. n \in Nat \ {0}
      <3>1. CASE n = 0
        <4>1. \A w \in Nat : 0 * w = 0
          OBVIOUS
        <4>2. n * Width = 0
          BY <2>1, <3>1, <4>1
        <4> QED
          BY <1>1, <2>1, <2>2, <4>2
      <3> QED
        BY <1>1, <3>1
    <2>4. n * Width \in Nat /\ (n - 1) * Width \in Nat /\ n - 1 \in Nat
      <3>1. n - 1 \in Nat
        BY <2>3
      <3> QED
        BY <2>1, <2>3, <3>1, WidthsMonotone
    <2>5. to - from <= n * Width /\ (n - 1) * Width < to - from
      <3>1. from + (n - 1) * Width < to
        BY <1>4, <1>6, <2>3
      <3> QED
        BY <1>1, <2>2, <2>4, <3>1
    <2>6. Plan!Needed <= n
      BY <1>3, <2>1, <2>3, <2>5, RoundedUp
    <2>7. Plan!Needed > n - 1 /\ Plan!Needed \in Nat
      BY <1>3, <2>1, <2>4, <2>5, RoundedUp
    <2> QED
      BY <1>1, <2>2, <2>3, <2>6, <2>7
  <1>7. ASSUME Refused PROVE Plan!Needed > MaxPartitions
    <2>1. Width \in Nat \ {0} /\ to - from \in Nat \ {0}
      BY <1>2, <1>5, <1>7
    <2>2. from + (n - 1) * Width < to /\ n - 1 = MaxPartitions
      BY <1>1, <1>5, <1>7
    <2>3. MaxPartitions * Width \in Nat
      BY <1>1, <2>1, WidthsMonotone
    <2>4. MaxPartitions * Width < to - from
      BY <1>1, <2>1, <2>2, <2>3
    <2> QED
      BY <1>1, <1>3, <2>1, <2>4, RoundedUp
  <1> QED
    BY <1>6, <1>7, Zenon DEF Plan!PlanSizeExact, Refused, n

(* planBackfill refuses a range for its size exactly when it needs more    *)
(* than MaxPartitions partitions, and never plans one too many or too few. *)
THEOREM PlanSizes ==
  ASSUME Plan!PlanAssumption
  PROVE  Plan!Spec => []Plan!PlanSizeExact
  <1>1. Plan!Init => PlanInv /\ SizeInv
    BY PlanInit, SizeInit
  <1>2. (PlanInv /\ SizeInv) /\ [Plan!Next]_Plan!vars => (PlanInv /\ SizeInv)'
    BY PlanStep, SizeStep
  <1>3. PlanInv /\ SizeInv => Plan!PlanSizeExact
    BY PlanSized
  <1> QED
    BY <1>1, <1>2, <1>3, PTL DEF Plan!Spec

-----------------------------------------------------------------------------
(* validatePipeline and buildPlan: both walks of the graph, whatever the   *)
(* nodes, the edges and the orders of the queues.  A walk is described by  *)
(* the set of nodes that have left the queue: the count of a node is the   *)
(* number of its edges that come from elsewhere, the nodes whose count is  *)
(* zero are those that have joined the queue, and no cycle has been        *)
(* entered.                                                                *)
CONSTANT Definitions
VARIABLES def, pc, indegree, queue, visited, levels, graphOutcome
Graph == INSTANCE PipelineGraph WITH outcome <- graphOutcome

Origin(e) == def.edges[e][1]
Pending(D, id) == {e \in Graph!Incoming(id) : Origin(e) \notin D}
Counts(D) == [id \in Graph!Ids |-> Cardinality(Pending(D, id))]
Distinct(s) == \A i, j \in 1..Len(s) : i # j => s[i] # s[j]
Looped(S) == \A id \in S : \E e \in Graph!Incoming(id) : Origin(e) \in S

LEMMA GraphCardinality == \A S : Graph!Cardinality(S) = Cardinality(S)
  BY DEF Graph!Cardinality, Cardinality

(* A definition has finitely many nodes and edges.                         *)
LEMMA GraphFinite ==
  ASSUME Graph!DefinitionsAssumption, def \in Definitions
  PROVE  /\ IsFiniteSet(Graph!Edges) /\ IsFiniteSet(Graph!Ids)
         /\ Len(def.nodes) \in Nat /\ DOMAIN def.nodes = 1..Len(def.nodes)
         /\ Graph!Ids = {def.nodes[i].id : i \in 1..Len(def.nodes)}
  <1>1. /\ Len(def.nodes) \in Nat /\ DOMAIN def.nodes = 1..Len(def.nodes)
        /\ Len(def.edges) \in Nat /\ DOMAIN def.edges = 1..Len(def.edges)
    BY DEF Graph!DefinitionsAssumption, Graph!IsSequence
  <1>2. Graph!Ids = {def.nodes[i].id : i \in 1..Len(def.nodes)}
    BY <1>1 DEF Graph!Ids, Graph!NodeSet, Graph!ToSet
  <1>3. IsFiniteSet(Graph!Edges)
    BY <1>1, FS_Interval DEF Graph!Edges
  <1>4. IsFiniteSet(Graph!Ids)
    <2> DEFINE f == [i \in 1..Len(def.nodes) |-> def.nodes[i].id]
    <2>1. f \in Surjection(1..Len(def.nodes), Graph!Ids)
      BY <1>2 DEF Surjection
    <2>2. IsFiniteSet(1..Len(def.nodes))
      BY <1>1, FS_Interval
    <2> QED
      BY <2>1, <2>2, FS_Surjection
  <1> QED
    BY <1>1, <1>2, <1>3, <1>4

(* The edges into a node are edges, and so is any part of them.            *)
LEMMA PendingFinite ==
  ASSUME Graph!DefinitionsAssumption, def \in Definitions, NEW id, NEW D
  PROVE  /\ IsFiniteSet(Graph!Incoming(id)) /\ IsFiniteSet(Pending(D, id))
         /\ Cardinality(Pending(D, id)) \in Nat
         /\ Cardinality(Pending(D, id)) = 0 <=> Pending(D, id) = {}
  <1>1. Graph!Incoming(id) \in SUBSET Graph!Edges /\ Pending(D, id) \in SUBSET Graph!Edges
    BY DEF Graph!Incoming, Pending
  <1>2. IsFiniteSet(Graph!Incoming(id)) /\ IsFiniteSet(Pending(D, id))
    BY <1>1, GraphFinite, FS_Subset
  <1> QED
    BY <1>2, FS_CardinalityType, FS_EmptySet

(* The orders of a finite set: each of its elements comes once.            *)
LEMMA OrdersOf ==
  ASSUME NEW S, IsFiniteSet(S), NEW q \in Graph!SetToSeqs(S)
  PROVE  q \in Seq(S) /\ Distinct(q) /\ Graph!ToSet(q) = S /\ Len(q) = Cardinality(S)
  <1>1. Cardinality(S) \in Nat
    BY FS_CardinalityType
  <1>2. q \in [1..Cardinality(S) -> S] /\ \A i, j \in 1..Cardinality(S) : i # j => q[i] # q[j]
    BY GraphCardinality DEF Graph!SetToSeqs
  <1>3. q \in Seq(S) /\ Len(q) = Cardinality(S)
    BY <1>1, <1>2
  <1>4. q \in Injection(1..Cardinality(S), S)
    BY <1>2 DEF Injection, IsInjective
  <1>5. Cardinality(1..Cardinality(S)) = Cardinality(S)
    BY <1>1, FS_Interval
  <1>6. q \in Surjection(1..Cardinality(S), S)
    BY <1>4, <1>5, FS_Injection
  <1>7. Graph!ToSet(q) = S
    BY <1>2, <1>6 DEF Surjection, Graph!ToSet
  <1> QED
    BY <1>2, <1>3, <1>7 DEF Distinct

(* A distinct sequence has as many elements as positions.                  *)
LEMMA DistinctLength ==
  ASSUME NEW S, NEW q \in Seq(S), Distinct(q)
  PROVE  IsFiniteSet(Graph!ToSet(q)) /\ Cardinality(Graph!ToSet(q)) = Len(q)
  <1>1. Len(q) \in Nat /\ q \in [1..Len(q) -> Graph!ToSet(q)] /\ DOMAIN q = 1..Len(q)
    BY DEF Graph!ToSet
  <1>2. q \in Bijection(1..Len(q), Graph!ToSet(q))
    BY <1>1 DEF Bijection, Injection, IsInjective, Surjection, Graph!ToSet, Distinct
  <1>3. ExistsBijection(1..Len(q), Graph!ToSet(q))
    BY <1>2 DEF ExistsBijection
  <1>4. IsFiniteSet(1..Len(q)) /\ Cardinality(1..Len(q)) = Len(q)
    BY <1>1, FS_Interval
  <1> QED
    BY <1>3, <1>4, FS_Bijection

(* The pass over the edges that leave the nodes of Q, which were not yet   *)
(* lowered: the counts are then those without D and Q, and the nodes that  *)
(* join the queue are those that had edges from Q alone left.              *)
LEMMA LowerCounts ==
  ASSUME Graph!DefinitionsAssumption, def \in Definitions,
         NEW D, NEW Q, Q \cap D = {},
         indegree = Counts(D)
  PROVE  /\ Graph!LowerTargets(Q) = Counts(D \cup Q)
         /\ \A id \in Graph!Ids :
              id \in Graph!Ready(Q) <=> Pending(D, id) # {} /\ Pending(D \cup Q, id) = {}
  <1>1. ASSUME NEW id \in Graph!Ids
        PROVE  /\ indegree[id] - Graph!Lowered(Q, id) = Cardinality(Pending(D \cup Q, id))
               /\ indegree[id] \in 1..Graph!Lowered(Q, id) <=> Pending(D, id) # {} /\ Pending(D \cup Q, id) = {}
    <2> DEFINE L == {e \in Graph!Incoming(id) : Origin(e) \in Q}
    <2>1. Graph!Lowered(Q, id) = Cardinality(L)
      BY GraphCardinality, Zenon DEF Graph!Lowered, Origin
    <2>2. L \cap Pending(D \cup Q, id) = {} /\ Pending(D, id) = L \cup Pending(D \cup Q, id)
      BY DEF Pending
    <2>3. IsFiniteSet(L)
      <3>1. IsFiniteSet(Graph!Incoming(id)) /\ L \in SUBSET Graph!Incoming(id)
        BY PendingFinite
      <3> QED
        BY <3>1, FS_Subset
    <2> HIDE DEF L
    <2>4. IsFiniteSet(Pending(D \cup Q, id)) /\ IsFiniteSet(Pending(D, id))
      BY PendingFinite
    <2>5. Cardinality(Pending(D, id)) = Cardinality(L) + Cardinality(Pending(D \cup Q, id))
      <3>1. Cardinality(L \cup Pending(D \cup Q, id))
              = Cardinality(L) + Cardinality(Pending(D \cup Q, id)) - Cardinality(L \cap Pending(D \cup Q, id))
        BY <2>3, <2>4, FS_Union
      <3>2. Cardinality(L \cap Pending(D \cup Q, id)) = 0
        BY <2>2, FS_EmptySet
      <3>3. Cardinality(L) \in Nat /\ Cardinality(Pending(D \cup Q, id)) \in Nat
        BY <2>3, <2>4, FS_CardinalityType
      <3> QED
        BY <2>2, <3>1, <3>2, <3>3
    <2>6. Cardinality(L) \in Nat /\ Cardinality(Pending(D \cup Q, id)) \in Nat /\ Cardinality(Pending(D, id)) \in Nat
      BY <2>3, <2>4, FS_CardinalityType
    <2>7. (Cardinality(Pending(D, id)) = 0 <=> Pending(D, id) = {})
            /\ (Cardinality(Pending(D \cup Q, id)) = 0 <=> Pending(D \cup Q, id) = {})
      BY PendingFinite
    <2>8. indegree[id] = Cardinality(Pending(D, id))
      BY DEF Counts
    <2>9. indegree[id] \in 1..Cardinality(L) <=> Pending(D, id) # {} /\ Pending(D \cup Q, id) = {}
      <3>1. PICK a, c, p \in Nat : a = indegree[id] /\ a = Cardinality(Pending(D, id))
                                /\ c = Cardinality(L) /\ p = Cardinality(Pending(D \cup Q, id))
        BY <2>6, <2>8, Zenon
      <3>2. a = c + p
        BY <2>5, <3>1, Zenon
      <3>3. a \in 1..c <=> a # 0 /\ p = 0
        BY <3>2
      <3> QED
        BY <2>7, <3>1, <3>3, Zenon
    <2>10. indegree[id] - Graph!Lowered(Q, id) = Cardinality(Pending(D \cup Q, id))
      <3>1. \A c, p \in Nat : (c + p) - c = p
        OBVIOUS
      <3>2. (Cardinality(L) + Cardinality(Pending(D \cup Q, id))) - Cardinality(L) = Cardinality(Pending(D \cup Q, id))
        BY <2>6, <3>1, Zenon
      <3> QED
        BY <2>1, <2>5, <2>8, <3>2, Zenon
    <2> QED
      BY <2>1, <2>9, <2>10, Zenon
  <1> QED
    BY <1>1 DEF Graph!LowerTargets, Graph!Ready, Counts

(* D has left the queue.                                                   *)
Walked(D) ==
    /\ D \subseteq Graph!Ids /\ Cardinality(D) = visited
    /\ queue \in Seq(Graph!Ids) /\ Distinct(queue)
    /\ Graph!ToSet(queue) \cap D = {}
    /\ indegree = Counts(D)
    /\ \A id \in Graph!Ids : Pending(D, id) = {} <=> id \in D \cup Graph!ToSet(queue)
    /\ \A S \in SUBSET Graph!Ids : Looped(S) => S \cap D = {}

(* A definition stays, and so do its edges.                                *)
LEMMA GraphStays ==
  ASSUME def' = def
  PROVE  /\ Graph!Ids' = Graph!Ids /\ Graph!Edges' = Graph!Edges /\ Graph!Cyclic' = Graph!Cyclic
         /\ \A id : Graph!Incoming(id)' = Graph!Incoming(id)
         /\ \A e : Origin(e)' = Origin(e)
         /\ \A S : Looped(S)' = Looped(S)
         /\ \A D, id : Pending(D, id)' = Pending(D, id)
         /\ \A D : Counts(D)' = Counts(D)
  BY Zenon DEF Counts, Graph!Ids, Graph!NodeSet, Graph!Edges, Graph!Cyclic, Graph!Incoming, Origin, Looped, Pending

(* The queue of a walk that begins holds the nodes without incoming edges. *)
LEMMA WalkBegins ==
  ASSUME Graph!DefinitionsAssumption, def \in Definitions, def' = def,
         queue' \in Graph!SetToSeqs(Graph!Roots), indegree' = Graph!InDegrees, visited' = 0
  PROVE  Walked({})'
  <1>1. Graph!InDegrees = Counts({})
    <2>1. \A id : Pending({}, id) = Graph!Incoming(id)
      BY DEF Pending
    <2> QED
      BY <2>1, GraphCardinality, Zenon DEF Graph!InDegrees, Counts
  <1>2. Graph!Roots = {id \in Graph!Ids : Pending({}, id) = {}}
    BY <1>1, PendingFinite DEF Graph!Roots, Counts
  <1>3. IsFiniteSet(Graph!Roots)
    BY <1>2, GraphFinite, FS_Subset
  <1>4. PICK q : q = queue' /\ q \in Seq(Graph!Roots) /\ Distinct(q) /\ Graph!ToSet(q) = Graph!Roots
    BY <1>3, OrdersOf, Zenon
  <1>5. Distinct(queue)' /\ Graph!ToSet(queue)' = Graph!Roots
    BY <1>4 DEF Distinct, Graph!ToSet
  <1>6. queue' \in Seq(Graph!Ids)
    BY <1>2, <1>4
  <1>7. Cardinality({}) = 0
    BY FS_EmptySet
  <1> QED
    BY <1>1, <1>2, <1>5, <1>6, <1>7, GraphStays DEF Walked

(* Nodes Q leave the queue: no cycle goes through them, as all their edges *)
(* come from nodes that have left.                                         *)
LEMMA WalkMoves ==
  ASSUME Graph!DefinitionsAssumption, def \in Definitions, def' = def,
         NEW D, Walked(D), NEW Q, Q \subseteq Graph!ToSet(queue),
         indegree' = Graph!LowerTargets(Q),
         queue' \in Seq(Graph!Ids), Distinct(queue)',
         Graph!ToSet(queue)' = (Graph!ToSet(queue) \ Q) \cup Graph!Ready(Q),
         visited' = visited + Cardinality(Q)
  PROVE  Walked(D \cup Q)'
  <1>1. Graph!ToSet(queue) \subseteq Graph!Ids
    BY DEF Walked, Graph!ToSet
  <1>2. D \cup Q \subseteq Graph!Ids /\ Q \cap D = {}
    BY <1>1 DEF Walked
  <1>3. indegree = Counts(D)
    BY DEF Walked
  <1>4. indegree' = Counts(D \cup Q)
    BY <1>2, <1>3, LowerCounts, Zenon
  <1>5. \A id \in Graph!Ids : id \in Graph!Ready(Q) <=> Pending(D, id) # {} /\ Pending(D \cup Q, id) = {}
    BY <1>2, <1>3, LowerCounts, Zenon
  <1>6. Graph!Ready(Q) \subseteq Graph!Ids
    BY DEF Graph!Ready
  <1>7. \A id \in Graph!Ids : Pending(D, id) = {} <=> id \in D \cup Graph!ToSet(queue)
    BY DEF Walked
  <1>8. Cardinality(D \cup Q) = visited'
    <2>1. D \in SUBSET Graph!Ids /\ Q \in SUBSET Graph!Ids
      BY <1>2
    <2>2. IsFiniteSet(D) /\ IsFiniteSet(Q)
      BY <2>1, GraphFinite, FS_Subset
    <2>3. Cardinality(D \cup Q) = Cardinality(D) + Cardinality(Q) - Cardinality(D \cap Q)
      BY <2>2, FS_Union
    <2>4. Cardinality(D \cap Q) = 0
      BY <1>2, FS_EmptySet
    <2>5. Cardinality(D) \in Nat /\ Cardinality(Q) \in Nat /\ Cardinality(D) = visited
      BY <2>2, FS_CardinalityType DEF Walked
    <2> QED
      BY <2>3, <2>4, <2>5
  <1>9. Graph!ToSet(queue)' \cap (D \cup Q) = {}
    BY <1>1, <1>2, <1>5, <1>6, <1>7 DEF Walked
  <1>10. \A id \in Graph!Ids :
            Pending(D \cup Q, id) = {} <=> id \in (D \cup Q) \cup Graph!ToSet(queue)'
    <2>1. \A id : Pending(D \cup Q, id) \subseteq Pending(D, id)
      BY DEF Pending
    <2>2. PICK T, R : T = Graph!ToSet(queue) /\ R = Graph!Ready(Q) /\ Graph!ToSet(queue)' = (T \ Q) \cup R
      BY Zenon
    <2>3. Q \subseteq T
      BY <2>2
    <2>4. ASSUME NEW id \in Graph!Ids
          PROVE  Pending(D \cup Q, id) = {} <=> id \in (D \cup Q) \cup ((T \ Q) \cup R)
      <3>1. Pending(D, id) = {} <=> id \in D \cup T
        BY <1>7, <2>2, Zenon
      <3>2. id \in R <=> Pending(D, id) # {} /\ Pending(D \cup Q, id) = {}
        BY <1>5, <2>2, Zenon
      <3>3. Pending(D, id) = {} => Pending(D \cup Q, id) = {}
        BY <2>1
      <3> QED
        BY <2>3, <3>1, <3>2, <3>3, Zenon
    <2> QED
      BY <2>2, <2>4, Zenon
  <1>11. ASSUME NEW S \in SUBSET Graph!Ids, Looped(S) PROVE S \cap (D \cup Q) = {}
    <2>1. S \cap D = {}
      BY <1>11 DEF Walked
    <2>2. ASSUME NEW id \in S, id \in Q PROVE FALSE
      <3>1. PICK e \in Graph!Incoming(id) : Origin(e) \in S
        BY <1>11 DEF Looped
      <3>2. Pending(D, id) = {}
        BY <1>7, <2>2
      <3>3. Origin(e) \in D
        BY <3>1, <3>2 DEF Pending
      <3> QED
        BY <2>1, <3>1, <3>3
    <2> QED
      BY <2>1, <2>2
  <1>12. \A S \in SUBSET Graph!Ids : Looped(S) => S \cap (D \cup Q) = {}
    BY <1>11
  <1>13. /\ Graph!Ids' = Graph!Ids
         /\ \A id : Pending(D \cup Q, id)' = Pending(D \cup Q, id)
         /\ \A S : Looped(S)' = Looped(S)
         /\ Counts(D \cup Q)' = Counts(D \cup Q)
    BY GraphStays, Zenon
  <1>14. D \cup Q \subseteq Graph!Ids'
    BY <1>2, <1>13
  <1>15. indegree' = Counts(D \cup Q)'
    BY <1>4, <1>13
  <1> QED
    BY <1>8, <1>9, <1>10, <1>12, <1>13, <1>14, <1>15, Zenon DEF Walked

(* A cycle is a set of nodes each of which has an edge from the set.       *)
LEMMA CyclicLooped == Graph!Cyclic <=> \E S \in SUBSET Graph!Ids : S # {} /\ Looped(S)
  BY DEF Graph!Cyclic, Looped, Origin, Graph!Incoming

(* When the queue is empty every node has left it, or what is left has a   *)
(* cycle.                                                                  *)
LEMMA WalkEnds ==
  ASSUME Graph!DefinitionsAssumption, def \in Definitions, Graph!NodesValid, Graph!EdgesKnown,
         NEW D, Walked(D), queue = <<>>
  PROVE  /\ visited = Len(def.nodes) => D = Graph!Ids /\ ~Graph!Cyclic
         /\ visited # Len(def.nodes) => Graph!Cyclic
  <1>1. Cardinality(Graph!Ids) = Len(def.nodes)
    BY GraphCardinality DEF Graph!NodesValid
  <1>2. D \in SUBSET Graph!Ids /\ Cardinality(D) = visited
    BY DEF Walked
  <1>3. Graph!ToSet(queue) = {}
    BY DEF Graph!ToSet
  <1>4. \A id \in Graph!Ids : Pending(D, id) = {} <=> id \in D
    BY <1>3 DEF Walked
  <1>5. ASSUME visited = Len(def.nodes) PROVE D = Graph!Ids /\ ~Graph!Cyclic
    <2>1. D = Graph!Ids
      BY <1>1, <1>2, <1>5, GraphFinite, FS_Subset
    <2> QED
      BY <2>1, CyclicLooped DEF Walked
  <1>6. ASSUME visited # Len(def.nodes) PROVE Graph!Cyclic
    <2>1. D # Graph!Ids
      BY <1>1, <1>2, <1>6
    <2> DEFINE S == Graph!Ids \ D
    <2>2. S # {} /\ S \in SUBSET Graph!Ids
      BY <1>2, <2>1
    <2>3. ASSUME NEW id \in S PROVE \E e \in Graph!Incoming(id) : Origin(e) \in S
      <3>1. PICK e \in Graph!Incoming(id) : Origin(e) \notin D
        BY <1>4 DEF Pending
      <3>2. Origin(e) \in Graph!Ids
        BY DEF Graph!EdgesKnown, Graph!Incoming, Origin
      <3> QED
        BY <3>1, <3>2
    <2> QED
      BY <2>2, <2>3, CyclicLooped DEF Looped
  <1> QED
    BY <1>5, <1>6

(* The first node of the queue leaves it, and others join at the end.      *)
LEMMA QueueMoves ==
  ASSUME NEW S, NEW q \in Seq(S), q # <<>>, Distinct(q),
         NEW r \in Seq(S), Distinct(r), Graph!ToSet(r) \cap Graph!ToSet(q) = {}
  PROVE  /\ Tail(q) \o r \in Seq(S) /\ Distinct(Tail(q) \o r)
         /\ Graph!ToSet(Tail(q) \o r) = (Graph!ToSet(q) \ {Head(q)}) \cup Graph!ToSet(r)
         /\ Head(q) \in Graph!ToSet(q)
  <1> DEFINE n == Len(q) - 1
             s == Tail(q) \o r
  <1>1. /\ Len(q) \in Nat \ {0} /\ n \in Nat /\ Len(Tail(q)) = n /\ Tail(q) \in Seq(S)
        /\ \A i \in 1..n : Tail(q)[i] = q[i + 1]
        /\ Head(q) = q[1] /\ DOMAIN q = 1..Len(q) /\ DOMAIN r = 1..Len(r) /\ Len(r) \in Nat
    OBVIOUS
  <1>2. /\ s \in Seq(S) /\ Len(s) = n + Len(r) /\ DOMAIN s = 1..Len(s)
        /\ \A i \in 1..Len(s) : s[i] = IF i <= n THEN q[i + 1] ELSE r[i - n]
    BY <1>1
  <1> HIDE DEF s, n
  <1>3. \A i \in 1..Len(q), j \in 1..Len(r) : q[i] # r[j]
    BY <1>1 DEF Graph!ToSet
  <1>4. ASSUME NEW i \in 1..Len(s), NEW j \in 1..Len(s), i # j PROVE s[i] # s[j]
    <2>1. CASE i <= n /\ j <= n
      <3>1. i + 1 \in 1..Len(q) /\ j + 1 \in 1..Len(q) /\ i + 1 # j + 1
        BY <1>1, <1>4, <2>1 DEF n
      <3> QED
        BY <1>2, <2>1, <3>1 DEF Distinct
    <2>2. CASE i > n /\ j > n
      <3>1. i - n \in 1..Len(r) /\ j - n \in 1..Len(r) /\ i - n # j - n
        BY <1>1, <1>2, <1>4, <2>2
      <3>2. r[i - n] # r[j - n]
        BY <3>1 DEF Distinct
      <3>3. s[i] = r[i - n] /\ s[j] = r[j - n]
        BY <1>1, <1>2, <2>2
      <3> QED
        BY <3>2, <3>3
    <2>3. CASE i <= n /\ j > n
      <3>1. i + 1 \in 1..Len(q) /\ j - n \in 1..Len(r)
        BY <1>1, <1>2, <2>3 DEF n
      <3> QED
        BY <1>1, <1>2, <1>3, <2>3, <3>1
    <2>4. CASE i > n /\ j <= n
      <3>1. j + 1 \in 1..Len(q) /\ i - n \in 1..Len(r)
        BY <1>1, <1>2, <2>4 DEF n
      <3> QED
        BY <1>1, <1>2, <1>3, <2>4, <3>1
    <2> QED
      BY <1>1, <1>2, <2>1, <2>2, <2>3, <2>4
  <1>5. ASSUME NEW x \in Graph!ToSet(s) PROVE x \in (Graph!ToSet(q) \ {Head(q)}) \cup Graph!ToSet(r)
    <2>1. PICK i \in 1..Len(s) : x = s[i]
      BY <1>2 DEF Graph!ToSet
    <2>2. CASE i <= n
      <3>1. i + 1 \in 1..Len(q) /\ i + 1 # 1 /\ 1 \in 1..Len(q) /\ x = q[i + 1]
        BY <1>1, <1>2, <2>1, <2>2 DEF n
      <3> QED
        <4>1. x \in Graph!ToSet(q)
          BY <1>1, <3>1 DEF Graph!ToSet
        <4>2. x # q[1]
          BY <3>1 DEF Distinct
        <4> QED
          BY <1>1, <4>1, <4>2
    <2>3. CASE i > n
      <3>1. i - n \in 1..Len(r) /\ x = r[i - n]
        BY <1>1, <1>2, <2>1, <2>3
      <3> QED
        BY <1>1, <3>1 DEF Graph!ToSet
    <2> QED
      BY <1>1, <2>2, <2>3
  <1>6. ASSUME NEW x \in Graph!ToSet(q), x # Head(q) PROVE x \in Graph!ToSet(s)
    <2>1. PICK i \in 1..Len(q) : x = q[i]
      BY <1>1 DEF Graph!ToSet
    <2>2. i - 1 \in 1..Len(s) /\ s[i - 1] = x
      BY <1>1, <1>2, <1>6, <2>1 DEF n
    <2> QED
      BY <1>2, <2>2 DEF Graph!ToSet
  <1>7. ASSUME NEW x \in Graph!ToSet(r) PROVE x \in Graph!ToSet(s)
    <2>1. PICK i \in 1..Len(r) : x = r[i]
      BY <1>1 DEF Graph!ToSet
    <2>2. i + n \in 1..Len(s) /\ s[i + n] = x
      BY <1>1, <1>2, <2>1
    <2> QED
      BY <1>2, <2>2 DEF Graph!ToSet
  <1>8. Head(q) \in Graph!ToSet(q)
    BY <1>1 DEF Graph!ToSet
  <1>9. s \in Seq(S) /\ Distinct(s)
    BY <1>2, <1>4 DEF Distinct
  <1>10. Graph!ToSet(s) = (Graph!ToSet(q) \ {Head(q)}) \cup Graph!ToSet(r)
    BY <1>5, <1>6, <1>7
  <1> QED
    BY <1>8, <1>9, <1>10 DEF s

(* The checks before the walk, none of which refuses the definition.       *)
LEMMA NothingRefused ==
  /\ Graph!FirstRefusal = "" =>
        /\ Graph!AgentAdmission /\ Graph!NodePolicies /\ Graph!NodesValid /\ Graph!EdgesKnown
        /\ def.engine \in {"", "workflow", "stream-direct", "spark-sql", "flink-sql"}
  /\ Graph!FirstRefusal # "cycle"
  BY DEF Graph!FirstRefusal

LEMMA ChecksStay ==
  ASSUME def' = def
  PROVE  Graph!FirstRefusal' = Graph!FirstRefusal /\ Graph!EngineAccepts' = Graph!EngineAccepts
  <1> USE DEF Graph!NodeSet, Graph!Ids, Graph!Edges, Graph!NodesOf, Graph!Incoming, Graph!OwnEngine
  <1>1. /\ Graph!AgentAdmission' = Graph!AgentAdmission /\ Graph!NodePolicies' = Graph!NodePolicies
        /\ Graph!NodesValid' = Graph!NodesValid /\ Graph!EdgesKnown' = Graph!EdgesKnown
    BY Zenon DEF Graph!AgentAdmission, Graph!AgentNodeValid, Graph!NodePolicies, Graph!NodesValid, Graph!EdgesKnown
  <1>2. Graph!FirstRefusal' = Graph!FirstRefusal
    BY <1>1, Zenon DEF Graph!FirstRefusal
  <1>3. Graph!EngineAccepts' = Graph!EngineAccepts
    BY Zenon DEF Graph!EngineAccepts, Graph!validateStreamDirect, Graph!validateSparkSQL, Graph!validateFlinkSQL,
       Graph!OneSourceOneSink
  <1> QED
    BY <1>2, <1>3

(* The nodes in the levels of a plan; a plan is walked by its levels.      *)
On(l) == Graph!ToSet(levels[l])
Placed == UNION {On(l) : l \in 1..Len(levels)}

GraphInv ==
    /\ def \in Definitions
    /\ pc \in {"check", "walk", "refused", "accepted", "plan", "planned"}
    /\ visited \in Nat /\ Graph!ToSet(queue) \subseteq Graph!Ids
    /\ pc = "check" => visited = 0 /\ graphOutcome = "" /\ queue = <<>>
    /\ pc \notin {"check", "refused"} => indegree \in [Graph!Ids -> Nat] /\ Graph!FirstRefusal = ""
    /\ pc = "walk" => \E D : Walked(D)
    /\ pc \in {"plan", "planned"} => levels \in Seq(Seq(Graph!Ids)) /\ Walked(Placed)
    /\ pc = "planned" => Placed = Graph!Ids
    /\ pc \in {"accepted", "plan", "planned"} => ~Graph!Cyclic /\ Graph!EngineAccepts
    /\ graphOutcome = "cycle" => Graph!Cyclic

LEMMA GraphInit ==
  ASSUME Graph!Init
  PROVE  GraphInv
  <1>1. Graph!ToSet(queue) = {}
    <2>1. queue = <<>>
      BY DEF Graph!Init
    <2> QED
      BY <2>1 DEF Graph!ToSet
  <1> QED
    BY <1>1 DEF Graph!Init, GraphInv

(* The counts and the queue of a walk are typed.                           *)
LEMMA WalkTyped ==
  ASSUME Graph!DefinitionsAssumption, def \in Definitions, NEW D, Walked(D)
  PROVE  /\ indegree \in [Graph!Ids -> Nat] /\ Graph!ToSet(queue) \subseteq Graph!Ids /\ visited \in Nat
         /\ \A id \in Graph!Ids : Pending(D, id) # {} => id \notin Graph!ToSet(queue)
  <1>1. indegree \in [Graph!Ids -> Nat]
    BY PendingFinite DEF Walked, Counts
  <1>2. D \in SUBSET Graph!Ids /\ Cardinality(D) = visited
    BY DEF Walked
  <1>3. visited \in Nat
    BY <1>2, GraphFinite, FS_Subset, FS_CardinalityType
  <1>4. Graph!ToSet(queue) \subseteq Graph!Ids
    BY DEF Walked, Graph!ToSet
  <1>5. \A id \in Graph!Ids : Pending(D, id) # {} => id \notin Graph!ToSet(queue)
    BY DEF Walked
  <1> QED
    BY <1>1, <1>3, <1>4, <1>5

LEMMA WalkTypedNext ==
  ASSUME Graph!DefinitionsAssumption
  PROVE  (def \in Definitions /\ (\E D : Walked(D)) =>
            indegree \in [Graph!Ids -> Nat] /\ Graph!ToSet(queue) \subseteq Graph!Ids /\ visited \in Nat)'
  <1>1. def \in Definitions /\ (\E D : Walked(D)) =>
            indegree \in [Graph!Ids -> Nat] /\ Graph!ToSet(queue) \subseteq Graph!Ids /\ visited \in Nat
    BY WalkTyped
  <1> QED
    BY <1>1, PTL

(* Ready nodes are nodes that are not in the queue.                        *)
LEMMA ReadyNodes ==
  ASSUME Graph!DefinitionsAssumption, def \in Definitions, NEW D, Walked(D),
         NEW Q, Q \subseteq Graph!ToSet(queue)
  PROVE  /\ Graph!Ready(Q) \subseteq Graph!Ids /\ IsFiniteSet(Graph!Ready(Q))
         /\ Graph!Ready(Q) \cap Graph!ToSet(queue) = {}
         /\ \A id \in Graph!Ready(Q) : \E e \in Graph!Incoming(id) : Origin(e) \in Q
         /\ \A id \in Graph!Ready(Q) : Pending(D \cup Q, id) = {}
  <1>1. Graph!Ready(Q) \in SUBSET Graph!Ids
    BY DEF Graph!Ready
  <1>2. IsFiniteSet(Graph!Ready(Q))
    BY <1>1, GraphFinite, FS_Subset
  <1>3. Q \cap D = {} /\ indegree = Counts(D)
    BY DEF Walked
  <1>4. \A id \in Graph!Ids : id \in Graph!Ready(Q) <=> Pending(D, id) # {} /\ Pending(D \cup Q, id) = {}
    BY <1>3, LowerCounts, Zenon
  <1>5. Graph!Ready(Q) \cap Graph!ToSet(queue) = {}
    BY <1>1, <1>4, WalkTyped
  <1>6. ASSUME NEW id \in Graph!Ready(Q) PROVE \E e \in Graph!Incoming(id) : Origin(e) \in Q
    <2>1. Pending(D, id) # {} /\ Pending(D \cup Q, id) = {}
      BY <1>1, <1>4
    <2> QED
      BY <2>1 DEF Pending
  <1> QED
    BY <1>1, <1>2, <1>4, <1>5, <1>6

LEMMA CheckStep ==
  ASSUME Graph!DefinitionsAssumption, GraphInv, Graph!Check
  PROVE  GraphInv'
  <1>1. def' = def /\ visited' = 0 /\ levels' = levels /\ def \in Definitions /\ graphOutcome = ""
    BY DEF Graph!Check, GraphInv
  <1>2. Graph!Ids' = Graph!Ids /\ Graph!Cyclic' = Graph!Cyclic
    BY <1>1, GraphStays
  <1>3. Graph!FirstRefusal' = Graph!FirstRefusal
    BY <1>1, ChecksStay
  <1>4. CASE Graph!FirstRefusal # ""
    <2>1. pc' = "refused" /\ graphOutcome' = Graph!FirstRefusal /\ queue' = queue
      BY <1>4 DEF Graph!Check, Graph!Refuse
    <2>2. graphOutcome' # "cycle"
      BY <2>1, NothingRefused
    <2>3. Graph!ToSet(queue)' = Graph!ToSet(queue)
      BY <2>1 DEF Graph!ToSet
    <2>4. Graph!ToSet(queue) \subseteq Graph!Ids
      BY DEF GraphInv
    <2> QED
      BY <1>1, <1>2, <2>1, <2>2, <2>3, <2>4 DEF GraphInv
  <1>5. CASE Graph!FirstRefusal = ""
    <2>1. /\ pc' = "walk" /\ graphOutcome' = "" /\ indegree' = Graph!InDegrees
          /\ queue' \in Graph!SetToSeqs(Graph!Roots)
      BY <1>1, <1>5 DEF Graph!Check, Graph!Refuse
    <2>2. Walked({})'
      BY <1>1, <2>1, WalkBegins
    <2>3. (\E D : Walked(D))'
      BY <2>2
    <2>4. (indegree \in [Graph!Ids -> Nat] /\ Graph!ToSet(queue) \subseteq Graph!Ids /\ visited \in Nat)'
      <3>1. (def \in Definitions /\ \E D : Walked(D))'
        BY <1>1, <2>3
      <3> QED
        BY <3>1, WalkTypedNext
    <2> QED
      BY <1>1, <1>3, <1>5, <2>1, <2>3, <2>4 DEF GraphInv
  <1> QED
    BY <1>4, <1>5

(* The walk of validatePipeline: a node leaves the queue.                  *)
LEMMA PopStep ==
  ASSUME Graph!DefinitionsAssumption, GraphInv, Graph!Pop
  PROVE  GraphInv'
  <1>1. /\ pc = "walk" /\ pc' = "walk" /\ queue # <<>> /\ def' = def /\ def \in Definitions
        /\ graphOutcome' = graphOutcome /\ visited' = visited + 1 /\ levels' = levels
    BY DEF Graph!Pop, GraphInv
  <1>2. PICK D : Walked(D)
    BY <1>1 DEF GraphInv
  <1>3. PICK Q, r : /\ Q = {Head(queue)} /\ r \in Graph!SetToSeqs(Graph!Ready(Q))
                    /\ queue' = Tail(queue) \o r /\ indegree' = Graph!LowerTargets(Q)
    BY Zenon DEF Graph!Pop
  <1>4. queue \in Seq(Graph!Ids) /\ Distinct(queue)
    BY <1>2 DEF Walked
  <1>5. Head(queue) \in Graph!ToSet(queue)
    <2>1. 1 \in DOMAIN queue /\ Head(queue) = queue[1]
      BY <1>1, <1>4
    <2> QED
      BY <2>1 DEF Graph!ToSet
  <1>6. Q \subseteq Graph!ToSet(queue) /\ Cardinality(Q) = 1
    BY <1>3, <1>5, FS_Singleton, Zenon
  <1>7. /\ Graph!Ready(Q) \subseteq Graph!Ids /\ IsFiniteSet(Graph!Ready(Q))
        /\ Graph!Ready(Q) \cap Graph!ToSet(queue) = {}
    BY <1>1, <1>2, <1>6, ReadyNodes, Zenon
  <1>8. r \in Seq(Graph!Ready(Q)) /\ Distinct(r) /\ Graph!ToSet(r) = Graph!Ready(Q)
    BY <1>3, <1>7, OrdersOf, Zenon
  <1>9. r \in Seq(Graph!Ids) /\ Graph!ToSet(r) \cap Graph!ToSet(queue) = {}
    BY <1>7, <1>8
  <1>10. /\ Tail(queue) \o r \in Seq(Graph!Ids) /\ Distinct(Tail(queue) \o r)
         /\ Graph!ToSet(Tail(queue) \o r) = (Graph!ToSet(queue) \ {Head(queue)}) \cup Graph!ToSet(r)
    BY <1>1, <1>4, <1>8, <1>9, QueueMoves, Zenon
  <1>11. /\ queue' \in Seq(Graph!Ids) /\ Distinct(queue)'
         /\ Graph!ToSet(queue)' = (Graph!ToSet(queue) \ Q) \cup Graph!Ready(Q)
    BY <1>3, <1>8, <1>10 DEF Distinct, Graph!ToSet
  <1>12. visited' = visited + Cardinality(Q)
    BY <1>1, <1>6
  <1>13. Walked(D \cup Q)'
    BY <1>1, <1>2, <1>3, <1>6, <1>11, <1>12, WalkMoves, Zenon
  <1>14. (def \in Definitions /\ \E X : Walked(X))'
    BY <1>1, <1>13
  <1>15. (indegree \in [Graph!Ids -> Nat] /\ Graph!ToSet(queue) \subseteq Graph!Ids /\ visited \in Nat)'
    BY <1>14, WalkTypedNext
  <1>16. Graph!Cyclic' = Graph!Cyclic /\ Graph!FirstRefusal' = Graph!FirstRefusal
    BY <1>1, GraphStays, ChecksStay, Zenon
  <1> QED
    BY <1>1, <1>14, <1>15, <1>16 DEF GraphInv

(* A definition is refused as cyclic when the walk has not met every node, *)
(* and accepted when it has and the engine accepts it.                     *)
LEMMA DecideStep ==
  ASSUME Graph!DefinitionsAssumption, GraphInv, Graph!Decide
  PROVE  GraphInv'
  <1>1. /\ pc = "walk" /\ queue = <<>> /\ def' = def /\ def \in Definitions
        /\ indegree' = indegree /\ queue' = queue /\ visited' = visited /\ levels' = levels
    BY Zenon DEF Graph!Decide, GraphInv
  <1>2. PICK D : Walked(D)
    BY <1>1 DEF GraphInv
  <1>3. /\ Graph!FirstRefusal = "" /\ indegree \in [Graph!Ids -> Nat] /\ visited \in Nat
        /\ Graph!ToSet(queue) \subseteq Graph!Ids /\ (graphOutcome = "cycle" => Graph!Cyclic)
    BY <1>1 DEF GraphInv
  <1>4. Graph!NodesValid /\ Graph!EdgesKnown
    BY <1>3, NothingRefused
  <1>5. /\ visited = Len(def.nodes) => ~Graph!Cyclic
        /\ visited # Len(def.nodes) => Graph!Cyclic
    BY <1>1, <1>2, <1>4, WalkEnds
  <1>6. /\ Graph!Ids' = Graph!Ids /\ Graph!Cyclic' = Graph!Cyclic
        /\ Graph!FirstRefusal' = Graph!FirstRefusal /\ Graph!EngineAccepts' = Graph!EngineAccepts
        /\ Graph!ToSet(queue)' = Graph!ToSet(queue)
    <2>1. Graph!ToSet(queue)' = Graph!ToSet(queue)
      BY <1>1 DEF Graph!ToSet
    <2> QED
      BY <1>1, <2>1, GraphStays, ChecksStay
  <1>7. CASE visited # Len(def.nodes)
    <2>1. pc' = "refused" /\ graphOutcome' = "cycle"
      BY <1>7 DEF Graph!Decide, Graph!Refuse
    <2> QED
      BY <1>1, <1>3, <1>5, <1>6, <1>7, <2>1 DEF GraphInv
  <1>8. CASE visited = Len(def.nodes) /\ ~Graph!EngineAccepts
    <2>1. pc' = "refused" /\ graphOutcome' = "shape"
      BY <1>8 DEF Graph!Decide, Graph!Refuse
    <2> QED
      BY <1>1, <1>3, <1>6, <2>1 DEF GraphInv
  <1>9. CASE visited = Len(def.nodes) /\ Graph!EngineAccepts
    <2>1. pc' = "accepted" /\ graphOutcome' = graphOutcome
      BY <1>9 DEF Graph!Decide, Graph!Refuse
    <2> QED
      BY <1>1, <1>3, <1>5, <1>6, <1>9, <2>1 DEF GraphInv
  <1> QED
    BY <1>7, <1>8, <1>9

LEMMA PlacedWalk == (\A D : D = Placed /\ Walked(D) => Walked(Placed))'
  <1>1. \A D : D = Placed /\ Walked(D) => Walked(Placed)
    OBVIOUS
  <1> QED
    BY <1>1, PTL

(* What the invariant says of a walk and a plan that stay.                 *)
LEMMA PlanStays ==
  ASSUME levels' = levels, queue' = queue
  PROVE  Placed' = Placed /\ Graph!ToSet(queue)' = Graph!ToSet(queue) /\ \A l : On(l)' = On(l)
  <1>1. \A l : On(l)' = On(l)
    BY Zenon DEF On, Graph!ToSet
  <1>2. Placed' = Placed
    BY <1>1, Zenon DEF Placed
  <1>3. Graph!ToSet(queue)' = Graph!ToSet(queue)
    BY Zenon DEF Graph!ToSet
  <1> QED
    BY <1>1, <1>2, <1>3

LEMMA WalkStays ==
  ASSUME UNCHANGED <<def, indegree, queue, visited>>
  PROVE  \A D : Walked(D)' <=> Walked(D)
  <1>1. /\ Graph!Ids' = Graph!Ids /\ \A D : Counts(D)' = Counts(D)
        /\ (\A D, id : Pending(D, id)' = Pending(D, id)) /\ \A S : Looped(S)' = Looped(S)
    BY GraphStays, Zenon
  <1>2. Graph!ToSet(queue)' = Graph!ToSet(queue) /\ (Distinct(queue)' <=> Distinct(queue))
    BY Zenon DEF Graph!ToSet, Distinct
  <1> QED
    BY <1>1, <1>2, Zenon DEF Walked

(* buildPlan begins on a definition that was accepted.                     *)
LEMMA StartPlanStep ==
  ASSUME Graph!DefinitionsAssumption, GraphInv, Graph!StartPlan
  PROVE  GraphInv' /\ levels' = <<>> /\ pc' = "plan"
  <1>1. /\ pc = "accepted" /\ pc' = "plan" /\ def' = def /\ def \in Definitions /\ graphOutcome' = graphOutcome
        /\ visited' = 0 /\ levels' = <<>> /\ indegree' = Graph!InDegrees
        /\ queue' \in Graph!SetToSeqs(Graph!Roots)
    BY DEF Graph!StartPlan, GraphInv
  <1>2. Walked({})'
    BY <1>1, WalkBegins
  <1>3. Placed' = {}
    BY <1>1 DEF Placed
  <1>4. Walked(Placed)'
    BY <1>2, <1>3, PlacedWalk
  <1>5. (def \in Definitions /\ \E X : Walked(X))'
    BY <1>1, <1>2
  <1>6. (indegree \in [Graph!Ids -> Nat] /\ Graph!ToSet(queue) \subseteq Graph!Ids /\ visited \in Nat)'
    BY <1>5, WalkTypedNext
  <1>7. /\ Graph!Cyclic' = Graph!Cyclic /\ Graph!FirstRefusal' = Graph!FirstRefusal
        /\ Graph!EngineAccepts' = Graph!EngineAccepts
    BY <1>1, GraphStays, ChecksStay, Zenon
  <1>8. (levels \in Seq(Seq(Graph!Ids)))'
    BY <1>1
  <1>9. ~Graph!Cyclic /\ Graph!EngineAccepts /\ Graph!FirstRefusal = "" /\ (graphOutcome = "cycle" => Graph!Cyclic)
    BY <1>1 DEF GraphInv
  <1> QED
    BY <1>1, <1>4, <1>5, <1>6, <1>7, <1>8, <1>9 DEF GraphInv

(* The levels after another one.                                           *)
LEMMA LevelAdded ==
  ASSUME NEW S, levels \in Seq(Seq(S)), queue \in Seq(S), levels' = Append(levels, queue)
  PROVE  /\ levels' \in Seq(Seq(S)) /\ Len(levels) \in Nat /\ Len(levels') = Len(levels) + 1
         /\ \A l \in 1..Len(levels) : levels'[l] = levels[l] /\ On(l)' = On(l)
         /\ levels'[Len(levels) + 1] = queue
         /\ \A n : n = Len(levels) + 1 => On(n)' = Graph!ToSet(queue)
         /\ Placed' = Placed \cup Graph!ToSet(queue)
  <1>1. /\ levels' \in Seq(Seq(S)) /\ Len(levels) \in Nat /\ Len(levels') = Len(levels) + 1
        /\ \A l \in 1..Len(levels) : levels'[l] = levels[l]
        /\ levels'[Len(levels) + 1] = queue
    OBVIOUS
  <1>2. \A l \in 1..Len(levels) : On(l)' = On(l)
    BY <1>1 DEF On, Graph!ToSet
  <1>3. ASSUME NEW n, n = Len(levels) + 1 PROVE On(n)' = Graph!ToSet(queue)
    BY <1>1, <1>3 DEF On, Graph!ToSet
  <1>4. Placed' = Placed \cup Graph!ToSet(queue)
    <2>1. PICK n : n = Len(levels) + 1
      OBVIOUS
    <2>2. 1..Len(levels') = 1..Len(levels) \cup {n}
      BY <1>1, <2>1
    <2>3. On(n)' = Graph!ToSet(queue)
      BY <1>3, <2>1
    <2>4. (Placed)' = UNION {On(l)' : l \in 1..Len(levels')}
      BY DEF Placed
    <2> QED
      BY <1>2, <2>2, <2>3, <2>4 DEF Placed
  <1> QED
    BY <1>1, <1>2, <1>3, <1>4

(* The whole queue becomes the next level.                                 *)
LEMMA AddLevelStep ==
  ASSUME Graph!DefinitionsAssumption, GraphInv, Graph!AddLevel
  PROVE  GraphInv'
  <1>1. /\ pc = "plan" /\ pc' = "plan" /\ queue # <<>> /\ def' = def /\ def \in Definitions
        /\ graphOutcome' = graphOutcome /\ visited' = visited + Len(queue) /\ levels' = Append(levels, queue)
    BY DEF Graph!AddLevel, GraphInv
  <1>2. Walked(Placed) /\ levels \in Seq(Seq(Graph!Ids))
    BY <1>1 DEF GraphInv
  <1>3. PICK Q, D : /\ Q = Graph!ToSet(queue) /\ queue' \in Graph!SetToSeqs(Graph!Ready(Q))
                    /\ indegree' = Graph!LowerTargets(Q) /\ D = Placed
    BY Zenon DEF Graph!AddLevel
  <1>4. queue \in Seq(Graph!Ids) /\ Distinct(queue) /\ Walked(D)
    BY <1>2, <1>3 DEF Walked
  <1>5. Q \subseteq Graph!ToSet(queue) /\ Cardinality(Q) = Len(queue)
    BY <1>3, <1>4, DistinctLength
  <1>6. Graph!Ready(Q) \subseteq Graph!Ids /\ IsFiniteSet(Graph!Ready(Q))
    BY <1>1, <1>4, <1>5, ReadyNodes, Zenon
  <1>7. PICK r : r = queue' /\ r \in Seq(Graph!Ready(Q)) /\ Distinct(r) /\ Graph!ToSet(r) = Graph!Ready(Q)
    BY <1>3, <1>6, OrdersOf, Zenon
  <1>8. /\ queue' \in Seq(Graph!Ids) /\ Distinct(queue)'
        /\ Graph!ToSet(queue)' = (Graph!ToSet(queue) \ Q) \cup Graph!Ready(Q)
    <2>1. queue' \in Seq(Graph!Ids)
      BY <1>6, <1>7
    <2>2. Distinct(queue)' /\ Graph!ToSet(queue)' = Graph!Ready(Q)
      BY <1>7 DEF Distinct, Graph!ToSet
    <2>3. Graph!ToSet(queue) \ Q = {}
      BY <1>3
    <2> QED
      BY <2>1, <2>2, <2>3
  <1>9. visited' = visited + Cardinality(Q)
    BY <1>1, <1>5
  <1>10. Walked(D \cup Q)'
    BY <1>1, <1>3, <1>4, <1>5, <1>8, <1>9, WalkMoves, Zenon
  <1>11. /\ levels' \in Seq(Seq(Graph!Ids)) /\ Placed' = Placed \cup Graph!ToSet(queue)
    BY <1>1, <1>2, <1>4, LevelAdded, Zenon
  <1>12. Walked(Placed)'
    BY <1>3, <1>10, <1>11, PlacedWalk
  <1>13. (def \in Definitions /\ \E X : Walked(X))'
    BY <1>1, <1>10
  <1>14. (indegree \in [Graph!Ids -> Nat] /\ Graph!ToSet(queue) \subseteq Graph!Ids /\ visited \in Nat)'
    BY <1>13, WalkTypedNext
  <1>15. /\ Graph!Cyclic' = Graph!Cyclic /\ Graph!FirstRefusal' = Graph!FirstRefusal
         /\ Graph!EngineAccepts' = Graph!EngineAccepts /\ Graph!Ids' = Graph!Ids
    BY <1>1, GraphStays, ChecksStay, Zenon
  <1>16. ~Graph!Cyclic /\ Graph!EngineAccepts /\ Graph!FirstRefusal = "" /\ (graphOutcome = "cycle" => Graph!Cyclic)
    BY <1>1 DEF GraphInv
  <1> QED
    BY <1>1, <1>11, <1>12, <1>13, <1>14, <1>15, <1>16 DEF GraphInv

(* A plan holds every node: a definition without a cycle never fails.      *)
LEMMA ReturnPlanStep ==
  ASSUME Graph!DefinitionsAssumption, GraphInv, Graph!ReturnPlan
  PROVE  GraphInv'
  <1>1. /\ pc = "plan" /\ queue = <<>> /\ def \in Definitions /\ UNCHANGED <<def, indegree, queue, visited, levels, graphOutcome>>
        /\ pc' = IF visited = Len(def.nodes) THEN "planned" ELSE "failed"
    BY DEF Graph!ReturnPlan, GraphInv
  <1>2. /\ Walked(Placed) /\ levels \in Seq(Seq(Graph!Ids)) /\ ~Graph!Cyclic /\ Graph!EngineAccepts
        /\ Graph!FirstRefusal = "" /\ indegree \in [Graph!Ids -> Nat] /\ visited \in Nat
        /\ Graph!ToSet(queue) \subseteq Graph!Ids /\ (graphOutcome = "cycle" => Graph!Cyclic)
    BY <1>1 DEF GraphInv
  <1>3. PICK D : D = Placed /\ Walked(D)
    BY <1>2
  <1>4. visited = Len(def.nodes) /\ D = Graph!Ids
    <2>1. Graph!NodesValid /\ Graph!EdgesKnown
      BY <1>2, NothingRefused
    <2> QED
      BY <1>1, <1>2, <1>3, <2>1, WalkEnds
  <1>5. Placed' = Placed /\ Graph!ToSet(queue)' = Graph!ToSet(queue)
    BY <1>1, PlanStays
  <1>6. Walked(D)'
    BY <1>1, <1>3, WalkStays
  <1>7. Walked(Placed)'
    BY <1>3, <1>5, <1>6, PlacedWalk
  <1>8. /\ Graph!Cyclic' = Graph!Cyclic /\ Graph!FirstRefusal' = Graph!FirstRefusal
        /\ Graph!EngineAccepts' = Graph!EngineAccepts /\ Graph!Ids' = Graph!Ids
    BY <1>1, GraphStays, ChecksStay, Zenon
  <1> QED
    BY <1>1, <1>2, <1>3, <1>4, <1>5, <1>7, <1>8 DEF GraphInv

LEMMA GraphStep ==
  ASSUME Graph!DefinitionsAssumption, GraphInv, [Graph!Next]_(Graph!vars)
  PROVE  GraphInv'
  <1>1. CASE Graph!Next
    BY <1>1, CheckStep, PopStep, DecideStep, StartPlanStep, AddLevelStep, ReturnPlanStep, Zenon DEF Graph!Next
  <1>2. CASE UNCHANGED Graph!vars
    <2>1. UNCHANGED <<def, pc, indegree, queue, visited, levels, graphOutcome>>
      BY <1>2 DEF Graph!vars
    <2>2. Graph!Ids' = Graph!Ids /\ Graph!Cyclic' = Graph!Cyclic
      BY <2>1, GraphStays
    <2>3. Graph!FirstRefusal' = Graph!FirstRefusal /\ Graph!EngineAccepts' = Graph!EngineAccepts
      BY <2>1, ChecksStay
    <2>4. Placed' = Placed /\ Graph!ToSet(queue)' = Graph!ToSet(queue)
      BY <2>1, PlanStays
    <2>5. \A D : Walked(D)' <=> Walked(D)
      BY <2>1, WalkStays
    <2>6. Walked(Placed) => Walked(Placed)'
      <3>1. PICK D : D = Placed
        OBVIOUS
      <3> QED
        BY <2>4, <2>5, <3>1, PlacedWalk
    <2> QED
      BY <2>1, <2>2, <2>3, <2>4, <2>5, <2>6, Zenon DEF GraphInv
  <1> QED
    BY <1>1, <1>2

(* Each level holds distinct nodes that are on no other one; the edges     *)
(* into a level come from earlier ones, and each node after the first      *)
(* level has an edge from the level before it, so has the queue.           *)
LevelInv ==
    pc \in {"plan", "planned"} =>
        /\ \A l \in 1..Len(levels) : Distinct(levels[l])
        /\ \A l \in 1..Len(levels) : \A id \in On(l) : \A e \in Graph!Incoming(id) :
             \E k \in 1..(l - 1) : Origin(e) \in On(k)
        /\ \A l \in 1..Len(levels) : l > 1 => \A id \in On(l) :
             \E e \in Graph!Incoming(id) : Origin(e) \in On(l - 1)
        /\ \A k, l \in 1..Len(levels) : k # l => On(k) \cap On(l) = {}
        /\ \A n : n = Len(levels) /\ n > 0 => \A id \in Graph!ToSet(queue) :
             \E e \in Graph!Incoming(id) : Origin(e) \in On(n)

LEMMA LevelsAdded ==
  ASSUME Graph!DefinitionsAssumption, GraphInv, LevelInv, Graph!AddLevel
  PROVE  LevelInv'
  <1>1. /\ pc = "plan" /\ def' = def /\ def \in Definitions /\ levels' = Append(levels, queue)
        /\ Walked(Placed) /\ levels \in Seq(Seq(Graph!Ids))
    BY DEF Graph!AddLevel, GraphInv
  <1>2. PICK Q, D, n : /\ Q = Graph!ToSet(queue) /\ queue' \in Graph!SetToSeqs(Graph!Ready(Q))
                       /\ D = Placed /\ n = Len(levels) + 1
    BY Zenon DEF Graph!AddLevel
  <1>3. queue \in Seq(Graph!Ids) /\ Distinct(queue) /\ Walked(D) /\ Q \cap D = {}
    BY <1>1, <1>2 DEF Walked
  <1>4. /\ Graph!Ready(Q) \subseteq Graph!Ids /\ IsFiniteSet(Graph!Ready(Q))
        /\ \A id \in Graph!Ready(Q) : \E e \in Graph!Incoming(id) : Origin(e) \in Q
    BY <1>1, <1>2, <1>3, ReadyNodes
  <1>5. Graph!ToSet(queue)' = Graph!Ready(Q)
    <2>1. PICK r : r = queue' /\ Graph!ToSet(r) = Graph!Ready(Q)
      BY <1>2, <1>4, OrdersOf, Zenon
    <2> QED
      BY <2>1 DEF Graph!ToSet
  <1>6. /\ n \in Nat \ {0} /\ Len(levels) = n - 1 /\ Len(levels') = n
        /\ \A l \in 1..(n - 1) : levels'[l] = levels[l] /\ On(l)' = On(l)
        /\ levels'[n] = queue /\ On(n)' = Q
    BY <1>1, <1>2, <1>3, LevelAdded
  <1>7. (\A id : Graph!Incoming(id)' = Graph!Incoming(id)) /\ \A e : Origin(e)' = Origin(e)
    BY <1>1, GraphStays, Zenon
  <1>8. \A l \in 1..n : l = n \/ l \in 1..(n - 1)
    BY <1>6
  <1>9. /\ \A l \in 1..(n - 1) : Distinct(levels[l])
        /\ \A l \in 1..(n - 1) : \A id \in On(l) : \A e \in Graph!Incoming(id) :
             \E k \in 1..(l - 1) : Origin(e) \in On(k)
        /\ \A l \in 1..(n - 1) : l > 1 => \A id \in On(l) :
             \E e \in Graph!Incoming(id) : Origin(e) \in On(l - 1)
        /\ \A k, l \in 1..(n - 1) : k # l => On(k) \cap On(l) = {}
        /\ n - 1 > 0 => \A id \in Q : \E e \in Graph!Incoming(id) : Origin(e) \in On(n - 1)
    BY <1>1, <1>2, <1>6 DEF LevelInv
  <1>10. \A l \in 1..n : Distinct(levels[l])'
    <2>1. ASSUME NEW l \in 1..n PROVE Distinct(levels'[l])
      BY <1>3, <1>6, <1>8, <1>9
    <2> QED
      BY <2>1 DEF Distinct
  <1>11. D = UNION {On(l) : l \in 1..(n - 1)}
    BY <1>2, <1>6 DEF Placed
  <1>12. ASSUME NEW l \in 1..n, NEW id \in On(l)', NEW e \in Graph!Incoming(id)
         PROVE  \E k \in 1..(l - 1) : Origin(e) \in On(k)'
    <2>1. CASE l \in 1..(n - 1)
      <3>1. PICK k \in 1..(l - 1) : Origin(e) \in On(k)
        BY <1>6, <1>9, <1>12, <2>1
      <3>2. k \in 1..(n - 1)
        BY <1>6, <2>1, <3>1
      <3> QED
        BY <1>6, <3>1, <3>2
    <2>2. CASE l = n
      <3>1. id \in Q /\ id \in Graph!Ids
        BY <1>2, <1>3, <1>6, <1>12, <2>2 DEF Graph!ToSet
      <3>2. Pending(D, id) = {}
        BY <1>2, <1>3, <3>1 DEF Walked
      <3>3. Origin(e) \in D
        BY <3>2 DEF Pending
      <3>4. PICK k \in 1..(n - 1) : Origin(e) \in On(k)
        BY <1>11, <3>3
      <3> QED
        BY <1>6, <2>2, <3>4
    <2> QED
      BY <1>8, <2>1, <2>2
  <1>13. ASSUME NEW l \in 1..n, l > 1, NEW id \in On(l)'
         PROVE  \E e \in Graph!Incoming(id) : Origin(e) \in On(l - 1)'
    <2>1. l - 1 \in 1..(n - 1) /\ On(l - 1)' = On(l - 1)
      BY <1>6, <1>13
    <2>2. CASE l \in 1..(n - 1)
      BY <1>6, <1>9, <1>13, <2>1, <2>2
    <2>3. CASE l = n
      <3>1. id \in Q /\ n - 1 > 0
        BY <1>6, <1>13, <2>3
      <3> QED
        BY <1>9, <2>1, <2>3, <3>1
    <2> QED
      BY <1>8, <2>2, <2>3
  <1>14. ASSUME NEW k \in 1..n, NEW l \in 1..n, k # l PROVE On(k)' \cap On(l)' = {}
    <2>1. \A j \in 1..(n - 1) : On(j)' \cap Q = {}
      BY <1>3, <1>6, <1>11
    <2>2. CASE k \in 1..(n - 1) /\ l \in 1..(n - 1)
      BY <1>6, <1>9, <1>14, <2>2
    <2>3. CASE k = n \/ l = n
      BY <1>6, <1>8, <1>14, <2>1, <2>3
    <2> QED
      BY <1>8, <2>2, <2>3
  <1>15. \A id \in Graph!ToSet(queue)' : \E e \in Graph!Incoming(id) : Origin(e) \in On(n)'
    BY <1>4, <1>5, <1>6
  <1>16. Len(levels)' = n
    BY <1>6
  <1> QED
    BY <1>7, <1>10, <1>12, <1>13, <1>14, <1>15, <1>16, Zenon DEF LevelInv

LEMMA LevelStep ==
  ASSUME Graph!DefinitionsAssumption, GraphInv, LevelInv, [Graph!Next]_(Graph!vars)
  PROVE  LevelInv'
  <1>1. CASE Graph!Check \/ Graph!Pop \/ Graph!Decide
    <2>1. pc' \notin {"plan", "planned"}
      BY <1>1 DEF Graph!Check, Graph!Pop, Graph!Decide, Graph!Refuse
    <2> QED
      BY <2>1 DEF LevelInv
  <1>2. CASE Graph!StartPlan
    <2>1. levels' = <<>>
      BY <1>2 DEF Graph!StartPlan
    <2>2. Len(levels') = 0 /\ 1..Len(levels') = {}
      BY <2>1
    <2> QED
      BY <2>2 DEF LevelInv
  <1>3. CASE Graph!AddLevel
    BY <1>3, LevelsAdded
  <1>4. CASE Graph!ReturnPlan \/ UNCHANGED Graph!vars
    <2>1. /\ UNCHANGED <<def, queue, levels>>
          /\ pc' \in {"plan", "planned"} => pc \in {"plan", "planned"}
      BY <1>4 DEF Graph!ReturnPlan, Graph!vars
    <2>2. /\ \A id : Graph!Incoming(id)' = Graph!Incoming(id)
          /\ \A e : Origin(e)' = Origin(e)
          /\ Graph!ToSet(queue)' = Graph!ToSet(queue) /\ \A l : On(l)' = On(l)
      BY <2>1, GraphStays, PlanStays, Zenon
    <2>3. \A l : Distinct(levels[l])' <=> Distinct(levels[l])
      BY <2>1, Zenon DEF Distinct
    <2> QED
      BY <2>1, <2>2, <2>3 DEF LevelInv
  <1> QED
    BY <1>1, <1>2, <1>3, <1>4 DEF Graph!Next

-----------------------------------------------------------------------------
(* What the invariants say of a definition and of its plan.                *)
LEMMA GraphTyped ==
  ASSUME Graph!DefinitionsAssumption, GraphInv
  PROVE  Graph!TypeOK /\ Graph!CycleExact /\ Graph!SavedCanBePlanned
  BY DEF GraphInv, Graph!TypeOK, Graph!CycleExact, Graph!SavedCanBePlanned

LEMMA MaxIs ==
  ASSUME NEW M, M \subseteq Nat, NEW m \in M, \A y \in M : m >= y
  PROVE  Graph!Max(M) = m
  <1>1. \A x \in M : (\A y \in M : x >= y) => x = m
    OBVIOUS
  <1> QED
    BY <1>1 DEF Graph!Max

(* Each node is at one place of the plan, on a level right after the last  *)
(* of its predecessors.                                                    *)
LEMMA PlanPlaces ==
  ASSUME Graph!DefinitionsAssumption, GraphInv, LevelInv, pc = "planned"
  PROVE  Graph!PlanOrdered
  <1>1. /\ def \in Definitions /\ levels \in Seq(Seq(Graph!Ids)) /\ Placed = Graph!Ids
        /\ Graph!FirstRefusal = ""
    BY DEF GraphInv
  <1>2. Graph!EdgesKnown /\ Cardinality(Graph!Ids) = Len(def.nodes)
    BY <1>1, NothingRefused, GraphCardinality DEF Graph!NodesValid
  <1>3. /\ \A l \in 1..Len(levels) : Distinct(levels[l])
        /\ \A l \in 1..Len(levels) : \A id \in On(l) : \A e \in Graph!Incoming(id) :
             \E k \in 1..(l - 1) : Origin(e) \in On(k)
        /\ \A l \in 1..Len(levels) : l > 1 => \A id \in On(l) :
             \E e \in Graph!Incoming(id) : Origin(e) \in On(l - 1)
        /\ \A k, l \in 1..Len(levels) : k # l => On(k) \cap On(l) = {}
    BY DEF LevelInv
  <1>4. /\ Len(levels) \in Nat /\ DOMAIN levels = 1..Len(levels)
        /\ \A l \in 1..Len(levels) : levels[l] \in Seq(Graph!Ids)
    <2>1. PICK S : S = Seq(Graph!Ids) /\ levels \in Seq(S)
      BY <1>1
    <2>2. Len(levels) \in Nat /\ DOMAIN levels = 1..Len(levels) /\ \A l \in 1..Len(levels) : levels[l] \in S
      BY <2>1
    <2> QED
      BY <2>1, <2>2
  <1>5. \A id \in Graph!Ids : \E l \in 1..Len(levels) : id \in On(l)
    BY <1>1 DEF Placed
  <1>6. ASSUME NEW l \in 1..Len(levels)
        PROVE  /\ Len(levels[l]) \in Nat /\ Len(levels[l]) <= Len(def.nodes)
               /\ DOMAIN levels[l] = 1..Len(levels[l])
    <2>1. levels[l] \in Seq(Graph!Ids) /\ Distinct(levels[l])
      BY <1>3, <1>4
    <2>2. Cardinality(On(l)) = Len(levels[l])
      BY <2>1, DistinctLength DEF On
    <2>3. On(l) \in SUBSET Graph!Ids
      BY <2>1 DEF On, Graph!ToSet
    <2>4. Cardinality(On(l)) <= Cardinality(Graph!Ids)
      BY <1>1, <2>3, GraphFinite, FS_Subset
    <2> QED
      BY <1>2, <2>1, <2>2, <2>4
  <1>7. ASSUME NEW id \in Graph!Ids, NEW l \in 1..Len(levels), id \in On(l) PROVE Graph!LevelOf(id) = l
    <2>1. \A k \in 1..Len(levels) : id \in On(k) => k = l
      BY <1>3, <1>7
    <2> QED
      BY <1>4, <1>7, <2>1 DEF Graph!LevelOf, On
  <1>8. ASSUME NEW id \in Graph!Ids PROVE Cardinality(Graph!Places(id)) = 1
    <2>1. PICK l \in 1..Len(levels) : id \in On(l)
      BY <1>5
    <2>2. PICK i \in 1..Len(levels[l]) : levels[l][i] = id
      BY <1>6, <2>1 DEF On, Graph!ToSet
    <2>3. <<l, i>> \in Graph!Places(id)
      <3>1. /\ Len(levels[l]) \in Nat /\ Len(levels[l]) <= Len(def.nodes) /\ l \in DOMAIN levels
            /\ Len(def.nodes) \in Nat
        BY <1>1, <1>4, <1>6, GraphFinite
      <3>2. <<l, i>> \in (DOMAIN levels) \X (1..Len(def.nodes)) /\ i <= Len(levels[l])
        BY <3>1
      <3> QED
        BY <2>2, <3>2 DEF Graph!Places
    <2>4. ASSUME NEW p \in Graph!Places(id) PROVE p = <<l, i>>
      <3>1. /\ p[1] \in 1..Len(levels) /\ p[2] \in 1..Len(levels[p[1]]) /\ levels[p[1]][p[2]] = id
            /\ p = <<p[1], p[2]>>
        BY <1>4, <1>6 DEF Graph!Places
      <3>2. id \in On(p[1])
        BY <1>6, <3>1 DEF On, Graph!ToSet
      <3>3. p[1] = l
        BY <1>3, <2>1, <3>1, <3>2
      <3>4. p[2] = i
        BY <1>3, <2>2, <3>1, <3>3 DEF Distinct
      <3> QED
        BY <3>1, <3>3, <3>4
    <2>5. Graph!Places(id) = {<<l, i>>}
      BY <2>3, <2>4
    <2> QED
      BY <2>5, FS_Singleton, Zenon
  <1>9. ASSUME NEW id \in Graph!Ids
        PROVE  Graph!LevelOf(id) = 1 + Graph!Max({0} \cup {Graph!LevelOf(def.edges[e][1]) : e \in Graph!Incoming(id)})
    <2> DEFINE M == {0} \cup {Graph!LevelOf(def.edges[e][1]) : e \in Graph!Incoming(id)}
    <2>1. PICK l \in 1..Len(levels) : id \in On(l)
      BY <1>5
    <2>2. Graph!LevelOf(id) = l
      BY <1>7, <2>1
    <2>3. \A e \in Graph!Incoming(id) : Graph!LevelOf(Origin(e)) \in 1..(l - 1)
      <3>1. ASSUME NEW e \in Graph!Incoming(id) PROVE Graph!LevelOf(Origin(e)) \in 1..(l - 1)
        <4>1. PICK k \in 1..(l - 1) : Origin(e) \in On(k)
          BY <1>3, <2>1
        <4>2. k \in 1..Len(levels)
          BY <1>4, <4>1
        <4>3. Origin(e) \in Graph!Ids
          BY <1>2 DEF Graph!EdgesKnown, Graph!Incoming, Origin
        <4> QED
          BY <1>7, <4>1, <4>2, <4>3
      <3> QED
        BY <3>1
    <2>4. M \subseteq Nat /\ \A y \in M : l - 1 >= y
      BY <1>4, <2>1, <2>3 DEF Origin
    <2>5. l - 1 \in M
      <3>1. CASE l = 1
        BY <3>1
      <3>2. CASE l > 1
        <4>1. PICK e \in Graph!Incoming(id) : Origin(e) \in On(l - 1)
          BY <1>3, <2>1, <3>2
        <4>2. Origin(e) \in Graph!Ids
          BY <1>2 DEF Graph!EdgesKnown, Graph!Incoming, Origin
        <4>3. Graph!LevelOf(Origin(e)) = l - 1
          BY <1>4, <1>7, <3>2, <4>1, <4>2
        <4> QED
          BY <4>3 DEF Origin
      <3> QED
        BY <1>4, <2>1, <3>1, <3>2
    <2> HIDE DEF M
    <2>6. Graph!Max(M) = l - 1
      BY <2>4, <2>5, MaxIs
    <2>7. Graph!LevelOf(id) = 1 + Graph!Max(M)
      BY <1>4, <2>2, <2>6
    <2> QED
      BY <2>7 DEF M
  <1> QED
    BY <1>8, <1>9, GraphCardinality, Zenon DEF Graph!PlanOrdered

(* What is planned was accepted: no agent, no policy that an engine would  *)
(* ignore, and one end on each side of an engine's own job.                *)
LEMMA PlanRuns ==
  ASSUME Graph!DefinitionsAssumption, GraphInv, pc = "planned"
  PROVE  Graph!PlannedIsRunnable
  <1>1. def \in Definitions /\ Graph!FirstRefusal = "" /\ Graph!EngineAccepts
    BY DEF GraphInv
  <1>2. Graph!AgentAdmission /\ Graph!NodePolicies
    BY <1>1, NothingRefused
  <1>3. ASSUME NEW n \in Graph!NodeSet PROVE n.activity # "agent.run" /\ n.type # "agent"
    BY <1>2 DEF Graph!AgentAdmission, Graph!AgentNodeValid, Graph!IsAgent
  <1>4. ASSUME def.engine \in {"stream-direct", "spark-sql", "flink-sql"}
        PROVE  Graph!OneSourceOneSink /\ Graph!OwnEngine
    <2>1. Graph!OneSourceOneSink
      BY <1>1, <1>4 DEF Graph!EngineAccepts, Graph!validateStreamDirect, Graph!validateSparkSQL, Graph!validateFlinkSQL
    <2> QED
      BY <1>4, <2>1 DEF Graph!OwnEngine
  <1>5. \A n \in Graph!NodeSet : n.policy \in {"none", "ok", "bad"}
    BY <1>1 DEF Graph!DefinitionsAssumption, Graph!NodeSet, Graph!ToSet
  <1>6. ASSUME Graph!OneSourceOneSink, NEW t \in {"source", "sink"},
               NEW n \in Graph!NodeSet, NEW m \in Graph!NodeSet, n.type = t, m.type = t
        PROVE  m = n
    <2>1. Cardinality(Graph!NodesOf(t)) = 1
      BY <1>6, GraphCardinality DEF Graph!OneSourceOneSink
    <2>2. IsFiniteSet(Graph!NodesOf(t))
      <3>1. Graph!NodesOf(t) \in SUBSET (1..Len(def.nodes)) /\ Len(def.nodes) \in Nat
        BY <1>1, GraphFinite DEF Graph!NodesOf
      <3> QED
        <4>1. IsFiniteSet(1..Len(def.nodes))
          BY <3>1, FS_Interval
        <4> QED
          BY <3>1, <4>1, FS_Subset
    <2>3. PICK x : Graph!NodesOf(t) = {x}
      BY <2>1, <2>2, FS_Singleton, Zenon
    <2>4. PICK i \in DOMAIN def.nodes, j \in DOMAIN def.nodes : n = def.nodes[i] /\ m = def.nodes[j]
      BY DEF Graph!NodeSet, Graph!ToSet
    <2>5. i \in Graph!NodesOf(t) /\ j \in Graph!NodesOf(t)
      BY <1>6, <2>4 DEF Graph!NodesOf
    <2> QED
      BY <2>3, <2>4, <2>5
  <1>7. ASSUME def.engine \in {"stream-direct", "spark-sql", "flink-sql"}, NEW n \in Graph!NodeSet
        PROVE  n.policy = "none" /\ (n.type \in {"source", "sink"} => \A m \in Graph!NodeSet : m.type = n.type => m = n)
    <2>1. n.policy = "none"
      BY <1>2, <1>4, <1>5, <1>7 DEF Graph!NodePolicies
    <2> QED
      BY <1>4, <1>6, <1>7, <2>1
  <1> QED
    BY <1>3, <1>7 DEF Graph!PlannedIsRunnable

LEMMA PlanShown ==
  ASSUME Graph!DefinitionsAssumption, GraphInv, LevelInv
  PROVE  Graph!PlanOrdered
  <1>1. pc # "planned" => Graph!PlanOrdered
    BY DEF Graph!PlanOrdered
  <1> QED
    BY <1>1, PlanPlaces

LEMMA RunShown ==
  ASSUME Graph!DefinitionsAssumption, GraphInv
  PROVE  Graph!PlannedIsRunnable
  <1>1. pc # "planned" => Graph!PlannedIsRunnable
    BY DEF Graph!PlannedIsRunnable
  <1> QED
    BY <1>1, PlanRuns

(* A graph is refused as cyclic exactly when it has a cycle, and what was  *)
(* accepted is planned, for any definitions.                               *)
THEOREM CyclesRefused ==
  ASSUME Graph!DefinitionsAssumption
  PROVE  Graph!Spec => [](Graph!TypeOK /\ Graph!CycleExact /\ Graph!SavedCanBePlanned)
  <1>1. Graph!Init => GraphInv
    BY GraphInit
  <1>2. GraphInv /\ [Graph!Next]_(Graph!vars) => GraphInv'
    BY GraphStep
  <1>3. GraphInv => Graph!TypeOK /\ Graph!CycleExact /\ Graph!SavedCanBePlanned
    BY GraphTyped
  <1> QED
    BY <1>1, <1>2, <1>3, PTL DEF Graph!Spec

(* Every node of a plan comes once, right after the last of its            *)
(* predecessors, and the plan can run as it was defined.                   *)
THEOREM PlansOrdered ==
  ASSUME Graph!DefinitionsAssumption
  PROVE  Graph!Spec => [](Graph!PlanOrdered /\ Graph!PlannedIsRunnable)
  <1>1. Graph!Init => GraphInv /\ LevelInv
    BY GraphInit DEF LevelInv, Graph!Init
  <1>2. (GraphInv /\ LevelInv) /\ [Graph!Next]_(Graph!vars) => (GraphInv /\ LevelInv)'
    BY GraphStep, LevelStep
  <1>3. GraphInv /\ LevelInv => Graph!PlanOrdered /\ Graph!PlannedIsRunnable
    BY PlanShown, RunShown
  <1> QED
    BY <1>1, <1>2, <1>3, PTL DEF Graph!Spec

===============================================================================
