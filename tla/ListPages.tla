----------------------------- MODULE ListPages -----------------------------
(***************************************************************************)
(* The listings a client reads page after page: pipelines (all versions,   *)
(* or the current one of every logical pipeline), executions, and the runs *)
(* of the lineage view.  A page is the rows after the cursor in descending *)
(* (created_at, id) order, one row more than the limit telling whether     *)
(* there is a next page.  Rows are inserted, saved again and moved in and  *)
(* out of the filter while a client walks the pages.                       *)
(***************************************************************************)
EXTENDS Naturals, FiniteSets

CONSTANTS
    Route,     \* "pipelines", "current", "executions" or "lineage"
    Keys,      \* logical pipelines (of executions: the pipelines they run)
    MaxId,     \* ids of rows are 1 .. MaxId, handed out in no order
    MaxTime,   \* bound on the clock
    Limit      \* rows of a page

ListPagesAssumption ==
    /\ Route \in {"pipelines", "current", "executions", "lineage"}
    /\ MaxId \in Nat /\ MaxTime \in Nat \ {0} /\ Limit \in Nat \ {0}

VARIABLES
    rows,     \* the table: records [id, key, version, at]
    match,    \* ids of the rows the request's filters and access let through
    clock,
    walk,     \* "idle", "walking" or "done"
    cursor,   \* nextCursor of the last answer, or None
    listed,   \* in how many pages of this walk a row was (2: two or more)
    kept      \* keys of the listing that were left alone since the walk began

vars == <<rows, match, clock, walk, cursor, listed, kept>>

None == [at |-> 0, id |-> 0]

Ids == 1 .. MaxId

Less(r, q) == r.at < q.at \/ (r.at = q.at /\ r.id < q.id)

AfterOrAt(c, R) == {r \in R : c = None \/ ~ Less(c, r)}

\* WHERE (created_at, id) < (cursor's)
After(c, R) == {r \in R : c = None \/ Less(r, c)}

\* ORDER BY created_at DESC, id DESC LIMIT n
Top(R, n) == {r \in R : Cardinality({q \in R : Less(r, q)}) < n}

\* SELECT DISTINCT ON (pipeline_key, environment) ... ORDER BY version DESC
Current(R) == {r \in R : \A q \in R : q.key = r.key => q.version <= r.version}

Listing == {r \in (IF Route = "current" THEN Current(rows) ELSE rows) : r.id \in match}

PipelinePage == Top(After(cursor, Listing), Limit + 1)

\* With paged=1 the query, which ends in LIMIT limit, is wrapped in another one.
ExecutionPage == Top(Top(After(cursor, Listing), Limit), Limit + 1)

RuntimeRunsPage == Top(After(cursor, Listing), Limit + 1)

Page ==
    CASE Route \in {"pipelines", "current"} -> PipelinePage
      [] Route = "executions" -> ExecutionPage
      [] Route = "lineage" -> RuntimeRunsPage

HasMore(page) == Cardinality(page) > Limit

Last(R) == CHOOSE r \in R : \A q \in R : ~ Less(q, r)

Lookahead(items) == [at |-> Last(PipelinePage).at, id |-> Last(PipelinePage).id]

\* The last row of a page is where the next one starts.
NextCursor(items) == [at |-> Last(items).at, id |-> Last(items).id]

\* What a walk follows: versions of a key in the current view, rows elsewhere.
Subject(r) == IF Route = "current" THEN r.key ELSE r.id

Subjects == {Subject(r) : r \in Listing}

Init ==
    /\ rows = {} /\ match = {} /\ clock = 1
    /\ walk = "idle" /\ cursor = None
    /\ listed = [i \in Ids |-> 0] /\ kept = {}

FreeIds == Ids \ {r.id : r \in rows}

(***************************************************************************)
(* A row is inserted: a new execution, or a new version of a pipeline.     *)
(* created_at is when the transaction began, so a row may appear behind    *)
(* one that is already there.                                              *)
(***************************************************************************)
Insert(k, id) ==
    /\ id \in FreeIds
    /\ \E at \in (clock - 1) .. clock, m \in BOOLEAN :
           /\ at > 0
           /\ rows' = rows \cup {[id |-> id, key |-> k, at |-> at,
                                  version |-> 1 + Cardinality({r \in rows : r.key = k})]}
           /\ match' = IF m THEN match \cup {id} ELSE match
    /\ kept' = IF Route = "current" THEN kept \ {k} ELSE kept
    /\ UNCHANGED <<clock, walk, cursor, listed>>

\* An activation, a grant or a phase change moves a row in or out of the filter.
Refilter(r) ==
    /\ match' = IF r.id \in match THEN match \ {r.id} ELSE match \cup {r.id}
    /\ kept' = kept \ {Subject(r)}
    /\ UNCHANGED <<rows, clock, walk, cursor, listed>>

Tick ==
    /\ clock < MaxTime
    /\ clock' = clock + 1
    /\ UNCHANGED <<rows, match, walk, cursor, listed, kept>>

\* A walk begins with no cursor.
Begin ==
    /\ walk = "idle"
    /\ walk' = "walking"
    /\ kept' = Subjects
    /\ UNCHANGED <<rows, match, clock, cursor, listed>>

\* pipelineList, executionList and runtimeLineageRuns: one page of the walk.
ReadPage ==
    /\ walk = "walking"
    /\ LET page  == Page
           items == Top(page, Limit)
           again(i) == listed[i] < 2 /\ \E r \in items : r.id = i
       IN  /\ listed' = [i \in Ids |-> IF again(i) THEN listed[i] + 1 ELSE listed[i]]
           /\ cursor' = IF HasMore(page) THEN NextCursor(items) ELSE None
           /\ walk' = IF HasMore(page) THEN "walking" ELSE "done"
    /\ UNCHANGED <<rows, match, clock, kept>>

Next ==
    \/ \E k \in Keys, id \in Ids : Insert(k, id)
    \/ \E r \in rows : Refilter(r)
    \/ Tick
    \/ Begin
    \/ ReadPage

Spec == Init /\ [][Next]_vars /\ WF_vars(Begin) /\ WF_vars(ReadPage)

----------------------------------------------------------------------------
(* Every variable keeps its type, and a cursor names a row.                 *)
TypeOK ==
    /\ rows \subseteq [id : Ids, key : Keys, version : 1 .. MaxId, at : 1 .. MaxTime]
    /\ match \subseteq {r.id : r \in rows}
    /\ clock \in 1 .. MaxTime
    /\ walk \in {"idle", "walking", "done"}
    /\ cursor # None => \E r \in rows : cursor = [at |-> r.at, id |-> r.id]
    /\ listed \in [Ids -> 0 .. 2]
    /\ walk = "done" => cursor = None

(* keyset pagination on (created_at,id): however rows are inserted and     *)
(* refiltered between two pages, and however many share a created_at, a    *)
(* walk that has ended listed every row that was there all along.          *)
WalkComplete ==
    walk = "done" =>
        \A s \in kept : \E r \in rows : Subject(r) = s /\ listed[r.id] > 0

(* No row is in two pages of a walk.                                       *)
ListedOnce == \A i \in Ids : listed[i] <= 1

(* Rows keep arriving, but in front of the cursor: every walk ends.        *)
WalkEnds == walk = "walking" ~> walk = "done"
=============================================================================
