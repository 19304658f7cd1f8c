---------------------------- MODULE SourcePaging ----------------------------
(***************************************************************************)
(* A source node that reads a growing table page by page, in runs that may *)
(* overlap: each run starts from the saved cursor, reads pages up to a     *)
(* cap, hands its rows to the sinks and then saves the cursor it reached.  *)
(*                                                                         *)
(* A row is its value in the cursor column and its value in the unique     *)
(* key column (_id for MongoDB).  Values and keys are positive numbers; 0  *)
(* is NULL, and in a cursor the absence of the field.                      *)
(***************************************************************************)
EXTENDS Integers, FiniteSets, Sequences, FiniteSetsExt, Functions

CONSTANTS
    Source,     \* "sql" (PostgreSQL, MySQL), "snowflake" or "mongo"
    PageSize,
    MaxPages,   \* maxSourcePagesPerRun
    Window,     \* the backfill partition <<from, to>>, or <<>>
    KeyColumn,  \* is a keyColumn configured at first?
    Edits,      \* the edits of the configuration: {"add"}, {"drop"} or both
    NullsFirst, \* how the database orders NULL
    Values,     \* values of the cursor column
    MaxKey,     \* bound on the rows of the table
    Run,        \* runs in progress at a time
    MaxFails    \* bound on failing runs and on failing reads of the cursor

PagingAssumption ==
    /\ Source \in {"sql", "snowflake", "mongo"}
    /\ {PageSize, MaxPages} \subseteq Nat \ {0} /\ {MaxKey, MaxFails} \subseteq Nat
    /\ Window = <<>> \/ Window \in Nat \X Nat
    /\ Values \subseteq Nat /\ KeyColumn \in BOOLEAN /\ NullsFirst \in BOOLEAN
    /\ Edits \subseteq {"add", "drop"}

VARIABLES
    table,     \* rows of the source table
    saved,     \* connector_state.cursor
    keyColumn, \* is a keyColumn configured now?
    run,       \* run[r]: a run of the pipeline
    delivered, \* rows that the sinks have received
    fails      \* the failures so far

vars == <<table, saved, keyColumn, run, delivered, fails>>

Null == 0
NoCursor == [value |-> Null, key |-> Null]
Idle == [at |-> "idle", cursor |-> NoCursor, got |-> <<>>, pages |-> 0, keyed |-> FALSE]

TypeOK ==
    /\ \A x \in table : x.c \in Values /\ x.k \in 1..MaxKey
    /\ \A x, y \in table : x.k = y.k => x = y
    /\ saved.value \in Values \cup {Null} /\ saved.key \in 0..MaxKey /\ keyColumn \in BOOLEAN
    /\ \A r \in Run :
        /\ run[r].at \in {"idle", "reading", "read", "delivered"}
        /\ run[r].pages \in 0..MaxPages /\ Range(run[r].got) \subseteq table
        /\ Source = "sql" /\ Window # <<>> => \A x \in Range(run[r].got) : x.c >= Window[1] /\ x.c < Window[2]
    /\ delivered \subseteq table /\ fails \in 0..MaxFails

Init ==
    /\ table = {} /\ saved = NoCursor /\ keyColumn = KeyColumn
    /\ run = [r \in Run |-> Idle] /\ delivered = {} /\ fails = 0

-----------------------------------------------------------------------------
(* The table.  Values of the cursor column do not decrease; they may tie   *)
(* with the newest only when the key column orders the ties.               *)
AlwaysKeyed == Source = "mongo" \/ (Source = "sql" /\ KeyColumn /\ "drop" \notin Edits)
InsertRow(c) ==
    /\ Cardinality(table) < MaxKey
    /\ \A x \in table : c = Null \/ (IF AlwaysKeyed THEN x.c <= c ELSE x.c < c)
    /\ table' = table \cup {[c |-> c, k |-> Cardinality(table) + 1]}
    /\ UNCHANGED <<saved, keyColumn, run, delivered, fails>>

(* A block of rows that share one value, committed together.               *)
InsertTies(c, n) ==
    /\ Cardinality(table) + n <= MaxKey /\ \A x \in table : x.c < c
    /\ table' = table \cup {[c |-> c, k |-> Cardinality(table) + i] : i \in 1..n}
    /\ UNCHANGED <<saved, keyColumn, run, delivered, fails>>

EditKeyColumn(edit) ==
    /\ edit \in Edits /\ keyColumn # (edit = "add") /\ keyColumn' = (edit = "add")
    /\ UNCHANGED <<table, saved, run, delivered, fails>>

-----------------------------------------------------------------------------
(* planIncrementalPage: the WHERE clause.  A comparison with NULL is never *)
(* true.                                                                   *)
AfterValue(x, cur) == x.c > cur.value
After(x, cur) == x.c > cur.value \/ (x.c = cur.value /\ x.k > cur.key)
InWindow(x, cur) == Window # <<>> =>
    /\ cur.value = Null => x.c # Null /\ x.c >= Window[1]
    /\ x.c # Null /\ x.c < Window[2]
PlanIncrementalPage(x, cur, keyed) ==
    /\ InWindow(x, cur)
    /\ \/ cur.value = Null
       \/ x.c # Null /\ (IF ~keyed THEN x.c > cur.value
                         ELSE IF cur.key # Null THEN After(x, cur) ELSE x.c >= cur.value)

SnowflakeWhere(x, cur) == cur.value = Null \/ x.c > cur.value

(* mongoPageFilter: $gt compares within one type, and null is a type.      *)
MongoFilterByValue(x, cur) == x.c >= cur.value
MongoPageFilter(x, cur) ==
    \/ cur = NoCursor
    \/ cur.value # Null /\ After(x, cur)
    \/ cur.value = Null /\ x.c = Null /\ x.k > cur.key

Selects(x, cur, keyed) ==
    CASE Source = "sql" -> PlanIncrementalPage(x, cur, keyed)
      [] Source = "snowflake" -> SnowflakeWhere(x, cur)
      [] Source = "mongo" -> MongoPageFilter(x, cur)
Selected(cur, keyed) == {x \in table : Selects(x, cur, keyed)}

(* ORDER BY the cursor column, then the key, LIMIT PageSize + 1; without a *)
(* key the order of ties is the database's, and the cut below makes it     *)
(* irrelevant.                                                             *)
Precedes(x, y) ==
    IF x.c = y.c THEN x.k < y.k
    ELSE IF Null \in {x.c, y.c} THEN NullsFirst = (x.c = Null)
    ELSE x.c < y.c
Place(x, S) == 1 + Cardinality({y \in S : Precedes(y, x)})
Query(cur, keyed) ==
    LET S == Selected(cur, keyed) IN
    [i \in 1..Min({Cardinality(S), PageSize + 1}) |-> CHOOSE x \in S : Place(x, S) = i]

(* finishIncrementalPage: what is kept of PageSize + 1 rows.  Without a    *)
(* key the page ends before the rows that tie with the first one of the    *)
(* next page.                                                              *)
PageEnd(rows) == Min({end \in 0..PageSize : \A i \in end + 1..PageSize : rows[i].c = rows[PageSize + 1].c})
Kept(rows, keyed) ==
    IF Len(rows) <= PageSize THEN rows
    ELSE SubSeq(rows, 1, IF keyed THEN PageSize ELSE PageEnd(rows))

TooManyTies(rows, keyed) == Len(rows) > PageSize /\ Kept(rows, keyed) = <<>>

(* The checkpoint.  An unkeyed page leaves the key of the cursor alone.    *)
NextCursor(cur, kept, keyed) ==
    IF kept = <<>> THEN cur
    ELSE [value |-> kept[Len(kept)].c, key |-> IF keyed THEN kept[Len(kept)].k ELSE cur.key]

-----------------------------------------------------------------------------
(* runSource and fetchSourcePage.                                          *)
Keyed == CASE Source = "sql" -> keyColumn [] Source = "snowflake" -> FALSE [] Source = "mongo" -> TRUE

Start(r, cur) == run' = [run EXCEPT ![r] = [Idle EXCEPT !.at = "reading", !.cursor = cur, !.keyed = Keyed]]

(* A run whose read of the cursor fails begins without one.                *)
StartRun(r) ==
    /\ run[r] = Idle
    /\ \/ Start(r, saved) /\ UNCHANGED fails
       \/ Start(r, NoCursor) /\ fails < MaxFails /\ fails' = fails + 1
    /\ UNCHANGED <<table, saved, keyColumn, delivered>>

NeverResumable(cur) == FALSE
ResumableSource(cur) == cur # NoCursor /\ Window = <<>>

(* One page.  At the cap a resumable source stops and a backfill fails; so *)
(* does a page of ties that no key orders.                                 *)
FetchSourcePage(r) ==
    LET rows == Query(run[r].cursor, run[r].keyed)
        kept == Kept(rows, run[r].keyed)
        next == NextCursor(run[r].cursor, kept, run[r].keyed)
        pages == run[r].pages + 1
        more == Len(rows) > PageSize
    IN
    /\ run[r].at = "reading"
    /\ IF TooManyTies(rows, run[r].keyed) \/ (more /\ pages >= MaxPages /\ ~ResumableSource(next))
       THEN run' = [run EXCEPT ![r] = Idle]
       ELSE run' = [run EXCEPT ![r].at = IF more /\ pages < MaxPages THEN "reading" ELSE "read",
                               ![r].cursor = next, ![r].got = @ \o kept, ![r].pages = pages]
    /\ UNCHANGED <<table, saved, keyColumn, delivered, fails>>

SinksWrite(r) ==
    /\ run[r].at = "read" /\ run' = [run EXCEPT ![r].at = "delivered"]
    /\ delivered' = delivered \cup Range(run[r].got)
    /\ UNCHANGED <<table, saved, keyColumn, fails>>

(* The last writer wins, whichever run began first.                        *)
CommitSourceCursors(r) ==
    /\ run[r].at = "delivered" /\ saved' = run[r].cursor /\ run' = [run EXCEPT ![r] = Idle]
    /\ UNCHANGED <<table, keyColumn, delivered, fails>>

RunFails(r) ==
    /\ run[r] # Idle /\ fails < MaxFails /\ fails' = fails + 1
    /\ run' = [run EXCEPT ![r] = Idle]
    /\ UNCHANGED <<table, saved, keyColumn, delivered>>

-----------------------------------------------------------------------------
Next ==
    \/ \E c \in Values : InsertRow(c) \/ (\E n \in 2..PageSize + 1 : InsertTies(c, n))
    \/ \E edit \in Edits : EditKeyColumn(edit)
    \/ \E r \in Run : \/ StartRun(r) \/ FetchSourcePage(r) \/ SinksWrite(r)
                      \/ CommitSourceCursors(r) \/ RunFails(r)

(* A schedule keeps starting runs, and Temporal carries each one on.       *)
Fairness == \A r \in Run : WF_vars(StartRun(r) \/ FetchSourcePage(r) \/ SinksWrite(r) \/ CommitSourceCursors(r))

Spec == Init /\ [][Next]_vars /\ Fairness

-----------------------------------------------------------------------------
(* The saved cursor never passes over a row: what the next run will not    *)
(* select any more has reached the sinks, in spite of ties at the page     *)
(* boundary, of failing runs, and of runs that overlap and save their      *)
(* cursors in the order in which they end.                                 *)
Wanted == {x \in table : Window # <<>> => x.c >= Window[1] /\ x.c < Window[2]}
SavedIsDelivered ==
    \A x \in Wanted : \/ x \in delivered
                      \/ \E y \in Selected(saved, Keyed) : y = x

(* A run resumes each page exactly where the last one ended: it reads no   *)
(* row twice.                                                              *)
ReadOnce == \A r \in Run : IsInjective(run[r].got)

(* A table larger than one run may read is still read to its end, because  *)
(* a capped run saves its cursor: every row reaches the sinks, unless an   *)
(* unkeyed page is full of ties.                                           *)
Tied == \E x \in table : Cardinality({y \in table : y.c = x.c}) > PageSize
EveryRowArrives == \A k \in 1..MaxKey :
    (\E x \in table : x.k = k) ~> ((\E x \in delivered : x.k = k) \/ (~Keyed /\ Tied))
=============================================================================
