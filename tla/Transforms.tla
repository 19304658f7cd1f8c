----------------------------- MODULE Transforms -----------------------------
(***************************************************************************)
(* The transforms whose output depends on more than one record: dedupe,    *)
(* data contract and merge, applied to every small input and compared with *)
(* what they are meant to compute.  A step is one turn of the loop of the  *)
(* handler.  A record is an object, a partial function from fields to      *)
(* values, or a scalar, which reads as an object without fields.  The join *)
(* key and the dedupe key are the field id.                                *)
(***************************************************************************)
EXTENDS Naturals, Sequences, FiniteSets

CONSTANTS
    Ops,       \* operations of the run
    Left,      \* records of the first input
    Right,     \* records of the second input of a merge
    MaxRows    \* records of an input

VARIABLES
    op,        \* the handler, with its configuration
    a, b,      \* its input; only a merge has a second one
    passed,    \* turns of the loop so far
    joinKeys,  \* keys of a join, in the order of the output
    out        \* the records so far, and the status of the result

vars == <<op, a, b, passed, joinKeys, out>>

\* Ids are numbers and 0 is null; the other values are strings, with their kinds.
Null == 0

Object(f) == [object |-> TRUE, f |-> f]

Scalar == [object |-> FALSE, f |-> <<>>]

Id(row) == IF "id" \in DOMAIN row.f THEN row.f.id ELSE Null

\* The fields of `top` replace those of `below`.
Override(top, below) ==
    [x \in DOMAIN top \cup DOMAIN below |-> IF x \in DOMAIN top THEN top[x] ELSE below[x]]

IsRecord(row) ==
    /\ row = [object |-> row.object, f |-> [x \in DOMAIN row.f |-> row.f[x]]]
    /\ row.object \in BOOLEAN /\ (~row.object => row = Scalar)
    /\ Id(row) \in Nat

Joins == {"innerJoin", "leftJoin", "outerJoin"}

IsOp(o) ==
    \/ o.name = "dedupe" /\ o.mode \in {"first", "last"}
    \/ o.name = "contract" /\ o.mode \in {"fail", "drop", "quarantine"}
    \/ o.name = "merge" /\ o.mode \in {"concat", "union", "appendWithSourceTag"} \cup Joins

TransformsAssumption ==
    /\ MaxRows \in Nat
    /\ \A row \in Left \cup Right : IsRecord(row)
    /\ \A o \in Ops : IsOp(o)

----------------------------------------------------------------------------
(* The inputs, one after the other.                                        *)
Total == Len(a) + Len(b)

Row(i) == IF i <= Len(a) THEN a[i] ELSE b[i - Len(a)]

Elements(s) == {s[i] : i \in 1 .. Len(s)}

AllObjects(s) == \A i \in 1 .. Len(s) : s[i].object

Turn(name) == op.name = name /\ out.status = "pending" /\ passed < Total /\ passed' = passed + 1

Result(rows, status) == out' = [out EXCEPT !.rows = rows, !.status = status]

Refuse == Result(<<>>, "SchemaValidationError")

Emit(row) == out' = [out EXCEPT !.rows = Append(@, row)]

----------------------------------------------------------------------------
PositionOf(acc, row) == {i \in 1 .. Len(acc) : Id(acc[i]) = Id(row)}

KeepFirst(acc, row, keep) == IF PositionOf(acc, row) = {} THEN Append(acc, row) ELSE acc

\* One record of dedupeHandler: a known key keeps its place in the order.
DedupeRow(acc, row, keep) ==
    IF PositionOf(acc, row) = {} THEN Append(acc, row)
    ELSE IF keep = "last" THEN [i \in 1 .. Len(acc) |-> IF Id(acc[i]) = Id(row) THEN row ELSE acc[i]]
    ELSE acc

Dedupe ==
    /\ Turn("dedupe")
    /\ Result(DedupeRow(out.rows, Row(passed + 1), op.mode), "pending")
    /\ UNCHANGED <<op, a, b, joinKeys>>

----------------------------------------------------------------------------
\* contractMatches for the kinds of the instance; "any" matches every value.
ContractMatches(value, kind) ==
    \/ kind = "any"
    \/ kind = "string" /\ value = "text"
    \/ kind = "number" /\ value = "num"

Strict(row, schema) == \A f \in DOMAIN schema \cap DOMAIN row.f : ContractMatches(row.f[f], schema[f].kind)

\* The checks of one record: a missing or null field is a problem unless optional.
Conforms(row, schema) ==
    /\ row.object
    /\ \A f \in DOMAIN schema :
           IF f \in DOMAIN row.f /\ row.f[f] # "null"
           THEN ContractMatches(row.f[f], schema[f].kind)
           ELSE schema[f].optional

Contract ==
    /\ Turn("contract")
    /\ LET row == Row(passed + 1) IN
       \/ Conforms(row, op.schema) /\ Emit(row)
       \/ ~Conforms(row, op.schema) /\ op.mode = "fail" /\ Refuse
       \/ ~Conforms(row, op.schema) /\ op.mode # "fail" /\ out' = [out EXCEPT !.failed = @ + 1]
    /\ UNCHANGED <<op, a, b, joinKeys>>

----------------------------------------------------------------------------
Concat ==
    /\ op.name = "merge" /\ op.mode = "concat" /\ out.status = "pending"
    /\ Result(a \o b, "ok")
    /\ UNCHANGED <<op, a, b, passed, joinKeys>>

UnionOfNeighbours ==
    /\ Turn("merge") /\ op.mode = "union"
    /\ IF out.rows # <<>> /\ Row(passed + 1) = out.rows[Len(out.rows)] THEN UNCHANGED out ELSE Emit(Row(passed + 1))
    /\ UNCHANGED <<op, a, b, joinKeys>>

Union ==
    /\ Turn("merge") /\ op.mode = "union"
    /\ IF Row(passed + 1) \in Elements(out.rows) THEN UNCHANGED out ELSE Emit(Row(passed + 1))
    /\ UNCHANGED <<op, a, b, joinKeys>>

\* Each record gets the position of its input in the list of refs.
SourceOf(i) == IF i <= Len(a) THEN 0 ELSE 1

AppendWithSourceTag ==
    /\ Turn("merge") /\ op.mode = "appendWithSourceTag"
    /\ LET row == Row(passed + 1) IN
       IF row.object THEN Emit(Object(Override([_source |-> SourceOf(passed + 1)], row.f))) ELSE Refuse
    /\ UNCHANGED <<op, a, b, joinKeys>>

----------------------------------------------------------------------------
\* index: the last record of a key wins.
IndexOf(s, k) ==
    LET at == {i \in 1 .. Len(s) : Id(s[i]) = k}
    IN  IF at = {} THEN Object(<<>>) ELSE s[CHOOSE i \in at : \A j \in at : j <= i]

Has(s, k) == \E i \in 1 .. Len(s) : Id(s[i]) = k

KeysInOrder(s) == [i \in 1 .. Len(s) |-> Id(s[i])]

SortedKeys(K) == {s \in [1 .. Cardinality(K) -> K] : \A i, j \in DOMAIN s : i < j => s[i] < s[j]}

Index ==
    /\ op.name = "merge" /\ op.mode \in Joins /\ out.status = "pending"
    /\ IF AllObjects(a) /\ AllObjects(b)
       THEN /\ joinKeys' \in IF op.mode = "outerJoin"
                             THEN SortedKeys({Id(r) : r \in Elements(a) \cup Elements(b)})
                             ELSE {KeysInOrder(a)}
            /\ Result(<<>>, "keyed")
       ELSE Refuse /\ UNCHANGED joinKeys
    /\ UNCHANGED <<op, a, b, passed>>

LeftWins(k) == Object(Override(IndexOf(a, k).f, IndexOf(b, k).f))

\* The fields of the right record override those of the left.
Joined(k) == Object(Override(IndexOf(b, k).f, IndexOf(a, k).f))

Join ==
    /\ out.status = "keyed" /\ passed < Len(joinKeys) /\ passed' = passed + 1
    /\ LET k == joinKeys[passed + 1] IN
       IF op.mode = "innerJoin" /\ ~Has(b, k) THEN UNCHANGED out ELSE Emit(Joined(k))
    /\ UNCHANGED <<op, a, b, joinKeys>>

----------------------------------------------------------------------------
ReturnStatus ==
    IF op.name # "contract" THEN "ok" ELSE IF out.failed > 0 THEN "warning" ELSE "passed"

Return ==
    /\ \/ out.status = "keyed" /\ passed = Len(joinKeys)
       \/ out.status = "pending" /\ passed = Total /\ op.mode \notin Joins \cup {"concat"}
    /\ Result(out.rows, ReturnStatus)
    /\ UNCHANGED <<op, a, b, passed, joinKeys>>

\* The inputs of up to MaxRows records.
InputsOf(S) == UNION {[1 .. n -> S] : n \in 0 .. MaxRows}

Init ==
    /\ op \in Ops
    /\ a \in InputsOf(Left)
    /\ b \in (IF op.name = "merge" THEN InputsOf(Right) ELSE {<<>>})
    /\ passed = 0 /\ joinKeys = <<>>
    /\ out = [rows |-> <<>>, status |-> "pending", failed |-> 0]

Next == Dedupe \/ Contract \/ Concat \/ Union \/ AppendWithSourceTag \/ Index \/ Join \/ Return

Spec == Init /\ [][Next]_vars

----------------------------------------------------------------------------
Statuses == {"pending", "keyed", "ok", "passed", "warning", "SchemaValidationError"}

(* An error has no records, and what is written otherwise is an object, or *)
(* a scalar that was passed on.                                            *)
TypeOK ==
    /\ out.status \in Statuses
    /\ out.status = "SchemaValidationError" => out.rows = <<>>
    /\ \A i \in 1 .. Len(out.rows) : out.rows[i].object \/ out.rows[i] = Scalar

Done(name) == op.name = name /\ out.status \notin {"pending", "keyed"}

FirstWith(s, k) == CHOOSE i \in 1 .. Len(s) : Id(s[i]) = k /\ \A j \in 1 .. i - 1 : Id(s[j]) # k

LastWith(s, k) == CHOOSE i \in 1 .. Len(s) : Id(s[i]) = k /\ \A j \in i + 1 .. Len(s) : Id(s[j]) # k

(* dedupeHandler: one record for each key of the input, the first or the   *)
(* last one as configured, in the order in which the keys first appear.    *)
DedupeReference ==
    Done("dedupe") =>
        /\ Len(out.rows) = Cardinality({Id(r) : r \in Elements(a)})
        /\ \A i \in 1 .. Len(out.rows) :
               LET k == Id(out.rows[i])
               IN  out.rows[i] = a[IF op.mode = "last" THEN LastWith(a, k) ELSE FirstWith(a, k)]
        /\ \A i, j \in 1 .. Len(out.rows) :
               i < j => FirstWith(a, Id(out.rows[i])) < FirstWith(a, Id(out.rows[j]))

Meets(r, schema) ==
    /\ r.object
    /\ \A f \in DOMAIN schema :
          \/ f \in DOMAIN r.f /\ ContractMatches(r.f[f], schema[f].kind) /\ r.f[f] # "null"
          \/ schema[f].optional /\ (f \in DOMAIN r.f => r.f[f] = "null")

Good(n) == {i \in 1 .. n : Meets(a[i], op.schema)}

(* contractHandler: what passes conforms field by field, what does not is  *)
(* counted, the order is kept; and with onViolation=fail nothing passes    *)
(* unless everything does.                                                 *)
ContractReference ==
    Done("contract") =>
        IF out.status = "SchemaValidationError"
        THEN op.mode = "fail" /\ \E r \in Elements(a) : ~ Meets(r, op.schema)
        ELSE /\ \A r \in Elements(out.rows) : Meets(r, op.schema)
             /\ Len(out.rows) = Cardinality(Good(Len(a)))
             /\ Len(out.rows) + out.failed = Len(a)
             /\ \A i \in Good(Len(a)) : out.rows[Cardinality(Good(i))] = a[i]

(* A union has every record of its inputs once, a concat all of them in    *)
(* order, and a tagged append, too, each with the position of its input.   *)
MergeReference ==
    Done("merge") /\ out.status = "ok" =>
        /\ op.mode = "union" => /\ Elements(out.rows) = Elements(a) \cup Elements(b)
                                /\ Len(out.rows) = Cardinality(Elements(out.rows))
        /\ op.mode = "concat" => out.rows = a \o b
        /\ op.mode = "appendWithSourceTag" =>
               /\ Len(out.rows) = Len(a) + Len(b)
               /\ \A i \in 1 .. Len(out.rows) :
                      LET r == out.rows[i].f IN
                      /\ r._source = (IF i <= Len(a) THEN 0 ELSE 1) /\ DOMAIN r = DOMAIN Row(i).f \cup {"_source"}
                      /\ \A f \in DOMAIN r \ {"_source"} : r[f] = Row(i).f[f]

Distinct(s) == \A i, j \in 1 .. Len(s) : i # j => Id(s[i]) # Id(s[j])

Lonely(s, t) == {r \in Elements(s) : \A q \in Elements(t) : Id(q) # Id(r)}

Pairs == {Object(Override(m[2].f, m[1].f)) : m \in {p \in Elements(a) \X Elements(b) : Id(p[1]) = Id(p[2])}}

(* With a join key that is unique in each input, the joins are the         *)
(* relational ones, the right record's fields winning.                     *)
JoinReference ==
    Done("merge") /\ op.mode \in Joins /\ out.status = "ok" /\ Distinct(a) /\ Distinct(b) =>
        /\ Elements(out.rows) =
               Pairs \cup (IF op.mode = "innerJoin" THEN {} ELSE Lonely(a, b))
                     \cup (IF op.mode = "outerJoin" THEN Lonely(b, a) ELSE {})
        /\ Len(out.rows) = Cardinality(Elements(out.rows))

=============================================================================
