------------------------------ MODULE SqlTables ------------------------------
(***************************************************************************)
(* SQL statements over a key/value map: rust/src/sql/catalog.rs (values,   *)
(* keys and schemas), and the conditions and Ctx of                        *)
(* rust/src/sql/executor.rs.  A view is what a transaction sees: a         *)
(* function of the keys that have a value.  A statement yields an outcome  *)
(* [ok, writes, result]: the writes it staged, in order, also when it      *)
(* failed.                                                                 *)
(*                                                                         *)
(* A cell is <<"null">>, <<"int", i>>, <<"float", u>>, the float u / UNIT, *)
(* MinusZero or <<"text", codes>>.  A condition is a tuple that starts     *)
(* with its kind.  A truth value is "true", "false" or "unknown".          *)
(***************************************************************************)
EXTENDS SqlParser, Ordered, Functions, TLC

CONSTANTS INT_MAX,      \* the greatest i64
          UpperCase     \* letter code |-> its lower case, for the letters that have one

ASSUME SqlTablesAssumption == INT_MAX \in Nat

INT_MIN == -INT_MAX - 1

Null == <<"null">>
MinusZero == <<"float", 0, "-">>
UNIT == 12      \* so that halves have exact averages over one, two or three rows
PERCENT == 37
UNDERSCORE == 95

-----------------------------------------------------------------------------
(* Orders: -1, 0 or 1, or "none" where the two do not compare.             *)

Cmp(a, b) == IF a < b THEN -1 ELSE IF a > b THEN 1 ELSE 0

LexCmp(a, b) ==
    LET same == {n \in 0 .. Len(a) : n <= Len(b) /\ SubSeq(a, 1, n) = SubSeq(b, 1, n)}
        n == CHOOSE n \in same : \A m \in same : m <= n
    IN IF n = Len(a) \/ n = Len(b) THEN Cmp(Len(a), Len(b)) ELSE Cmp(a[n + 1], b[n + 1])

Trunc(u) == IF u >= 0 THEN u \div UNIT ELSE -((-u) \div UNIT)

(* An integer and a float, without rounding the integer.                   *)
cmp_int_float(i, u) ==
    IF u >= UNIT * (INT_MAX + 1) THEN -1
    ELSE IF u < UNIT * INT_MIN THEN 1
    ELSE LET whole == Trunc(u)
         IN IF i # whole THEN Cmp(i, whole) ELSE Cmp(0, u - UNIT * whole)

(* The order of numbers and of texts, each kind with itself.               *)
CmpAlike(a, b) ==
    CASE a[1] = "int" /\ b[1] = "float" -> cmp_int_float(a[2], b[2])
      [] a[1] = "float" /\ b[1] = "int" -> -cmp_int_float(b[2], a[2])
      [] a[1] = "text" -> LexCmp(a[2], b[2])
      [] OTHER -> Cmp(a[2], b[2])

Rank(c) == CASE c[1] = "text" -> 1 [] c = Null -> 2 [] OTHER -> 0

(* The order of a sort: by kind, and -0.0 is below 0.0.  Both are equal to *)
(* the integer 0, so over the three it is no order.                        *)
ZeroRank(c) == IF c = MinusZero THEN 0 ELSE 1
total_cmp(a, b) ==
    IF Rank(a) # Rank(b) \/ a = Null THEN Cmp(Rank(a), Rank(b))
    ELSE IF a[1] = "float" /\ b[1] = "float" /\ a[2] = b[2] THEN Cmp(ZeroRank(a), ZeroRank(b))
    ELSE CmpAlike(a, b)

Comparable(a, b) == Rank(a) = Rank(b) /\ a # Null

(* The key of a value in a primary-key index: numerically equal values     *)
(* have one key.                                                           *)
pk_key(value) ==
    CASE value[1] = "int" -> <<16, value[2]>>
      [] value[1] = "float" /\ value[2] % UNIT = 0 /\ UNIT * INT_MIN <= value[2] /\ value[2] < UNIT * (INT_MAX + 1)
           -> <<16, value[2] \div UNIT>>
      [] value[1] = "float" -> <<17, value[2]>>
      [] OTHER -> <<32, value[2]>>

-----------------------------------------------------------------------------
(* Truth values and conditions.                                            *)

Truth(b) == IF b THEN "true" ELSE "false"
Not(v) == CASE v = "true" -> "false" [] v = "false" -> "true" [] OTHER -> v
negate(v, negated) == IF negated THEN Not(v) ELSE v

AndOf(a, b) == IF a = "false" \/ b = "false" THEN "false"
               ELSE IF a = "true" /\ b = "true" THEN "true" ELSE "unknown"
OrOf(a, b) == IF a = "true" \/ b = "true" THEN "true"
              ELSE IF a = "false" /\ b = "false" THEN "false" ELSE "unknown"

compare(a, op, b) ==
    IF ~Comparable(a, b) THEN "unknown"
    ELSE LET ord == CmpAlike(a, b)
         IN Truth(CASE op = "Eq" -> ord = 0   [] op = "NotEq" -> ord # 0
                    [] op = "Lt" -> ord = -1  [] op = "LtEq" -> ord # 1
                    [] op = "Gt" -> ord = 1   [] op = "GtEq" -> ord # -1)

(* Wrong on purpose: a NULL in the list is passed over.                    *)
InIgnoringUnknown(value, list) ==
    Truth(\E i \in DOMAIN list : compare(value, "Eq", list[i]) = "true")

InList(value, list) ==
    LET found == {compare(value, "Eq", list[i]) : i \in DOMAIN list}
    IN IF "true" \in found THEN "true" ELSE IF "unknown" \in found THEN "unknown" ELSE "false"

Lowered(text) == [i \in DOMAIN text |-> IF text[i] \in DOMAIN UpperCase THEN UpperCase[text[i]] ELSE text[i]]

(* LIKE, with one place to come back to: the last `%' met, and the place   *)
(* of the value it was last tried from.                                    *)
RECURSIVE LikeFrom(_, _, _, _, _, _)
LikeFrom(v, p, i, j, star, resume) ==
    IF i > Len(v) THEN \A k \in j .. Len(p) : p[k] = PERCENT
    ELSE IF j <= Len(p) /\ (p[j] = UNDERSCORE \/ (p[j] # PERCENT /\ p[j] = v[i]))
         THEN LikeFrom(v, p, i + 1, j + 1, star, resume)
    ELSE IF j <= Len(p) /\ p[j] = PERCENT THEN LikeFrom(v, p, i, j + 1, j, i)
    ELSE IF star # 0 THEN LikeFrom(v, p, resume + 1, star + 1, star, resume + 1)
    ELSE FALSE

like_match(v, p) == LikeFrom(v, p, 1, 1, 0, 0)

(* The digits of a number, or of one and a half, as `display' writes them. *)
Digits(n) == IF n >= 10 THEN <<48 + (n \div 10), 48 + (n % 10)>> ELSE <<48 + n>>
Sign(n) == IF n < 0 THEN <<45>> ELSE <<>>
Abs(n) == IF n < 0 THEN -n ELSE n
like_text(c) ==
    CASE c[1] = "text" -> c[2]
      [] c[1] = "int" -> Sign(c[2]) \o Digits(Abs(c[2]))
      [] OTHER -> (IF c = MinusZero THEN <<45>> ELSE Sign(c[2])) \o Digits(Abs(c[2]) \div UNIT) \o <<46, IF c[2] % UNIT = 0 THEN 48 ELSE 53>>

Like(value, pattern, ci) ==
    IF value = Null \/ pattern = Null THEN "unknown"
    ELSE LET v == like_text(value)
             p == like_text(pattern)
         IN Truth(IF ci THEN like_match(Lowered(v), Lowered(p)) ELSE like_match(v, p))

(* A compiled condition has values for parameters and positions for        *)
(* columns: an operand is <<"lit", cell>> or <<"at", position>>.           *)
Operand(o, row) == IF o[1] = "at" THEN row[o[2]] ELSE o[2]

RECURSIVE eval(_, _)
eval(c, row) ==
    CASE c[1] = "cmp" -> compare(Operand(c[3], row), c[2], Operand(c[4], row))
      [] c[1] = "and" -> AndOf(eval(c[2], row), eval(c[3], row))
      [] c[1] = "or" -> OrOf(eval(c[2], row), eval(c[3], row))
      [] c[1] = "not" -> Not(eval(c[2], row))
      [] c[1] = "isnull" -> Truth((Operand(c[2], row) = Null) # c[3])
      [] c[1] = "in" -> negate(InList(Operand(c[2], row),
                                      [i \in DOMAIN c[3] |-> Operand(c[3][i], row)]), c[4])
      [] c[1] = "between" -> LET v == Operand(c[2], row)
                             IN negate(AndOf(compare(v, "GtEq", Operand(c[3], row)),
                                             compare(v, "LtEq", Operand(c[4], row))), c[5])
      [] c[1] = "like" -> negate(Like(Operand(c[2], row), Operand(c[3], row), c[5]), c[4])

-----------------------------------------------------------------------------
(* Tables.                                                                 *)

CONSTANT MAX_KEY_TEXT       \* longest text that fits in an index key of the store

schema_key(table) == <<"schema", fold[table]>>
row_key(table, id) == <<"row", fold[table], id>>
index_key(table, value) == <<"pk", fold[table], pk_key(value)>>
pk_ready_key(table) == <<"ready", fold[table]>>

Storable(key) == key[1] = "pk" /\ key[3][1] = 32 => Len(key[3][2]) <= MAX_KEY_TEXT

Put(key, val) == [key |-> key, put |-> TRUE, val |-> val]
Erase(key) == [key |-> key, put |-> FALSE]

KeysOf(writes) == {writes[i].key : i \in DOMAIN writes}
LastOf(writes, k) == writes[Greatest({i \in DOMAIN writes : writes[i].key = k})]

(* A map after writes.                                                     *)
Apply(view, writes) ==
    LET keys == KeysOf(writes)
        gone == {k \in keys : ~LastOf(writes, k).put}
    IN [k \in (DOMAIN view \cup keys) \ gone |-> IF k \in keys THEN LastOf(writes, k).val ELSE view[k]]

(* The writes a transaction keeps of a list: those before the first one    *)
(* the store refuses.                                                      *)
FirstRefused(writes) == {i \in DOMAIN writes : writes[i].put /\ ~Storable(writes[i].key)}
Stage(all, result) ==
    With(all, LAMBDA writes :
        IF FirstRefused(writes) = {} THEN [ok |-> TRUE, writes |-> writes, result |-> result]
        ELSE [ok |-> FALSE, writes |-> SubSeq(writes, 1, Least(FirstRefused(writes)) - 1), result |-> <<>>])
Failed(writes) == [ok |-> FALSE, writes |-> writes, result |-> <<>>]
Affected(n) == [affected |-> n]
SchemaChanged == [affected |-> 0]

-----------------------------------------------------------------------------
(* The catalog.                                                            *)

ColumnNamed(schema, column) == {i \in DOMAIN schema.columns : fold[schema.columns[i]] = fold[column]}
HasColumn(schema, column) == ColumnNamed(schema, column) # {}
column_index(schema, column) == Least(ColumnNamed(schema, column))

(* The schema of the definitions, or <<>> when they are refused.           *)
from_defs(name, defs) ==
    LET keys == {i \in DOMAIN defs : defs[i].primary_key}
        twice == \E i, j \in DOMAIN defs : i < j /\ fold[defs[i].name] = fold[defs[j].name]
    IN IF twice \/ Cardinality(keys) > 1 THEN <<>>
       ELSE <<[name |-> name, columns |-> [i \in DOMAIN defs |-> defs[i].name],
               primary_key |-> IF keys = {} THEN 0 ELSE Least(keys),
               not_null |-> {i \in DOMAIN defs : defs[i].not_null \/ defs[i].primary_key}, next_row_id |-> 1]>>

table_exists(view, table) == schema_key(table) \in DOMAIN view
load_schema(view, table) == view[schema_key(table)]

RowIds(view, table) == {k[3] : k \in {k \in DOMAIN view : k[1] = "row" /\ k[2] = fold[table]}}
RowAt(view, table, id) == [id |-> id, cells |-> view[row_key(table, id)]]

(* The rows in the order of their ids.                                     *)
scan_rows(view, table) ==
    With(Listed(SortBy(RowIds(view, table), LAMBDA x, y : x < y)), LAMBDA ids :
        Listed([i \in DOMAIN ids |-> RowAt(view, table, ids[i])]))

(* Wrong on purpose: the index is marked complete as it is.                *)
EnsureByMarking(view, schema) ==
    IF schema.primary_key = 0 \/ pk_ready_key(schema.name) \in DOMAIN view THEN Stage(<<>>, <<>>)
    ELSE Stage(<<Put(pk_ready_key(schema.name), TRUE)>>, <<>>)

(* Indexes a table that was made before there was an index.                *)
ensure_pk_index(view, schema) ==
    IF schema.primary_key = 0 \/ pk_ready_key(schema.name) \in DOMAIN view THEN Stage(<<>>, <<>>)
    ELSE With(scan_rows(view, schema.name), LAMBDA rows :
            LET entry(i) == index_key(schema.name, rows[i].cells[schema.primary_key])
            IN IF \E i, j \in DOMAIN rows : i < j /\ entry(i) = entry(j) THEN Failed(<<>>)
               ELSE Stage([i \in DOMAIN rows |-> Put(entry(i), rows[i].id)]
                          \o <<Put(pk_ready_key(schema.name), TRUE)>>, <<>>))

-----------------------------------------------------------------------------
(* Conditions: columns resolved, parameters bound.                         *)

value_of(e, params) == IF e[1] = "param" THEN params[e[2]] ELSE e[2]

RECURSIVE columns(_)
columns(e) ==
    CASE e[1] = "col" -> {e[2]}
      [] e[1] \in {"lit", "param"} -> {}
      [] e[1] = "cmp" -> columns(e[3]) \cup columns(e[4])
      [] e[1] \in {"and", "or", "like"} -> columns(e[2]) \cup columns(e[3])
      [] e[1] \in {"not", "isnull"} -> columns(e[2])
      [] e[1] = "in" -> columns(e[2]) \cup UNION {columns(e[3][i]) : i \in DOMAIN e[3]}
      [] e[1] = "between" -> columns(e[2]) \cup columns(e[3]) \cup columns(e[4])

Compiles(schema, filter) ==
    filter # <<>> => \A c \in columns(filter[1]) : HasColumn(schema, c)

RECURSIVE compile(_, _, _)
compile(schema, e, params) ==
    LET operand(x) == IF x[1] = "col" THEN <<"at", column_index(schema, x[2])>> ELSE <<"lit", value_of(x, params)>>
    IN CASE e[1] = "cmp" -> <<"cmp", e[2], operand(e[3]), operand(e[4])>>
         [] e[1] \in {"and", "or"} -> <<e[1], compile(schema, e[2], params), compile(schema, e[3], params)>>
         [] e[1] = "not" -> <<"not", compile(schema, e[2], params)>>
         [] e[1] = "isnull" -> <<"isnull", operand(e[2]), e[3]>>
         [] e[1] = "in" -> <<"in", operand(e[2]), [i \in DOMAIN e[3] |-> operand(e[3][i])], e[4]>>
         [] e[1] = "between" -> <<"between", operand(e[2]), operand(e[3]), operand(e[4]), e[5]>>
         [] e[1] = "like" -> <<"like", operand(e[2]), operand(e[3]), e[4], e[5]>>

Kept(schema, filter, params, rows) ==
    IF filter = <<>> THEN rows
    ELSE With(compile(schema, filter[1], params), LAMBDA c : SelectSeq(rows, LAMBDA r : eval(c, r.cells) = "true"))

(* The value a filter `pk = value' gives for the key, if it is one.        *)
KeyValue(schema, filter, params) ==
    IF filter = <<>> \/ schema.primary_key = 0 THEN <<>>
    ELSE LET e == filter[1]
             IsKey(x) == x[1] = "col" /\ column_index(schema, x[2]) = schema.primary_key
         IN IF e[1] # "cmp" \/ e[2] # "Eq" THEN <<>>
            ELSE IF IsKey(e[3]) /\ e[4][1] # "col" THEN <<value_of(e[4], params)>>
            ELSE IF IsKey(e[4]) /\ e[3][1] # "col" THEN <<value_of(e[3], params)>>
            ELSE <<>>

(* The rows that can match: one lookup for `pk = value', else a scan.      *)
candidate_rows(view, schema, filter, params) ==
    LET value == KeyValue(schema, filter, params)
        entry == index_key(schema.name, value[1])
    IN IF value = <<>> \/ pk_ready_key(schema.name) \notin DOMAIN view THEN scan_rows(view, schema.name)
       ELSE IF value[1] = Null THEN <<>>
       ELSE IF entry \notin DOMAIN view THEN <<>>
       ELSE IF row_key(schema.name, view[entry]) \notin DOMAIN view THEN <<>>
       ELSE <<RowAt(view, schema.name, view[entry])>>

Matched(view, schema, filter, params) ==
    With(candidate_rows(view, schema, filter, params), LAMBDA rows : Kept(schema, filter, params, rows))

-----------------------------------------------------------------------------
(* Statements that write.                                                  *)

create_table(view, s) ==
    LET schema == from_defs(s.table, s.columns)
    IN IF table_exists(view, s.table) THEN IF s.if_not_exists THEN Stage(<<>>, SchemaChanged) ELSE Failed(<<>>)
       ELSE IF schema = <<>> THEN Failed(<<>>)
       ELSE Stage(<<Put(schema_key(s.table), schema[1])>>
                  \o (IF schema[1].primary_key = 0 THEN <<>> ELSE <<Put(pk_ready_key(s.table), TRUE)>>),
                  SchemaChanged)

IndexKeys(view, table) == {k \in DOMAIN view : k[1] = "pk" /\ k[2] = fold[table]}

drop_table(view, s) ==
    LET rows == scan_rows(view, s.table)
        index == SetToSeq(IndexKeys(view, s.table))
    IN IF ~table_exists(view, s.table) THEN IF s.if_exists THEN Stage(<<>>, SchemaChanged) ELSE Failed(<<>>)
       ELSE Stage([i \in DOMAIN rows |-> Erase(row_key(s.table, rows[i].id))]
                  \o [i \in DOMAIN index |-> Erase(index[i])]
                  \o <<Erase(pk_ready_key(s.table)), Erase(schema_key(s.table))>>, SchemaChanged)

(* The cells of a row of VALUES; <<>> when it is refused.                  *)
resolve_columns(schema, names) ==
    IF names = <<>> THEN [i \in DOMAIN schema.columns |-> i]
    ELSE [i \in DOMAIN names |-> column_index(schema, names[i])]
CellsOf(schema, positions, row, params) ==
    [c \in DOMAIN schema.columns |->
        LET at == {i \in DOMAIN row : positions[i] = c}
        IN IF at = {} THEN Null ELSE value_of(row[Greatest(at)], params)]
check_not_null(schema, cells) == \A i \in schema.not_null : cells[i] # Null

InsertRows(seen, schema, s, ens, cells) ==
    LET id(i) == schema.next_row_id + i - 1
        entry(i) == index_key(s.table, cells[i][schema.primary_key])
        duplicate == schema.primary_key # 0 /\ \E i \in DOMAIN cells :
                         entry(i) \in DOMAIN seen \/ \E j \in DOMAIN cells : j < i /\ entry(j) = entry(i)
    IN IF (\E i \in DOMAIN cells : ~check_not_null(schema, cells[i])) \/ duplicate THEN Failed(ens)
       ELSE Stage(ens \o FlattenSeq(Listed([i \in DOMAIN cells |->
                      (IF schema.primary_key = 0 THEN <<>> ELSE <<Put(entry(i), id(i))>>)
                      \o <<Put(row_key(s.table, id(i)), cells[i])>>]))
                  \o <<Put(schema_key(s.table), [schema EXCEPT !.next_row_id = @ + Len(cells)])>>,
                  Affected(Len(cells)))

insert(view, s, params) ==
    LET schema == load_schema(view, s.table)
        positions == resolve_columns(schema, s.columns)
    IN IF ~table_exists(view, s.table) THEN Failed(<<>>)
       ELSE IF \E c \in DOMAIN s.columns : ~HasColumn(schema, s.columns[c]) THEN Failed(<<>>)
       ELSE With(ensure_pk_index(view, schema), LAMBDA ens :
               IF ~ens.ok THEN ens
               ELSE IF \E i \in DOMAIN s.rows : Len(s.rows[i]) # Len(positions) THEN Failed(ens.writes)
               ELSE With(Listed([i \in DOMAIN s.rows |-> Listed(CellsOf(schema, positions, s.rows[i], params))]), LAMBDA cells :
                       InsertRows(Apply(view, ens.writes), schema, s, ens.writes, cells)))

SetRows(seen, schema, s, params, ens, matched) ==
    LET pk == schema.primary_key
        value(i) == value_of(s.assignments[i][2], params)
        set(c) == {i \in DOMAIN s.assignments : column_index(schema, s.assignments[i][1]) = c}
        newKey == index_key(s.table, value(Least(set(pk))))
        oldKey(row) == index_key(s.table, row.cells[pk])
        changing == SelectSeq(matched, LAMBDA r : oldKey(r) # newKey)
        moves == pk # 0 /\ set(pk) # {} /\ changing # <<>>
        keyWrites == IF moves THEN <<Erase(oldKey(changing[1])), Put(newKey, changing[1].id)>> ELSE <<>>
        changed(row) == [c \in DOMAIN row.cells |-> IF set(c) = {} THEN row.cells[c] ELSE value(Greatest(set(c)))]
    IN IF moves /\ (Len(matched) > 1 \/ newKey \in DOMAIN seen) THEN Failed(ens)
       ELSE Stage(ens \o keyWrites
                  \o [i \in DOMAIN matched |-> Put(row_key(s.table, matched[i].id), Listed(changed(matched[i])))],
                  Affected(Len(matched)))

update(view, s, params) ==
    LET schema == load_schema(view, s.table)
        NullFor(c, i) == /\ column_index(schema, s.assignments[i][1]) = c
                         /\ value_of(s.assignments[i][2], params) = Null
    IN IF ~table_exists(view, s.table) THEN Failed(<<>>)
       ELSE IF \/ \E i \in DOMAIN s.assignments : ~HasColumn(schema, s.assignments[i][1])
               \/ \E c \in schema.not_null, i \in DOMAIN s.assignments : NullFor(c, i)
               \/ ~Compiles(schema, s.filter)
            THEN Failed(<<>>)
       ELSE With(ensure_pk_index(view, schema), LAMBDA ens :
               IF ~ens.ok THEN ens
               ELSE With(Apply(view, ens.writes), LAMBDA seen :
                    With(Matched(seen, schema, s.filter, params), LAMBDA matched :
                       SetRows(seen, schema, s, params, ens.writes, matched))))

DeleteRows(schema, s, ens, victims) ==
    Stage(ens \o FlattenSeq(Listed([i \in DOMAIN victims |->
                    (IF schema.primary_key = 0 THEN <<>>
                     ELSE <<Erase(index_key(s.table, victims[i].cells[schema.primary_key]))>>)
                    \o <<Erase(row_key(s.table, victims[i].id))>>])), Affected(Len(victims)))

delete(view, s, params) ==
    LET schema == load_schema(view, s.table)
    IN IF ~table_exists(view, s.table) THEN Failed(<<>>)
       ELSE IF ~Compiles(schema, s.filter) THEN Failed(<<>>)
       ELSE With(ensure_pk_index(view, schema), LAMBDA ens :
               IF ~ens.ok THEN ens
               ELSE With(Matched(Apply(view, ens.writes), schema, s.filter, params), LAMBDA victims :
                       DeleteRows(schema, s, ens.writes, victims)))
=============================================================================
