----------------------------- MODULE SqlMeaning -----------------------------
(***************************************************************************)
(* The references the SQL layer is compared with: the text of a statement, *)
(* as a sequence of tokens, for the parser; and what a SELECT means,       *)
(* without an index, a parser's tree or a sort.  Truth is 0, 1 or 2.       *)
(***************************************************************************)
EXTENDS SqlTables

(* The text of a statement, with no parenthesis that precedence gives.     *)

W(w) == <<"ident", w>>
S(sym) == <<"sym", sym>>

RECURSIVE CommaList(_)
CommaList(lists) == IF Len(lists) = 1 THEN lists[1] ELSE lists[1] \o <<S(",")>> \o CommaList(Tail(lists))

SpellValue(e, style) ==
    CASE e[1] = "col" -> <<IF fold[e[2]] \in RESERVED THEN <<"quoted", e[2]>> ELSE W(e[2])>>
      [] e[1] = "param" -> <<<<"param", IF style = "numbered" THEN e[2] ELSE 0>>>>
      [] e[2][1] = "null" -> <<W("null")>>
      [] e[2][1] = "float" -> <<e[2]>>
      [] OTHER -> <<<<IF e[2][1] = "int" THEN "integer" ELSE "string", e[2][2]>>>>
SpellValues(es, style) == CommaList([i \in DOMAIN es |-> SpellValue(es[i], style)])
Symbol == [Eq |-> "=", NotEq |-> "<>", Lt |-> "<", LtEq |-> "<=", Gt |-> ">", GtEq |-> ">="]
Level(e) == CASE e[1] = "or" -> 0 [] e[1] = "and" -> 1 [] OTHER -> 2
NotIf(negated) == IF negated THEN <<W("not")>> ELSE <<>>

RECURSIVE SpellAt(_, _, _)
SpellAt(e, level, style) ==
    LET Value(x) == SpellValue(x, style)
        text == CASE e[1] = "or" -> SpellAt(e[2], 0, style) \o <<W("or")>> \o SpellAt(e[3], 1, style)
                  [] e[1] = "and" -> SpellAt(e[2], 1, style) \o <<W("and")>> \o SpellAt(e[3], 2, style)
                  [] e[1] = "not" -> <<W("not")>> \o SpellAt(e[2], 2, style)
                  [] e[1] = "cmp" -> Value(e[3]) \o <<S(Symbol[e[2]])>> \o Value(e[4])
                  [] e[1] = "isnull" -> Value(e[2]) \o <<W("is")>> \o NotIf(e[3]) \o <<W("null")>>
                  [] e[1] = "in" -> Value(e[2]) \o NotIf(e[4]) \o <<W("in"), S("(")>> \o SpellValues(e[3], style) \o <<S(")")>>
                  [] e[1] = "between" -> Value(e[2]) \o NotIf(e[5]) \o <<W("between")>> \o Value(e[3])
                                         \o <<W("and")>> \o Value(e[4])
                  [] e[1] = "like" -> Value(e[2]) \o NotIf(e[4]) \o <<W(IF e[5] THEN "ilike" ELSE "like")>> \o Value(e[3])
    IN IF Level(e) < level THEN <<S("(")>> \o text \o <<S(")")>> ELSE text

Name(n) == SpellValue(<<"col", n>>, "numbered")
Names(ns) == CommaList([i \in DOMAIN ns |-> Name(ns[i])])
As(alias) == IF alias = <<>> THEN <<>> ELSE <<W("as")>> \o Name(alias[1])
SpellItem(item) ==
    CASE item[1] = "*" -> <<S("*")>>
      [] item[1] = "column" -> Name(item[2]) \o As(item[3])
      [] item[1] = "agg" -> <<W(item[2]), S("(")>> \o (IF item[4] THEN <<W("distinct")>> ELSE <<>>)
                            \o (IF item[3] = <<>> THEN <<S("*")>> ELSE Name(item[3][1])) \o <<S(")")>> \o As(item[5])
SpellType(t) == IF t = <<>> THEN <<>>
                ELSE IF t[2] = <<>> THEN <<W(t[1])>>
                ELSE <<W(t[1]), S("(")>> \o CommaList([i \in DOMAIN t[2] |-> <<<<"integer", t[2][i]>>>>]) \o <<S(")")>>
SpellColumn(d) == Name(d.name) \o (IF d.not_null THEN <<W("not"), W("null")>> ELSE <<>>) \o SpellType(d.data_type)
                  \o (IF d.primary_key THEN <<W("primary"), W("key")>> ELSE <<>>)
Where(filter, style) == IF filter = <<>> THEN <<>> ELSE <<W("where")>> \o SpellAt(filter[1], 0, style)
Counted(word, n) == IF n = <<>> THEN <<>> ELSE <<W(word), <<"integer", n[1]>>>>

Spell(s, style) ==
    CASE s.kind = "create" ->
           <<W("create"), W("table")>> \o (IF s.if_not_exists THEN <<W("if"), W("not"), W("exists")>> ELSE <<>>)
           \o Name(s.table) \o <<S("(")>> \o CommaList([i \in DOMAIN s.columns |-> SpellColumn(s.columns[i])]) \o <<S(")")>>
      [] s.kind = "drop" ->
           <<W("drop"), W("table")>> \o (IF s.if_exists THEN <<W("if"), W("exists")>> ELSE <<>>) \o Name(s.table)
      [] s.kind = "insert" ->
           <<W("insert"), W("into")>> \o Name(s.table)
           \o (IF s.columns = <<>> THEN <<>> ELSE <<S("(")>> \o Names(s.columns) \o <<S(")")>>) \o <<W("values")>>
           \o CommaList([i \in DOMAIN s.rows |-> <<S("(")>> \o SpellValues(s.rows[i], style) \o <<S(")")>>])
      [] s.kind = "update" ->
           <<W("update")>> \o Name(s.table) \o <<W("set")>>
           \o CommaList([i \in DOMAIN s.assignments |-> Name(s.assignments[i][1]) \o <<S("=")>>
                                                     \o SpellValue(s.assignments[i][2], style)])
           \o Where(s.filter, style)
      [] s.kind = "delete" -> <<W("delete"), W("from")>> \o Name(s.table) \o Where(s.filter, style)
      [] s.kind = "select" ->
           <<W("select")>> \o CommaList([i \in DOMAIN s.items |-> SpellItem(s.items[i])]) \o <<W("from")>> \o Name(s.table)
           \o Where(s.filter, style)
           \o (IF s.group_by = <<>> THEN <<>> ELSE <<W("group"), W("by")>> \o Names(s.group_by))
           \o (IF s.order_by = <<>> THEN <<>>
               ELSE <<W("order"), W("by")>> \o CommaList([k \in DOMAIN s.order_by |->
                        Name(s.order_by[k][1]) \o (IF s.order_by[k][2] THEN <<W("desc")>> ELSE <<>>)]))
           \o Counted("limit", s.limit) \o Counted("offset", s.offset)

Written(text) == Spell(text.stmt, text.style)

-----------------------------------------------------------------------------
Worth(c) == IF c[1] = "int" THEN UNIT * c[2] ELSE c[2]
Smaller(a, b) ==
    \/ Rank(a) < Rank(b)
    \/ Rank(a) = 0 /\ Rank(b) = 0 /\ Worth(a) < Worth(b)
    \/ Rank(a) = 1 /\ Rank(b) = 1 /\ LexCmp(a[2], b[2]) = -1
Same(a, b) == ~Smaller(a, b) /\ ~Smaller(b, a)

(* In an order, and for MIN and MAX, -0.0 comes before 0.0, which it is    *)
(* the same as.  A column that also holds the integer 0 has no order, and  *)
(* is left out.                                                            *)
Earlier(a, b) == Smaller(a, b) \/ (a = MinusZero /\ b = <<"float", 0>>)

RECURSIVE Matches(_, _)
Matches(v, p) ==
    CASE p = <<>> -> v = <<>>
      [] p # <<>> /\ Head(p) = PERCENT -> \E k \in 0 .. Len(v) : Matches(SubSeq(v, k + 1, Len(v)), Tail(p))
      [] OTHER -> v # <<>> /\ Head(p) \in {UNDERSCORE, Head(v)} /\ Matches(Tail(v), Tail(p))

LeastOf(a, b) == IF a < b THEN a ELSE b
MostOf(a, b) == IF a < b THEN b ELSE a
Sure(b) == IF b THEN 2 ELSE 0
Unless(negated, v) == IF negated THEN 2 - v ELSE v

Holds(op, a, b) ==
    IF a = Null \/ b = Null \/ Rank(a) # Rank(b) THEN 1
    ELSE Sure(CASE op = "Eq" -> Same(a, b)   [] op = "NotEq" -> ~Same(a, b)
                [] op = "Lt" -> Smaller(a, b) [] op = "LtEq" -> ~Smaller(b, a)
                [] op = "Gt" -> Smaller(b, a) [] op = "GtEq" -> ~Smaller(a, b))

RECURSIVE Means(_, _, _, _)
Means(e, schema, params, row) ==
    LET Cell(x) == IF x[1] = "col" THEN row[column_index(schema, x[2])] ELSE value_of(x, params)
        Sub(x) == Means(x, schema, params, row)
    IN CASE e[1] = "cmp" -> Holds(e[2], Cell(e[3]), Cell(e[4]))
         [] e[1] = "and" -> LeastOf(Sub(e[2]), Sub(e[3]))
         [] e[1] = "or" -> MostOf(Sub(e[2]), Sub(e[3]))
         [] e[1] = "not" -> 2 - Sub(e[2])
         [] e[1] = "isnull" -> Unless(e[3], Sure(Cell(e[2]) = Null))
         [] e[1] = "in" -> Unless(e[4], Greatest({Holds("Eq", Cell(e[2]), Cell(e[3][i])) : i \in DOMAIN e[3]}))
         [] e[1] = "between" -> Unless(e[5], LeastOf(Holds("GtEq", Cell(e[2]), Cell(e[3])),
                                                     Holds("LtEq", Cell(e[2]), Cell(e[4]))))
         [] e[1] = "like" -> IF Cell(e[2]) = Null \/ Cell(e[3]) = Null THEN 1
                             ELSE LET v == like_text(Cell(e[2]))
                                      p == like_text(Cell(e[3]))
                                  IN Unless(e[4], Sure(IF e[5] THEN Matches(Lowered(v), Lowered(p)) ELSE Matches(v, p)))

(* The ids of the rows a filter keeps.                                     *)
Selected(view, s, params) ==
    LET schema == load_schema(view, s.table)
    IN {id \in RowIds(view, s.table) :
            s.filter = <<>> \/ Means(s.filter[1], schema, params, view[row_key(s.table, id)]) = 2}

(* Lists of cells in the order of keys <<position, descending>>.           *)
Precedes(a, b, keys) ==
    \E k \in DOMAIN keys :
        /\ \A j \in 1 .. k - 1 : /\ ~Earlier(a[keys[j][1]], b[keys[j][1]])
                                 /\ ~Earlier(b[keys[j][1]], a[keys[j][1]])
        /\ IF keys[k][2] THEN Earlier(b[keys[k][1]], a[keys[k][1]]) ELSE Earlier(a[keys[k][1]], b[keys[k][1]])

(* The part of an ordered set that OFFSET and LIMIT leave, by rank.        *)
Within(rank, s) ==
    /\ s.offset # <<>> => rank > s.offset[1]
    /\ s.limit # <<>> => rank <= (IF s.offset = <<>> THEN 0 ELSE s.offset[1]) + s.limit[1]

(* A plain select: each row selected, at its rank by keys and then by id,  *)
(* shows its cells.                                                        *)
PlainMeaning(view, s, params, positions, keys) ==
    LET cells(id) == view[row_key(s.table, id)]
        ids == Selected(view, s, params)
        rank(id) == Cardinality({j \in ids : \/ Precedes(cells(j), cells(id), keys)
                                             \/ ~Precedes(cells(id), cells(j), keys) /\ j <= id})
    IN {<<rank(id), [p \in DOMAIN positions |-> cells(id)[positions[p]]]>> : id \in {i \in ids : Within(rank(i), s)}}

(* An aggregate of the rows with these ids.                                *)
AggregateOf(item, column, ids, cells) ==
    LET full == {id \in ids : cells[id][column] # Null}
        fed == IF item[4] THEN {id \in full : \A j \in full : j < id => ~Same(cells[j][column], cells[id][column])} ELSE full
        sum == SumFunction([id \in fed |-> Worth(cells[id][column])])
        whole == \A id \in fed : cells[id][column][1] = "int"
        ends == {i \in fed : \A j \in fed : ~(IF item[2] = "min" THEN Earlier(cells[j][column], cells[i][column])
                                              ELSE Earlier(cells[i][column], cells[j][column]))}
    IN CASE item[3] = <<>> -> <<"int", Cardinality(ids)>>
         [] item[2] = "count" -> <<"int", Cardinality(fed)>>
         [] fed = {} -> Null
         [] item[2] = "sum" -> IF whole /\ sum \div UNIT \in INT_MIN .. INT_MAX THEN <<"int", sum \div UNIT>>
                               ELSE <<"float", sum>>
         [] item[2] = "avg" -> <<"float", sum \div Cardinality(fed)>>
         [] OTHER -> cells[Least(ends)][column]

(* An aggregate select: one row for each class of selected rows that agree *)
(* on the columns grouped by, at its rank by keys and then by those.       *)
GroupMeaning(view, s, params, keys) ==
    LET schema == load_schema(view, s.table)
        ids == Selected(view, s, params)
        cells == [id \in ids |-> view[row_key(s.table, id)]]
        by == [g \in DOMAIN s.group_by |-> column_index(schema, s.group_by[g])]
        values(id) == [g \in DOMAIN by |-> cells[id][by[g]]]
        alike(i, j) == \A g \in DOMAIN by : Same(cells[i][by[g]], cells[j][by[g]])
        classes == IF s.group_by = <<>> THEN {ids} ELSE {{j \in ids : alike(i, j)} : i \in ids}
        shown(class) == [i \in DOMAIN s.items |->
                            IF s.items[i][1] = "column" THEN cells[Least(class)][column_index(schema, s.items[i][2])]
                            ELSE AggregateOf(s.items[i], IF s.items[i][3] = <<>> THEN 0 ELSE column_index(schema, s.items[i][3][1]),
                                             class, cells)]
        byValue(a, b) == Precedes(values(Least(a)), values(Least(b)), [g \in DOMAIN by |-> <<g, FALSE>>])
        rank(class) == Cardinality({d \in classes : \/ Precedes(shown(d), shown(class), keys)
                                                   \/ /\ ~Precedes(shown(class), shown(d), keys)
                                                      /\ d = class \/ byValue(d, class)})
    IN {<<rank(class), shown(class)>> : class \in {x \in classes : Within(rank(x), s)}}
=============================================================================
