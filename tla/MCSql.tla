-------------------------------- MODULE MCSql --------------------------------
(* Tables, statements and settings for TLC.                                *)
EXTENDS Sql

Words == RESERVED \cup AggFuncs \cup {"if", "exists", "primary", "key", "distinct", "desc", "asc", "text", "t", "id", "a", "n", "order"}
Folding == [w \in Words \cup {"ID", "A"} |-> CASE w = "ID" -> "id" [] w = "A" -> "a" [] OTHER -> w]
Letters == 65 :> 97

Int_(i) == <<"lit", <<"int", i>>>>
Half(h) == <<"lit", <<"float", 6 * h>>>>
Txt(codes) == <<"lit", <<"text", codes>>>>
NullLit == <<"lit", Null>>
Col(c) == <<"col", c>>
Param(i) == <<"param", i>>
Is(op, l, r) == <<"cmp", op, l, r>>

Text(stmt, params) == [stmt |-> stmt, style |-> "numbered", params |-> params, needs |-> Len(params)]
Plain(stmt) == Text(stmt, << >>)

Column(name, type, pk, nn) == [name |-> name, data_type |-> type, primary_key |-> pk, not_null |-> nn]
Create(ine) == [kind |-> "create", table |-> "t", if_not_exists |-> ine,
                columns |-> <<Column("ID", <<>>, TRUE, FALSE), Column("a", <<"text", <<3>>>>, FALSE, FALSE)>>]
Drop(ie) == [kind |-> "drop", table |-> "t", if_exists |-> ie]
Insert(columns_, rows) == [kind |-> "insert", table |-> "t", columns |-> columns_, rows |-> rows]
Update(sets, filter) == [kind |-> "update", table |-> "t", assignments |-> sets, filter |-> filter]
Delete(filter) == [kind |-> "delete", table |-> "t", filter |-> filter]
Select(items, filter) == [kind |-> "select", table |-> "t", items |-> items, filter |-> filter,
                          group_by |-> <<>>, order_by |-> <<>>, limit |-> <<>>, offset |-> <<>>]
All == <<<<"*">>>>

-----------------------------------------------------------------------------
(* A table with an index, and one from before there were indexes.          *)
Schema(next) == [name |-> "t", columns |-> <<"ID", "a">>, primary_key |-> 1, not_null |-> {1}, next_row_id |-> next]
Legacy(rows) == [k \in {<<"schema", "t">>} \cup {<<"row", "t", i>> : i \in DOMAIN rows} |->
                    IF k[1] = "schema" THEN Schema(Len(rows) + 1) ELSE rows[k[3]]]
Indexed(rows) ==
    [k \in DOMAIN Legacy(rows) \cup {<<"ready", "t">>} \cup {<<"pk", "t", pk_key(rows[i][1])>> : i \in DOMAIN rows} |->
        CASE k[1] = "ready" -> TRUE
          [] k[1] = "pk" -> CHOOSE i \in DOMAIN rows : pk_key(rows[i][1]) = k[3]
          [] OTHER -> Legacy(rows)[k]]

Row(id, a) == <<<<"int", id>>, a>>
One == <<"int", 1>>

Two == <<Row(1, One), Row(2, Null)>>

MaxParam(stmt) ==
    LET e == stmt.filter[1] IN Greatest({e[2][4][2], e[3][4][2]})

Setting == [db |-> Indexed(Two), auto |-> {}, session |-> {}, statements |-> 2, runs |-> 0, failing |-> FALSE]

KeyIs(v) == <<Is("Eq", Col("id"), v)>>
Mutations == {Plain(Insert(<<>>, <<<<Half(6), NullLit>>>>)), Plain(Insert(<<"a", "ID">>, <<<<Int_(2), Int_(4)>>, <<Int_(2), Int_(3)>>>>)),
              Plain(Update(<<<<"id", Int_(3)>>>>, KeyIs(Half(2)))), Plain(Update(<<<<"a", Int_(2)>>>>, <<>>)),
              Plain(Delete(KeyIs(Int_(2)))), Plain(Delete(<<Is("Eq", Col("a"), Int_(1))>>)),
              Plain(Drop(FALSE)), Plain(Create(TRUE))}

Racing == [Setting EXCEPT !.auto = Mutations, !.statements = 2, !.failing = TRUE]

(* Transactions of several statements, beside statements of their own.     *)
Sessions == [Setting EXCEPT !.auto = {Plain(Insert(<<>>, <<<<Int_(3), NullLit>>>>)), Plain(Delete(KeyIs(Int_(1)))), Plain(Drop(TRUE))},
                            !.session = {Plain(Insert(<<"id">>, <<<<Half(6)>>>>)),
                                         Plain(Insert(<<>>, <<<<Int_(4), NullLit>>, <<Int_(2), NullLit>>>>)),
                                         Plain(Update(<<<<"id", Int_(3)>>>>, KeyIs(Int_(1)))),
                                         Plain(Delete(<<>>)), Plain(Select(All, KeyIs(Half(6)))),
                                         Plain(Drop(FALSE)), Plain(Create(FALSE))},
                            !.statements = 2, !.runs = 2]

(* One statement, and transactions in its way each time.                   *)
Retries == [Setting EXCEPT !.auto = {Plain(Insert(<<>>, <<<<Int_(3), NullLit>>>>))},
                           !.session = {Plain(Insert(<<"id">>, <<<<Half(6)>>>>)), Plain(Insert(<<"id">>, <<<<Int_(4)>>>>))},
                           !.statements = 3, !.runs = 1]

(* A table made before there was an index, and keys with text.             *)
Old == [Setting EXCEPT !.db = Legacy(<<Row(1, One), <<<<"text", <<97>>>>, Null>>>>),
                       !.auto = {Text(Update(<<<<"id", Param(1)>>>>, KeyIs(Param(2))), <<<<"text", <<98, 98>>>>, <<"text", <<97>>>>>>),
                                 Plain(Insert(<<"a">>, <<<<Int_(1)>>>>)), Plain(Insert(<<>>, <<<<Int_(5), NullLit>>>>)),
                                 Plain(Insert(<<>>, <<<<Int_(6), NullLit>>, <<Txt(<<97, 97, 97>>), NullLit>>>>)),
                                 Plain(Delete(<<Is("Gt", Col("ID"), Int_(0))>>)), Plain(Select(All, KeyIs(Int_(1)))),
                                 Plain(Create(FALSE))},
                       !.statements = 3]

(* The same table, in transactions: statements that fail after its index   *)
(* was built.                                                              *)
OldSessions == [Setting EXCEPT !.db = Legacy(Two),
                               !.auto = {Plain(Insert(<<>>, <<<<Int_(3), NullLit>>>>))},
                               !.session = {Plain(Insert(<<"a">>, <<<<Int_(1)>>>>)),
                                            Plain(Insert(<<>>, <<<<Int_(4), NullLit>>, <<Int_(2), NullLit>>>>)),
                                            Plain(Update(<<<<"id", Int_(2)>>>>, KeyIs(Int_(1)))),
                                            Plain(Delete(KeyIs(Int_(1)))), Plain(Select(All, KeyIs(Int_(1))))},
                               !.statements = 2, !.runs = 2]

-----------------------------------------------------------------------------
(* Queries of a table with NULLs, whole and half floats and text.          *)
Table == <<Row(1, <<"float", 24>>), Row(2, Null), Row(3, <<"int", 2>>), <<<<"float", 18>>, <<"text", <<65, 98>>>>>>,
           Row(9, <<"int", 9>>)>>

Values == {Int_(2), Half(3), Half(4), NullLit, Txt(<<65, 98>>)}
Comparisons == {Is(op, Col("a"), v) : op \in DOMAIN Symbol, v \in Values \ {NullLit}}
               \cup {Is("Lt", Int_(2), Col("id")), Is("Eq", Col("id"), Col("a")), Is("Lt", Col("a"), NullLit)}
Keyed == {Is("Eq", Col("ID"), v) : v \in {Int_(2), Half(3), Half(4), Half(5), Txt(<<98>>)}} \cup {Is("Eq", Int_(3), Col("id"))}
Members == {<<"in", Col("a"), <<Int_(9), v>>, n>> : v \in Values, n \in BOOLEAN}
           \cup {<<"between", Col("a"), Half(3), v, n>> : v \in Values, n \in BOOLEAN}
           \cup {<<"isnull", Col("a"), n>> : n \in BOOLEAN}
Patterns == {<<37>>, <<95, 98>>, <<97, 37>>, <<37, 65, 37, 98>>, <<37, 98, 98>>, <<50>>, <<50, 37, 48>>, <<95, 37, 95, 37, 95>>, << >>}
Likes == {<<"like", Col("a"), Txt(q), n, ci>> : q \in Patterns, n \in {FALSE}, ci \in BOOLEAN}
         \cup {<<"like", Col("a"), NullLit, TRUE, FALSE>>, <<"like", Col("id"), Txt(<<37, 53>>), TRUE, FALSE>>}
Few == {Is("Eq", Col("a"), Int_(2)), Is("Gt", Col("id"), Half(3)), <<"isnull", Col("a"), FALSE>>}
Joints == {<<j, x, <<k, y, z>>>> : j, k \in {"and", "or"}, x, y, z \in Few} \cup {<<j, <<k, x, y>>, z>> : j, k \in {"and", "or"}, x, y, z \in Few}
          \cup {<<"not", <<k, x, y>>>> : k \in {"and", "or"}, x, y \in Few} \cup {<<"and", <<"not", x>>, y>> : x, y \in Few}
Filters == Comparisons \cup Keyed \cup Members \cup Likes \cup Joints
           \cup {<<"not", <<"not", <<"not", <<"not", Is("Eq", Col("a"), Int_(2))>>>>>>>>,
                 <<"not", <<"not", <<"not", <<"not", <<"not", <<"not", Is("Eq", Col("a"), Int_(2))>>>>>>>>>>>>}

Agg(func, column, distinct) == <<"agg", func, column, distinct, <<>>>>
Item1(column) == <<"column", column, <<>>>>
Sorted(items, order, limit, offset) ==
    [Select(items, <<>>) EXCEPT !.order_by = order, !.limit = limit, !.offset = offset]
Orders == {<<<<"a", d>>>> : d \in BOOLEAN} \cup {<<<<"a", d>>, <<"ID", ~d>>>> : d \in BOOLEAN} \cup {<<<<"n", FALSE>>>>}
Plains == {Sorted(items, order, limit, offset) :
              items \in {All, <<<<"column", "a", <<"n">>>>, Item1("id")>>, <<<<"column", "id", <<"a">>>>>>},
              order \in Orders, limit \in {<<>>, <<2>>}, offset \in {<<>>, <<1>>, <<7>>}}
Grouped == {[Select(<<Item1("a"), Agg("count", <<>>, FALSE), <<"agg", "max", <<"id">>, FALSE, <<"n">>>>>>, filter) EXCEPT
                !.group_by = <<"A">>, !.order_by = order] :
              filter \in {<<>>} \cup {<<x>> : x \in Few}, order \in {<<>>, <<<<"n", TRUE>>>>, <<<<"a", TRUE>>>>}}
Totals == {Select(<<Agg(func, <<column>>, distinct)>>, filter) :
              func \in AggFuncs, column \in {"id", "a"}, distinct \in BOOLEAN,
              filter \in {<<>>, <<Is("Gt", Col("a"), Int_(0))>>, <<<<"isnull", Col("a"), FALSE>>>>}}

Supplied == {Text(Select(All, <<<<"and", Is("Gt", Col("id"), Param(i)), Is("Eq", Col("a"), Param(j))>>>>), ps) :
                i, j \in 1 .. 2, ps \in {<<One>>, <<One, <<"int", 2>>>>, <<Null, One, One>>}}
Anonymous == {[Text(Update(<<<<"a", Param(1)>>, <<c, Param(2)>>>>, KeyIs(Param(3))), <<One, <<"int", 8>>, <<"int", 3>>>>) EXCEPT
                 !.style = "anonymous"] : c \in {"ID", "A"}}

Queries == [Setting EXCEPT !.db = Indexed(Table), !.statements = 1,
                           !.auto = {Plain(s) : s \in {Select(All, <<f>>) : f \in Filters} \cup Plains \cup Grouped \cup Totals}
                                    \cup {[x EXCEPT !.needs = MaxParam(x.stmt)] : x \in Supplied} \cup Anonymous]

(* Both zeros of the floats, and one of them beside the integer's.         *)
Zero == <<"lit", <<"float", 0>>>>
Negative == <<"lit", MinusZero>>
ZeroFilters == {Is(op, Col("a"), z) : op \in DOMAIN Symbol, z \in {Zero, Negative, Int_(0)}}
               \cup {<<"in", Col("a"), <<Int_(9), Negative>>, FALSE>>, <<"like", Col("a"), Txt(<<45, 37>>), FALSE, FALSE>>}
Zeros(a, b) == [Setting EXCEPT !.db = Indexed(<<Row(1, a), Row(2, b), Row(3, Null), <<MinusZero, a>>, Row(4, <<"float", -12>>)>>),
                               !.statements = 1,
                               !.auto = {Plain(s) : s \in {Select(All, <<f>>) : f \in ZeroFilters \cup {Is("Eq", Col("id"), Int_(0))}}
                                                          \cup Plains \cup Grouped \cup Totals}]

AllSettings == {Racing, Sessions, Retries, Old, OldSessions, Queries, Zeros(<<"float", 0>>, MinusZero), Zeros(<<"int", 0>>, MinusZero)}
=============================================================================
