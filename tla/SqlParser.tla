------------------------------ MODULE SqlParser ------------------------------
(***************************************************************************)
(* The recursive-descent parser, rust/src/sql/parser.rs, from tokens to    *)
(* statements.  A token is <<kind, value>>: "ident", "quoted", "string",   *)
(* "integer", "float", "param" (0 for a bare `?') or "sym".                *)
(*                                                                         *)
(* The parser's state is a record: the tokens, the position of the next    *)
(* one, the parameters numbered so far and needed, whether it has failed,  *)
(* and v, what the last rule read.  A rule maps a state to a state; after  *)
(* a failure every rule leaves it alone.                                   *)
(***************************************************************************)
EXTENDS Integers, Sequences, SequencesExt

CONSTANTS
    fold,           \* name |-> its lower case, for every name and word in use
    UnusableNames,  \* the names that are empty or longer than MAX_IDENT_LEN
    MAX_DEPTH       \* of a condition

RESERVED == {"select", "from", "where", "and", "or", "not", "insert", "into", "values", "update", "set", "delete",
             "create", "table", "drop", "order", "group", "by", "limit", "offset", "null", "is", "in", "between",
             "like", "ilike", "as"}

AggFuncs == {"count", "sum", "avg", "min", "max"}

EndOfInput == <<"end">>
peek_at(s, ahead) == IF s.pos + ahead <= Len(s.toks) THEN s.toks[s.pos + ahead] ELSE EndOfInput
peek(s) == peek_at(s, 0)

Fail(s) == [s EXCEPT !.err = TRUE]
Give(s, v) == [s EXCEPT !.v = v]
Wrapped(s) == Give(s, <<s.v>>)

(* What was read up to s, and what r has read after it.                    *)
Then(s, r) == Give(r, Append(s.v, r.v))

Skip(s) == [s EXCEPT !.pos = @ + 1]

is_keyword(t, word) == t[1] = "ident" /\ fold[t[2]] = word
Accepts(s, word) == ~s.err /\ is_keyword(peek(s), word)
AcceptsKind(s, sym) == ~s.err /\ peek(s) = <<"sym", sym>>
accept_keyword(s, word) == IF Accepts(s, word) THEN Give(Skip(s), TRUE) ELSE Give(s, FALSE)

expect_keyword(s, word) == IF Accepts(s, word) THEN Skip(s) ELSE Fail(s)
expect_kind(s, sym) == IF AcceptsKind(s, sym) THEN Skip(s) ELSE Fail(s)

(* A bare word that is not reserved, or a quoted name.                     *)
expect_ident(s) ==
    LET t == peek(s)
    IN IF s.err \/ t[1] \notin {"ident", "quoted"} THEN Fail(s)
       ELSE IF (t[1] = "ident" /\ fold[t[2]] \in RESERVED) \/ t[2] \in UnusableNames THEN Fail(s)
       ELSE Give(Skip(s), t[2])

(* The parameter of `?', the next in order, or of `?N'.                    *)
param(s, explicit) ==
    LET index == IF explicit # 0 THEN explicit ELSE s.next + 1
    IN [s EXCEPT !.next = IF explicit # 0 THEN @ ELSE @ + 1,
                 !.count = IF index > @ THEN index ELSE @, !.v = <<"param", index>>]

expect_value(s) ==
    LET t == peek(s)
    IN IF s.err THEN s
       ELSE CASE t[1] = "string" -> Give(Skip(s), <<"lit", <<"text", t[2]>>>>)
              [] t[1] = "integer" -> Give(Skip(s), <<"lit", <<"int", t[2]>>>>)
              [] t[1] = "float" -> Give(Skip(s), <<"lit", t>>)
              [] t[1] = "param" -> param(Skip(s), t[2])
              [] is_keyword(t, "null") -> Give(Skip(s), <<"lit", <<"null">>>>)
              [] OTHER -> Fail(s)

(* A literal, NULL, a parameter or a column.                               *)
parse_operand(s) ==
    IF s.err \/ is_keyword(peek(s), "null") \/ peek(s)[1] \notin {"ident", "quoted"} THEN expect_value(s)
    ELSE LET r == expect_ident(s) IN Give(r, <<"col", r.v>>)

expect_count(s) ==
    IF ~s.err /\ peek(s)[1] = "integer" /\ peek(s)[2] >= 0 THEN Give(Skip(s), peek(s)[2]) ELSE Fail(s)

parse_alias(s) == IF Accepts(s, "as") THEN Wrapped(expect_ident(Skip(s))) ELSE Give(s, <<>>)

(* A column, or a function of one: a function's name is followed by `('.   *)
parse_select_item(s) ==
    LET isFunc == peek(s)[1] = "ident" /\ peek_at(s, 1) = <<"sym", "(">>
        func == fold[peek(s)[2]]
        d == accept_keyword(Skip(Skip(s)), "distinct")
        arg == IF AcceptsKind(d, "*")
               THEN IF func # "count" \/ d.v THEN Fail(d) ELSE Give(Skip(d), <<>>)
               ELSE Wrapped(expect_ident(d))
        f == parse_alias(expect_kind(arg, ")"))
        c == expect_ident(s)
        a == parse_alias(c)
    IN IF s.err THEN s
       ELSE IF ~isFunc THEN Give(a, <<"column", c.v, a.v>>)
       ELSE IF func \notin AggFuncs THEN Fail(s)
       ELSE Give(f, <<"agg", func, arg.v, d.v, f.v>>)

parse_order_item(s) ==
    LET c == expect_ident(s)
    IN IF Accepts(c, "desc") THEN Give(Skip(c), <<c.v, TRUE>>)
       ELSE Give(IF Accepts(c, "asc") THEN Skip(c) ELSE c, <<c.v, FALSE>>)

parse_assignment(s) ==
    LET c == expect_ident(s)
        e == expect_value(expect_kind(c, "="))
    IN Give(e, <<c.v, e.v>>)

(* The sizes of a type, one or two, then `)'.                              *)
TypeSizes(s) ==
    LET one == expect_count(s)
        two == expect_count(Skip(one))
    IN IF AcceptsKind(one, ",") THEN Give(expect_kind(two, ")"), <<one.v, two.v>>)
       ELSE Give(expect_kind(one, ")"), <<one.v>>)

RECURSIVE ColumnOptions(_, _)
ColumnOptions(s, def) ==
    LET key == expect_keyword(Skip(s), "key")
        null == expect_keyword(Skip(s), "null")
        sized == AcceptsKind(Skip(s), "(")
        size == TypeSizes(Skip(Skip(s)))
    IN IF s.err THEN s
       ELSE IF Accepts(s, "primary") THEN ColumnOptions(key, [def EXCEPT !.primary_key = TRUE])
       ELSE IF Accepts(s, "not") THEN ColumnOptions(null, [def EXCEPT !.not_null = TRUE])
       ELSE IF peek(s)[1] = "ident" /\ def.data_type = <<>>
            THEN IF sized THEN ColumnOptions(size, [def EXCEPT !.data_type = <<fold[peek(s)[2]], size.v>>])
                 ELSE ColumnOptions(Skip(s), [def EXCEPT !.data_type = <<fold[peek(s)[2]], <<>>>>])
       ELSE IF AcceptsKind(s, ",") \/ AcceptsKind(s, ")") \/ peek(s) = EndOfInput THEN Give(s, def)
       ELSE Fail(s)

parse_column_def(s) ==
    LET c == expect_ident(s)
    IN ColumnOptions(c, [name |-> c.v, data_type |-> <<>>, primary_key |-> FALSE, not_null |-> FALSE])

Parenthesized(s) == Give(expect_kind(s, ")"), s.v)

(* Items with commas between; a row of VALUES is a list of its own.        *)
RECURSIVE Items(_, _, _)
comma_separated(s, rule) == Items(s, rule, <<>>)
Item(s, rule) ==
    CASE rule = "name" -> expect_ident(s)
      [] rule = "value" -> expect_value(s)
      [] rule = "operand" -> parse_operand(s)
      [] rule = "column" -> parse_column_def(s)
      [] rule = "select item" -> parse_select_item(s)
      [] rule = "order item" -> parse_order_item(s)
      [] rule = "assignment" -> parse_assignment(s)
      [] rule = "row" -> Parenthesized(comma_separated(expect_kind(s, "("), "value"))
AfterItem(s, rule, items) ==
    IF AcceptsKind(s, ",") THEN Items(Skip(s), rule, Append(items, s.v)) ELSE Give(s, Append(items, s.v))
Items(s, rule, items) == AfterItem(Item(s, rule), rule, items)

reject_duplicates(s, names) ==
    IF ~s.err /\ \E i, j \in DOMAIN names : i < j /\ fold[names[i]] = fold[names[j]] THEN Fail(s) ELSE s

-----------------------------------------------------------------------------
(* Conditions.                                                             *)

RECURSIVE parse_or(_, _), OrAfter(_, _), parse_and(_, _), AndAfter(_, _), parse_not(_, _)

guard_depth(s, depth) == IF depth > MAX_DEPTH THEN Fail(s) ELSE s

Negated(r) == Give(r, <<"not", r.v>>)
JoinedBy(op, left, r) == Give(r, <<op, left, r.v>>)

OrAfter(s, depth) ==
    IF ~Accepts(s, "or") THEN s ELSE OrAfter(JoinedBy("or", s.v, parse_and(Skip(s), depth + 1)), depth)
AndAfter(s, depth) ==
    IF ~Accepts(s, "and") THEN s ELSE AndAfter(JoinedBy("and", s.v, parse_not(Skip(s), depth + 1)), depth)

(* Wrong on purpose: the right-hand side of OR is one term of an AND.      *)
OrOverTerms(s, depth) ==
    LET g == guard_depth(s, depth)
        left == IF g.err THEN g ELSE parse_and(g, depth + 1)
        right == parse_not(Skip(left), depth + 1)
    IN IF Accepts(left, "or") THEN AndAfter(Give(right, <<"or", left.v, right.v>>), depth) ELSE left

parse_or(s, depth) ==
    LET g == guard_depth(s, depth) IN IF g.err THEN g ELSE OrAfter(parse_and(g, depth + 1), depth)
parse_and(s, depth) ==
    LET g == guard_depth(s, depth) IN IF g.err THEN g ELSE AndAfter(parse_not(g, depth + 1), depth)
(* `x = NULL' and `x <> NULL' are read as IS [NOT] NULL.                   *)
parse_comparison(s, left) ==
    LET t == peek(s)
        r == parse_operand(Skip(s))
    IN IF s.err \/ t[1] # "sym" THEN Fail(s)
       ELSE IF t[2] \notin {"=", "<>", "<", "<=", ">", ">="} THEN Fail(s)
       ELSE LET op == CASE t[2] = "=" -> "Eq"   [] t[2] = "<>" -> "NotEq" [] t[2] = "<" -> "Lt"
                        [] t[2] = "<=" -> "LtEq" [] t[2] = ">" -> "Gt"     [] t[2] = ">=" -> "GtEq"
            IN IF ~r.err /\ r.v = <<"lit", <<"null">>>> /\ op \in {"Eq", "NotEq"}
               THEN Give(r, <<"isnull", left, op = "NotEq">>)
               ELSE Give(r, <<"cmp", op, left, r.v>>)

InTest(s, left, negated) == Give(s, <<"in", left, s.v, negated>>)

(* The rest of a predicate whose first operand is left.                    *)
AfterOperand(s, left, negated) ==
    LET low == parse_operand(Skip(s))
        high == parse_operand(expect_keyword(low, "and"))
        list == comma_separated(expect_kind(Skip(s), "("), "operand")
    IN IF Accepts(s, "in") THEN InTest(Parenthesized(list), left, negated)
       ELSE IF Accepts(s, "between") THEN Give(high, <<"between", left, low.v, high.v, negated>>)
       ELSE IF Accepts(s, "like") THEN Give(low, <<"like", left, low.v, negated, FALSE>>)
       ELSE IF Accepts(s, "ilike") THEN Give(low, <<"like", left, low.v, negated, TRUE>>)
       ELSE parse_comparison(s, left)

(* IS [NOT] NULL, or NOT before IN, BETWEEN, LIKE or ILIKE.                *)
parse_test(s) ==
    LET is == accept_keyword(Skip(s), "not")
        negated == /\ Accepts(s, "not")
                   /\ \E w \in {"in", "between", "like", "ilike"} : is_keyword(peek_at(s, 1), w)
    IN IF Accepts(s, "is") THEN Give(expect_keyword(is, "null"), <<"isnull", s.v, is.v>>)
       ELSE AfterOperand(IF negated THEN Skip(s) ELSE s, s.v, negated)

parse_predicate(s, depth) ==
    LET g == guard_depth(s, depth)
    IN IF g.err THEN g
       ELSE IF AcceptsKind(g, "(") THEN Parenthesized(parse_or(Skip(g), depth + 1))
       ELSE parse_test(parse_operand(g))

parse_not(s, depth) ==
    LET g == guard_depth(s, depth)
    IN IF g.err THEN g
       ELSE IF Accepts(g, "not") THEN Negated(parse_not(Skip(g), depth + 1))
       ELSE parse_predicate(g, depth + 1)

parse_optional_where(s) ==
    IF Accepts(s, "where") THEN Wrapped(parse_or(Skip(s), 0)) ELSE Give(s, <<>>)

-----------------------------------------------------------------------------
(* Statements; s is the state after the first word.  What was read goes    *)
(* into a sequence, and from there into a record.                          *)

NameNext(s) == Then(s, expect_ident(s))
WhereNext(s) == Then(s, parse_optional_where(s))

IfNotExists(s) ==
    IF Accepts(s, "if") THEN Give(expect_keyword(expect_keyword(Skip(s), "not"), "exists"), <<TRUE>>)
    ELSE Give(s, <<FALSE>>)
ColumnsNext(s) == Then(s, Parenthesized(comma_separated(expect_kind(s, "("), "column")))
AsCreate(s) == Give(s, [kind |-> "create", if_not_exists |-> s.v[1], table |-> s.v[2], columns |-> s.v[3]])
parse_create(s) == AsCreate(ColumnsNext(NameNext(IfNotExists(expect_keyword(s, "table")))))

IfExists(s) ==
    IF Accepts(s, "if") THEN Give(expect_keyword(Skip(s), "exists"), <<TRUE>>) ELSE Give(s, <<FALSE>>)
AsDrop(s) == Give(s, [kind |-> "drop", if_exists |-> s.v[1], table |-> s.v[2]])
parse_drop(s) == AsDrop(NameNext(IfExists(expect_keyword(s, "table"))))

(* No columns stand for all of them, in order.                             *)
Unrepeated(s) == reject_duplicates(s, s.v)
ListingNext(s) ==
    Then(s, IF AcceptsKind(s, "(") THEN Unrepeated(Parenthesized(comma_separated(Skip(s), "name")))
            ELSE Give(s, <<>>))
RowsNext(s) == Then(s, comma_separated(expect_keyword(s, "values"), "row"))
AsInsert(s) ==
    IF ~s.err /\ s.v[2] # <<>> /\ \E i \in DOMAIN s.v[3] : Len(s.v[3][i]) # Len(s.v[2]) THEN Fail(s)
    ELSE Give(s, [kind |-> "insert", table |-> s.v[1], columns |-> s.v[2], rows |-> s.v[3]])
parse_insert(s) == AsInsert(RowsNext(ListingNext(NameNext(Give(expect_keyword(s, "into"), <<>>)))))

SelectItems(s) ==
    Wrapped(IF AcceptsKind(s, "*") THEN Give(Skip(s), <<<<"*">>>>) ELSE comma_separated(s, "select item"))
ClauseNext(s, word, rule) ==
    Then(s, IF Accepts(s, word) THEN comma_separated(expect_keyword(Skip(s), "by"), rule) ELSE Give(s, <<>>))
CountNext(s, word) == Then(s, IF Accepts(s, word) THEN Wrapped(expect_count(Skip(s))) ELSE Give(s, <<>>))
AsSelect(s) == Give(s, [kind |-> "select", items |-> s.v[1], table |-> s.v[2], filter |-> s.v[3],
                      group_by |-> s.v[4], order_by |-> s.v[5], limit |-> s.v[6], offset |-> s.v[7]])
ClausesNext(s) == ClauseNext(ClauseNext(WhereNext(s), "group", "name"), "order", "order item")
CountsNext(s) == CountNext(CountNext(s, "limit"), "offset")
parse_select(s) == AsSelect(CountsNext(ClausesNext(NameNext(expect_keyword(SelectItems(s), "from")))))

Targets(s) ==
    IF s.err THEN s ELSE reject_duplicates(s, [i \in DOMAIN s.v |-> s.v[i][1]])
AssignmentsNext(s) == Then(s, Targets(comma_separated(expect_keyword(s, "set"), "assignment")))
AsUpdate(s) == Give(s, [kind |-> "update", table |-> s.v[1], assignments |-> s.v[2], filter |-> s.v[3]])
parse_update(s) == AsUpdate(WhereNext(AssignmentsNext(NameNext(Give(s, <<>>)))))

AsDelete(s) == Give(s, [kind |-> "delete", table |-> s.v[1], filter |-> s.v[2]])
parse_delete(s) == AsDelete(WhereNext(NameNext(Give(expect_keyword(s, "from"), <<>>))))

parse_statement(s) ==
    LET body == Skip(s)
    IN CASE Accepts(s, "create") -> parse_create(body)
         [] Accepts(s, "drop") -> parse_drop(body)
         [] Accepts(s, "insert") -> parse_insert(body)
         [] Accepts(s, "select") -> parse_select(body)
         [] Accepts(s, "update") -> parse_update(body)
         [] Accepts(s, "delete") -> parse_delete(body)
         [] OTHER -> Fail(s)

(* The statement, whether there is one, and the parameters it needs; only  *)
(* a semicolon may follow it.                                              *)
Ended(s) ==
    LET end == IF AcceptsKind(s, ";") THEN Skip(s) ELSE s
    IN [ok |-> ~s.err /\ peek(end) = EndOfInput, stmt |-> s.v, needed |-> s.count]

parse_with_params(toks) ==
    Ended(parse_statement([toks |-> toks, pos |-> 1, next |-> 0, count |-> 0, err |-> FALSE, v |-> <<>>]))
=============================================================================
