------------------------------- MODULE Filters -------------------------------
(***************************************************************************)
(* Metadata filters: rust/src/collection/filter.rs, and the evaluation     *)
(* from the index in rust/src/collection/mod.rs.  Strings, field names,    *)
(* ids and index keys are sequences of bytes, as in the code; the limits   *)
(* and the width of a number are constants, small in an instance.          *)
(*                                                                         *)
(* JSON: records with a kind `t': "null", "bool" (b), "num" (sign, mag: a  *)
(* float is a sign and a magnitude, so zero has two), "str" (s), "arr"     *)
(* (items, a sequence) and "obj" (map, a function of keys).  A filter is a *)
(* record with an `op'.                                                    *)
(***************************************************************************)
EXTENDS Integers, FiniteSets, Sequences, SequencesExt

CONSTANTS
    MAX_INDEXED_STRING,    \* longest encoded string that is indexed
    MAX_FIELD_PATH,        \* longest path, in bytes
    MAX_METADATA_DEPTH,    \* deepest nesting of metadata
    MAX_INDEXED_VALUES,    \* most index entries of a document
    MAX_FILTER_DEPTH,      \* deepest nesting of a filter
    MagnitudeBits          \* bits of a float other than its sign, at most 7

ASSUME FiltersAssumption ==
    /\ MAX_INDEXED_STRING \in Nat /\ MAX_FIELD_PATH \in Nat \ {0}
    /\ MAX_METADATA_DEPTH \in Nat \ {0} /\ MAX_INDEXED_VALUES \in Nat /\ MAX_FILTER_DEPTH \in Nat
    /\ MagnitudeBits \in 1 .. 7

-----------------------------------------------------------------------------
(* Byte strings.                                                           *)

LexLess(a, b) ==
    \E n \in 0 .. Len(a) :
        /\ n < Len(b) /\ SubSeq(a, 1, n) = SubSeq(b, 1, n)
        /\ n = Len(a) \/ a[n + 1] < b[n + 1]

(* The least string above every string with the prefix; <<>> if none is.   *)
prefix_successor(p) ==
    LET last == {i \in DOMAIN p : p[i] < 255}
    IN IF last = {} THEN <<>>
       ELSE LET i == CHOOSE i \in last : \A j \in last : j <= i
            IN [SubSeq(p, 1, i) EXCEPT ![i] = @ + 1]

Dot == 46

RECURSIVE Split(_)
Split(path) ==
    LET dots == {i \in DOMAIN path : path[i] = Dot}
    IN IF dots = {} THEN <<path>>
       ELSE LET i == CHOOSE i \in dots : \A j \in dots : i <= j
            IN <<SubSeq(path, 1, i - 1)>> \o Split(SubSeq(path, i + 1, Len(path)))

-----------------------------------------------------------------------------
(* Scalars.                                                                *)

IsScalar(v) == v.t \notin {"arr", "obj"}

Number(v) == IF v.sign = 1 THEN -v.mag ELSE v.mag

(* "lt", "eq" or "gt"; "none" across types.                                *)
compare(x, y) ==
    IF x.t # y.t THEN "none"
    ELSE CASE x.t = "null" -> "eq"
           [] x.t = "bool" -> IF x.b = y.b THEN "eq" ELSE IF y.b THEN "lt" ELSE "gt"
           [] x.t = "num" -> IF Number(x) = Number(y) THEN "eq"
                             ELSE IF Number(x) < Number(y) THEN "lt" ELSE "gt"
           [] x.t = "str" -> IF x.s = y.s THEN "eq" ELSE IF LexLess(x.s, y.s) THEN "lt" ELSE "gt"

type_tag(v) == CASE v.t = "null" -> 1 [] v.t = "bool" -> 2 [] v.t = "num" -> 3 [] v.t = "str" -> 4

escape(s) == FlattenSeq([i \in DOMAIN s |-> IF s[i] = 0 THEN <<0, 255>> ELSE <<s[i]>>])

(* A positive float's sign bit is set, a negative one's bits are inverted; *)
(* the two zeros are one.                                                  *)
OrderedBits(v) ==
    LET top == 2 ^ MagnitudeBits
        sign == IF v.mag = 0 THEN 0 ELSE v.sign
    IN IF sign = 1 THEN 2 * top - 1 - (top + v.mag) ELSE top + v.mag

(* Wrong on purpose: the bits of a number as they are.                     *)
EncodePlainBits(v) ==
    CASE v.t = "null" -> <<1>>
      [] v.t = "bool" -> <<2, IF v.b THEN 1 ELSE 0>>
      [] v.t = "num" -> <<3, v.sign * 2 ^ MagnitudeBits + v.mag>>
      [] v.t = "str" -> <<4>> \o escape(v.s) \o <<0, 1>>

encode(v) ==
    CASE v.t = "null" -> <<1>>
      [] v.t = "bool" -> <<2, IF v.b THEN 1 ELSE 0>>
      [] v.t = "num" -> <<3, OrderedBits(v)>>
      [] v.t = "str" -> <<4>> \o escape(v.s) \o <<0, 1>>

indexable(v) == v.t = "str" => Len(escape(v.s)) <= MAX_INDEXED_STRING

(* The length of the encoding at the start of the bytes, 0 if it is none.  *)
RECURSIVE StringEnd(_, _)
StringEnd(bytes, i) ==
    IF i + 1 > Len(bytes) THEN 0
    ELSE IF bytes[i] # 0 THEN StringEnd(bytes, i + 1)
    ELSE CASE bytes[i + 1] = 1 -> i + 1
           [] bytes[i + 1] = 255 -> StringEnd(bytes, i + 2)
           [] OTHER -> 0

encoded_len(bytes) ==
    LET fixed(n) == IF Len(bytes) >= n THEN n ELSE 0
    IN IF bytes = <<>> THEN 0
       ELSE CASE bytes[1] = 1 -> fixed(1)
              [] bytes[1] = 2 -> fixed(2)
              [] bytes[1] = 3 -> fixed(2)
              [] bytes[1] = 4 -> StringEnd(bytes, 2)
              [] OTHER -> 0

-----------------------------------------------------------------------------
(* In memory: what a path reaches in a document, and what a filter says of *)
(* it.  This is the reference the index must agree with.                   *)

RECURSIVE collect_at(_, _, _)
collect_at(v, path, budget) ==
    IF budget = 0 THEN {}
    ELSE CASE v.t = "arr" -> UNION {collect_at(v.items[i], path, budget - 1) : i \in DOMAIN v.items}
           [] v.t = "obj" /\ path # <<>> ->
                IF Head(path) \in DOMAIN v.map
                THEN collect_at(v.map[Head(path)], Tail(path), budget - 1) ELSE {}
           [] OTHER -> IF path = <<>> /\ IsScalar(v) /\ indexable(v) THEN {v} ELSE {}

values_at(metadata, field) == collect_at(metadata, Split(field), MAX_METADATA_DEPTH)

RECURSIVE PresentAt(_, _, _)
PresentAt(v, path, budget) ==
    /\ budget > 0
    /\ CASE v.t = "arr" -> \E i \in DOMAIN v.items : PresentAt(v.items[i], path, budget - 1)
         [] v.t = "obj" /\ path # <<>> ->
              /\ Head(path) \in DOMAIN v.map
              /\ PresentAt(v.map[Head(path)], Tail(path), budget - 1)
         [] OTHER -> path = <<>>

field_present(metadata, field) == PresentAt(metadata, Split(field), MAX_METADATA_DEPTH)

RangeHolds(op, order) ==
    CASE op = "gt" -> order = "gt"
      [] op = "gte" -> order \in {"gt", "eq"}
      [] op = "lt" -> order = "lt"
      [] op = "lte" -> order \in {"lt", "eq"}

RECURSIVE matches(_, _)
matches(f, metadata) ==
    CASE f.op = "all" -> TRUE
      [] f.op = "eq" -> \E x \in values_at(metadata, f.field) : compare(x, f.v) = "eq"
      [] f.op = "ne" -> ~matches([f EXCEPT !.op = "eq"], metadata)
      [] f.op \in {"gt", "gte", "lt", "lte"} ->
            \E x \in values_at(metadata, f.field) : RangeHolds(f.op, compare(x, f.v))
      [] f.op = "in" -> \E x \in values_at(metadata, f.field), v \in f.vs : compare(x, v) = "eq"
      [] f.op = "nin" -> ~matches([f EXCEPT !.op = "in"], metadata)
      [] f.op = "exists" -> field_present(metadata, f.field) = f.want
      [] f.op = "and" -> \A g \in ToSet(f.parts) : matches(g, metadata)
      [] f.op = "or" -> \E g \in ToSet(f.parts) : matches(g, metadata)
      [] f.op = "not" -> ~matches(f.part, metadata)

-----------------------------------------------------------------------------
(* A filter read from JSON.  The names of the operators are byte strings   *)
(* that start with a dollar.                                               *)

Dollar == 36
Operator(n) == <<Dollar, n>>
Logical == [and |-> Operator(1), or |-> Operator(2), not |-> Operator(3)]
OnField == [eq |-> Operator(4), ne |-> Operator(5), gt |-> Operator(6), gte |-> Operator(7), lt |-> Operator(8),
            lte |-> Operator(9), in |-> Operator(10), nin |-> Operator(11), exists |-> Operator(12)]
NameOf(table, k) == CHOOSE n \in DOMAIN table : table[n] = k
IsOperator(k) == k # <<>> /\ k[1] = Dollar

Invalid == [op |-> "invalid"]
operand(v) == IsScalar(v) /\ indexable(v)
validate_field(k) == Len(k) \in 1 .. MAX_FIELD_PATH /\ ~Contains(k, 0)

(* One clause is itself, several are a conjunction.                        *)
Conjunction(clauses) ==
    IF \E i \in DOMAIN clauses : clauses[i] = Invalid THEN Invalid
    ELSE CASE clauses = <<>> -> [op |-> "all"]
           [] Len(clauses) = 1 -> clauses[1]
           [] OTHER -> [op |-> "and", parts |-> clauses]

ParseOp(field, k, arg) ==
    LET name == IF k \in {OnField[n] : n \in DOMAIN OnField} THEN NameOf(OnField, k) ELSE "unknown"
    IN CASE name \in {"eq", "ne"} /\ operand(arg) -> [op |-> name, field |-> field, v |-> arg]
         [] name \in {"gt", "gte", "lt", "lte"} /\ operand(arg) /\ arg.t \in {"num", "str"} ->
                [op |-> name, field |-> field, v |-> arg]
         [] name \in {"in", "nin"} /\ arg.t = "arr" /\ (\A i \in DOMAIN arg.items : operand(arg.items[i])) ->
                [op |-> name, field |-> field, vs |-> ToSet(arg.items)]
         [] name = "exists" /\ arg.t = "bool" -> [op |-> "exists", field |-> field, want |-> arg.b]
         [] OTHER -> Invalid

parse_field(field, v) ==
    IF ~validate_field(field) THEN Invalid
    ELSE CASE v.t = "obj" ->
                IF DOMAIN v.map = {} \/ \E k \in DOMAIN v.map : ~IsOperator(k) THEN Invalid
                ELSE LET ops == SetToSeq(DOMAIN v.map)
                     IN Conjunction([i \in DOMAIN ops |-> ParseOp(field, ops[i], v.map[ops[i]])])
           [] operand(v) -> [op |-> "eq", field |-> field, v |-> v]
           [] OTHER -> Invalid

RECURSIVE parse_at(_, _)
parse_at(value, depth) ==
    LET Parts(v) == [i \in DOMAIN v.items |-> parse_at(v.items[i], depth + 1)]
        Joined(name, v) == IF v.t # "arr" \/ v.items = <<>> THEN Invalid
                           ELSE IF Contains(Parts(v), Invalid) THEN Invalid
                           ELSE [op |-> name, parts |-> Parts(v)]
        Negated(part) == IF part = Invalid THEN Invalid ELSE [op |-> "not", part |-> part]
        Clause(k, v) == CASE k = Logical.and -> Joined("and", v)
                          [] k = Logical.or -> Joined("or", v)
                          [] k = Logical.not -> Negated(parse_at(v, depth + 1))
                          [] IsOperator(k) /\ k \notin {Logical.and, Logical.or, Logical.not} -> Invalid
                          [] OTHER -> parse_field(k, v)
    IN IF depth > MAX_FILTER_DEPTH \/ value.t # "obj" THEN Invalid
       ELSE LET keys == SetToSeq(DOMAIN value.map)
            IN Conjunction([i \in DOMAIN keys |-> Clause(keys[i], value.map[keys[i]])])

parse(value) == parse_at(value, 0)

-----------------------------------------------------------------------------
(* What metadata contributes to the index, or that it is refused.          *)

Nothing == [values |-> {}, present |-> {}, ok |-> TRUE]
Refused == [Nothing EXCEPT !.ok = FALSE]
Both(a, b) == [values |-> a.values \cup b.values, present |-> a.present \cup b.present,
               ok |-> a.ok /\ b.ok]

RECURSIVE FlattenAt(_, _, _)
FlattenAt(v, path, budget) ==
    LET here == [Nothing EXCEPT !.present = IF path # <<>> /\ v.t # "arr" THEN {path} ELSE {}]
        Child(k) == IF path = <<>> THEN k ELSE path \o <<Dot>> \o k
        Fits(k) == validate_field(k) /\ ~Contains(k, Dot) /\ Len(Child(k)) <= MAX_FIELD_PATH
    IN IF budget = 0 THEN Refused
       ELSE CASE v.t = "obj" ->
                   FoldLeft(LAMBDA out, k : IF Fits(k) THEN Both(out, FlattenAt(v.map[k], Child(k), budget - 1))
                                            ELSE Refused,
                            here, SetToSeq(DOMAIN v.map))
              [] v.t = "arr" ->
                   FoldLeft(LAMBDA out, x : Both(out, FlattenAt(x, path, budget - 1)), here, v.items)
              [] OTHER -> IF path # <<>> /\ indexable(v)
                          THEN [here EXCEPT !.values = {<<path, v>>}] ELSE here

flatten(metadata) ==
    LET flat == FlattenAt(metadata, <<>>, MAX_METADATA_DEPTH)
        distinct == {<<e[1], encode(e[2])>> : e \in flat.values}
    IN IF Cardinality(distinct) + Cardinality(flat.present) > MAX_INDEXED_VALUES
       THEN Refused ELSE flat

META == 18
PRESENT == 0
meta_prefix(field) == <<META>> \o field \o <<0>>

index_keys(flat, id) ==
    {meta_prefix(e[1]) \o encode(e[2]) \o id : e \in flat.values}
    \cup {meta_prefix(field) \o <<PRESENT>> \o id : field \in flat.present}

-----------------------------------------------------------------------------
(* From the index: the ids in a range of its keys.                         *)

KeysFrom(index, lo, hi) == {k \in index : ~LexLess(k, lo) /\ LexLess(k, hi)}
After(s, n) == SubSeq(s, n + 1, Len(s))

ids_in_range(index, field, lo, hi) ==
    LET base == Len(meta_prefix(field))
    IN {LET suffix == After(k, base) IN After(suffix, encoded_len(suffix)) : k \in KeysFrom(index, lo, hi)}

ids_eq(index, field, v) ==
    LET prefix == meta_prefix(field) \o encode(v)
    IN ids_in_range(index, field, prefix, prefix_successor(prefix))

ids_present(index, field) ==
    LET prefix == Append(meta_prefix(field), PRESENT)
    IN {After(k, Len(prefix)) : k \in KeysFrom(index, prefix, prefix_successor(prefix))}

ids_ranged(index, f) ==
    LET base == meta_prefix(f.field)
        at == base \o encode(f.v)
        after == prefix_successor(at)
        type_lo == Append(base, type_tag(f.v))
        type_hi == Append(base, type_tag(f.v) + 1)
    IN CASE f.op = "gt" -> ids_in_range(index, f.field, after, type_hi)
         [] f.op = "gte" -> ids_in_range(index, f.field, at, type_hi)
         [] f.op = "lt" -> ids_in_range(index, f.field, type_lo, at)
         [] f.op = "lte" -> ids_in_range(index, f.field, type_lo, after)

RECURSIVE eval(_, _, _)
eval(index, universe, f) ==
    CASE f.op = "all" -> universe
      [] f.op = "eq" -> ids_eq(index, f.field, f.v)
      [] f.op = "in" -> UNION {ids_eq(index, f.field, v) : v \in f.vs}
      [] f.op \in {"gt", "gte", "lt", "lte"} -> ids_ranged(index, f)
      [] f.op = "exists" -> IF f.want THEN ids_present(index, f.field)
                            ELSE universe \ ids_present(index, f.field)
      [] f.op = "ne" -> universe \ ids_eq(index, f.field, f.v)
      [] f.op = "nin" -> universe \ eval(index, universe, [f EXCEPT !.op = "in"])
      [] f.op = "and" ->
            IF f.parts = <<>> THEN universe
            ELSE FoldLeft(LAMBDA acc, g : IF acc = {} THEN {} ELSE acc \cap eval(index, universe, g),
                          eval(index, universe, Head(f.parts)), Tail(f.parts))
      [] f.op = "or" -> UNION {eval(index, universe, g) : g \in ToSet(f.parts)}
      [] f.op = "not" -> universe \ eval(index, universe, f.part)
=============================================================================
