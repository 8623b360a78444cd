------------------------------ MODULE MCQueries ------------------------------
(* Questions for TLC.                                                      *)
EXTENDS Queries, TLC

A == <<97>>
AB == <<97, 98>>
B == <<98>>
Gone == <<99>>
Mute == <<100>>

F == <<102>>
G == <<103>>
FG == <<102, 46, 103>>

Null == [t |-> "null"]
Bool(x) == [t |-> "bool", b |-> x]
Num(sign, mag) == [t |-> "num", sign |-> sign, mag |-> mag]
Str(bytes) == [t |-> "str", s |-> bytes]
Arr(items) == [t |-> "arr", items |-> items]
Obj(map) == [t |-> "obj", map |-> map]

(* Both zeros, a NUL in a string, a string too long for the index, arrays  *)
(* in arrays, a key that continues another's name.                         *)
Metadata ==
    {Null, Obj(F :> Null), Obj(F :> Bool(TRUE)), Obj(F :> Num(1, 1)), Obj(F :> Num(1, 3)), Obj(F :> Num(1, 0)), Obj(F :> Num(0, 0)),
     Obj(F :> Num(0, 2)), Obj(F :> Str(<<97, 0>>)), Obj(F :> Str(<<97, 97, 97, 97>>)),
     Obj(F :> Arr(<<Str(<<97>>), Arr(<<Num(0, 1), Str(<<>>)>>)>>)), Obj(F :> Arr(<<>>)),
     Obj(F :> Obj(G :> Num(0, 1))), Obj(F :> Arr(<<Obj(G :> Str(<<98>>)), Obj(G :> Bool(FALSE))>>)),
     Obj(<<102, 103>> :> Num(0, 0) @@ F :> Str(<<97>>))}

Operands == {Null, Bool(FALSE), Num(1, 2), Num(1, 1), Num(0, 0), Num(0, 1), Str(<<>>), Str(<<97>>), Str(<<97, 0>>)}
Clause(op, arg) == Obj(F :> Obj(OnField[op] :> arg))

FilterDocuments ==
    {Clause(op, v) : op \in {"eq", "ne", "gt", "gte", "lt", "lte"}, v \in Operands}
    \cup {Clause(op, Arr(vs)) : op \in {"in", "nin"}, vs \in {<<>>, <<Num(1, 0), Str(<<97>>)>>}}
    \cup {Obj(field :> Obj(OnField.exists :> Bool(x))) : field \in {F, FG}, x \in BOOLEAN}
    \cup {Obj(field :> v) : field \in {FG, <<102, 103>>}, v \in {Num(0, 1), Str(<<98>>)}}
    \cup {Obj(<<>>), Obj(F :> Arr(<<Null>>)), Obj(F :> Obj(G :> Null)), Obj(Operator(99) :> Null), Str(F),
          Obj(F :> Obj(OnField.gte :> Num(0, 0) @@ OnField.lt :> Num(0, 2))),
          Obj(F :> Str(<<97>>) @@ FG :> Num(0, 1)),
          Obj(Logical.or :> Arr(<<Clause("eq", Str(<<97>>)), Obj(FG :> Num(0, 1))>>)),
          Obj(Logical.and :> Arr(<<Clause("exists", Bool(TRUE)), Clause("ne", Num(0, 2))>>) @@ F :> Num(0, 0)),
          Obj(Logical.not :> Obj(Logical.or :> Arr(<<Clause("gt", Num(1, 1)), Clause("eq", Null)>>))),
          Obj(Logical.not :> Obj(Logical.not :> Obj(Logical.not :> Obj(Logical.not :> Clause("eq", Null)))))}

FilterQuestions ==
    {[kind |-> "filter", docs |-> (A :> m @@ AB :> n), query |-> q] :
        m \in Metadata, n \in {Obj(F :> Num(0, 1)), Obj(F :> Str(<<98>>)), Obj(F :> Bool(FALSE))},
        q \in FilterDocuments}

PageQuestions ==
    {[kind |-> "pages", ids |-> ids, filtered |-> f, limit |-> n, rev |-> r] :
        ids \in SUBSET {A, AB, B, <<97, 97>>}, f \in BOOLEAN, n \in 0 .. 3, r \in BOOLEAN}

(* The postings of "ca" and "cat" are neighbours in the index.             *)
Ca == <<99, 97>>
Cat == <<99, 97, 116>>
Texts == A :> <<Ca, Cat, Cat>> @@ AB :> <<Cat>> @@ B :> <<Ca, Ca>> @@ Mute :> <<>>

Ranked(ids) == [i \in DOMAIN ids |-> [id |-> ids[i], score |-> <<5 - i, 1>>]]
Collections ==
    {[texts |-> Texts, ranked |-> Ranked(ids), has_vectors |-> TRUE, text_index |-> TRUE,
      like |-> [p \in {A, AB, B, Mute, Gone} \X {A, AB, B, Mute, Gone} |-> IF p[1] = p[2] \/ p = <<A, B>> \/ p = <<B, A>> THEN 4
                                                   ELSE IF p = <<A, AB>> \/ p = <<AB, A>> THEN -2 ELSE 1]] :
        ids \in {<<>>, <<A, AB, B>>, <<B, Gone, A>>, <<AB>>, <<A, Mute, B, AB>>, <<Gone, B, AB>>}}
Halves == {[texts |-> Texts, ranked |-> <<>>, has_vectors |-> FALSE, text_index |-> TRUE, like |-> <<>>],
           [texts |-> [id \in DOMAIN Texts |-> <<>>], ranked |-> Ranked(<<B, A>>), has_vectors |-> TRUE,
            text_index |-> FALSE, like |-> <<>>]}

Request == [k |-> 2, candidates |-> 0, vector |-> TRUE, text |-> TRUE, filtered |-> FALSE, allowed |-> {},
            mmr |-> -1, min_score |-> Zero, fusion |-> [kind |-> "rrf", k |-> 1, alpha |-> 2]]
Weighted(alpha) == [kind |-> "weighted", k |-> 0, alpha |-> alpha]

Requests ==
    {[Request EXCEPT !.k = k, !.fusion = f, !.filtered = (w # {Gone}), !.allowed = w] :
        k \in 0 .. 4, f \in {Request.fusion, Weighted(0), Weighted(1), Weighted(4), Weighted(9)},
        w \in {{Gone}, {}, {A, AB}, {B}}}
    \cup {[Request EXCEPT !.k = k, !.vector = v, !.text = FALSE, !.mmr = m, !.min_score = s] :
              k \in 1 .. 3, v \in BOOLEAN, m \in {-1}, s \in {Zero, <<2, 1>>}}
    \cup {[Request EXCEPT !.k = k, !.vector = v, !.text = ~v, !.mmr = m, !.candidates = 1] :
              k \in 1 .. 5, v \in BOOLEAN, m \in 0 .. 5}

SearchQuestions ==
    {[kind |-> "search", collection |-> c, req |-> r, query |-> q] :
        c \in Collections \cup Halves, r \in Requests, q \in {<<Ca>>, <<Cat, Ca, Cat>>, <<A>>}}

(* "e'" has two bytes; the lower case of "I." is an i and a combining dot. *)
Letters == {"i", "e", "s", "S", "E'", "I.", " ", "cat", "dog"}
TextQuestions == {[kind |-> "text", text |-> t] : t \in UNION {[1 .. n -> Letters] : n \in 0 .. 4}}
                 \cup {[kind |-> "text", text |-> t] :
                          t \in {<<"p", "o", "n", "i", "e", "s">>, <<"p", "o", "n", "i", "e", "S", " ", "s", "e", "a", "s">>,
                                 <<"b", "u", "s", " ", "b", "u", "s", "e", "s">>, <<"e", "i", "e", "s", "cat", "dog", "cat">>,
                                 <<"p", "o", "n", "t", "i", "e", "S", " ", "s">>, <<"s", "e", "a", "s", "I.", "e">>,
                                 <<"E'", "s", " ", "e'", "s">>, <<"i", "dot", "s">>}}

ScanQuestions ==
    {[kind |-> "scan", tree |-> t, overlay |-> o, lo |-> lo, hi |-> hi, limit |-> n] :
        t \in {[k \in keys |-> 1] : keys \in SUBSET (1 .. 4)},
        o \in UNION {[keys -> {Deleted, 2}] : keys \in SUBSET (1 .. 4)},
        lo \in {2}, hi \in {4, 9}, n \in {0, 2}}

DistanceQuestions ==
    {[kind |-> "distance", backend |-> b, a |-> [i \in 1 .. n |-> i % 7], b |-> [i \in 1 .. m |-> IF i = one THEN 5 ELSE 1]] :
        b \in {"portable", "avx2", "neon"}, n \in {0, 1, 3, 7, 8, 9, 15, 16, 31, 32, 33, 40, 41, 65}, m \in {65, 40},
        one \in {1, 8, 32, 33, 40, 41}}

AllQuestions == FilterQuestions \cup PageQuestions \cup SearchQuestions \cup TextQuestions
                \cup ScanQuestions \cup DistanceQuestions

(* 100 ln (1 + (n - df + 1/2) / (df + 1/2)).                               *)
IdfTable == <<3, 1>> :> 98 @@ <<3, 2>> :> 47 @@ <<3, 3>> :> 13
LowerCase == "S" :> <<"s">> @@ "E'" :> <<"e'">> @@ "I." :> <<"i", "dot">>
Stops == {<<"i", "s">>, <<"s", "e", "e">>}
=============================================================================
