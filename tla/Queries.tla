------------------------------- MODULE Queries -------------------------------
(***************************************************************************)
(* Questions that read and change nothing: a filter, a page of a listing,  *)
(* a search, the terms of a text, a scan of the key/value store, a sum of  *)
(* a distance kernel.  Each is asked once and answered by the code's       *)
(* algorithm; the properties compare the answer with what it should be.    *)
(***************************************************************************)
EXTENDS Ranking

CONSTANT Questions      \* records with a `kind'

VARIABLES question, answer
vars == <<question, answer>>

Unanswered == [kind |-> "none"]

-----------------------------------------------------------------------------
(* The distance kernels, rust/src/vector/distance.rs: one sum over the     *)
(* components of two vectors, in blocks of lanes, several blocks at a      *)
(* time, with what remains added one by one.  Components are integers, so  *)
(* the order of additions does not matter here; what rounding makes of it  *)
(* is left out.                                                            *)

CONSTANTS
    LANES,              \* lanes of a register of the portable and AVX2 kernels
    NEON_LANES

SumOver(t, where) == FoldLeft(LAMBDA n, i : IF i \in where THEN n + t[i] ELSE n, 0, [i \in DOMAIN t |-> i])

Products(a, b) == [i \in DOMAIN a |-> a[i] * b[i]]
Squares(a, b) == [i \in DOMAIN a |-> (a[i] - b[i]) * (a[i] - b[i])]

(* The components that register r of `unroll' accumulates in lane l: those *)
(* of the wide blocks, and for the first register those of the single      *)
(* blocks that follow.                                                     *)
Accumulated(len, lanes, unroll, r, l) ==
    LET wide == (len \div (lanes * unroll)) * lanes * unroll
        single == wide + ((len - wide) \div lanes) * lanes
    IN {i \in 1 .. wide : ((i - 1) % (lanes * unroll)) \div lanes = r /\ (i - 1) % lanes = l}
       \cup {i \in wide + 1 .. single : r = 0 /\ (i - 1) % lanes = l}

(* Wrong on purpose: the tail starts after the last wide block.            *)
SummedTwice(t, lanes, unroll) ==
    LET len == Len(t)
        lane == FlattenSeq([r \in 1 .. unroll |->
                    [l \in 1 .. lanes |-> SumOver(t, Accumulated(len, lanes, unroll, r - 1, l - 1))]])
    IN SumOver(lane, DOMAIN lane) + SumOver(t, (len \div (lanes * unroll)) * lanes * unroll + 1 .. len)

Summed(t, lanes, unroll) ==
    LET len == Len(t)
        lane == FlattenSeq([r \in 1 .. unroll |->
                    [l \in 1 .. lanes |-> SumOver(t, Accumulated(len, lanes, unroll, r - 1, l - 1))]])
    IN SumOver(lane, DOMAIN lane) + SumOver(t, (len \div lanes) * lanes + 1 .. len)

dot_portable(a, b) == Summed(Products(a, b), LANES, 1)
squared_l2_portable(a, b) == Summed(Squares(a, b), LANES, 1)
dot_avx2(a, b) == Summed(Products(a, b), LANES, 4)
squared_l2_avx2(a, b) == Summed(Squares(a, b), LANES, 4)

(* The kernels read both vectors up to the shorter one's length.           *)
Common(a, b) == LET len == IF Len(a) < Len(b) THEN Len(a) ELSE Len(b)
                IN <<SubSeq(a, 1, len), SubSeq(b, 1, len)>>

dot(backend, x, y) ==
    LET a == Common(x, y)[1]
        b == Common(x, y)[2]
    IN CASE backend = "avx2" -> dot_avx2(a, b)
         [] backend = "portable" -> dot_portable(a, b)

squared_l2(backend, x, y) ==
    LET a == Common(x, y)[1]
        b == Common(x, y)[2]
    IN CASE backend = "avx2" -> squared_l2_avx2(a, b)
         [] backend = "portable" -> squared_l2_portable(a, b)

(* Not dispatched to: AArch64 runs the portable kernels.                   *)
dot_neon(x, y) == Summed(Products(Common(x, y)[1], Common(x, y)[2]), NEON_LANES, 4)
squared_l2_neon(x, y) == Summed(Squares(Common(x, y)[1], Common(x, y)[2]), NEON_LANES, 2)

-----------------------------------------------------------------------------
(* Scans of the key/value store, rust/src/lib.rs: the pairs of the tree    *)
(* and the newer versions in memory, `overlay', in key order.  A version   *)
(* of 0 is a tombstone.  The callback stops after `limit' pairs, 0 for     *)
(* none.                                                                   *)

Deleted == 0
Pairs(map) == [i \in 1 .. Cardinality(DOMAIN map) |->
                  LET k == SortBy(DOMAIN map, LAMBDA x, y : x < y)[i] IN <<k, map[k]>>]
Within(map, lo, hi) == [k \in {k \in DOMAIN map : lo <= k /\ k < hi} |-> map[k]]

(* Gives a pair to the callback, unless it stopped or it is a tombstone.   *)
Emit(s, pair, limit) ==
    IF s.stopped \/ pair[2] = Deleted THEN s
    ELSE LET out == Append(s.out, pair)
         IN [s EXCEPT !.out = out, !.stopped = limit # 0 /\ Len(out) >= limit]

(* A pair of the tree: the overlay's pairs before it first, then its own   *)
(* newer version or itself.                                                *)
MergeTreePair(s, pair, limit) ==
    LET before == SelectSeq(s.overlay, LAMBDA p : p[1] < pair[1])
        same == SelectSeq(s.overlay, LAMBDA p : p[1] = pair[1])
        merged == FoldLeft(LAMBDA t, p : Emit(t, p, limit), s, before)
    IN [Emit(merged, IF same = <<>> THEN pair ELSE same[1], limit)
            EXCEPT !.overlay = SelectSeq(s.overlay, LAMBDA p : p[1] > pair[1])]

merge_scan(tree, overlay, lo, hi, limit) ==
    LET start == [out |-> <<>>, stopped |-> FALSE, overlay |-> Pairs(Within(overlay, lo, hi))]
        merged == FoldLeft(LAMBDA s, p : IF s.stopped THEN s ELSE MergeTreePair(s, p, limit),
                           start, Pairs(Within(tree, lo, hi)))
    IN FoldLeft(LAMBDA s, p : Emit(s, p, limit), merged, merged.overlay).out

(* The number of keys, from the tree's and the versions in memory.         *)
db_len(tree, overlay) ==
    FoldLeft(LAMBDA n, p : CASE p[2] # Deleted /\ p[1] \notin DOMAIN tree -> n + 1
                             [] p[2] = Deleted /\ p[1] \in DOMAIN tree -> n - 1
                             [] OTHER -> n,
             Cardinality(DOMAIN tree), Pairs(overlay))

-----------------------------------------------------------------------------
Ask(kind) == answer = Unanswered /\ question.kind = kind /\ UNCHANGED question

IndexOf(docs) == UNION {index_keys(flatten(docs[id]), id) : id \in DOMAIN docs}

AnswerFilter ==
    /\ Ask("filter")
    /\ LET f == parse(question.query)
       IN answer' = IF f = Invalid THEN [kind |-> "refused"]
                    ELSE [kind |-> "ids", matching |-> {id \in DOMAIN question.docs : matches(f, question.docs[id])},
                          indexed |-> eval(IndexOf(question.docs), DOMAIN question.docs, f)]

RECURSIVE PagesFrom(_, _)
PagesFrom(q, after) ==
    LET page == page_ids(q.ids, q.filtered, q.limit, after, q.rev)
    IN IF page = <<>> \/ Last(page) = after THEN <<>> ELSE page \o PagesFrom(q, Last(page))

AnswerPages ==
    /\ Ask("pages")
    /\ answer' = [kind |-> "listing", ids |-> PagesFrom(question, <<>>)]

AnswerSearch ==
    /\ Ask("search")
    /\ LET c == question.collection
           req == question.req
       IN answer' = IF req.k # 0 /\ SearchRefused(c, req) THEN [kind |-> "refused"]
                    ELSE [kind |-> "hits", hits |-> search_in(c, req, question.query)]

AnswerText ==
    /\ Ask("text")
    /\ answer' = [kind |-> "terms", terms |-> tokenize(question.text)]

AnswerScan ==
    /\ Ask("scan")
    /\ answer' = [kind |-> "pairs", count |-> db_len(question.tree, question.overlay),
                  pairs |-> merge_scan(question.tree, question.overlay, question.lo, question.hi, question.limit)]

AnswerDistance ==
    /\ Ask("distance")
    /\ answer' = IF question.backend = "neon"
                 THEN [kind |-> "sums", dot |-> dot_neon(question.a, question.b),
                       l2 |-> squared_l2_neon(question.a, question.b)]
                 ELSE [kind |-> "sums", dot |-> dot(question.backend, question.a, question.b),
                       l2 |-> squared_l2(question.backend, question.a, question.b)]

Init == question \in Questions /\ answer = Unanswered
Next == AnswerFilter \/ AnswerPages \/ AnswerSearch \/ AnswerText \/ AnswerScan \/ AnswerDistance
QueriesSpec == Init /\ [][Next]_vars

-----------------------------------------------------------------------------
Answered(kind) == answer.kind = kind

Reached(metadata, field, op, v) == \E x \in values_at(metadata, field) : RangeHolds(op, compare(x, v))
EqualTo(metadata, field, v) == \E x \in values_at(metadata, field) : compare(x, v) = "eq"

(* What a filter document says of metadata, read as it is written.         *)
RECURSIVE Says(_, _)
Says(query, metadata) ==
    \A k \in DOMAIN query.map :
        LET v == query.map[k]
            Clause(o, arg) ==
                CASE o = OnField.eq -> EqualTo(metadata, k, arg)
                  [] o = OnField.ne -> ~EqualTo(metadata, k, arg)
                  [] o = OnField.in -> \E x \in ToSet(arg.items) : EqualTo(metadata, k, x)
                  [] o = OnField.nin -> \A x \in ToSet(arg.items) : ~EqualTo(metadata, k, x)
                  [] o = OnField.exists -> field_present(metadata, k) <=> arg.b
                  [] OTHER -> Reached(metadata, k, NameOf(OnField, o), arg)
        IN CASE k = Logical.and -> \A i \in DOMAIN v.items : Says(v.items[i], metadata)
             [] k = Logical.or -> \E i \in DOMAIN v.items : Says(v.items[i], metadata)
             [] k = Logical.not -> ~Says(v, metadata)
             [] OTHER -> IF v.t = "obj" THEN \A o \in DOMAIN v.map : Clause(o, v.map[o])
                         ELSE EqualTo(metadata, k, v)

(* A filter selects the same documents from the index as in memory, and    *)
(* those are the documents it says, whatever the types, nesting, arrays,   *)
(* escapes and signed zeros, and with ids that are prefixes of each other. *)
FiltersAgree ==
    Answered("ids") =>
        /\ answer.indexed = answer.matching
        /\ answer.matching = {id \in DOMAIN question.docs : Says(question.query, question.docs[id])}

(* The pages of a listing, each continued from the last id of the one      *)
(* before, hold every id once and in order, forward and in reverse, with   *)
(* and without a filter.                                                   *)
PagesCoverTheIds ==
    Answered("listing") =>
        answer.ids = (IF question.rev THEN Reverse(SortedIds(question.ids)) ELSE SortedIds(question.ids))

Candidates ==
    LET c == question.collection
        r == question.req
        allowed == IF r.filtered THEN r.allowed ELSE DOMAIN c.texts
        vectors == {c.ranked[i].id : i \in DOMAIN c.ranked}
        texts == {id \in DOMAIN c.texts : ToSet(c.texts[id]) \cap ToSet(question.query) # {}}
    IN IF ~r.vector /\ ~r.text THEN allowed
       ELSE (IF r.vector THEN IF r.filtered THEN vectors \cap allowed ELSE vectors ELSE {})
            \cup (IF r.text THEN texts \cap allowed ELSE {})

(* A search returns documents that some retriever found and the filter     *)
(* allows, each once, at most k, and k of them when as many were found     *)
(* (less the vectors whose document is gone); none below the least score.  *)
HitsAreHonest ==
    Answered("hits") =>
        LET hits == answer.hits
            ids == {hits[i].id : i \in DOMAIN hits}
            gone == Candidates \ DOMAIN question.collection.texts
            least == IF Cardinality(Candidates) < question.req.k THEN Cardinality(Candidates) ELSE question.req.k
        IN /\ Cardinality(ids) = Len(hits) /\ Len(hits) <= question.req.k
           /\ ids \subseteq Candidates \cap DOMAIN question.collection.texts
           /\ question.req.min_score = Zero => Len(hits) >= least - Cardinality(gone)
           /\ \A i \in DOMAIN hits : ~Below(hits[i].score, question.req.min_score)

RankIn(hits, id) == CHOOSE i \in DOMAIN hits : hits[i].id = id
Holds(hits, id) == \E i \in DOMAIN hits : hits[i].id = id

(* In a hybrid search a hit that is ahead of another in every ranking the  *)
(* other one is in is ahead of it in the answer; where both sides found    *)
(* something, weights may make the two equal.                              *)
FusionKeepsAgreement ==
    Answered("hits") /\ question.req.vector /\ question.req.text /\ question.req.mmr < 0 =>
        LET c == question.collection
            n == Fetch(question.req)
            all == search_in(c, [question.req EXCEPT !.vector = FALSE, !.k = n, !.candidates = n], question.query)
            ranked == FirstOf(SelectSeq(c.ranked, LAMBDA h : question.req.filtered => h.id \in question.req.allowed), n)
            Dominates(x, y) == /\ Holds(ranked, y) => Holds(ranked, x) /\ RankIn(ranked, x) < RankIn(ranked, y)
                               /\ Holds(all, y) => Holds(all, x) /\ RankIn(all, x) < RankIn(all, y)
        IN \A i, j \in DOMAIN answer.hits :
              i < j /\ Dominates(answer.hits[j].id, answer.hits[i].id)
                => /\ question.req.fusion.kind = "weighted" /\ ranked # <<>> /\ all # <<>>
                   /\ ~Below(answer.hits[j].score, answer.hits[i].score)

(* With MMR each hit is, of the fetched ones not yet taken, one with the   *)
(* best balance of relevance and likeness to all the hits before it, when  *)
(* every vector has its document; a lambda of one is the plain ranking.    *)
(* Stated for a search by one of vector and text.                          *)
MmrIsGreedy ==
    /\ Answered("hits") /\ question.req.mmr >= 0
    /\ question.req.k > 0 /\ question.req.vector # question.req.text
    /\ Candidates \subseteq DOMAIN question.collection.texts
    =>  LET c == question.collection
            fetched == Fetch(question.req)
            plain == search_in(c, [question.req EXCEPT !.mmr = -1, !.k = fetched, !.candidates = fetched], question.query)
            hits == answer.hits
            Likeness(n, id) == {c.like[<<id, hits[m].id>>] : m \in {m \in 1 .. n - 1 : <<id, hits[m].id>> \in DOMAIN c.like}}
            Cost(n, id) == Greatest(Likeness(n, id) \cup {0})
            Value(n, h) == LET rel == normalise(h.score, Scores(plain))
                           IN <<4 * question.req.mmr * rel[1] - (4 - question.req.mmr) * Cost(n, h.id) * rel[2], rel[2]>>
        IN /\ question.req.mmr = 4 => hits = FirstOf(plain, question.req.k)
           /\ \A n \in DOMAIN hits, p \in DOMAIN plain :
                (\E m \in 1 .. n : hits[m].id = plain[p].id) \/ ~Below(Value(n, hits[n]), Value(n, plain[p]))

(* A search is honest about what it found, fused and diversified.          *)
SearchIsHonest == HitsAreHonest /\ FusionKeepsAgreement /\ MmrIsGreedy

LowerCased(text) == FlattenSeq([i \in DOMAIN text |-> to_lowercase(text[i])])

(* Whatever piece of a text one searches for, if it cuts no word, all its  *)
(* terms are terms of the text.  So are the terms of the text written in   *)
(* lower case, unless the lower case of one of its letters ends a word: a  *)
(* capital I with a dot becomes an i and a combining dot, which the code   *)
(* keeps in the word it came from and splits at when it is typed.  A word  *)
(* that is too long has no term in either.                                 *)
TextIsSearchable ==
    Answered("terms") =>
        LET text == question.text
        IN /\ \A piece \in Pieces(text) : ToSet(tokenize(piece)) \subseteq ToSet(answer.terms)
           /\ (\A c \in ToSet(text) : InWord(c) => \A d \in ToSet(to_lowercase(c)) : InWord(d))
                => tokenize(LowerCased(text)) = answer.terms
           /\ \A i \in DOMAIN answer.terms : Len(answer.terms[i]) <= MAX_TOKEN_CHARS

Visible ==
    LET keys == {k \in DOMAIN question.tree \cup DOMAIN question.overlay :
                    k \in DOMAIN question.overlay => question.overlay[k] # Deleted}
    IN [k \in keys |-> IF k \in DOMAIN question.overlay THEN question.overlay[k] ELSE question.tree[k]]

(* A scan gives the newest version of every key of its range that is not   *)
(* deleted, in order, up to its limit; and len counts the keys one sees.   *)
ScanSeesTheNewest ==
    Answered("pairs") =>
        LET all == Pairs(Within(Visible, question.lo, question.hi))
        IN /\ answer.pairs = (IF question.limit = 0 THEN all ELSE FirstOf(all, question.limit))
           /\ answer.count = Cardinality(DOMAIN Visible)

(* A listing, of ids in pages or of pairs in a range, misses nothing and   *)
(* repeats nothing.                                                        *)
ListingsAreWhole == PagesCoverTheIds /\ ScanSeesTheNewest

(* Every kernel adds each component once, whatever the length leaves for   *)
(* the tail.                                                               *)
KernelsAddEachOnce ==
    Answered("sums") =>
        LET shared == Common(question.a, question.b)
        IN /\ answer.dot = SumOver(Products(shared[1], shared[2]), DOMAIN shared[1])
           /\ answer.l2 = SumOver(Squares(shared[1], shared[2]), DOMAIN shared[1])
=============================================================================
