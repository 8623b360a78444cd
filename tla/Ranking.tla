------------------------------- MODULE Ranking -------------------------------
(***************************************************************************)
(* Reads of a collection, rust/src/collection/mod.rs: pages of ids, BM25   *)
(* over the postings, the fusion of two rankings, MMR and search.  A score *)
(* is a fraction <<numerator, denominator>>, so that comparing two of them *)
(* is exact.                                                               *)
(***************************************************************************)
EXTENDS Filters, Ordered

CONSTANTS
    Idf,                \* the weight of a term, of <<documents, those with it>>
    MIN_FETCH,          \* least and most candidates a search asks for
    MAX_CANDIDATES,
    MAX_K

IDS == 21
TERM == 19

-----------------------------------------------------------------------------
(* Pages of the ids.  A filtered listing goes through a set, an unfiltered *)
(* one walks the id index and keeps a window of it.                        *)

FirstOf(s, n) == SubSeq(s, 1, IF n < Len(s) THEN n ELSE Len(s))
SortedIds(ids) == SortBy(ids, LexLess)

(* Wrong on purpose: a page starts at its cursor.                          *)
PageFromCursor(ids, filtered, limit, after, rev) ==
    LET rest == {i \in ids : after = <<>> \/ (IF rev THEN ~LexLess(after, i) ELSE ~LexLess(i, after))}
        sorted == IF rev THEN Reverse(SortedIds(rest)) ELSE SortedIds(rest)
    IN IF limit = 0 THEN sorted ELSE FirstOf(sorted, limit)

page_ids(ids, filtered, limit, after, rev) ==
    LET max == IF limit = 0 THEN Cardinality(ids) + 1 ELSE limit
        lo == IF after # <<>> /\ ~rev THEN <<IDS>> \o after \o <<0>> ELSE <<IDS>>
        hi == IF after # <<>> /\ rev THEN <<IDS>> \o after ELSE prefix_successor(<<IDS>>)
        scanned == SortBy(KeysFrom({<<IDS>> \o i : i \in ids}, lo, hi), LexLess)
        Window(out, k) ==
            LET more == Append(out, After(k, 1))
            IN IF Len(more) <= max THEN more ELSE IF rev THEN Tail(more) ELSE Front(more)
        window == FoldLeft(Window, <<>>, scanned)
        range == {i \in ids : after = <<>> \/ (IF rev THEN LexLess(i, after) ELSE LexLess(after, i))}
    IN IF filtered
       THEN FirstOf(IF rev THEN Reverse(SortedIds(range)) ELSE SortedIds(range), max)
       ELSE IF rev THEN Reverse(window) ELSE window

-----------------------------------------------------------------------------
(* Fractions.                                                              *)

Zero == <<0, 1>>
Plus(x, y) == <<x[1] * y[2] + y[1] * x[2], x[2] * y[2]>>
Below(x, y) == x[1] * y[2] < y[1] * x[2]

(* Best score first, then by id.                                           *)
Ahead(x, y) == Below(y.score, x.score) \/ (~Below(x.score, y.score) /\ LexLess(x.id, y.id))

-----------------------------------------------------------------------------
(* BM25.  The postings are keys of a term and an id, with the frequency    *)
(* and the length of the text.                                             *)

term_prefix(term) == <<TERM>> \o term \o <<0>>

PostingsOf(texts) ==
    UNION {{[key |-> term_prefix(t) \o id, tf |-> Cardinality({i \in DOMAIN texts[id] : texts[id][i] = t}),
             len |-> Len(texts[id])] : t \in ToSet(texts[id])} : id \in DOMAIN texts}

(* The weight of a term in a document, K1 = 1.2 and B = 0.75, in the       *)
(* units of Idf; terms / docs is the average length.                       *)
TermScore(idf, tf, len, terms, docs) ==
    (idf * 22 * tf * terms) \div (10 * tf * terms + 3 * terms + 9 * len * docs)

prefix_scan(postings, term) ==
    LET prefix == term_prefix(term)
    IN {[id |-> After(p.key, Len(prefix)), tf |-> p.tf, len |-> p.len] :
            p \in {p \in postings : p.key \in KeysFrom({q.key : q \in postings}, prefix, prefix_successor(prefix))}}

(* `allowed' is empty, or holds the set of ids a filter lets through.      *)
bm25(postings, text_docs, text_terms, query, allowed, n) ==
    LET found == [t \in ToSet(query) |-> prefix_scan(postings, t)]
        Share(t) == LET df == Cardinality(found[t])
                    IN Idf[<<text_docs, IF df < text_docs THEN df ELSE text_docs>>]
        ids == {i \in UNION {{p.id : p \in found[t]} : t \in DOMAIN found} :
                    allowed = <<>> \/ i \in allowed[1]}
        Score(id) == FoldLeft(LAMBDA sum, t :
                        sum + FoldLeft(LAMBDA s, p :
                                IF p.id = id THEN s + TermScore(Share(t), p.tf, p.len, text_terms, text_docs) ELSE s,
                              0, SetToSeq(found[t])),
                     0, SetToSeq(DOMAIN found))
    IN IF text_docs = 0 THEN <<>>
       ELSE FirstOf(SortBy({[id |-> i, score |-> <<Score(i), 1>>] : i \in ids}, Ahead), n)

-----------------------------------------------------------------------------
(* The fusion of two rankings, sequences of hits, best first.              *)

Scores(hits) == {hits[i].score : i \in DOMAIN hits}
Lowest(s) == CHOOSE x \in s : \A y \in s : ~Below(y, x)
Highest(s) == CHOOSE x \in s : \A y \in s : ~Below(x, y)

normalise(s, all) ==
    LET lo == Lowest(all)
        hi == Highest(all)
        Gap(x, y) == x[1] * y[2] - y[1] * x[2]
    IN IF Below(lo, hi) THEN <<Gap(s, lo) * hi[2], Gap(hi, lo) * s[2]>> ELSE <<1, 1>>

At(hits, id) == {i \in DOMAIN hits : hits[i].id = id}
ScoreIn(hits, id) == hits[CHOOSE i \in At(hits, id) : TRUE].score

RrfScore(hits, k, id) ==
    IF At(hits, id) = {} THEN Zero
    ELSE <<1, (IF k < 1 THEN 1 ELSE k) + (CHOOSE i \in At(hits, id) : TRUE)>>

NormalScore(hits, weight, id) ==
    IF At(hits, id) = {} THEN Zero
    ELSE LET n == normalise(ScoreIn(hits, id), Scores(hits)) IN <<weight * n[1], 4 * n[2]>>

(* Wrong on purpose: the weight stays when one side found nothing.         *)
WeightAsAsked(vector, text, alpha) == IF alpha < 0 THEN 0 ELSE IF alpha > 4 THEN 4 ELSE alpha

(* The weight of the vectors, in quarters.                                 *)
WeightOfVector(vector, text, alpha) ==
    CASE vector # <<>> /\ text = <<>> -> 4
      [] vector = <<>> /\ text # <<>> -> 0
      [] OTHER -> IF alpha < 0 THEN 0 ELSE IF alpha > 4 THEN 4 ELSE alpha

fuse(vector, text, fusion, use_vector, use_text) ==
    LET ids == {vector[i].id : i \in DOMAIN vector} \cup {text[i].id : i \in DOMAIN text}
        alpha == WeightOfVector(vector, text, fusion.alpha)
        Score(id) ==
            CASE use_vector /\ ~use_text -> ScoreIn(vector, id)
              [] use_text /\ ~use_vector -> ScoreIn(text, id)
              [] fusion.kind = "rrf" -> Plus(RrfScore(vector, fusion.k, id), RrfScore(text, fusion.k, id))
              [] OTHER -> Plus(NormalScore(vector, alpha, id), NormalScore(text, 4 - alpha, id))
    IN SortBy({[id |-> i, score |-> Score(i)] : i \in ids}, Ahead)

-----------------------------------------------------------------------------
(* MMR: the next hit is the first of those with the highest value.  `like' *)
(* is the cosine of two embeddings in quarters; an id not in its domain    *)
(* has none.  lambda is in quarters.                                       *)

Redundancy(like, picked, id) ==
    LET near == {like[<<id, picked[i].id>>] : i \in {j \in DOMAIN picked : <<id, picked[j].id>> \in DOMAIN like}}
    IN CHOOSE m \in near \cup {0} : \A x \in near \cup {0} : x <= m

MmrValue(like, lambda, all, picked, hit) ==
    LET rel == normalise(hit.score, all)
    IN <<4 * lambda * rel[1] - (4 - lambda) * Redundancy(like, picked, hit.id) * rel[2], rel[2]>>

RECURSIVE MmrPick(_, _, _, _, _, _)
MmrPick(like, pool, picked, k, lambda, all) ==
    IF Len(picked) >= k \/ pool = <<>> THEN picked
    ELSE LET value == [i \in DOMAIN pool |-> MmrValue(like, lambda, all, picked, pool[i])]
             best == CHOOSE i \in DOMAIN pool :
                        \A j \in DOMAIN pool : ~Below(value[i], value[j]) /\ (j < i => Below(value[j], value[i]))
         IN MmrPick(like, RemoveAt(pool, best), Append(picked, pool[best]), k, lambda, all)

mmr(like, candidates, k, lambda) ==
    IF candidates = <<>> THEN <<>> ELSE MmrPick(like, candidates, <<>>, k, lambda, Scores(candidates))

-----------------------------------------------------------------------------
(* A search.  The vector index answers with its ranking of the vectors it  *)
(* is asked for, which may include one without a document; a document      *)
(* without text has no terms.                                              *)

Fetch(req) ==
    LET wanted == IF req.candidates = 0 THEN 4 * req.k ELSE req.candidates
        least == IF wanted < req.k THEN req.k ELSE wanted
    IN IF least < MIN_FETCH THEN MIN_FETCH ELSE IF least > MAX_CANDIDATES THEN MAX_CANDIDATES ELSE least

Hydrate(c, hits) == SelectSeq(hits, LAMBDA h : h.id \in DOMAIN c.texts)

search_in(c, req, query) ==
    LET allowed == IF req.filtered THEN req.allowed ELSE DOMAIN c.texts
        Allowed(id) == req.filtered => id \in allowed
        docs == Cardinality({id \in DOMAIN c.texts : c.texts[id] # <<>>})
        terms == FoldLeft(LAMBDA n, id : n + Len(c.texts[id]), 0, SortedIds(DOMAIN c.texts))
        ranked == SelectSeq(c.ranked, LAMBDA h : Allowed(h.id))
        vector == IF req.vector THEN FirstOf(ranked, Fetch(req)) ELSE <<>>
        filter == IF req.filtered THEN <<allowed>> ELSE <<>>
        text == IF req.text THEN bm25(PostingsOf(c.texts), docs, terms, query, filter, Fetch(req)) ELSE <<>>
        first == FirstOf(SortedIds(allowed), req.k)
        scored == IF req.vector \/ req.text
                  THEN fuse(vector, text, req.fusion, req.vector, req.text)
                  ELSE [i \in DOMAIN first |-> [id |-> first[i], score |-> <<1, 1>>]]
        cut == IF req.mmr >= 0 THEN mmr(c.like, scored, req.k, req.mmr) ELSE FirstOf(scored, req.k)
    IN IF req.k = 0 \/ (req.filtered /\ allowed = {}) THEN <<>>
       ELSE Hydrate(c, SelectSeq(cut, LAMBDA h : ~Below(h.score, req.min_score)))

(* What a search is refused for; a vector of the wrong length is left out. *)
SearchRefused(c, req) ==
    \/ req.k > MAX_K
    \/ req.mmr >= 0 /\ (req.mmr > 4 \/ ~c.has_vectors)
    \/ req.vector /\ ~c.has_vectors
    \/ req.text /\ ~c.text_index

-----------------------------------------------------------------------------
(* The analysis of text, rust/src/collection/text.rs.  A text and a word   *)
(* are sequences of characters; what kind of character each one is, is     *)
(* given by the constants.                                                 *)

CONSTANTS
    Cjk,                \* the characters of scripts without spaces
    Separators,         \* the ones that are not alphanumeric
    Wide,               \* letters of two bytes, the others have one
    Lower,              \* the lower case of the letters that have another one
    STOPWORDS,
    MAX_TOKEN_CHARS

is_cjk(c) == c \in Cjk
is_alphanumeric(c) == c \notin Separators
to_lowercase(c) == IF c \in DOMAIN Lower THEN Lower[c] ELSE <<c>>

ByteLen(word) == Len(word) + Len(SelectSeq(word, LAMBDA c : c \in Wide))
EndsIn(word, endings) == \E e \in endings : IsSuffix(e, word)

(* The S stemmer: the first rule that applies.                             *)
stem(word) ==
    LET n == ByteLen(word)
        Drop(k) == SubSeq(word, 1, Len(word) - k)
    IN IF n > 4 /\ EndsIn(word, {<<"i", "e", "s">>})
               /\ ~EndsIn(word, {<<"e", "i", "e", "s">>, <<"a", "i", "e", "s">>})
       THEN Append(Drop(3), "y")
       ELSE IF n > 3 /\ EndsIn(word, {<<"e", "s">>})
                    /\ ~EndsIn(word, {<<"a", "e", "s">>, <<"e", "e", "s">>, <<"o", "e", "s">>})
       THEN Drop(1)
       ELSE IF n > 3 /\ EndsIn(word, {<<"s">>}) /\ ~EndsIn(word, {<<"u", "s">>, <<"s", "s">>})
       THEN Drop(1)
       ELSE word

flush_word(s) ==
    [s EXCEPT !.out = IF s.word # <<>> /\ Len(s.word) <= MAX_TOKEN_CHARS /\ s.word \notin STOPWORDS
                      THEN Append(@, stem(s.word)) ELSE @,
              !.word = <<>>]

(* Wrong on purpose: a run of several characters gives only its pairs.     *)
FlushPairs(s) ==
    [s EXCEPT !.out = @ \o (IF Len(s.cjk) = 1 THEN <<s.cjk>>
                            ELSE [i \in 1 .. Len(s.cjk) - 1 |-> SubSeq(s.cjk, i, i + 1)]),
              !.cjk = <<>>]

(* Every character of the run, then every pair of neighbours.              *)
flush_cjk(s) ==
    [s EXCEPT !.out = @ \o [i \in DOMAIN s.cjk |-> <<s.cjk[i]>>]
                        \o [i \in 1 .. Len(s.cjk) - 1 |-> SubSeq(s.cjk, i, i + 1)],
              !.cjk = <<>>]

tokenize(text) ==
    LET Step(s, c) ==
            IF is_cjk(c) THEN [flush_word(s) EXCEPT !.cjk = Append(@, c)]
            ELSE IF is_alphanumeric(c) THEN [flush_cjk(s) EXCEPT !.word = @ \o to_lowercase(c)]
            ELSE flush_cjk(flush_word(s))
    IN flush_cjk(flush_word(FoldLeft(Step, [out |-> <<>>, word |-> <<>>, cjk |-> <<>>], text))).out

-----------------------------------------------------------------------------
InWord(c) == is_alphanumeric(c) /\ ~is_cjk(c)

(* Between i and i + 1 no word is cut in two.                              *)
Boundary(text, i) == i = 0 \/ i = Len(text) \/ ~InWord(text[i]) \/ ~InWord(text[i + 1])

(* What may be searched for in a text: any piece of it that cuts no word.  *)
Pieces(text) ==
    {SubSeq(text, i + 1, j) : <<i, j>> \in
        {p \in (0 .. Len(text)) \X (0 .. Len(text)) :
            p[1] < p[2] /\ Boundary(text, p[1]) /\ Boundary(text, p[2])}}
=============================================================================
