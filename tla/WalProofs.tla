----------------------------- MODULE WalProofs ------------------------------
(***************************************************************************)
(* Lemmas about what the write-ahead log puts in order: the writes of a    *)
(* commit, the commits a checkpoint retains, and the writes recovery       *)
(* replays; that a checkpoint and a crash keep the log together with the   *)
(* histories, and that recovery rebuilds from such a log the chains that   *)
(* stand for them.                                                         *)
(***************************************************************************)
EXTENDS HistoryProofs, FiniteSetTheorems

-----------------------------------------------------------------------------
(* Sorting.                                                                *)

(* The element of S with n - 1 smaller ones is g[n].                       *)
Ranked(S, m, g, key) ==
    /\ IsFiniteSet(S) /\ Cardinality(S) = m
    /\ \A n \in 1 .. m : \A x \in S :
           Cardinality({y \in S : key[y] < key[x]}) = n - 1 <=> x = g[n]

(* A set listed by g in the order of key is what sort_by_key makes of it   *)
(* (lib.rs:213-230).                                                       *)
LEMMA SortedByKey ==
  ASSUME NEW S, NEW m \in Nat, NEW g \in [1 .. m -> S], NEW key \in [S -> Nat],
         \A x \in S : \E n \in 1 .. m : g[n] = x,
         \A a, b \in 1 .. m : a < b => key[g[a]] < key[g[b]]
  PROVE  Ranked(S, m, g, key)
<1>1. \A a, b \in 1 .. m : key[g[a]] < key[g[b]] => a < b
  <2>1. SUFFICES ASSUME NEW a \in 1 .. m, NEW b \in 1 .. m, key[g[a]] < key[g[b]], ~(a < b)
                 PROVE  FALSE
    OBVIOUS
  <2>2. key[g[a]] \in Nat /\ key[g[b]] \in Nat
    OBVIOUS
  <2>3. b < a \/ a = b
    BY <2>1
  <2> QED
    BY <2>1, <2>2, <2>3
<1>2. \A a, b \in 1 .. m : g[a] = g[b] => a = b
  <2>1. SUFFICES ASSUME NEW a \in 1 .. m, NEW b \in 1 .. m, g[a] = g[b], a # b
                 PROVE  FALSE
    OBVIOUS
  <2>2. key[g[a]] \in Nat
    OBVIOUS
  <2>3. a < b \/ b < a
    BY <2>1
  <2> QED
    BY <2>1, <2>2, <2>3
<1>3. IsFiniteSet(S) /\ Cardinality(S) = m
  <2>1. g \in Bijection(1 .. m, S)
    BY <1>2 DEF Bijection, Injection, Surjection, IsInjective
  <2>2. IsFiniteSet(1 .. m) /\ Cardinality(1 .. m) = m
    BY FS_Interval
  <2> QED
    BY <2>1, <2>2, FS_Bijection DEF ExistsBijection
<1>4. ASSUME NEW n \in 1 .. m
      PROVE  Cardinality({y \in S : key[y] < key[g[n]]}) = n - 1
  <2> DEFINE T == {y \in S : key[y] < key[g[n]]}
             f == [a \in 1 .. (n - 1) |-> g[a]]
  <2>1. \A a \in 1 .. (n - 1) : a \in 1 .. m /\ g[a] \in T
    OBVIOUS
  <2>2. ASSUME NEW y \in T
        PROVE  \E a \in 1 .. (n - 1) : f[a] = y
    <3>1. PICK a \in 1 .. m : g[a] = y
      OBVIOUS
    <3>2. a < n
      BY <1>1, <3>1
    <3> QED
      BY <3>1, <3>2
  <2>3. f \in [1 .. (n - 1) -> T]
    BY <2>1
  <2>4. \A a, b \in 1 .. (n - 1) : f[a] = f[b] => a = b
    BY <1>2
  <2> HIDE DEF T, f
  <2>5. f \in Bijection(1 .. (n - 1), T)
    BY <2>2, <2>3, <2>4 DEF Bijection, Injection, Surjection, IsInjective
  <2>6. IsFiniteSet(1 .. (n - 1)) /\ Cardinality(1 .. (n - 1)) = n - 1
    BY FS_Interval
  <2>7. Cardinality(T) = n - 1
    BY <2>5, <2>6, FS_Bijection DEF ExistsBijection
  <2> QED
    BY <2>7 DEF T
<1>5. ASSUME NEW n \in 1 .. m, NEW x \in S
      PROVE  Cardinality({y \in S : key[y] < key[x]}) = n - 1 <=> x = g[n]
  <2>1. PICK b \in 1 .. m : g[b] = x
    OBVIOUS
  <2>2. Cardinality({y \in S : key[y] < key[x]}) = b - 1
    BY <1>4, <2>1
  <2>3. b = n <=> g[b] = g[n]
    BY <1>2
  <2> QED
    BY <2>1, <2>2, <2>3
<1> QED
  BY <1>3, <1>5 DEF Ranked

(* The timestamps of a BTreeMap in the order of its keys.                  *)
LEMMA SortByLess ==
  ASSUME NEW S, S \subseteq Nat, IsFiniteSet(S)
  PROVE  LET f == SortBy(S, <)
             n == Cardinality(S)
         IN  /\ n \in Nat /\ f \in [1 .. n -> S]
             /\ \A x \in S : \E i \in 1 .. n : f[i] = x
             /\ \A i, j \in 1 .. n : i < j => f[i] < f[j]
<1> DEFINE n == Cardinality(S)
           Below(x) == {y \in S : y < x}
           r == [x \in S |-> Cardinality(Below(x))]
<1>0. n \in Nat
  BY FS_CardinalityType
<1>1. \A x \in S : IsFiniteSet(Below(x)) /\ Cardinality(Below(x)) \in Nat
  <2>1. \A x \in S : Below(x) \in SUBSET S
    OBVIOUS
  <2> HIDE DEF Below
  <2> QED
    BY <2>1, FS_Subset, FS_CardinalityType
<1>2. \A x, y \in S : x < y => r[x] < r[y]
  <2>1. SUFFICES ASSUME NEW x \in S, NEW y \in S, x < y
                 PROVE  Cardinality(Below(x)) < Cardinality(Below(y))
    OBVIOUS
  <2>2. x \in Nat /\ y \in Nat /\ \A z \in S : z \in Nat
    OBVIOUS
  <2>3. \A z \in S : z < x => z < y
    BY <2>1, <2>2
  <2>4. Below(x) \subseteq Below(y)
    BY <2>3, Zenon
  <2>5. x \in Below(y) /\ x \notin Below(x)
    BY <2>1, <2>2
  <2> HIDE DEF Below
  <2> QED
    BY <1>1, <2>4, <2>5, FS_Subset
<1>3. \A x \in S : r[x] \in 0 .. (n - 1)
  <2>1. SUFFICES ASSUME NEW x \in S
                 PROVE  Cardinality(Below(x)) < n
    BY <1>0, <1>1
  <2>2. Below(x) \in SUBSET S /\ x \notin Below(x)
    OBVIOUS
  <2> HIDE DEF Below
  <2> QED
    BY <1>0, <1>1, <2>2, FS_Subset
<1>4. \A x, y \in S : r[x] = r[y] => x = y
  <2>1. SUFFICES ASSUME NEW x \in S, NEW y \in S, r[x] = r[y], x # y
                 PROVE  FALSE
    OBVIOUS
  <2>2. x < y \/ y < x
    BY <2>1
  <2>3. r[x] \in Nat /\ r[y] \in Nat
    BY <1>0, <1>3
  <2> HIDE DEF r
  <2> QED
    BY <1>2, <2>1, <2>2, <2>3
<1>5. \A i \in 1 .. n : \E x \in S : r[x] = i - 1
  <2>1. r \in Injection(S, 0 .. (n - 1))
    <3>1. r \in [S -> 0 .. (n - 1)]
      BY <1>3
    <3> HIDE DEF r
    <3> QED
      BY <1>4, <3>1 DEF Injection, IsInjective
  <2>2. IsFiniteSet(0 .. (n - 1)) /\ Cardinality(0 .. (n - 1)) = n
    <3>1. n - 1 \in Int
      BY <1>0
    <3>2. IsFiniteSet(0 .. (n - 1)) /\ Cardinality(0 .. (n - 1)) = IF 0 > n - 1 THEN 0 ELSE n - 1 - 0 + 1
      BY <3>1, FS_Interval
    <3> QED
      BY <1>0, <3>2
  <2>3. r \in Surjection(S, 0 .. (n - 1))
    BY <2>1, <2>2, FS_Injection
  <2>4. \A i \in 1 .. n : i - 1 \in 0 .. (n - 1)
    BY <1>0
  <2> QED
    BY <2>3, <2>4, Zenon DEF Surjection
<1> DEFINE f == SortBy(S, <)
<1>6. \A i \in 1 .. n : f[i] \in S /\ r[f[i]] = i - 1
  <2>1. SUFFICES ASSUME NEW i \in 1 .. n
                 PROVE  f[i] \in S /\ r[f[i]] = i - 1
    BY Zenon
  <2>2. f[i] = CHOOSE x \in S : Cardinality(Below(x)) = i - 1
    BY Zenon DEF SortBy
  <2>3. \E x \in S : Cardinality(Below(x)) = i - 1
    BY <1>5
  <2> HIDE DEF f, Below
  <2> QED
    BY <2>2, <2>3
<1>7. f \in [1 .. n -> S]
  BY <1>6, Zenon DEF SortBy
<1>8. ASSUME NEW x \in S
      PROVE  \E i \in 1 .. n : f[i] = x
  <2>1. r[x] + 1 \in 1 .. n /\ (r[x] + 1) - 1 = r[x]
    BY <1>0, <1>3
  <2> HIDE DEF f, r
  <2> QED
    BY <1>4, <1>6, <2>1, Zenon
<1>9. ASSUME NEW i \in 1 .. n, NEW j \in 1 .. n, i < j
      PROVE  f[i] < f[j]
  <2> DEFINE x == f[i]  y == f[j]
  <2> HIDE DEF f, r
  <2>1. x \in S /\ y \in S /\ r[x] = i - 1 /\ r[y] = j - 1
    BY <1>6
  <2>2. x \in Nat /\ y \in Nat
    BY <2>1, ZenonT(30)
  <2> HIDE DEF x, y
  <2>3. r[x] < r[y] /\ ~(r[y] < r[x])
    BY <1>0, <1>9, <2>1
  <2>4. ~(y < x) /\ x # y
    BY <1>2, <2>1, <2>3
  <2>5. x < y
    BY <2>2, <2>4
  <2> QED
    BY <2>5 DEF x, y
<1> HIDE DEF f, n
<1>10. /\ n \in Nat /\ f \in [1 .. n -> S]
       /\ \A x \in S : \E i \in 1 .. n : f[i] = x
       /\ \A i, j \in 1 .. n : i < j => f[i] < f[j]
  BY <1>0, <1>7, <1>8, <1>9
<1> QED
  BY <1>10, Zenon DEF f, n

(* A nonempty finite set of naturals has a greatest element.               *)
LEMMA FiniteMax ==
  ASSUME NEW S, \A x \in S : x \in Nat, IsFiniteSet(S), NEW e \in S
  PROVE  Max(S) \in S /\ Max(S) \in Nat /\ \A x \in S : x <= Max(S)
<1> DEFINE f == SortBy(S, <)
           n == Cardinality(S)
<1>0. S \subseteq Nat
  OBVIOUS
<1>1. /\ n \in Nat /\ f \in [1 .. n -> S]
      /\ \A x \in S : \E i \in 1 .. n : f[i] = x
      /\ \A i, j \in 1 .. n : i < j => f[i] < f[j]
  BY <1>0, SortByLess, Zenon
<1> HIDE DEF f, n
<1>2. n \in 1 .. n /\ f[n] \in S
  BY <1>1
<1>3. ASSUME NEW x \in S
      PROVE  f[n] >= x
  <2>1. PICK i \in 1 .. n : f[i] = x
    BY <1>1
  <2>2. i < n => f[i] < f[n]
    BY <1>1, <1>2
  <2>3. x \in Nat /\ f[n] \in Nat
    BY <1>2
  <2>4. i < n \/ i = n
    BY <1>1
  <2> QED
    BY <2>1, <2>2, <2>3, <2>4
<1>4. \E x \in S : \A y \in S : x >= y
  BY <1>2, <1>3
<1>5. Max(S) \in S /\ \A y \in S : Max(S) >= y
  BY <1>4, Zenon DEF Max
<1> QED
  BY <1>5

-----------------------------------------------------------------------------
(* Listing and joining.                                                    *)

(* The order in which log_commit iterates over a write set.                *)
LEMMA ListingLists ==
  ASSUME NEW S, IsFiniteSet(S)
  PROVE  LET s == Listing(S) IN
         /\ s \in Seq(S) /\ Len(s) \in Nat
         /\ \A i, j \in 1 .. Len(s) : s[i] = s[j] => i = j
         /\ \A x \in S : \E i \in 1 .. Len(s) : s[i] = x
<1> DEFINE n == Cardinality(S)
           s == Listing(S)
<1>1. n \in Nat
  BY FS_CardinalityType
<1>2. IsFiniteSet(1 .. n) /\ Cardinality(1 .. n) = n
  BY <1>1, FS_Interval
<1>3. PICK g \in Bijection(1 .. n, S) : TRUE
  BY <1>2, FS_SameCardinalityBij DEF ExistsBijection
<1> DEFINE Lists(f) == \A i, j \in DOMAIN f : f[i] = f[j] => i = j
<1>4. \E f \in [1 .. n -> S] : Lists(f)
  BY <1>3, Zenon DEF Bijection, Injection, IsInjective
<1> HIDE DEF n
<1>5. s \in [1 .. n -> S] /\ Lists(s)
  BY <1>4, Zenon DEF Listing, n
<1> HIDE DEF s
<1>6. s \in Injection(1 .. n, S)
  BY <1>5 DEF Injection, IsInjective
<1>7. s \in Surjection(1 .. n, S)
  BY <1>2, <1>6, FS_Injection DEF n
<1>8. s \in Seq(S) /\ Len(s) = n
  BY <1>1, <1>5
<1>9. \A i, j \in 1 .. n : s[i] = s[j] => i = j
  BY <1>5
<1>10. \A x \in S : \E i \in 1 .. n : s[i] = x
  BY <1>7 DEF Surjection
<1>11. /\ s \in Seq(S) /\ Len(s) \in Nat
       /\ \A i, j \in 1 .. Len(s) : s[i] = s[j] => i = j
       /\ \A x \in S : \E i \in 1 .. Len(s) : s[i] = x
  BY <1>1, <1>8, <1>9, <1>10
<1> QED
  BY <1>11 DEF s

(* A function on 1 .. n is a sequence.                                     *)
LEMMA SeqOfFunction ==
  ASSUME NEW S, NEW n \in Nat, NEW f \in [1 .. n -> S]
  PROVE  f \in Seq(S) /\ Len(f) = n
  OBVIOUS

(* Induction up to n.                                                      *)
LEMMA StepInduction ==
  ASSUME NEW n \in Nat, NEW S, 0 \in S, \A m \in 0 .. (n - 1) : m \in S => m + 1 \in S
  PROVE  n \in S
<1> DEFINE T == {m \in 0 .. n : \A l \in 0 .. m : l \in S}
<1>1. IsFiniteSet(T)
  <2>1. IsFiniteSet(0 .. n)
    BY FS_Interval
  <2> QED
    BY <2>1, FS_Subset
<1>2. 0 \in T /\ \A m \in T : m \in Nat /\ m <= n
  OBVIOUS
<1>3. ASSUME NEW m \in T, m < n
      PROVE  m + 1 \in T
  <2>1. m \in 0 .. (n - 1) /\ m \in S
    BY <1>3
  <2>2. m + 1 \in S /\ m + 1 \in 0 .. n
    BY <2>1
  <2>3. \A l \in 0 .. (m + 1) : l \in 0 .. m \/ l = m + 1
    BY <2>1
  <2> QED
    BY <2>2, <2>3
<1>4. \A m \in T : m \in S
  OBVIOUS
<1> HIDE DEF T
<1>5. PICK m \in T : \A l \in T : l <= m
  BY <1>1, <1>2, FiniteMax
<1>6. m = n
  <2>1. CASE m < n
    BY <1>2, <1>3, <1>5, <2>1
  <2> QED
    BY <1>2, <2>1
<1> QED
  BY <1>4, <1>6

(* flat is the sequences of ss put behind one another, one by one.         *)
JoinedBy(flat, ss, n, F) ==
    /\ \A i \in 1 .. n : ss[i] \in Seq(F)
    /\ flat \in [0 .. n -> Seq(F)]
    /\ flat[0] = <<>>
    /\ \A i \in 1 .. n : flat[i] = flat[i - 1] \o ss[i]
    /\ Joined(ss) = flat[n]

(* So works Joined.                                                    *)
LEMMA JoinSteps ==
  ASSUME NEW F, NEW ss \in Seq(Seq(F)), NEW n \in Nat, n = Len(ss)
  PROVE  \E flat : JoinedBy(flat, ss, n, F)
<1> DEFINE Builds(m, f) == /\ f \in [0 .. m -> Seq(F)]
                           /\ f[0] = <<>>
                           /\ \A i \in 1 .. m : f[i] = f[i - 1] \o ss[i]
           S == {m \in 0 .. n : \E f : Builds(m, f)}
<1>0. \A i \in 1 .. n : ss[i] \in Seq(F)
  OBVIOUS
<1>1. 0 \in S
  <2> DEFINE f == [i \in 0 .. 0 |-> <<>>]
  <2>1. <<>> \in Seq(F)
    OBVIOUS
  <2>2. Builds(0, f)
    BY <2>1
  <2> HIDE DEF Builds
  <2>3. \E g : Builds(0, g)
    BY <2>2
  <2> QED
    BY <2>3
<1>2. ASSUME NEW m \in 0 .. (n - 1), m \in S
      PROVE  m + 1 \in S
  <2>1. PICK f : Builds(m, f)
    BY <1>2, ZenonT(30)
  <2> DEFINE e == f[m] \o ss[m + 1]
             g == [i \in 0 .. (m + 1) |-> IF i = m + 1 THEN e ELSE f[i]]
  <2>2. m \in Nat /\ m + 1 \in 1 .. n /\ m + 1 \in 0 .. n
    OBVIOUS
  <2>3. f[m] \in Seq(F) /\ ss[m + 1] \in Seq(F)
    BY <1>0, <2>1, <2>2
  <2>4. e \in Seq(F)
    BY <2>3
  <2> HIDE DEF e
  <2>5. g \in [0 .. (m + 1) -> Seq(F)]
    BY <2>1, <2>2, <2>4
  <2>6. g[m + 1] = e /\ \A i \in 0 .. m : g[i] = f[i]
    BY <2>2
  <2> HIDE DEF g
  <2>7. g[0] = <<>>
    BY <2>1, <2>2, <2>6
  <2>8. ASSUME NEW i \in 1 .. (m + 1)
        PROVE  g[i] = g[i - 1] \o ss[i]
    <3>1. CASE i = m + 1
      <4>1. i - 1 = m /\ m \in 0 .. m
        BY <2>2, <3>1
      <4> QED
        BY <2>6, <3>1, <4>1, ZenonT(30) DEF e
    <3>2. CASE i \in 1 .. m
      <4>1. i - 1 \in 0 .. m /\ i \in 0 .. m
        BY <2>2, <3>2
      <4> QED
        BY <2>1, <2>6, <3>2, <4>1, Zenon
    <3>3. i = m + 1 \/ i \in 1 .. m
      BY <2>2
    <3> QED
      BY <3>1, <3>2, <3>3, Zenon
  <2>9. Builds(m + 1, g)
    BY <2>5, <2>7, <2>8, Zenon
  <2> QED
    BY <2>2, <2>9, Zenon
<1>3. PICK f : Builds(n, f)
  <2>1. n \in S
    <3> HIDE DEF S
    <3> QED
      BY <1>1, <1>2, StepInduction
  <2> QED
    BY <2>1, Zenon
<1>4. Joined(ss) = f[n]
  <2> DEFINE Joins(g) == g = [i \in 0 .. n |-> IF i = 0 THEN <<>> ELSE g[i - 1] \o ss[i]]
             g == CHOOSE x : Joins(x)
  <2>1. Joined(ss) = g[n]
    BY DEF Joined
  <2>2. Joins(f)
    <3>1. ASSUME NEW i \in 0 .. n
          PROVE  f[i] = IF i = 0 THEN <<>> ELSE f[i - 1] \o ss[i]
      <4>1. i = 0 \/ (i \in 1 .. n /\ i # 0)
        OBVIOUS
      <4>2. f[0] = <<>> /\ \A j \in 1 .. n : f[j] = f[j - 1] \o ss[j]
        BY <1>3, Zenon
      <4> QED
        BY <4>1, <4>2, Zenon
    <3>2. f = [i \in 0 .. n |-> f[i]]
      BY <1>3
    <3> QED
      BY <3>1, <3>2
  <2>3. Joins(g)
    <3> HIDE DEF Joins
    <3> QED
      BY <2>2
  <2> HIDE DEF g
  <2>4. \A i \in 0 .. n : g[i] = IF i = 0 THEN <<>> ELSE g[i - 1] \o ss[i]
    BY <2>3, Zenon
  <2> DEFINE Q == {m \in 0 .. n : g[m] = f[m]}
  <2>5. 0 \in Q
    BY <1>3, <2>4
  <2>6. ASSUME NEW m \in 0 .. (n - 1), m \in Q
        PROVE  m + 1 \in Q
    <3>1. m + 1 \in 1 .. n /\ m + 1 \in 0 .. n /\ (m + 1) - 1 = m /\ m + 1 # 0
      OBVIOUS
    <3>2. f[m + 1] = f[(m + 1) - 1] \o ss[m + 1]
      BY <1>3, <3>1, Zenon
    <3>3. g[m + 1] = g[(m + 1) - 1] \o ss[m + 1]
      BY <2>4, <3>1, Zenon
    <3> QED
      BY <2>6, <3>1, <3>2, <3>3, Zenon
  <2>7. n \in Q
    <3> HIDE DEF Q
    <3> QED
      BY <2>5, <2>6, StepInduction
  <2> QED
    BY <2>1, <2>7
<1> QED
  BY <1>0, <1>3, <1>4 DEF JoinedBy

(* flat is base with the sequences of ss put behind it, one by one.        *)
JoinedOnto(base, flat, ss, n, F) ==
    /\ flat \in [0 .. n -> Seq(F)]
    /\ flat[0] = base
    /\ \A i \in 1 .. n : flat[i] = flat[i - 1] \o ss[i]
    /\ base \o Joined(ss) = flat[n]

(* The log after a checkpoint grows from its marker.                       *)
LEMMA JoinOnto ==
  ASSUME NEW F, NEW base \in Seq(F), NEW ss, NEW n \in Nat, NEW f, JoinedBy(f, ss, n, F)
  PROVE  \E flat : JoinedOnto(base, flat, ss, n, F)
<1>1. ASSUME NEW a \in Seq(F), NEW b \in Seq(F)
      PROVE  (base \o a) \o b = base \o (a \o b)
  <2>1. /\ base \o a \in Seq(F) /\ a \o b \in Seq(F)
        /\ (base \o a) \o b \in Seq(F) /\ base \o (a \o b) \in Seq(F)
    OBVIOUS
  <2>2. Len((base \o a) \o b) = Len(base \o (a \o b))
    BY <2>1
  <2>3. \A i \in 1 .. Len((base \o a) \o b) : ((base \o a) \o b)[i] = (base \o (a \o b))[i]
    BY <2>1, <2>2
  <2>4. \A s, t \in Seq(F) : Len(s) = Len(t) /\ (\A i \in 1 .. Len(s) : s[i] = t[i]) => s = t
    OBVIOUS
  <2> QED
    BY <2>1, <2>2, <2>3, <2>4, Zenon
<1>2. /\ \A i \in 1 .. n : ss[i] \in Seq(F)
      /\ f \in [0 .. n -> Seq(F)]
      /\ f[0] = <<>>
      /\ \A i \in 1 .. n : f[i] = f[i - 1] \o ss[i]
      /\ Joined(ss) = f[n]
  BY Zenon DEF JoinedBy
<1> DEFINE g == [i \in 0 .. n |-> base \o f[i]]
<1>3. \A a \in Seq(F) : base \o a \in Seq(F)
  OBVIOUS
<1>4. g \in [0 .. n -> Seq(F)]
  BY <1>2, <1>3
<1>5. g[0] = base
  <2>1. g[0] = base \o <<>>
    BY <1>2
  <2> QED
    BY <2>1
<1>6. ASSUME NEW i \in 1 .. n
      PROVE  g[i] = g[i - 1] \o ss[i]
  <2> DEFINE a == f[i - 1]
             b == ss[i]
  <2>1. i - 1 \in 0 .. n /\ i \in 0 .. n
    OBVIOUS
  <2>2. a \in Seq(F) /\ b \in Seq(F)
    BY <1>2, <2>1
  <2>3. g[i] = base \o (a \o b) /\ g[i - 1] = base \o a
    BY <1>2, <2>1, Zenon
  <2> HIDE DEF a, b
  <2>4. (base \o a) \o b = base \o (a \o b)
    BY <1>1, <2>2, Zenon
  <2> HIDE DEF g
  <2>5. g[i] = g[i - 1] \o b
    BY <2>3, <2>4, Zenon
  <2> QED
    BY <2>5 DEF b
<1>7. base \o Joined(ss) = g[n]
  <2>1. n \in 0 .. n
    OBVIOUS
  <2> QED
    BY <1>2, <2>1
<1> HIDE DEF g
<1> QED
  BY <1>4, <1>5, <1>6, <1>7, Zenon DEF JoinedOnto

(* The range of a function on a finite set is finite.                      *)
LEMMA FiniteRange ==
  ASSUME NEW S, IsFiniteSet(S), NEW T, NEW f \in [S -> T],
         \A y \in T : \E x \in S : f[x] = y
  PROVE  IsFiniteSet(T)
<1>1. f \in Surjection(S, T)
  BY DEF Surjection
<1> QED
  BY <1>1, FS_Surjection

-----------------------------------------------------------------------------
(* The log a commit and a checkpoint write.                                *)

(* log_commit writes one frame for each key of the write set and then the  *)
(* commit record (wal.rs:321-341).                                         *)
LEMMA LogCommitFrames ==
  ASSUME NEW id \in Nat, NEW ts \in Nat, NEW W \in [Keys -> Slot \cup {Absent}]
  PROVE  CommitBlock(LogCommit(id, ts, W), id, ts, W)
<1> DEFINE S == {k \in Keys : W[k] # Absent}
           s == Listing(S)
           n == Len(s)
           a == [i \in 1 .. n |-> Write(id, s[i], W[s[i]])]
           c == CommitRecord(id, ts)
           b == LogCommit(id, ts, W)
<1>1. IsFiniteSet(S)
  <2>1. S \in SUBSET Keys
    OBVIOUS
  <2> QED
    BY <2>1, KeysAssumption, FS_Subset
<1>2. /\ s \in Seq(S) /\ n \in Nat
      /\ \A i, j \in 1 .. n : s[i] = s[j] => i = j
      /\ \A x \in S : \E i \in 1 .. n : s[i] = x
  <2> HIDE DEF S
  <2> QED
    BY <1>1, ListingLists
<1>3. b = a \o <<c>>
  BY DEF LogCommit
<1> HIDE DEF s, n, b
<1>4. \A i \in 1 .. n : s[i] \in Keys /\ W[s[i]] # Absent /\ W[s[i]] \in Slot
  <2>1. \A i \in 1 .. n : s[i] \in S
    <3> HIDE DEF S
    <3> QED
      BY <1>2 DEF n
  <2> QED
    BY <2>1
<1>5. c \in Frame
  BY DEF CommitRecord, Frame
<1>6. \A i \in 1 .. n : a[i] = Write(id, s[i], W[s[i]])
  OBVIOUS
<1>7. \A i \in 1 .. n : a[i] \in Frame
  BY <1>4, <1>6 DEF Write, Frame
<1>8. a \in Seq(Frame) /\ Len(a) = n
  <2>1. a \in [1 .. n -> Frame]
    BY <1>7
  <2> HIDE DEF a
  <2> QED
    BY <1>2, <2>1
<1> HIDE DEF a, c
<1>9. <<c>> \in Seq(Frame) /\ Len(<<c>>) = 1 /\ <<c>>[1] = c
  BY <1>5
<1>10. /\ b \in Seq(Frame) /\ Len(b) = n + 1
       /\ \A i \in 1 .. n : b[i] = a[i]
       /\ b[n + 1] = c
  <2>1. /\ a \o <<c>> \in Seq(Frame) /\ Len(a \o <<c>>) = n + 1
        /\ \A i \in 1 .. n + 1 : (a \o <<c>>)[i] = IF i <= n THEN a[i] ELSE <<c>>[i - n]
    BY <1>8, <1>9
  <2>2. n + 1 \in 1 .. n + 1 /\ ~(n + 1 <= n) /\ (n + 1) - n = 1
    BY <1>2
  <2>3. \A i \in 1 .. n : i \in 1 .. n + 1 /\ i <= n
    BY <1>2
  <2> QED
    BY <1>3, <1>9, <2>1, <2>2, <2>3
<1>11. \A i \in 1 .. n : /\ b[i].type = "write" /\ b[i].txn = id
                         /\ b[i].key = s[i] /\ b[i].val = W[s[i]]
  <2>1. SUFFICES ASSUME NEW i \in 1 .. n
                 PROVE  /\ b[i].type = "write" /\ b[i].txn = id
                        /\ b[i].key = s[i] /\ b[i].val = W[s[i]]
    OBVIOUS
  <2>2. b[i] = Write(id, s[i], W[s[i]])
    BY <1>6, <1>10
  <2> QED
    BY <2>2 DEF Write
<1>12. Len(b) - 1 = n /\ Len(b) \in Nat \ {0}
  BY <1>2, <1>10
<1>13. b[Len(b)] = CommitRecord(id, ts)
  BY <1>10 DEF c
<1>14. \A i, j \in 1 .. n : b[i].key = b[j].key => i = j
  BY <1>2, <1>11
<1>15. ASSUME NEW k \in Keys, W[k] # Absent
       PROVE  \E i \in 1 .. n : b[i].key = k
  <2>1. PICK i \in 1 .. n : s[i] = k
    BY <1>2, <1>15
  <2> QED
    BY <1>11, <2>1
<1>16. \A i \in 1 .. n : /\ b[i].type = "write" /\ b[i].txn = id
                         /\ b[i].key \in Keys /\ b[i].val = W[b[i].key] /\ b[i].val # Absent
  BY <1>4, <1>11
<1>17. 1 .. (Len(b) - 1) = 1 .. n
  BY <1>12
<1>18. CommitBlock(b, id, ts, W)
  BY <1>10, <1>12, <1>13, <1>14, <1>15, <1>16, <1>17 DEF CommitBlock
<1> QED
  BY <1>18 DEF b

(* A log with, above lo, the commits of V up to hi, under the n ids from   *)
(* first on.                                                               *)
RewrittenTo(frames, V, lo, hi, first, n) ==
    /\ frames \in Seq(Frame)
    /\ WellFormed(frames)
    /\ Holds(frames, {x \in V : x.ts <= hi}, lo, hi)
    /\ \A i \in WriteFrames(frames) \cup CommitFrames(frames) :
           frames[i].txn \in first .. (first + n - 1)

(* One more commit that the tree lacks, the next by timestamp.             *)
LEMMA RewriteOneMore ==
  ASSUME NEW frames, NEW V, V \subseteq CommittedVersion,
         NEW lo \in Nat, NEW hi \in Nat, NEW T \in Nat, lo <= hi, hi < T,
         NEW first \in Nat, NEW n \in Nat, NEW W \in [Keys -> Slot \cup {Absent}],
         RewrittenTo(frames, V, lo, hi, first, n),
         \A x \in CommittedVersion : x.ts = T => (x \in V <=> W[x.key] = x.val),
         \A x \in V : ~(hi < x.ts /\ x.ts < T)
  PROVE  RewrittenTo(frames \o LogCommit(first + n, T, W), V, lo, T, first, n + 1)
<1> DEFINE id == first + n
           big == frames \o LogCommit(id, T, W)
           Old == {x \in V : x.ts <= hi}
           New == {x \in V : x.ts <= T}
<1>1. frames \in Seq(Frame) /\ WellFormed(frames) /\ Holds(frames, Old, lo, hi)
  BY DEF RewrittenTo
<1>2. id \in Nat
  OBVIOUS
<1>12. CommitBlock(LogCommit(id, T, W), id, T, W)
  BY <1>2, LogCommitFrames
<1>3. Extended(big, frames, id, T, W)
  BY <1>1, <1>2, <1>12, AppendedFrames
<1>4. Fresh(frames, id)
  BY DEF RewrittenTo, Fresh
<1>5. \A x \in CommittedVersion : x.ts \in Nat
  BY DEF CommittedVersion
<1>6. /\ New \subseteq CommittedVersion
      /\ \A x \in CommittedVersion : x.ts <= hi => (x \in New <=> x \in Old)
      /\ \A x \in CommittedVersion : x.ts = T => (x \in New <=> W[x.key] = x.val)
      /\ \A x \in New : ~(hi < x.ts /\ x.ts < T)
  BY <1>5
<1> HIDE DEF big, id, Old, New
<1>7. Holds(big, New, lo, T)
  BY <1>1, <1>2, <1>3, <1>4, <1>6, AppendHolds, SMTT(20)
<1>8. \A j \in CommitFrames(frames) : frames[j].ts < T
  <2>1. \A j \in CommitFrames(frames) : frames[j].ts <= hi
    BY <1>1 DEF Holds
  <2>2. \A j \in CommitFrames(frames) : frames[j].ts \in Nat
    BY <1>1, FrameFields
  <2> QED
    BY <2>1, <2>2
<1>9. WellFormed(big)
  BY <1>1, <1>2, <1>3, <1>4, <1>8, AppendWellFormed
<1>10. big \in Seq(Frame)
  BY <1>3 DEF Extended
<1>11. ASSUME NEW i \in WriteFrames(big) \cup CommitFrames(big)
       PROVE  big[i].txn \in first .. (first + (n + 1) - 1)
  <2>1. \/ i \in WriteFrames(frames) \cup CommitFrames(frames)
        \/ big[i].txn = id
    BY <1>3 DEF Extended
  <2>2. CASE i \in WriteFrames(frames) \cup CommitFrames(frames)
    <3>1. i \in 1 .. Len(frames)
      BY <1>1, <2>2, FrameFields, SMTT(20)
    <3>2. big[i] = frames[i]
      BY <1>3, <3>1, ZenonT(30) DEF Extended
    <3>3. frames[i].txn \in first .. (first + n - 1)
      BY <2>2 DEF RewrittenTo
    <3> QED
      BY <3>2, <3>3
  <2>3. CASE big[i].txn = id
    BY <2>3 DEF id
  <2> QED
    BY <2>1, <2>2, <2>3
<1> QED
  BY <1>7, <1>9, <1>10, <1>11, ZenonT(30) DEF RewrittenTo, big, id, New

(* reset_with_retained (wal.rs:255-299) writes a log that holds all        *)
(* commits above the tree's timestamp: recovery over that tree will find   *)
(* each of them.                                                           *)
LEMMA ResetHolds ==
  ASSUME NEW tree_ts \in Nat, NEW first \in Nat, NEW hi \in Nat, tree_ts <= hi,
         NEW D, IsFiniteSet(D), \A ts \in D : ts \in Nat /\ tree_ts < ts /\ ts <= hi,
         NEW retained \in [D -> [Keys -> Slot \cup {Absent}]],
         NEW V, V \subseteq CommittedVersion,
         \A x \in CommittedVersion : x.ts \in D => (x \in V <=> retained[x.ts][x.key] = x.val),
         \A x \in V : tree_ts < x.ts => x.ts \in D
  PROVE  RewrittenTo(ResetLog(tree_ts, first, retained), V, tree_ts, hi, first, Cardinality(D))
<1> DEFINE n == Cardinality(D)
           stamps == SortBy(D, <)
           block(i) == LogCommit(first + i - 1, stamps[i], retained[stamps[i]])
           ss == [i \in 1 .. n |-> block(i)]
           marker == <<CheckpointRecord(tree_ts)>>
           top == [i \in 0 .. n |-> IF i = 0 THEN tree_ts ELSE stamps[i]]
<1>1. /\ n \in Nat /\ stamps \in [1 .. n -> D]
      /\ \A x \in D : \E i \in 1 .. n : stamps[i] = x
      /\ \A i, j \in 1 .. n : i < j => stamps[i] < stamps[j]
  <2>1. D \subseteq Nat
    OBVIOUS
  <2> QED
    BY <2>1, SortByLess, ZenonT(30)
<1>2. Len(stamps) = n
  <2> HIDE DEF n, stamps
  <2> QED
    BY <1>1, SeqOfFunction
<1>3. DOMAIN retained = D
  OBVIOUS
<1>4. ResetLog(tree_ts, first, retained) = marker \o Joined(ss)
  <2>1. ResetLog(tree_ts, first, retained) =
            marker \o Joined([i \in 1 .. Len(stamps) |-> block(i)])
    BY <1>3 DEF ResetLog
  <2> HIDE DEF n, stamps, block, marker
  <2> QED
    BY <1>2, <2>1
<1> HIDE DEF n, stamps
<1>5. ASSUME NEW i \in 1 .. n
      PROVE  /\ stamps[i] \in D /\ stamps[i] \in Nat /\ first + i - 1 \in Nat
             /\ retained[stamps[i]] \in [Keys -> Slot \cup {Absent}]
  BY <1>1
<1>6. ASSUME NEW i \in 1 .. n
      PROVE  block(i) \in Seq(Frame)
  <2>1. CommitBlock(block(i), first + i - 1, stamps[i], retained[stamps[i]])
    BY <1>5, LogCommitFrames
  <2> HIDE DEF block
  <2> QED
    BY <2>1 DEF CommitBlock
<1> HIDE DEF block
<1>7. ss \in Seq(Seq(Frame)) /\ Len(ss) = n
  <2>1. ss \in [1 .. n -> Seq(Frame)]
    BY <1>6
  <2> HIDE DEF ss
  <2> QED
    BY <1>1, <2>1, SeqOfFunction
<1>8. \A i \in 1 .. n : ss[i] = block(i)
  OBVIOUS
<1> HIDE DEF ss
<1>9. /\ marker \in Seq(Frame) /\ CommitFrames(marker) = {} /\ WriteFrames(marker) = {}
  <2>1. CheckpointRecord(tree_ts) \in Frame /\ CheckpointRecord(tree_ts).type = "checkpoint"
    BY DEF Frame, CheckpointRecord
  <2> DEFINE f == CheckpointRecord(tree_ts)
  <2> HIDE DEF f
  <2>2. <<f>> \in Seq(Frame) /\ Len(<<f>>) = 1 /\ <<f>>[1] = f
    BY <2>1 DEF f
  <2>3. \A i \in 1 .. 1 : <<f>>[i].type = "checkpoint"
    BY <2>1, <2>2 DEF f
  <2>4. CommitFrames(<<f>>) = {} /\ WriteFrames(<<f>>) = {}
    BY <2>2, <2>3 DEF CommitFrames, WriteFrames
  <2> QED
    BY <2>2, <2>4 DEF f
<1> HIDE DEF marker
<1>10. PICK flat : JoinedOnto(marker, flat, ss, n, Frame)
  <2>1. PICK f : JoinedBy(f, ss, n, Frame)
    BY <1>1, <1>7, JoinSteps
  <2> QED
    BY <1>1, <1>9, <2>1, JoinOnto
<1>11. /\ flat \in [0 .. n -> Seq(Frame)]
       /\ flat[0] = marker
       /\ \A i \in 1 .. n : flat[i] = flat[i - 1] \o ss[i]
       /\ marker \o Joined(ss) = flat[n]
  BY <1>10, Zenon DEF JoinedOnto
<1> DEFINE Q == {i \in 0 .. n : RewrittenTo(flat[i], V, tree_ts, top[i], first, i)}
<1>12. 0 \in Q
  <2> DEFINE U == {x \in V : x.ts <= tree_ts}
  <2>1. flat[0] = marker
    BY <1>11
  <2>2. \A x \in U : ~(tree_ts < x.ts /\ x.ts <= tree_ts)
    BY DEF CommittedVersion
  <2>3. WellFormed(marker) /\ Holds(marker, U, tree_ts, tree_ts)
    BY <1>9, <2>2, NoCommitsHold
  <2>4. RewrittenTo(marker, V, tree_ts, tree_ts, first, 0)
    BY <1>9, <2>3 DEF RewrittenTo
  <2>5. 0 \in 0 .. n /\ top[0] = tree_ts
    BY <1>1
  <2> HIDE DEF top
  <2> QED
    BY <2>1, <2>4, <2>5
<1>13. ASSUME NEW i \in 0 .. (n - 1), i \in Q
       PROVE  i + 1 \in Q
  <2> DEFINE W == retained[stamps[i + 1]]
             T == stamps[i + 1]
             frames == flat[i]
  <2>1. i \in Nat /\ i + 1 \in 1 .. n /\ i + 1 \in 0 .. n /\ (i + 1) - 1 = i /\ i \in 0 .. n
        /\ first + (i + 1) - 1 = first + i
    BY <1>1
  <2>2. top[i + 1] = T /\ top[i] = IF i = 0 THEN tree_ts ELSE stamps[i]
    BY <2>1
  <2>3. T \in D /\ T \in Nat /\ tree_ts < T /\ W \in [Keys -> Slot \cup {Absent}]
    BY <1>5, <2>1
  <2>4. top[i] \in Nat /\ tree_ts <= top[i] /\ top[i] < T
    <3>1. CASE i = 0
      BY <2>2, <2>3, <3>1
    <3>2. CASE i # 0
      <4>1. i \in 1 .. n /\ i < i + 1
        BY <2>1, <3>2
      <4>2. stamps[i] \in D /\ stamps[i] < T
        BY <1>1, <2>1, <4>1
      <4>3. stamps[i] \in Nat /\ tree_ts <= stamps[i]
        BY <4>2
      <4> QED
        BY <2>2, <3>2, <4>2, <4>3
    <3> QED
      BY <3>1, <3>2
  <2>5. flat[i + 1] = frames \o LogCommit(first + i, T, W)
    <3>1. flat[i + 1] = frames \o block(i + 1)
      BY <1>8, <1>11, <2>1, Zenon
    <3>2. block(i + 1) = LogCommit(first + i, T, W)
      BY <2>1 DEF block
    <3> QED
      BY <3>1, <3>2, Zenon
  <2>6. RewrittenTo(frames, V, tree_ts, top[i], first, i)
    BY <1>13
  <2>7. \A x \in CommittedVersion : x.ts = T => (x \in V <=> W[x.key] = x.val)
    BY <2>3
  <2>8. ASSUME NEW x \in V, top[i] < x.ts, x.ts < T
        PROVE  FALSE
    <3>0. x.ts \in Nat
      BY DEF CommittedVersion
    <3>1. x.ts \in D
      BY <2>4, <2>8, <3>0
    <3>2. PICK j \in 1 .. n : stamps[j] = x.ts
      BY <1>1, <3>1
    <3>3. j < i + 1
      <4>1. i + 1 < j => T < stamps[j]
        BY <1>1, <2>1
      <4> QED
        BY <2>1, <2>3, <2>8, <3>0, <3>2, <4>1, SMTT(20)
    <3>4. i # 0 /\ j <= i /\ i \in 1 .. n
      BY <1>1, <2>1, <3>3
    <3>5. j < i => stamps[j] < stamps[i]
      BY <1>1, <3>4
    <3>6. stamps[i] \in Nat /\ top[i] = stamps[i]
      BY <1>5, <2>2, <3>4
    <3> QED
      BY <2>8, <3>0, <3>2, <3>4, <3>5, <3>6
  <2> HIDE DEF top, T, W, frames
  <2>9. RewrittenTo(frames \o LogCommit(first + i, T, W), V, tree_ts, T, first, i + 1)
    BY <2>1, <2>3, <2>4, <2>6, <2>7, <2>8, RewriteOneMore, ZenonT(30)
  <2> QED
    BY <2>1, <2>2, <2>5, <2>9, Zenon
<1>14. n \in Q
  <2> HIDE DEF Q
  <2> QED
    BY <1>1, <1>12, <1>13, StepInduction
<1> DEFINE frames == flat[n]
<1>15. RewrittenTo(frames, V, tree_ts, top[n], first, n)
  BY <1>14
<1>16. \A x \in CommittedVersion : x.ts \in Nat
  BY DEF CommittedVersion
<1>17. top[n] \in Nat /\ tree_ts <= top[n] /\ top[n] <= hi
  <2>1. n \in 0 .. n /\ (n # 0 => n \in 1 .. n)
    BY <1>1
  <2>2. n # 0 => stamps[n] \in D
    BY <1>1, <2>1
  <2> QED
    BY <2>1, <2>2
<1>18. \A x \in V : x.ts <= top[n]
  <2>1. ASSUME NEW x \in V, tree_ts < x.ts
        PROVE  x.ts <= top[n]
    <3>1. PICK j \in 1 .. n : stamps[j] = x.ts
      BY <1>1, <2>1
    <3>2. n \in 1 .. n /\ n \in 0 .. n /\ n # 0
      BY <1>1
    <3>3. top[n] = stamps[n] /\ (j < n => stamps[j] < stamps[n])
      BY <1>1, <3>2
    <3>4. j = n \/ j < n
      BY <1>1
    <3>5. x.ts \in Nat
      BY <1>16
    <3> HIDE DEF top
    <3> QED
      BY <1>17, <3>1, <3>3, <3>4, <3>5
  <2> HIDE DEF top
  <2> QED
    BY <1>16, <1>17, <2>1
<1> HIDE DEF top, frames
<1>19. {x \in V : x.ts <= top[n]} = V /\ {x \in V : x.ts <= hi} = V
  <2>1. \A x \in V : x.ts <= hi
    BY <1>16, <1>17, <1>18
  <2> QED
    BY <1>18, <2>1
<1>20. frames \in Seq(Frame) /\ WellFormed(frames) /\ Holds(frames, V, tree_ts, top[n])
  BY <1>15, <1>19, ZenonT(30) DEF RewrittenTo
<1>21. Holds(frames, V, tree_ts, hi)
  <2>1. \A x \in V : ~(top[n] < x.ts /\ x.ts <= hi)
    BY <1>16, <1>17, <1>18
  <2> QED
    BY <1>17, <1>20, <2>1, HoldsBetween
<1>22. RewrittenTo(frames, V, tree_ts, hi, first, n)
  BY <1>15, <1>19, <1>20, <1>21, ZenonT(30) DEF RewrittenTo
<1> QED
  BY <1>4, <1>11, <1>22 DEF frames, n

(* The writes at ts in the chains c (txn.rs:366-389).                      *)
WritesAt(c, ts) ==
    [k \in Keys |-> IF \E i \in 1 .. Len(c[k]) : c[k][i].ts = ts
                    THEN AsOf(c[k], None, ts)
                    ELSE Absent]

(* A checkpoint writes a log that, with the tree it has just written,      *)
(* makes up the histories, under the ids it reserved.                      *)
LEMMA ResetKept ==
  ASSUME NEW H \in [Keys -> Seq(Committed)], NEW c \in [Keys -> Seq(Version)], NEW base,
         NEW lo \in Nat, NEW hi \in Nat, lo <= hi, NEW first \in Nat,
         \A k \in Keys : Sorted(H[k], hi),
         \A k \in Keys : Represents(H[k], c[k], base[k]) /\ CutBelow(H[k], c[k], lo),
         NEW D, IsFiniteSet(D), \A ts \in D : ts \in Nat /\ lo < ts /\ ts <= hi,
         \A k \in Keys : \A i \in 1 .. Len(c[k]) : c[k][i].ts \in D,
         NEW retained, retained = [ts \in D |-> WritesAt(c, ts)]
  PROVE  LET frames == ResetLog(lo, first, retained)
         IN  /\ Keeps(frames, H, lo, hi)
             /\ \A i \in WriteFrames(frames) \cup CommitFrames(frames) :
                    frames[i].txn \in first .. (first + Cardinality(D) - 1)
<1> DEFINE frames == ResetLog(lo, first, retained)
           V == Versions(H)
<1>1. ASSUME NEW k \in Keys
      PROVE  /\ \A i \in 1 .. Len(H[k]) : H[k][i].ts > lo =>
                    \E j \in 1 .. Len(c[k]) : c[k][j].ts = H[k][i].ts /\ c[k][j].val = H[k][i].val
             /\ \A j \in 1 .. Len(c[k]) :
                    \E i \in 1 .. Len(H[k]) : H[k][i].ts = c[k][j].ts /\ H[k][i].val = c[k][j].val
             /\ \A j \in 1 .. Len(c[k]) : AsOf(c[k], None, c[k][j].ts) = c[k][j].val
  <2>1. H[k] \in Seq(Committed) /\ c[k] \in Seq(Version)
    OBVIOUS
  <2> QED
    BY <2>1, ChainIsAbove, ZenonT(30)
<1>2. \A k \in Keys : \A i \in 1 .. Len(H[k]) : H[k][i].ts > lo =>
           \E j \in 1 .. Len(c[k]) : c[k][j].ts = H[k][i].ts /\ c[k][j].val = H[k][i].val
  BY <1>1
<1>3. \A k \in Keys : \A j \in 1 .. Len(c[k]) :
           \E i \in 1 .. Len(H[k]) : H[k][i].ts = c[k][j].ts /\ H[k][i].val = c[k][j].val
  BY <1>1, Zenon
<1>4. \A k \in Keys : \A j \in 1 .. Len(c[k]) : AsOf(c[k], None, c[k][j].ts) = c[k][j].val
  BY <1>1
<1>5. ASSUME NEW ts \in D, NEW k \in Keys
      PROVE  retained[ts][k] = IF \E i \in 1 .. Len(c[k]) : c[k][i].ts = ts
                               THEN AsOf(c[k], None, ts) ELSE Absent
  BY SMTT(20) DEF WritesAt
<1>6. ASSUME NEW ts \in D, NEW k \in Keys
      PROVE  retained[ts][k] \in Slot \cup {Absent}
  <2>1. CASE \E i \in 1 .. Len(c[k]) : c[k][i].ts = ts
    <3>1. PICK i \in 1 .. Len(c[k]) : c[k][i].ts = ts
      BY <2>1
    <3>2. retained[ts][k] = c[k][i].val
      <4>1. retained[ts][k] = AsOf(c[k], None, ts)
        BY <1>5, <2>1
      <4> QED
        BY <1>4, <3>1, <4>1, SMTT(20)
    <3>3. c[k] \in Seq(Version)
      OBVIOUS
    <3> QED
      BY <3>2, <3>3, ChainEntries
  <2> QED
    BY <1>5, <2>1, ZenonT(30)
<1>7. retained \in [D -> [Keys -> Slot \cup {Absent}]]
  <2>1. \A ts \in D : retained[ts] = WritesAt(c, ts)
    OBVIOUS
  <2>2. \A ts \in D : retained[ts] \in [Keys -> Slot \cup {Absent}]
    BY <1>6, <2>1 DEF WritesAt
  <2> QED
    BY <2>2
<1>8. V \subseteq CommittedVersion
  BY VersionsAre, SMTT(20)
<1>9. ASSUME NEW x \in V, lo < x.ts
      PROVE  x.ts \in D /\ retained[x.ts][x.key] = x.val
  <2>1. x \in CommittedVersion /\ x.key \in Keys /\ x.ts \in Nat
    BY <1>8 DEF CommittedVersion
  <2>2. PICK i \in 1 .. Len(H[x.key]) : H[x.key][i].ts = x.ts /\ H[x.key][i].val = x.val
    BY <2>1, InVersions, SMTT(20)
  <2>3. PICK j \in 1 .. Len(c[x.key]) : c[x.key][j].ts = x.ts /\ c[x.key][j].val = x.val
    <3>1. H[x.key][i].ts > lo
      BY <1>9, <2>1, <2>2, SMTT(20)
    <3> QED
      BY <1>2, <2>1, <2>2, <3>1, SMTT(20)
  <2>4. x.ts \in D
    BY <2>1, <2>3
  <2>5. AsOf(c[x.key], None, x.ts) = x.val
    BY <1>4, <2>1, <2>3, SMTT(20)
  <2> QED
    BY <1>5, <2>1, <2>3, <2>4, <2>5, SMTT(20)
<1>10. ASSUME NEW x \in CommittedVersion, x.ts \in D, retained[x.ts][x.key] = x.val
      PROVE  x \in V
  <2>1. x.key \in Keys /\ x.val # Absent
    BY AbsentAssumption DEF CommittedVersion, Slot
  <2>2. PICK j \in 1 .. Len(c[x.key]) : c[x.key][j].ts = x.ts
    BY <1>5, <1>10, <2>1, ZenonT(30)
  <2>3. c[x.key][j].val = x.val
    <3>1. retained[x.ts][x.key] = AsOf(c[x.key], None, x.ts)
      BY <1>5, <1>10, <2>1, <2>2, SMTT(20)
    <3> QED
      BY <1>10, <1>4, <2>1, <2>2, <3>1
  <2>4. PICK i \in 1 .. Len(H[x.key]) :
            H[x.key][i].ts = c[x.key][j].ts /\ H[x.key][i].val = c[x.key][j].val
    BY <1>3, <2>1
  <2>5. H[x.key][i].ts = x.ts /\ H[x.key][i].val = x.val
    BY <2>2, <2>3, <2>4
  <2> QED
    BY <2>5, InVersions, Zenon
<1> HIDE DEF V
<1>11. /\ \A x \in CommittedVersion : x.ts \in D => (x \in V <=> retained[x.ts][x.key] = x.val)
      /\ \A x \in V : lo < x.ts => x.ts \in D
  BY <1>9, <1>10, SMTT(20)
<1>12. RewrittenTo(frames, V, lo, hi, first, Cardinality(D))
  BY <1>7, <1>8, <1>11, ResetHolds, ZenonT(30)
<1> HIDE DEF frames
<1>13. /\ frames \in Seq(Frame) /\ WellFormed(frames)
       /\ Holds(frames, {x \in V : x.ts <= hi}, lo, hi)
       /\ \A i \in WriteFrames(frames) \cup CommitFrames(frames) :
              frames[i].txn \in first .. (first + Cardinality(D) - 1)
  BY <1>12 DEF RewrittenTo
<1>14. {x \in V : x.ts <= hi} = V
  <2>1. ASSUME NEW x \in V
        PROVE  x.ts <= hi
    <3>1. x \in CommittedVersion /\ x.key \in Keys
      BY <1>8 DEF CommittedVersion
    <3>2. PICK i \in 1 .. Len(H[x.key]) : H[x.key][i].ts = x.ts
      BY <3>1, InVersions, SMTT(20) DEF V
    <3> QED
      BY <3>1, <3>2 DEF Sorted
  <2> QED
    BY <2>1
<1>15. Keeps(frames, H, lo, hi)
  BY <1>13, <1>14, Zenon DEF Keeps, V
<1> QED
  BY <1>13, <1>15 DEF frames

-----------------------------------------------------------------------------
(* What recovery finds in a log.                                           *)

(* No id in the log is above the highest one recovery finds (wal.rs:174).  *)
LEMMA MaxTxnIdBounds ==
  ASSUME NEW frames \in Seq(Frame)
  PROVE  /\ MaxTxnIdIn(frames) \in Nat
         /\ \A i \in WriteFrames(frames) \cup CommitFrames(frames) :
                frames[i].txn <= MaxTxnIdIn(frames)
<1> DEFINE S == {j \in 1 .. Len(frames) : frames[j].type \in {"write", "commit"}}
           T == {frames[i].txn : i \in S}
<1>1. S = WriteFrames(frames) \cup CommitFrames(frames)
  BY DEF WriteFrames, CommitFrames
<1>2. \A i \in S : frames[i].txn \in Nat
  BY <1>1, FrameFields
<1>3. IsFiniteSet(S)
  <2>1. IsFiniteSet(1 .. Len(frames))
    BY FS_Interval
  <2> QED
    BY <2>1, FS_Subset
<1> HIDE DEF S
<1>4. IsFiniteSet(T)
  <2> DEFINE f == [i \in S |-> frames[i].txn]
  <2>1. f \in [S -> T] /\ \A y \in T : \E i \in S : f[i] = y
    OBVIOUS
  <2> HIDE DEF f, T
  <2> QED
    BY <1>3, <2>1, FiniteRange
<1>5. \A i \in S : frames[i].txn \in T
  OBVIOUS
<1>6. \A y \in T : y \in Nat
  BY <1>2
<1> HIDE DEF T
<1>7. IsFiniteSet({0} \cup T)
  BY <1>4, FS_AddElement, FS_EmptySet, FS_Union, FS_Singleton, Zenon
<1>8. MaxTxnIdIn(frames) = Max({0} \cup T)
  BY DEF MaxTxnIdIn, S, T
<1>9. Max({0} \cup T) \in Nat /\ \A y \in {0} \cup T : y <= Max({0} \cup T)
  <2>1. 0 \in {0} \cup T /\ \A y \in {0} \cup T : y \in Nat
    BY <1>6
  <2> QED
    BY <1>7, <2>1, FiniteMax, ZenonT(30)
<1> QED
  BY <1>1, <1>5, <1>8, <1>9, Zenon

(* The newest timestamp recovery finds is the tree's or that of a commit   *)
(* in the log, and none is above it (lib.rs:199-212).                      *)
LEMMA NewestTsIs ==
  ASSUME NEW frames \in Seq(Frame), WellFormed(frames), NEW file, file.tree_ts \in Nat
  PROVE  /\ NewestTs(file, frames) \in Nat
         /\ file.tree_ts <= NewestTs(file, frames)
         /\ \A j \in CommitFrames(frames) : frames[j].ts <= NewestTs(file, frames)
         /\ \/ NewestTs(file, frames) = file.tree_ts
            \/ \E j \in CommitFrames(frames) : frames[j].ts = NewestTs(file, frames)
<1> DEFINE c == CommitTs(frames)
           D == DOMAIN c
           T == {c[t] : t \in D}
           A == {file.tree_ts} \cup T
           C == CommitFrames(frames)
           stamp == [j \in C |-> frames[j].ts]
<1>1. NewestTs(file, frames) = Max(A)
  BY ValidPrefixIsAll, Zenon DEF NewestTs
<1>2. /\ \A j \in C : frames[j].txn \in D /\ c[frames[j].txn] = frames[j].ts
      /\ \A t \in D : \E j \in C : frames[j].txn = t
  BY CommitTsFinds
<1>3. \A j \in C : frames[j].ts \in Nat
  BY FrameFields
<1>4. IsFiniteSet(C)
  <2>1. IsFiniteSet(1 .. Len(frames))
    BY FS_Interval
  <2> QED
    BY <2>1, FS_Subset DEF CommitFrames
<1> HIDE DEF C, c, D
<1>5. \A t \in D : c[t] \in T
  OBVIOUS
<1>6. \A y \in T : \E t \in D : y = c[t]
  OBVIOUS
<1> HIDE DEF T
<1>7. \A y \in T : \E j \in C : frames[j].ts = y
  BY <1>2, <1>6
<1>8. \A j \in C : frames[j].ts \in T
  BY <1>2, <1>5
<1>9. IsFiniteSet(T)
  <2>1. stamp \in [C -> T] /\ \A y \in T : \E j \in C : stamp[j] = y
    BY <1>7, <1>8
  <2> HIDE DEF stamp
  <2> QED
    BY <1>4, <2>1, FiniteRange
<1>10. IsFiniteSet(A)
  BY <1>9, FS_Union, FS_Singleton, ZenonT(30)
<1>11. file.tree_ts \in A /\ \A y \in A : y \in Nat
  BY <1>3, <1>7
<1>12. Max(A) \in A /\ Max(A) \in Nat /\ \A y \in A : y <= Max(A)
  <2> HIDE DEF A
  <2> QED
    BY <1>10, <1>11, FiniteMax
<1>13. /\ file.tree_ts <= Max(A)
       /\ \A j \in C : frames[j].ts <= Max(A)
       /\ Max(A) = file.tree_ts \/ Max(A) \in T
  <2> DEFINE x == Max(A)
  <2> HIDE DEF x
  <2>1. x \in A /\ \A y \in A : y <= x
    BY <1>12, ZenonT(30) DEF x
  <2>2. /\ file.tree_ts <= x /\ (\A j \in C : frames[j].ts <= x)
        /\ (x = file.tree_ts \/ x \in T)
    BY <1>8, <2>1
  <2> QED
    BY <2>2, Zenon DEF x
<1> HIDE DEF A
<1> QED
  BY <1>1, <1>7, <1>12, <1>13 DEF C

(* A crash cuts log and histories at one timestamp: what recovery finds in *)
(* a beginning of the log is the newest commit there, with all before it.  *)
LEMMA CutKept ==
  ASSUME NEW frames, NEW H, NEW lo, NEW hi, Keeps(frames, H, lo, hi),
         NEW n \in 0 .. Len(frames), NEW file, file.tree_ts = lo
  PROVE  LET part == SubSeq(frames, 1, n)
             newest == NewestTs(file, part)
         IN  /\ newest \in Nat /\ lo <= newest /\ newest <= hi
             /\ \A k \in Keys : CutAt(UpTo(H, newest)[k], H[k], newest)
             /\ \A j \in CommitFrames(part) : part[j].ts <= newest
             /\ Keeps(part, UpTo(H, newest), lo, newest)
<1> DEFINE part == SubSeq(frames, 1, n)
           newest == NewestTs(file, part)
           G == UpTo(H, newest)
           V == Versions(H)
           U == Versions(G)
<1>1. /\ frames \in Seq(Frame) /\ H \in [Keys -> Seq(Committed)]
      /\ lo \in Nat /\ hi \in Nat /\ lo <= hi /\ WellFormed(frames)
      /\ Holds(frames, V, lo, hi)
      /\ \A k \in Keys : Sorted(H[k], hi)
  BY DEF Keeps
<1>2. Beginning(part, frames)
  BY <1>1, CutFrames DEF LeftOf
<1>3. part \in Seq(Frame)
  BY <1>2 DEF Beginning
<1> HIDE DEF part
<1>4. WellFormed(part)
      /\ \A j \in CommitFrames(part) : j \in CommitFrames(frames) /\ part[j] = frames[j]
  BY <1>1, <1>2, PrefixWellFormed, SMTT(20)
<1>5. /\ newest \in Nat /\ lo <= newest
      /\ \A j \in CommitFrames(part) : part[j].ts <= newest
      /\ newest = lo \/ \E j \in CommitFrames(part) : part[j].ts = newest
  BY <1>1, <1>3, <1>4, NewestTsIs, ZenonT(30)
<1> HIDE DEF newest
<1>6. newest <= hi
  <2>1. CASE newest = lo
    BY <1>1, <2>1, SMTT(20)
  <2>2. CASE \E j \in CommitFrames(part) : part[j].ts = newest
    <3>1. PICK j \in CommitFrames(part) : part[j].ts = newest
      BY <2>2
    <3>2. j \in CommitFrames(frames) /\ frames[j].ts = newest
      BY <1>4, <3>1
    <3> QED
      BY <1>1, <3>2 DEF Holds
  <2> QED
    BY <1>5, <2>1, <2>2
<1>7. ASSUME NEW k \in Keys
      PROVE  CutAt(G[k], H[k], newest)
  <2>1. H[k] \in Seq(Committed) /\ G[k] = SubSeq(H[k], 1, LastAt(H[k], newest))
    BY <1>1, ZenonT(30) DEF UpTo
  <2> QED
    BY <1>1, <1>5, <2>1, CutHistory
<1>8. G \in [Keys -> Seq(Committed)] /\ \A k \in Keys : Sorted(G[k], newest)
  BY <1>7 DEF UpTo, CutAt
<1> HIDE DEF G
<1>9. V \subseteq CommittedVersion /\ U \subseteq CommittedVersion
  BY <1>1, <1>8, VersionsAre, SMTT(20)
<1>10. ASSUME NEW x \in CommittedVersion
       PROVE  x \in U <=> x \in V /\ x.ts <= newest
  <2> DEFINE h == H[x.key]
             g == G[x.key]
  <2>1. x.key \in Keys
    BY SMTT(20) DEF CommittedVersion
  <2>2. (x \in U <=> \E i \in 1 .. Len(g) : g[i].ts = x.ts /\ g[i].val = x.val)
        /\ (x \in V <=> \E i \in 1 .. Len(h) : h[i].ts = x.ts /\ h[i].val = x.val)
    BY <1>1, <1>8, InVersions, ZenonT(30)
  <2>3. Len(g) \in Nat /\ Len(h) \in Nat
    BY <1>1, <1>8, <2>1
  <2>4. /\ Len(g) <= Len(h) /\ \A i \in 1 .. Len(g) : g[i] = h[i]
        /\ \A i \in 1 .. Len(h) : i <= Len(g) <=> h[i].ts <= newest
    BY <1>7, <2>1 DEF CutAt
  <2> HIDE DEF g, h
  <2>5. \A i \in 1 .. Len(g) : i \in 1 .. Len(h) /\ i <= Len(g)
    BY <2>3, <2>4
  <2>6. \A i \in 1 .. Len(h) : i <= Len(g) => i \in 1 .. Len(g)
    BY <2>3
  <2>7. ASSUME NEW i \in 1 .. Len(g), g[i].ts = x.ts, g[i].val = x.val
        PROVE  x \in V /\ x.ts <= newest
    BY <2>2, <2>4, <2>5, <2>7, SMTT(20)
  <2>8. ASSUME NEW i \in 1 .. Len(h), h[i].ts = x.ts, h[i].val = x.val, x.ts <= newest
        PROVE  x \in U
    BY <2>2, <2>4, <2>6, <2>8
  <2> QED
    BY <2>2, <2>7, <2>8
<1> HIDE DEF U, V
<1>13. /\ \A x \in V : x.ts <= newest => x \in U
       /\ \A x \in U : x \in V /\ x.ts <= newest
  BY <1>9, <1>10
<1>11. Holds(part, U, lo, newest)
  BY <1>1, <1>2, <1>5, <1>9, <1>13, PrefixHolds, ZenonT(30)
<1>12. Keeps(part, G, lo, newest)
  BY <1>1, <1>3, <1>4, <1>5, <1>8, <1>11 DEF Keeps, U
<1> QED
  BY <1>5, <1>6, <1>7, <1>12, ZenonT(30) DEF G, newest, part

(* g lists ops in the order of the versions of h above lo.                 *)
Follows(h, lo, ops, key, val, g) ==
    LET cut == LastAt(h, lo) IN
    /\ g \in [1 .. (Len(h) - cut) -> ops]
    /\ Ranked(ops, Len(h) - cut, g, key)
    /\ \A n \in 1 .. (Len(h) - cut) :
           key[g[n]] = h[cut + n].ts /\ val[g[n]] = h[cut + n].val

(* Sorting by timestamp puts such entries in the order of the history.     *)
LEMMA MatchedFollows ==
  ASSUME NEW h \in Seq(Committed), NEW lo \in Nat, NEW hi \in Nat, Sorted(h, hi),
         NEW ops, NEW key \in [ops -> Nat], NEW val, Matched(h, lo, ops, key, val)
  PROVE  \E g : Follows(h, lo, ops, key, val, g)
<1> DEFINE cut == LastAt(h, lo)
           m == Len(h) - cut
           Is(n, i) == key[i] = h[cut + n].ts /\ val[i] = h[cut + n].val
           g == [n \in 1 .. m |-> CHOOSE i \in ops : Is(n, i)]
<1>1. Len(h) \in Nat /\ \A i \in 1 .. Len(h) : h[i].ts \in Nat
  BY HistoryEntries
<1>2. cut \in 0 .. Len(h)
  BY <1>1, LastAtFinds
<1>3. /\ \A i, j \in ops : key[i] = key[j] => i = j
      /\ \A n \in (cut + 1) .. Len(h) : \E i \in ops : key[i] = h[n].ts /\ val[i] = h[n].val
      /\ \A i \in ops : \E n \in (cut + 1) .. Len(h) : key[i] = h[n].ts
  BY DEF Matched
<1>4. \A a, b \in 1 .. Len(h) : a < b => h[a].ts < h[b].ts
  BY DEF Sorted
<1> HIDE DEF cut
<1>5. m \in Nat /\ \A n \in 1 .. m : cut + n \in 1 .. Len(h) /\ cut + n \in (cut + 1) .. Len(h)
  BY <1>1, <1>2
<1> HIDE DEF m
<1>6. ASSUME NEW n \in 1 .. m
      PROVE  g[n] \in ops /\ Is(n, g[n])
  <2>1. \E i \in ops : Is(n, i)
    BY <1>3, <1>5, Zenon
  <2>2. g[n] = CHOOSE i \in ops : Is(n, i)
    OBVIOUS
  <2> HIDE DEF g, Is
  <2> QED
    BY <2>1, <2>2
<1>7. g \in [1 .. m -> ops]
  BY <1>6
<1>8. \A n \in 1 .. m : key[g[n]] = h[cut + n].ts /\ val[g[n]] = h[cut + n].val
  BY <1>6
<1> HIDE DEF g
<1>9. ASSUME NEW i \in ops
      PROVE  \E n \in 1 .. m : g[n] = i
  <2>1. PICK l \in (cut + 1) .. Len(h) : key[i] = h[l].ts
    BY <1>3
  <2>2. l - cut \in 1 .. m /\ cut + (l - cut) = l
    BY <1>1, <1>2 DEF m
  <2>3. key[g[l - cut]] = key[i] /\ g[l - cut] \in ops
    BY <1>7, <1>8, <2>1, <2>2
  <2> QED
    BY <1>3, <2>2, <2>3, Zenon
<1>10. ASSUME NEW a \in 1 .. m, NEW b \in 1 .. m, a < b
       PROVE  key[g[a]] < key[g[b]]
  <2>1. cut + a \in 1 .. Len(h) /\ cut + b \in 1 .. Len(h)
    BY <1>5
  <2>2. cut + a < cut + b
    BY <1>1, <1>2, <1>5, <1>10
  <2>3. h[cut + a].ts < h[cut + b].ts
    BY <1>4, <2>1, <2>2
  <2> QED
    BY <1>8, <2>3
<1>11. Ranked(ops, m, g, key)
  BY <1>5, <1>7, <1>9, <1>10, SortedByKey, ZenonT(30)
<1> QED
  BY <1>7, <1>8, <1>11, ZenonT(30) DEF Follows, m, cut

(* Replay (lib.rs:213-230) turns a log that holds the history above lo     *)
(* into chains of exactly the versions above lo.                           *)
LEMMA ReplayRebuilds ==
  ASSUME NEW frames \in Seq(Frame), WellFormed(frames),
         NEW H \in [Keys -> Seq(Committed)], NEW k \in Keys,
         NEW lo \in Nat, NEW hi \in Nat, Sorted(H[k], hi),
         Holds(frames, Versions(H), lo, hi)
  PROVE  Rebuilt(H[k], Replayed(frames, lo, CommitTs(frames), k), lo)
<1> DEFINE h == H[k]
           cut == LastAt(h, lo)
           m == Len(h) - cut
           c == CommitTs(frames)
           ops == LiveWrites(frames, lo, k)
           key == LiveTs(frames, lo, k)
           val == LiveVal(frames, lo, k)
           Before(i, j) == LET t == frames[i].txn  u == frames[j].txn
                           IN  \/ c[t] < c[u]
                               \/ c[t] = c[u] /\ c[t] < c[u]
                               \/ t = u /\ i < j
           order == [n \in 1 .. Cardinality(ops) |->
                        CHOOSE i \in ops : Cardinality({j \in ops : Before(j, i)}) = n - 1]
           chain == [n \in 1 .. Len(order) |->
                        [ts |-> c[frames[order[n]].txn], val |-> frames[order[n]].val]]
<1>0. Replayed(frames, lo, c, k) = chain
  BY DEF Replayed, SortBy
<1>1. /\ h \in Seq(Committed) /\ Len(h) \in Nat /\ cut \in 0 .. Len(h)
      /\ \A i \in 1 .. Len(h) : h[i].ts \in Nat /\ h[i].val \in Slot
  BY HistoryEntries, LastAtFinds, ZenonT(30)
<1>2. m \in Nat /\ \A n \in 1 .. m : cut + n \in 1 .. Len(h)
  BY <1>1
<1>3. /\ key \in [ops -> Nat] /\ Matched(h, lo, ops, key, val)
      /\ \A i, j \in ops : frames[i].txn = frames[j].txn => i = j
  BY LiveWritesMatch
<1>4. \A i \in ops : key[i] = c[frames[i].txn] /\ val[i] = frames[i].val /\ i \in Nat
  <2>1. ops \subseteq Nat
    BY SMTT(20) DEF LiveWrites
  <2>2. \A i \in ops : key[i] = c[frames[i].txn] /\ val[i] = frames[i].val
    BY Zenon DEF LiveTs, LiveVal
  <2> QED
    BY <2>1, <2>2, Zenon
<1> HIDE DEF c, ops, key, val
<1>5. PICK g : Follows(h, lo, ops, key, val, g)
  BY <1>1, <1>3, MatchedFollows, ZenonT(30)
<1>6. /\ g \in [1 .. m -> ops]
      /\ \A n \in 1 .. m : key[g[n]] = h[cut + n].ts /\ val[g[n]] = h[cut + n].val
      /\ Cardinality(ops) = m
      /\ \A n \in 1 .. m : \A x \in ops :
             Cardinality({y \in ops : key[y] < key[x]}) = n - 1 <=> x = g[n]
  BY <1>5, ZenonT(30) DEF Follows, Ranked
<1> HIDE DEF h, cut, m
<1>7. ASSUME NEW i \in ops, NEW j \in ops
      PROVE  Before(j, i) <=> key[j] < key[i]
  <2>1. /\ key[i] = c[frames[i].txn] /\ key[j] = c[frames[j].txn]
        /\ key[i] \in Nat /\ key[j] \in Nat /\ i \in Nat /\ j \in Nat
    BY <1>3, <1>4, ZenonT(30)
  <2>2. frames[j].txn = frames[i].txn => j = i
    BY <1>3
  <2>3. ~(j < j) /\ ~(key[j] = key[i] /\ key[j] < key[i])
    BY <2>1
  <2>4. Before(j, i) <=> \/ key[j] < key[i]
                         \/ key[j] = key[i] /\ key[j] < key[i]
                         \/ frames[j].txn = frames[i].txn /\ j < i
    BY <2>1, Zenon
  <2> QED
    BY <2>2, <2>3, <2>4, Zenon
<1> HIDE DEF Before
<1>8. \A i \in ops : {j \in ops : Before(j, i)} = {j \in ops : key[j] < key[i]}
  BY <1>7
<1>9. Len(order) = m
  BY <1>2, <1>6
<1>10. \A n \in 1 .. m :
          order[n] = CHOOSE i \in ops : Cardinality({j \in ops : Before(j, i)}) = n - 1
  BY <1>6, Zenon
<1>11. chain = [n \in 1 .. m |-> [ts |-> c[frames[order[n]].txn], val |-> frames[order[n]].val]]
  BY <1>9, ZenonT(30)
<1> HIDE DEF order, chain
<1>12. ASSUME NEW n \in 1 .. m
       PROVE  order[n] = g[n]
  <2> DEFINE R(i) == Cardinality({j \in ops : Before(j, i)})
  <2>1. order[n] = CHOOSE i \in ops : R(i) = n - 1
    BY <1>10, Zenon
  <2>2. \A i \in ops : R(i) = n - 1 <=> i = g[n]
    BY <1>6, <1>8
  <2>3. g[n] \in ops
    BY <1>6, SMTT(20)
  <2> HIDE DEF R
  <2> QED
    BY <2>1, <2>2, <2>3
<1>13. ASSUME NEW n \in 1 .. m
       PROVE  chain[n] = [ts |-> h[cut + n].ts, val |-> h[cut + n].val]
  <2>1. g[n] \in ops
    BY <1>6
  <2> QED
    BY <1>4, <1>6, <1>11, <1>12, <2>1
<1>14. ASSUME NEW n \in 1 .. m
       PROVE  chain[n] \in Version
  <2>1. h[cut + n].ts \in Nat /\ h[cut + n].val \in Slot
    BY <1>1, <1>2
  <2>2. \A ts \in Nat, v \in Slot : [ts |-> ts, val |-> v] \in Version
    BY DEF Version
  <2> QED
    BY <1>13, <2>1, <2>2, Zenon
<1>15. chain = [n \in 1 .. m |-> chain[n]]
  BY <1>11
<1>16. chain \in Seq(Version) /\ Len(chain) = m
  <2>1. chain \in [1 .. m -> Version]
    BY <1>14, <1>15
  <2> QED
    BY <1>2, <2>1, SeqOfFunction
<1>17. Rebuilt(h, chain, lo)
  BY <1>13, <1>16 DEF Rebuilt, cut, m
<1> QED
  BY <1>0, <1>17 DEF h, c

(* Recovery reads such a log to its end and rebuilds chains that, over the *)
(* tree as of lo, stand for the histories.                                 *)
LEMMA ReplayKept ==
  ASSUME NEW frames, NEW H, NEW lo, NEW hi, Keeps(frames, H, lo, hi)
  PROVE  /\ ValidPrefix(frames) = frames
         /\ Ranks(frames) = {CommitTs(frames)}
         /\ \A k \in Keys : Continues(H[k], Replayed(frames, lo, CommitTs(frames), k), lo)
<1>1. /\ frames \in Seq(Frame) /\ H \in [Keys -> Seq(Committed)]
      /\ lo \in Nat /\ hi \in Nat /\ WellFormed(frames)
      /\ Holds(frames, Versions(H), lo, hi)
      /\ \A k \in Keys : Sorted(H[k], hi)
  BY DEF Keeps
<1>2. ValidPrefix(frames) = frames
  BY <1>1, ValidPrefixIsAll
<1>3. Ranks(frames) = {CommitTs(frames)}
  <2>1. IsInjective(CommitTs(frames))
    BY <1>1, CommitTsFinds, SMTT(20)
  <2> QED
    BY <2>1 DEF Ranks
<1>4. ASSUME NEW k \in Keys
      PROVE  Continues(H[k], Replayed(frames, lo, CommitTs(frames), k), lo)
  <2> DEFINE c == Replayed(frames, lo, CommitTs(frames), k)
  <2>1. Rebuilt(H[k], c, lo)
    BY <1>1, ReplayRebuilds, SMTT(20)
  <2>2. H[k] \in Seq(Committed)
    BY <1>1
  <2> HIDE DEF c
  <2>3. /\ Represents(H[k], c, AsOf(H[k], None, lo))
        /\ CutBelow(H[k], c, lo)
        /\ \A n \in 1 .. Len(c) : c[n].ts > lo
    BY <1>1, <2>1, <2>2, RebuiltRepresents
  <2>4. c \in Seq(Version)
    BY <2>1 DEF Rebuilt
  <2> QED
    BY <2>3, <2>4 DEF Continues, c
<1> QED
  BY <1>2, <1>3, <1>4
=============================================================================
