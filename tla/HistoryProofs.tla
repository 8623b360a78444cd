--------------------------- MODULE HistoryProofs ----------------------------
(***************************************************************************)
(* Lemmas about the committed history of a key and the two things that     *)
(* stand for it: the chain of versions in memory, over the tree, and the   *)
(* log on disk, over the tree of the last checkpoint.  They say what a     *)
(* reader finds in a chain, that commits and merges keep chain and history *)
(* together, that appending a commit and losing the end of the log keep    *)
(* the log in order, and what each live write of the log is.               *)
(***************************************************************************)
EXTENDS Wal, WellFoundedInduction, TLAPS

-----------------------------------------------------------------------------
(* Least and greatest elements of sets of naturals.                        *)

(* A nonempty set of naturals has a least element: merge_watermark's       *)
(* keys().next() on a nonempty map.                                        *)
LEMMA NatMin ==
  ASSUME NEW T, T \subseteq Nat, T # {}
  PROVE  \E m \in T : \A n \in T : m <= n
<1>1. IsWellFoundedOn(OpToRel(<, Nat), Nat)
  BY NatLessThanWellFounded, Zenon
<1>2. PICK m \in T : \A n \in T : ~(<<n, m>> \in OpToRel(<, Nat))
  BY <1>1, WFMin, Zenon
<1>3. ASSUME NEW n \in T
      PROVE  m <= n
  <2>1. m \in Nat /\ n \in Nat
    OBVIOUS
  <2>2. ~(n < m)
    BY <1>2, <2>1, Zenon DEF OpToRel
  <2> QED
    BY <2>1, <2>2
<1> QED
  BY <1>3

(* A nonempty set of positions in a sequence has a last one: rposition.    *)
LEMMA NatMax ==
  ASSUME NEW n \in Nat, NEW T, T \subseteq 1 .. n, T # {}
  PROVE  \E m \in T : \A i \in T : i <= m
<1> DEFINE U == {j \in Nat : n - j \in T}
<1>1. U \subseteq Nat /\ U # {}
  <2>1. PICK i \in T : TRUE
    BY Zenon
  <2>2. n - i \in Nat /\ n - (n - i) = i
    BY <2>1
  <2> QED
    BY <2>1, <2>2, Zenon
<1>2. PICK u \in U : \A v \in U : u <= v
  <2> HIDE DEF U
  <2> QED
    BY <1>1, NatMin, Zenon
<1>3. ASSUME NEW i \in T
      PROVE  i <= n - u
  <2>1. n - i \in Nat /\ n - (n - i) = i
    BY <1>3
  <2>2. n - i \in U
    BY <2>1
  <2>3. i \in Int
    BY <1>3
  <2> QED
    BY <1>2, <2>2, <2>3
<1> QED
  BY <1>2, <1>3

-----------------------------------------------------------------------------
(* Looking up a timestamp in a chain.                                      *)

(* LastAt returns the last position at or below ts, or 0.                  *)
LEMMA LastAtFinds ==
  ASSUME NEW S, NEW c \in Seq(S), \A i \in 1 .. Len(c) : c[i].ts \in Nat,
         NEW ts \in Nat
  PROVE  /\ LastAt(c, ts) \in 0 .. Len(c)
         /\ LastAt(c, ts) # 0 => c[LastAt(c, ts)].ts <= ts
         /\ \A j \in (LastAt(c, ts) + 1) .. Len(c) : c[j].ts > ts
<1> DEFINE T == {i \in 1 .. Len(c) : c[i].ts <= ts}
           P(i) == /\ c[i].ts <= ts
                   /\ \A j \in (i + 1) .. Len(c) : c[j].ts > ts
<1>0. Len(c) \in Nat
  OBVIOUS
<1>1. CASE T = {}
  <2>1. LastAt(c, ts) = 0
    BY <1>1 DEF LastAt
  <2>2. \A j \in 1 .. Len(c) : c[j].ts > ts
    BY <1>1
  <2> QED
    BY <1>0, <2>1, <2>2
<1>2. CASE T # {}
  <2>1. PICK m \in T : \A i \in T : i <= m
    <3>1. T \subseteq 1 .. Len(c)
      OBVIOUS
    <3> HIDE DEF T
    <3> QED
      BY <1>0, <1>2, <3>1, NatMax, Zenon
  <2>2. m \in 1 .. Len(c) /\ P(m)
    <3>1. ASSUME NEW j \in (m + 1) .. Len(c)
          PROVE  c[j].ts > ts
      <4>1. j \in 1 .. Len(c) /\ ~(j <= m)
        BY <1>0, <2>1
      <4> QED
        BY <2>1, <4>1
    <3> QED
      BY <2>1, <3>1
  <2>3. LastAt(c, ts) = CHOOSE i \in 1 .. Len(c) : P(i)
    BY <1>2, Zenon DEF LastAt
  <2>4. LastAt(c, ts) \in 1 .. Len(c) /\ P(LastAt(c, ts))
    <3> HIDE DEF P
    <3> QED
      BY <2>2, <2>3
  <2> QED
    BY <1>0, <2>4
<1> QED
  BY <1>1, <1>2

(* It is the only such position.                                           *)
LEMMA LastAtIs ==
  ASSUME NEW S, NEW c \in Seq(S), \A i \in 1 .. Len(c) : c[i].ts \in Nat,
         NEW ts \in Nat, NEW n \in 0 .. Len(c),
         n # 0 => c[n].ts <= ts,
         \A j \in (n + 1) .. Len(c) : c[j].ts > ts
  PROVE  LastAt(c, ts) = n
<1> DEFINE m == LastAt(c, ts)
<1>1. /\ m \in 0 .. Len(c)
      /\ m # 0 => c[m].ts <= ts
      /\ \A j \in (m + 1) .. Len(c) : c[j].ts > ts
  BY LastAtFinds, Zenon
<1>2. Len(c) \in Nat
  OBVIOUS
<1> HIDE DEF m
<1>3. ~(m < n)
  <2>1. SUFFICES ASSUME m < n
                 PROVE  FALSE
    OBVIOUS
  <2>2. n \in (m + 1) .. Len(c) /\ n # 0 /\ n \in 1 .. Len(c)
    BY <1>1, <1>2, <2>1
  <2> QED
    BY <1>1, <2>2
<1>4. ~(n < m)
  <2>1. SUFFICES ASSUME n < m
                 PROVE  FALSE
    OBVIOUS
  <2>2. m \in (n + 1) .. Len(c) /\ m # 0 /\ m \in 1 .. Len(c)
    BY <1>1, <1>2, <2>1
  <2> QED
    BY <1>1, <2>2
<1>5. m = n
  BY <1>1, <1>2, <1>3, <1>4
<1> QED
  BY <1>5 DEF m

-----------------------------------------------------------------------------
(* Chains and the histories they stand for.                                *)

(* The entries of a chain are versions with natural timestamps.            *)
LEMMA ChainEntries ==
  ASSUME NEW c \in Seq(Version)
  PROVE  /\ Len(c) \in Nat
         /\ \A i \in 1 .. Len(c) : c[i] \in Version /\ c[i].ts \in Nat /\ c[i].val \in Slot
<1>1. \A i \in 1 .. Len(c) : c[i] \in Version
  OBVIOUS
<1>2. \A v \in Version : v.ts \in Nat /\ v.val \in Slot
  BY DEF Version
<1> QED
  BY <1>1, <1>2

(* The same for a commit history.                                          *)
LEMMA HistoryEntries ==
  ASSUME NEW h \in Seq(Committed)
  PROVE  /\ Len(h) \in Nat
         /\ \A i \in 1 .. Len(h) : /\ h[i] \in Committed
                                  /\ h[i].ts \in Nat /\ h[i].val \in Slot /\ h[i].snap \in Nat
<1>1. \A i \in 1 .. Len(h) : h[i] \in Committed
  OBVIOUS
<1>2. \A v \in Committed : v.ts \in Nat /\ v.val \in Slot /\ v.snap \in Nat
  BY DEF Committed
<1> QED
  BY <1>1, <1>2

(* A cut is below every timestamp above one it is below.                   *)
LEMMA CutBelowHigher ==
  ASSUME NEW h \in Seq(Committed), NEW c \in Seq(Version), NEW s \in Nat, NEW r \in Nat,
         s <= r, CutBelow(h, c, s)
  PROVE  CutBelow(h, c, r)
<1>1. Len(h) \in Nat /\ Len(c) \in Nat /\ \A i \in 1 .. Len(h) : h[i].ts \in Nat
  BY HistoryEntries, ChainEntries
<1>2. Len(h) > Len(c) => Len(h) - Len(c) \in 1 .. Len(h)
  BY <1>1
<1> QED
  BY <1>1, <1>2 DEF CutBelow

(* At a timestamp no older than the cut, the chain and the tree show what  *)
(* the whole history shows.                                                *)
LEMMA RepresentsReads ==
  ASSUME NEW h \in Seq(Committed), NEW c \in Seq(Version), NEW base, NEW s \in Nat,
         Represents(h, c, base), CutBelow(h, c, s)
  PROVE  AsOf(c, base, s) = AsOf(h, None, s)
<1> DEFINE cut == Len(h) - Len(c)
           m == LastAt(c, s)
<1>1. /\ Len(h) \in Nat /\ Len(c) \in Nat /\ cut \in 0 .. Len(h)
      /\ \A i \in 1 .. Len(c) : c[i].ts \in Nat
      /\ \A i \in 1 .. Len(h) : h[i].ts \in Nat
  BY ChainEntries, HistoryEntries DEF Represents
<1>2. /\ m \in 0 .. Len(c)
      /\ m # 0 => c[m].ts <= s
      /\ \A j \in (m + 1) .. Len(c) : c[j].ts > s
  BY <1>1, LastAtFinds
<1>3. \A i \in 1 .. Len(c) : c[i].ts = h[cut + i].ts /\ c[i].val = h[cut + i].val
  BY DEF Represents
<1>4. cut # 0 => h[cut].ts <= s
  BY <1>1 DEF CutBelow
<1> HIDE DEF m
<1>5. LastAt(h, s) = cut + m
  <2>1. cut + m \in 0 .. Len(h)
    BY <1>1, <1>2
  <2>2. cut + m # 0 => h[cut + m].ts <= s
    <3>1. CASE m = 0
      BY <1>1, <1>4, <3>1
    <3>2. CASE m # 0
      BY <1>1, <1>2, <1>3, <3>2
    <3> QED
      BY <3>1, <3>2
  <2>3. ASSUME NEW j \in (cut + m + 1) .. Len(h)
        PROVE  h[j].ts > s
    <3>1. j - cut \in (m + 1) .. Len(c) /\ j - cut \in 1 .. Len(c) /\ cut + (j - cut) = j
      BY <1>1, <1>2
    <3> QED
      BY <1>2, <1>3, <3>1, Zenon
  <2> HIDE DEF cut
  <2> QED
    BY <1>1, <2>1, <2>2, <2>3, LastAtIs, Zenon
<1>6. CASE m = 0
  <2>1. AsOf(c, base, s) = base
    BY <1>6 DEF AsOf, m
  <2>2. AsOf(h, None, s) = IF cut = 0 THEN None ELSE h[cut].val
    BY <1>1, <1>5, <1>6 DEF AsOf
  <2> QED
    BY <2>1, <2>2 DEF Represents
<1>7. CASE m # 0
  <2>1. AsOf(c, base, s) = c[m].val
    BY <1>7 DEF AsOf, m
  <2>2. AsOf(h, None, s) = h[cut + m].val
    BY <1>1, <1>2, <1>5, <1>7 DEF AsOf
  <2> QED
    BY <1>1, <1>2, <1>3, <1>7, <2>1, <2>2
<1> QED
  BY <1>6, <1>7

(* A commit adds the same version to the history and to the chain.         *)
LEMMA RepresentsAppend ==
  ASSUME NEW h \in Seq(Committed), NEW c \in Seq(Version), NEW base,
         Represents(h, c, base), NEW v \in Version, NEW w \in Committed,
         v.ts = w.ts, v.val = w.val
  PROVE  /\ Represents(Append(h, w), Append(c, v), base)
         /\ \A s \in Nat : CutBelow(h, c, s) => CutBelow(Append(h, w), Append(c, v), s)
<1> DEFINE cut == Len(h) - Len(c)
<1>1. Len(h) \in Nat /\ Len(c) \in Nat /\ cut \in 0 .. Len(h)
  BY DEF Represents
<1>2. Len(Append(h, w)) = Len(h) + 1 /\ Len(Append(c, v)) = Len(c) + 1
  OBVIOUS
<1>3. /\ \A i \in 1 .. Len(h) : Append(h, w)[i] = h[i]
      /\ Append(h, w)[Len(h) + 1] = w
  OBVIOUS
<1>4. /\ \A i \in 1 .. Len(c) : Append(c, v)[i] = c[i]
      /\ Append(c, v)[Len(c) + 1] = v
  OBVIOUS
<1>5. Len(Append(h, w)) - Len(Append(c, v)) = cut
  BY <1>1, <1>2
<1>6. ASSUME NEW i \in 1 .. Len(Append(c, v))
      PROVE  /\ Append(c, v)[i].ts = Append(h, w)[cut + i].ts
             /\ Append(c, v)[i].val = Append(h, w)[cut + i].val
  <2>1. CASE i = Len(c) + 1
    BY <1>1, <1>3, <1>4, <2>1
  <2>2. CASE i \in 1 .. Len(c)
    <3>1. cut + i \in 1 .. Len(h)
      BY <1>1, <2>2
    <3> QED
      BY <1>3, <1>4, <2>2, <3>1 DEF Represents
  <2>3. i = Len(c) + 1 \/ i \in 1 .. Len(c)
    BY <1>1, <1>2
  <2> QED
    BY <2>1, <2>2, <2>3, Zenon
<1>7. cut # 0 => Append(h, w)[cut] = h[cut]
  BY <1>1, <1>3
<1>8. Represents(Append(h, w), Append(c, v), base)
  BY <1>1, <1>5, <1>6, <1>7, Zenon DEF Represents
<1>9. ASSUME NEW s \in Nat, CutBelow(h, c, s)
      PROVE  CutBelow(Append(h, w), Append(c, v), s)
  <2>1. SUFFICES ASSUME Len(Append(h, w)) > Len(Append(c, v))
                 PROVE  Append(h, w)[cut].ts <= s
    BY <1>5 DEF CutBelow
  <2>2. cut # 0 /\ Len(h) > Len(c)
    BY <1>1, <1>2, <2>1
  <2> QED
    BY <1>7, <1>9, <2>2 DEF CutBelow
<1> QED
  BY <1>8, <1>9

(* Commit timestamps only grow.                                            *)
LEMMA SortedAppend ==
  ASSUME NEW h \in Seq(Committed), NEW bound \in Nat, Sorted(h, bound),
         NEW w \in Committed, w.ts = bound + 1
  PROVE  Sorted(h, bound + 1) /\ Sorted(Append(h, w), bound + 1)
<1> DEFINE a == Append(h, w)
<1>1. /\ Len(h) \in Nat
      /\ \A i \in 1 .. Len(h) : h[i].ts \in Nat
  BY HistoryEntries
<1>2. /\ Len(a) = Len(h) + 1
      /\ \A i \in 1 .. Len(h) : a[i] = h[i]
      /\ a[Len(h) + 1] = w
  OBVIOUS
<1> HIDE DEF a
<1>3. \A i \in 1 .. Len(a) : \/ i \in 1 .. Len(h) /\ a[i].ts = h[i].ts
                             \/ i = Len(h) + 1 /\ a[i].ts = bound + 1
  BY <1>1, <1>2
<1>4. \A i \in 1 .. Len(h) : h[i].ts <= bound
  BY DEF Sorted
<1>5. \A i \in 1 .. Len(a) : a[i].ts <= bound + 1
  BY <1>1, <1>3, <1>4
<1>6. ASSUME NEW i \in 1 .. Len(a), NEW j \in 1 .. Len(a), i < j
      PROVE  a[i].ts < a[j].ts
  <2>1. i \in 1 .. Len(h) /\ a[i].ts = h[i].ts
    BY <1>1, <1>2, <1>3, <1>6
  <2>2. CASE j \in 1 .. Len(h) /\ a[j].ts = h[j].ts
    BY <1>6, <2>1, <2>2 DEF Sorted
  <2>3. CASE a[j].ts = bound + 1
    BY <1>1, <1>4, <2>1, <2>3
  <2> QED
    BY <1>3, <2>2, <2>3
<1>7. \A i \in 1 .. Len(h) : h[i].ts <= bound + 1
  BY <1>1, <1>4
<1> QED
  BY <1>5, <1>6, <1>7 DEF Sorted, a

(* merge_into_tree moves the cut forward, but not past the watermark.      *)
LEMMA RepresentsMerge ==
  ASSUME NEW h \in Seq(Committed), NEW c \in Seq(Version), NEW base, NEW w \in Nat,
         Represents(h, c, base)
  PROVE  LET rest == SubSeq(c, LastAt(c, w) + 1, Len(c)) IN
         /\ rest \in Seq(Version)
         /\ Represents(h, rest, AsOf(c, base, w))
         /\ \A s \in Nat : w <= s /\ CutBelow(h, c, s) => CutBelow(h, rest, s)
<1> DEFINE cut == Len(h) - Len(c)
           m == LastAt(c, w)
           rest == SubSeq(c, m + 1, Len(c))
<1>1. /\ Len(h) \in Nat /\ Len(c) \in Nat /\ cut \in 0 .. Len(h)
      /\ \A i \in 1 .. Len(c) : c[i] \in Version /\ c[i].ts \in Nat
  BY ChainEntries, HistoryEntries DEF Represents
<1>2. m \in 0 .. Len(c) /\ (m # 0 => c[m].ts <= w)
  BY <1>1, LastAtFinds, Zenon
<1>3. \A i \in 1 .. Len(c) : c[i].ts = h[cut + i].ts /\ c[i].val = h[cut + i].val
  BY DEF Represents
<1>4. AsOf(c, base, w) = IF m = 0 THEN base ELSE c[m].val
  BY DEF AsOf
<1> HIDE DEF m
<1>5. /\ rest \in Seq(Version)
      /\ Len(rest) = Len(c) - m
      /\ \A i \in 1 .. Len(rest) : rest[i] = c[m + i]
  <2>1. \A i \in (m + 1) .. Len(c) : c[i] \in Version
    BY <1>1, <1>2
  <2>2. m + 1 \in Int /\ Len(c) \in Int
    BY <1>1, <1>2
  <2>3. /\ rest \in Seq(Version)
        /\ Len(rest) = IF m + 1 <= Len(c) THEN Len(c) - (m + 1) + 1 ELSE 0
        /\ \A i \in 1 .. (Len(c) - (m + 1) + 1) : rest[i] = c[(m + 1) + i - 1]
    BY <2>1, <2>2
  <2> HIDE DEF rest
  <2>4. Len(rest) = Len(c) - m
    BY <1>1, <1>2, <2>3
  <2>5. ASSUME NEW i \in 1 .. Len(rest)
        PROVE  rest[i] = c[m + i]
    <3>1. i \in 1 .. (Len(c) - (m + 1) + 1) /\ (m + 1) + i - 1 = m + i
      BY <1>1, <1>2, <2>4
    <3> QED
      BY <2>3, <3>1
  <2> QED
    BY <2>3, <2>4, <2>5
<1> HIDE DEF rest
<1>6. Len(h) - Len(rest) = cut + m /\ cut + m \in 0 .. Len(h)
  BY <1>1, <1>2, <1>5
<1>7. m # 0 => /\ h[cut + m].val = c[m].val /\ h[cut + m].ts = c[m].ts
               /\ cut + m # 0 /\ h[cut + m].ts <= w
  BY <1>1, <1>2, <1>3
<1>8. Represents(h, rest, AsOf(c, base, w))
  <2>1. ASSUME NEW i \in 1 .. Len(rest)
        PROVE  rest[i].ts = h[cut + m + i].ts /\ rest[i].val = h[cut + m + i].val
    <3>1. m + i \in 1 .. Len(c) /\ cut + (m + i) = cut + m + i
      BY <1>1, <1>2, <1>5
    <3> QED
      BY <1>3, <1>5, <3>1
  <2>2. AsOf(c, base, w) = IF cut + m = 0 THEN None ELSE h[cut + m].val
    <3>1. CASE m = 0
      BY <1>1, <1>4, <3>1 DEF Represents
    <3>2. CASE m # 0
      BY <1>4, <1>7, <3>2
    <3> QED
      BY <3>1, <3>2
  <2>3. cut + m >= 0
    BY <1>6
  <2>4. Len(h) - Len(rest) = cut + m
    BY <1>6
  <2> DEFINE start == cut + m
             value == AsOf(c, base, w)
  <2>5. /\ Len(h) - Len(rest) = start /\ start >= 0
        /\ \A i \in 1 .. Len(rest) : rest[i].ts = h[start + i].ts /\ rest[i].val = h[start + i].val
        /\ value = IF start = 0 THEN None ELSE h[start].val
    BY <2>1, <2>2, <2>3, <2>4
  <2> HIDE DEF start, value
  <2>6. Represents(h, rest, value)
    BY <2>5 DEF Represents
  <2> QED
    BY <2>6 DEF value
<1>9. ASSUME NEW s \in Nat, w <= s, CutBelow(h, c, s)
      PROVE  CutBelow(h, rest, s)
  <2>1. CASE m = 0
    BY <1>1, <1>5, <1>6, <1>9, <2>1 DEF CutBelow
  <2>2. CASE m # 0
    <3>1. h[cut + m].ts <= w /\ h[cut + m].ts \in Nat
      BY <1>1, <1>2, <1>7, <2>2
    <3> QED
      BY <1>6, <1>9, <3>1 DEF CutBelow
  <2> QED
    BY <2>1, <2>2
<1> QED
  BY <1>5, <1>8, <1>9 DEF rest, m

(* A version above s is not seen at s; the newest one is seen from its     *)
(* own timestamp on.                                                       *)
LEMMA AsOfAppend ==
  ASSUME NEW h \in Seq(Committed), NEW w \in Committed, NEW s \in Nat
  PROVE  /\ s < w.ts => AsOf(Append(h, w), None, s) = AsOf(h, None, s)
         /\ w.ts <= s => AsOf(Append(h, w), None, s) = w.val
<1> DEFINE a == Append(h, w)
           n == LastAt(h, s)
<1>1. /\ Len(h) \in Nat /\ w.ts \in Nat
      /\ \A i \in 1 .. Len(h) : h[i].ts \in Nat
  BY HistoryEntries, Zenon DEF Committed
<1>2. /\ a \in Seq(Committed) /\ Len(a) = Len(h) + 1 /\ a[Len(h) + 1] = w
      /\ \A i \in 1 .. Len(h) : a[i] = h[i]
  BY <1>1
<1>3. \A i \in 1 .. Len(a) : a[i].ts \in Nat
  BY <1>2, HistoryEntries, Zenon
<1>4. /\ n \in 0 .. Len(h)
      /\ n # 0 => h[n].ts <= s
      /\ \A j \in (n + 1) .. Len(h) : h[j].ts > s
  BY <1>1, LastAtFinds
<1> HIDE DEF a, n
<1>5. ASSUME s < w.ts
      PROVE  AsOf(a, None, s) = AsOf(h, None, s)
  <2>1. /\ n \in 0 .. Len(a)
        /\ n # 0 => a[n].ts <= s
        /\ \A j \in (n + 1) .. Len(a) : a[j].ts > s
    <3>1. \A j \in (n + 1) .. Len(a) : j = Len(h) + 1 \/ j \in (n + 1) .. Len(h)
      BY <1>1, <1>2, <1>4
    <3>2. \A j \in (n + 1) .. Len(h) : a[j] = h[j]
      BY <1>1, <1>2, <1>4
    <3>3. n \in 0 .. Len(a)
      BY <1>1, <1>2, <1>4
    <3>4. n # 0 => a[n].ts <= s
      BY <1>1, <1>2, <1>4
    <3>5. a[Len(h) + 1].ts > s
      BY <1>1, <1>2, <1>5
    <3>6. \A j \in (n + 1) .. Len(a) : a[j].ts > s
      BY <1>4, <3>1, <3>2, <3>5
    <3> QED
      BY <3>3, <3>4, <3>6
  <2>2. LastAt(a, s) = n
    BY <1>2, <1>3, <2>1, LastAtIs, Zenon
  <2> QED
    BY <1>1, <1>2, <1>4, <2>2 DEF AsOf, n
<1>6. ASSUME w.ts <= s
      PROVE  AsOf(a, None, s) = w.val
  <2>1. /\ Len(a) \in 0 .. Len(a) /\ Len(a) # 0
        /\ a[Len(a)].ts <= s
        /\ \A j \in (Len(a) + 1) .. Len(a) : a[j].ts > s
    BY <1>1, <1>2, <1>6
  <2>2. LastAt(a, s) = Len(a)
    BY <1>2, <1>3, <2>1, LastAtIs
  <2> QED
    BY <1>1, <1>2, <2>1, <2>2 DEF AsOf
<1> QED
  BY <1>5, <1>6 DEF a

(* Past the last commit every timestamp sees the same.                     *)
LEMMA AsOfPast ==
  ASSUME NEW h \in Seq(Committed), NEW bound \in Nat, Sorted(h, bound)
  PROVE  AsOf(h, None, bound + 1) = AsOf(h, None, bound)
<1>1. /\ Len(h) \in Nat
      /\ \A i \in 1 .. Len(h) : h[i].ts \in Nat /\ h[i].ts <= bound
  BY HistoryEntries DEF Sorted
<1>2. ASSUME NEW s \in {bound, bound + 1}
      PROVE  LastAt(h, s) = Len(h)
  <2>1. /\ s \in Nat /\ Len(h) \in 0 .. Len(h)
        /\ Len(h) # 0 => h[Len(h)].ts <= s
        /\ \A j \in (Len(h) + 1) .. Len(h) : h[j].ts > s
    BY <1>1, <1>2
  <2> QED
    BY <1>1, <2>1, LastAtIs, Zenon
<1> QED
  BY <1>2 DEF AsOf

(* A history cut at ts keeps what is committed up to ts, and up to there   *)
(* reads are the same.                                                     *)
LEMMA CutHistory ==
  ASSUME NEW h \in Seq(Committed), NEW hi \in Nat, Sorted(h, hi), NEW ts \in Nat
  PROVE  CutAt(SubSeq(h, 1, LastAt(h, ts)), h, ts)
<1> DEFINE m == LastAt(h, ts)
           g == SubSeq(h, 1, m)
<1>1. /\ Len(h) \in Nat
      /\ \A i \in 1 .. Len(h) : h[i] \in Committed /\ h[i].ts \in Nat
  BY HistoryEntries
<1>2. /\ m \in 0 .. Len(h)
      /\ m # 0 => h[m].ts <= ts
      /\ \A j \in (m + 1) .. Len(h) : h[j].ts > ts
  BY <1>1, LastAtFinds, Zenon
<1> HIDE DEF m
<1>3. \A i \in 1 .. m : i \in 1 .. Len(h) /\ h[i] \in Committed
  BY <1>1, <1>2
<1>4. g \in Seq(Committed) /\ Len(g) = m /\ \A i \in 1 .. m : g[i] = h[i]
  <2>1. m \in Int /\ 1 \in Int /\ m - 1 + 1 = m /\ (1 <= m \/ m = 0)
    BY <1>1, <1>2
  <2>2. /\ g \in Seq(Committed) /\ Len(g) = IF 1 <= m THEN m - 1 + 1 ELSE 0
        /\ \A i \in 1 .. (m - 1 + 1) : g[i] = h[1 + i - 1]
    BY <1>3, <2>1
  <2> QED
    BY <2>1, <2>2
<1> HIDE DEF g
<1>5. ASSUME NEW i \in 1 .. Len(h)
      PROVE  i <= m <=> h[i].ts <= ts
  <2>1. CASE i <= m
    <3>1. m \in 1 .. Len(h) /\ m # 0 /\ (i < m \/ i = m)
      BY <1>1, <1>2, <2>1
    <3>2. i < m => h[i].ts < h[m].ts
      BY <3>1 DEF Sorted
    <3> QED
      BY <1>1, <1>2, <2>1, <3>1, <3>2
  <2>2. CASE ~(i <= m)
    <3>1. i \in (m + 1) .. Len(h)
      BY <1>1, <1>2, <2>2
    <3> QED
      BY <1>1, <1>2, <2>2, <3>1
  <2> QED
    BY <2>1, <2>2
<1>6. Sorted(g, ts)
  <2>1. \A i \in 1 .. m : i \in 1 .. Len(h) /\ i <= m
    BY <1>1, <1>2
  <2> QED
    BY <1>4, <1>5, <2>1, Zenon DEF Sorted
<1>7. ASSUME NEW s \in Nat, s <= ts
      PROVE  AsOf(g, None, s) = AsOf(h, None, s)
  <2> DEFINE n == LastAt(h, s)
  <2>1. /\ n \in 0 .. Len(h)
        /\ n # 0 => h[n].ts <= s
        /\ \A j \in (n + 1) .. Len(h) : h[j].ts > s
    BY <1>1, LastAtFinds, Zenon
  <2> HIDE DEF n
  <2>2. n # 0 => n \in 1 .. Len(h) /\ h[n].ts <= ts
    BY <1>1, <1>7, <2>1
  <2>3. n \in 0 .. m
    BY <1>1, <1>2, <1>5, <2>1, <2>2
  <2>4. \A j \in (n + 1) .. m : j \in (n + 1) .. Len(h) /\ g[j] = h[j]
    BY <1>1, <1>2, <1>4, <2>3
  <2>5. n # 0 => g[n] = h[n]
    BY <1>4, <2>3
  <2>6. \A i \in 1 .. Len(g) : g[i].ts \in Nat
    BY <1>4, HistoryEntries, SMTT(20)
  <2>7. LastAt(g, s) = n
    BY <1>4, <1>7, <2>1, <2>3, <2>4, <2>5, <2>6, LastAtIs, Zenon
  <2> QED
    BY <2>5, <2>7 DEF AsOf, n
<1>8. Len(g) <= Len(h) /\ \A i \in 1 .. Len(g) : g[i] = h[i]
  BY <1>1, <1>2, <1>4
<1>9. \A i \in 1 .. Len(h) : i <= Len(g) <=> h[i].ts <= ts
  BY <1>4, <1>5
<1>10. CutAt(g, h, ts)
  BY <1>4, <1>6, <1>7, <1>8, <1>9 DEF CutAt
<1> QED
  BY <1>10 DEF g, m

(* A chain with nothing up to lo that stands for a history has the         *)
(* versions of the history above lo.                                       *)
LEMMA ChainIsAbove ==
  ASSUME NEW h \in Seq(Committed), NEW hi \in Nat, Sorted(h, hi),
         NEW c \in Seq(Version), NEW base, NEW lo \in Nat,
         Represents(h, c, base), CutBelow(h, c, lo)
  PROVE  /\ \A i \in 1 .. Len(h) : h[i].ts > lo =>
                \E j \in 1 .. Len(c) : c[j].ts = h[i].ts /\ c[j].val = h[i].val
         /\ \A j \in 1 .. Len(c) :
                \E i \in 1 .. Len(h) : h[i].ts = c[j].ts /\ h[i].val = c[j].val
         /\ \A j \in 1 .. Len(c) : AsOf(c, None, c[j].ts) = c[j].val
<1> DEFINE cut == Len(h) - Len(c)
<1>1. /\ Len(h) \in Nat /\ Len(c) \in Nat
      /\ \A i \in 1 .. Len(h) : h[i].ts \in Nat
      /\ \A j \in 1 .. Len(c) : c[j].ts \in Nat
  BY HistoryEntries, ChainEntries
<1>2. cut \in Nat /\ cut + Len(c) = Len(h)
  BY <1>1 DEF Represents
<1>3. \A j \in 1 .. Len(c) : c[j].ts = h[cut + j].ts /\ c[j].val = h[cut + j].val
  BY DEF Represents
<1>4. cut # 0 => h[cut].ts <= lo
  BY <1>1, <1>2 DEF CutBelow
<1> HIDE DEF cut
<1>5. \A j \in 1 .. Len(c) : cut + j \in 1 .. Len(h)
  BY <1>1, <1>2
<1>6. ASSUME NEW i \in 1 .. Len(h), h[i].ts > lo
      PROVE  \E j \in 1 .. Len(c) : c[j].ts = h[i].ts /\ c[j].val = h[i].val
  <2>1. ~(i <= cut)
    <3>1. SUFFICES ASSUME i <= cut PROVE FALSE
      OBVIOUS
    <3>2. cut \in 1 .. Len(h) /\ cut # 0 /\ (i < cut \/ i = cut)
      BY <1>1, <1>2, <3>1
    <3>3. i < cut => h[i].ts < h[cut].ts
      BY <3>2 DEF Sorted
    <3> QED
      BY <1>1, <1>4, <1>6, <3>2, <3>3
  <2>2. i - cut \in 1 .. Len(c) /\ cut + (i - cut) = i
    BY <1>1, <1>2, <2>1
  <2> QED
    BY <1>3, <2>2
<1>7. ASSUME NEW j \in 1 .. Len(c)
      PROVE  AsOf(c, None, c[j].ts) = c[j].val
  <2>1. \A m \in (j + 1) .. Len(c) : c[m].ts > c[j].ts
    <3>1. SUFFICES ASSUME NEW m \in (j + 1) .. Len(c)
                   PROVE  c[m].ts > c[j].ts
      OBVIOUS
    <3>2. m \in 1 .. Len(c) /\ cut + j < cut + m
      BY <1>1, <1>2
    <3>3. h[cut + j].ts < h[cut + m].ts
      BY <1>5, <3>2 DEF Sorted
    <3> QED
      BY <1>1, <1>3, <3>2, <3>3
  <2>2. j \in 0 .. Len(c) /\ j # 0 /\ c[j].ts <= c[j].ts /\ c[j].ts \in Nat
    BY <1>1
  <2>3. LastAt(c, c[j].ts) = j
    BY <1>1, <2>1, <2>2, LastAtIs, Zenon
  <2> QED
    BY <2>2, <2>3 DEF AsOf
<1> QED
  BY <1>3, <1>5, <1>6, <1>7, Zenon

-----------------------------------------------------------------------------
(* Frames and versions.                                                    *)

(* The fields of write and commit frames have their types.                 *)
LEMMA FrameFields ==
  ASSUME NEW frames \in Seq(Frame)
  PROVE  /\ Len(frames) \in Nat
         /\ \A i \in 1 .. Len(frames) : frames[i] \in Frame
         /\ \A i \in CommitFrames(frames) :
                i \in 1 .. Len(frames) /\ frames[i].txn \in Nat /\ frames[i].ts \in Nat
         /\ \A i \in WriteFrames(frames) :
                /\ i \in 1 .. Len(frames)
                /\ frames[i].txn \in Nat /\ frames[i].key \in Keys /\ frames[i].val \in Slot
<1>1. Len(frames) \in Nat
  OBVIOUS
<1>2. \A i \in 1 .. Len(frames) : frames[i] \in Frame
  OBVIOUS
<1>3. \A f \in Frame : f.type = "commit" => f.txn \in Nat /\ f.ts \in Nat
  BY DEF Frame
<1>4. \A f \in Frame : f.type = "write" => f.txn \in Nat /\ f.key \in Keys /\ f.val \in Slot
  BY DEF Frame
<1> QED
  BY <1>1, <1>2, <1>3, <1>4 DEF CommitFrames, WriteFrames

(* What is in Versions.                                                    *)
LEMMA VersionsAre ==
  ASSUME NEW H \in [Keys -> Seq(Committed)]
  PROVE  /\ Versions(H) \subseteq CommittedVersion
         /\ \A k \in Keys : \A ts, v :
                [key |-> k, ts |-> ts, val |-> v] \in Versions(H) =>
                    \E i \in 1 .. Len(H[k]) : H[k][i].ts = ts /\ H[k][i].val = v
         /\ \A k \in Keys : \A i \in 1 .. Len(H[k]) :
                [key |-> k, ts |-> H[k][i].ts, val |-> H[k][i].val] \in Versions(H)
         /\ \A x \in Versions(H) : \E i \in 1 .. Len(H[x.key]) :
                H[x.key][i].ts = x.ts /\ H[x.key][i].val = x.val
<1>1. \A k \in Keys : \A i \in 1 .. Len(H[k]) : H[k][i].ts \in Nat /\ H[k][i].val \in Slot
  BY HistoryEntries
<1> DEFINE ver(k, i) == [key |-> k, ts |-> H[k][i].ts, val |-> H[k][i].val]
           Of(k) == {ver(k, i) : i \in 1 .. Len(H[k])}
<1>0. Versions(H) = UNION {Of(k) : k \in Keys}
  BY DEF Versions
<1>2. ASSUME NEW y \in Versions(H)
      PROVE  \E k \in Keys : \E i \in 1 .. Len(H[k]) : y = ver(k, i)
  <2>1. PICK k \in Keys : y \in Of(k)
    <3> HIDE DEF Of
    <3> QED
      BY <1>0, Zenon
  <2> HIDE DEF ver
  <2> QED
    BY <2>1
<1>3. ASSUME NEW k \in Keys, NEW i \in 1 .. Len(H[k])
      PROVE  ver(k, i) \in Versions(H)
  <2>1. ver(k, i) \in Of(k)
    <3> HIDE DEF ver
    <3> QED
      OBVIOUS
  <2> HIDE DEF Of, ver
  <2> QED
    BY <1>0, <2>1, Zenon
<1>4. Versions(H) \subseteq CommittedVersion
  BY <1>1, <1>2 DEF CommittedVersion
<1>5. \A x \in Versions(H) : \E i \in 1 .. Len(H[x.key]) :
          H[x.key][i].ts = x.ts /\ H[x.key][i].val = x.val
  BY <1>2
<1>6. ASSUME NEW k \in Keys, NEW ts, NEW v, [key |-> k, ts |-> ts, val |-> v] \in Versions(H)
      PROVE  \E i \in 1 .. Len(H[k]) : H[k][i].ts = ts /\ H[k][i].val = v
  <2> DEFINE y == [key |-> k, ts |-> ts, val |-> v]
  <2>1. y.key = k /\ y.ts = ts /\ y.val = v
    OBVIOUS
  <2>2. y \in Versions(H)
    BY <1>6
  <2> HIDE DEF y
  <2> QED
    BY <1>5, <2>1, <2>2
<1> QED
  BY <1>3, <1>4, <1>5, <1>6

(* A version in terms of the history it is in.                             *)
LEMMA InVersions ==
  ASSUME NEW H \in [Keys -> Seq(Committed)], NEW x \in CommittedVersion
  PROVE  x \in Versions(H) <=>
            \E i \in 1 .. Len(H[x.key]) : H[x.key][i].ts = x.ts /\ H[x.key][i].val = x.val
<1>1. x.key \in Keys /\ x = [key |-> x.key, ts |-> x.ts, val |-> x.val]
  BY DEF CommittedVersion
<1>2. ASSUME NEW i \in 1 .. Len(H[x.key]), H[x.key][i].ts = x.ts, H[x.key][i].val = x.val
      PROVE  x \in Versions(H)
  <2>1. [key |-> x.key, ts |-> H[x.key][i].ts, val |-> H[x.key][i].val] \in Versions(H)
    BY <1>1, VersionsAre
  <2> QED
    BY <1>1, <1>2, <2>1
<1> QED
  BY <1>2, VersionsAre

-----------------------------------------------------------------------------
(* Appending a commit to the log.                                          *)

(* The frames b of a commit: the writes W in some order, and the record.   *)
CommitBlock(b, id, ts, W) ==
    /\ b \in Seq(Frame) /\ Len(b) \in Nat \ {0}
    /\ b[Len(b)] = CommitRecord(id, ts)
    /\ \A i \in 1 .. (Len(b) - 1) :
           /\ b[i].type = "write" /\ b[i].txn = id
           /\ b[i].key \in Keys /\ b[i].val = W[b[i].key] /\ b[i].val # Absent
    /\ \A i, j \in 1 .. (Len(b) - 1) : b[i].key = b[j].key => i = j
    /\ \A k \in Keys : W[k] # Absent =>
           \E i \in 1 .. (Len(b) - 1) : b[i].key = k

(* big is frames followed by the commit of W at ts under id.               *)
Extended(big, frames, id, ts, W) ==
    LET n == Len(frames) IN
    /\ big \in Seq(Frame) /\ Len(big) \in Nat /\ n < Len(big)
    /\ \A i \in 1 .. n : big[i] = frames[i]
    /\ \A i \in WriteFrames(frames) : i \in WriteFrames(big)
    /\ \A i \in CommitFrames(frames) : i \in CommitFrames(big)
    /\ \A i \in WriteFrames(big) :
           \/ i \in WriteFrames(frames)
           \/ n < i /\ i < Len(big) /\ big[i].txn = id /\ big[i].val = W[big[i].key]
    /\ \A i, j \in WriteFrames(big) :
           n < i /\ n < j /\ big[i].key = big[j].key => i = j
    /\ \A i \in CommitFrames(big) : i \in CommitFrames(frames) \/ i = Len(big)
    /\ Len(big) \in CommitFrames(big)
    /\ big[Len(big)].txn = id /\ big[Len(big)].ts = ts
    /\ \A k \in Keys : W[k] # Absent =>
           \E i \in WriteFrames(big) : /\ big[i].txn = id /\ big[i].key = k
                                       /\ big[i].val = W[k]

(* The write and commit frames of a log with a commit appended to it.      *)
LEMMA AppendedFrames ==
  ASSUME NEW frames \in Seq(Frame), NEW id \in Nat, NEW ts \in Nat,
         NEW W \in [Keys -> Slot \cup {Absent}], NEW b, CommitBlock(b, id, ts, W)
  PROVE  Extended(frames \o b, frames, id, ts, W)
<1> DEFINE m == Len(b)
           n == Len(frames)
           big == frames \o b
<1>1. /\ b \in Seq(Frame) /\ m \in Nat \ {0}
      /\ b[m] = CommitRecord(id, ts)
      /\ \A i \in 1 .. (m - 1) :
             /\ b[i].type = "write" /\ b[i].txn = id
             /\ b[i].key \in Keys /\ b[i].val = W[b[i].key] /\ b[i].val # Absent
      /\ \A i, j \in 1 .. (m - 1) : b[i].key = b[j].key => i = j
      /\ \A k \in Keys : W[k] # Absent =>
             \E i \in 1 .. (m - 1) : b[i].key = k
  BY DEF CommitBlock
<1>2. n \in Nat
  OBVIOUS
<1>3. /\ big \in Seq(Frame) /\ Len(big) = n + m
      /\ \A i \in 1 .. n + m : big[i] = IF i <= n THEN frames[i] ELSE b[i - n]
  BY <1>1
<1> HIDE DEF big, m, n
<1>4. \A i \in 1 .. n : big[i] = frames[i]
  BY <1>1, <1>2, <1>3
<1>5. \A i \in 1 .. m : n + i \in 1 .. Len(big) /\ big[n + i] = b[i]
  <2>1. SUFFICES ASSUME NEW i \in 1 .. m
                 PROVE  n + i \in 1 .. Len(big) /\ big[n + i] = b[i]
    OBVIOUS
  <2>2. n + i \in 1 .. n + m /\ ~(n + i <= n) /\ (n + i) - n = i
    BY <1>1, <1>2
  <2> QED
    BY <1>3, <2>2
<1>6. /\ Len(big) \in Nat /\ n < Len(big)
      /\ \A i \in 1 .. Len(big) : i \in 1 .. n \/ (i - n \in 1 .. m /\ n + (i - n) = i)
  BY <1>1, <1>2, <1>3
<1>7. b[m].type = "commit" /\ b[m].txn = id /\ b[m].ts = ts
  BY <1>1 DEF CommitRecord
<1>8. ASSUME NEW i \in 1 .. Len(big), n < i
      PROVE  /\ i - n \in 1 .. m /\ big[i] = b[i - n]
             /\ i = Len(big) <=> i - n = m
             /\ i # Len(big) => i - n \in 1 .. (m - 1)
  <2>1. i - n \in 1 .. m /\ n + (i - n) = i
    BY <1>2, <1>6, <1>8
  <2>2. big[i] = b[i - n]
    BY <1>5, <2>1
  <2>3. i = Len(big) <=> i - n = m
    BY <1>1, <1>2, <1>3
  <2> QED
    BY <1>1, <1>2, <2>1, <2>2, <2>3
<1>9. /\ \A i \in WriteFrames(frames) : i \in WriteFrames(big)
      /\ \A i \in CommitFrames(frames) : i \in CommitFrames(big)
  <2>1. \A i \in 1 .. n : i \in 1 .. Len(big)
    BY <1>1, <1>2, <1>3
  <2> QED
    BY <1>4, <2>1 DEF WriteFrames, CommitFrames, n
<1>10. ASSUME NEW i \in WriteFrames(big)
       PROVE  \/ i \in WriteFrames(frames)
              \/ n < i /\ i < Len(big) /\ big[i].txn = id /\ big[i].val = W[big[i].key]
  <2>1. i \in 1 .. Len(big) /\ big[i].type = "write"
    BY DEF WriteFrames
  <2>2. CASE i \in 1 .. n
    BY <1>4, <2>1, <2>2 DEF WriteFrames, n
  <2>3. CASE n < i
    <3>1. i - n \in 1 .. m /\ big[i] = b[i - n] /\ (i = Len(big) <=> i - n = m)
          /\ (i # Len(big) => i - n \in 1 .. (m - 1))
      BY <1>8, <2>1, <2>3
    <3>2. i # Len(big)
      BY <1>7, <2>1, <3>1
    <3>3. i < Len(big)
      BY <1>6, <2>1, <3>2
    <3> QED
      BY <1>1, <2>3, <3>1, <3>2, <3>3
  <2>4. i \in 1 .. n \/ n < i
    BY <1>2, <2>1
  <2> QED
    BY <2>2, <2>3, <2>4
<1>11. ASSUME NEW i \in WriteFrames(big), NEW j \in WriteFrames(big),
              n < i, n < j, big[i].key = big[j].key
       PROVE  i = j
  <2>1. i \in 1 .. Len(big) /\ j \in 1 .. Len(big)
    BY DEF WriteFrames
  <2>2. i # Len(big) /\ j # Len(big)
    BY <1>7, <1>8, <1>11, <2>1 DEF WriteFrames
  <2>3. /\ i - n \in 1 .. (m - 1) /\ big[i] = b[i - n]
        /\ j - n \in 1 .. (m - 1) /\ big[j] = b[j - n]
    BY <1>8, <1>11, <2>1, <2>2
  <2>4. i - n = j - n
    BY <1>1, <1>11, <2>3
  <2> QED
    BY <1>2, <2>1, <2>4
<1>12. ASSUME NEW i \in CommitFrames(big)
       PROVE  i \in CommitFrames(frames) \/ i = Len(big)
  <2>1. i \in 1 .. Len(big) /\ big[i].type = "commit"
    BY DEF CommitFrames
  <2>2. CASE i \in 1 .. n
    BY <1>4, <2>1, <2>2 DEF CommitFrames, n
  <2>3. CASE n < i
    BY <1>1, <1>8, <2>1, <2>3
  <2>4. i \in 1 .. n \/ n < i
    BY <1>2, <2>1
  <2> QED
    BY <2>2, <2>3, <2>4
<1>13. /\ Len(big) \in CommitFrames(big)
       /\ big[Len(big)].txn = id /\ big[Len(big)].ts = ts
  <2>1. m \in 1 .. m
    BY <1>1
  <2>2. Len(big) \in 1 .. Len(big) /\ big[Len(big)] = b[m]
    BY <1>3, <1>5, <2>1
  <2> QED
    BY <1>7, <2>2 DEF CommitFrames
<1>14. ASSUME NEW k \in Keys, W[k] # Absent
       PROVE  \E i \in WriteFrames(big) : /\ big[i].txn = id /\ big[i].key = k
                                          /\ big[i].val = W[k]
  <2>1. PICK i \in 1 .. (m - 1) : b[i].key = k
    BY <1>1, <1>14
  <2>2. i \in 1 .. m
    BY <1>1
  <2>3. n + i \in 1 .. Len(big) /\ big[n + i] = b[i]
    BY <1>5, <2>2
  <2>4. n + i \in WriteFrames(big)
    BY <1>1, <2>1, <2>3 DEF WriteFrames
  <2>5. big[n + i].txn = id /\ big[n + i].key = k /\ big[n + i].val = W[k]
    BY <1>1, <2>1, <2>3
  <2> QED
    BY <2>4, <2>5
<1>15. Extended(big, frames, id, ts, W)
  BY <1>3, <1>4, <1>9, <1>10, <1>11, <1>12, <1>13, <1>14, <1>6 DEF Extended, n
<1> QED
  BY <1>15 DEF big

(* A commit under a fresh id and a new timestamp keeps the log in order.   *)
LEMMA AppendWellFormed ==
  ASSUME NEW frames \in Seq(Frame), NEW id \in Nat, NEW T \in Nat,
         NEW W \in [Keys -> Slot \cup {Absent}], NEW big,
         Extended(big, frames, id, T, W), Fresh(frames, id), WellFormed(frames),
         \A j \in CommitFrames(frames) : frames[j].ts < T
  PROVE  WellFormed(big)
<1> DEFINE n == Len(frames)
           m == Len(big)
<1>1. /\ n \in Nat /\ m \in Nat /\ n < m
      /\ \A i \in CommitFrames(frames) : i \in 1 .. n
      /\ \A i \in WriteFrames(frames) : i \in 1 .. n
      /\ \A i \in CommitFrames(big) : big[i].ts \in Nat
  BY FrameFields DEF Extended
<1>2. /\ \A i \in 1 .. n : big[i] = frames[i]
      /\ \A i \in WriteFrames(big) :
             i \in WriteFrames(frames) \/ (n < i /\ i < m /\ big[i].txn = id)
      /\ \A i, j \in WriteFrames(big) : n < i /\ n < j /\ big[i].key = big[j].key => i = j
      /\ \A i \in CommitFrames(big) : i \in CommitFrames(frames) \/ i = m
      /\ big[m].txn = id /\ big[m].ts = T
  BY DEF Extended
<1> HIDE DEF n, m
<1>3. /\ \A i \in WriteFrames(frames) : big[i] = frames[i] /\ big[i].txn # id
      /\ \A i \in CommitFrames(frames) : big[i] = frames[i] /\ big[i].txn # id
  BY <1>1, <1>2 DEF Fresh
<1>4. ASSUME NEW i \in CommitFrames(big), NEW j \in CommitFrames(big), i < j
      PROVE  big[i].ts < big[j].ts
  <2>1. i \in CommitFrames(frames)
    BY <1>1, <1>2, <1>4
  <2>2. CASE j \in CommitFrames(frames)
    BY <1>3, <1>4, <2>1, <2>2 DEF WellFormed
  <2>3. CASE j = m
    BY <1>2, <1>3, <2>1, <2>3
  <2> QED
    BY <1>2, <2>2, <2>3
<1>5. ASSUME NEW i \in CommitFrames(big), NEW j \in CommitFrames(big), big[i].txn = big[j].txn
      PROVE  i = j
  <2>1. CASE i \in CommitFrames(frames) /\ j \in CommitFrames(frames)
    BY <1>3, <1>5, <2>1 DEF WellFormed
  <2> QED
    BY <1>2, <1>3, <1>5, <2>1
<1>6. ASSUME NEW i \in WriteFrames(big), NEW j \in WriteFrames(big),
             big[i].txn = big[j].txn, big[i].key = big[j].key
      PROVE  i = j
  <2>1. CASE i \in WriteFrames(frames) /\ j \in WriteFrames(frames)
    BY <1>3, <1>6, <2>1 DEF WellFormed
  <2> QED
    BY <1>2, <1>3, <1>6, <2>1
<1>7. ASSUME NEW i \in WriteFrames(big), NEW j \in CommitFrames(big), big[i].txn = big[j].txn
      PROVE  i < j
  <2>1. CASE i \in WriteFrames(frames) /\ j \in CommitFrames(frames)
    BY <1>3, <1>7, <2>1 DEF WellFormed
  <2>2. CASE j = m /\ i < m
    BY <2>2
  <2> QED
    BY <1>2, <1>3, <1>7, <2>1, <2>2
<1> QED
  BY <1>4, <1>5, <1>6, <1>7 DEF WellFormed

(* It also adds exactly that commit to what the log holds.                 *)
LEMMA AppendHolds ==
  ASSUME NEW frames \in Seq(Frame), NEW id \in Nat, NEW T \in Nat,
         NEW W \in [Keys -> Slot \cup {Absent}], NEW big,
         Extended(big, frames, id, T, W), Fresh(frames, id),
         NEW lo \in Nat, NEW hi \in Nat, hi < T,
         NEW V, NEW U, U \subseteq CommittedVersion, Holds(frames, V, lo, hi),
         \A x \in CommittedVersion : x.ts <= hi => (x \in U <=> x \in V),
         \A x \in CommittedVersion : x.ts = T => (x \in U <=> W[x.key] = x.val),
         \A x \in U : ~(hi < x.ts /\ x.ts < T)
  PROVE  Holds(big, U, lo, T)
<1> DEFINE n == Len(frames)
           m == Len(big)
           ver(i, j) == [key |-> big[i].key, ts |-> big[j].ts, val |-> big[i].val]
<1>0. big \in Seq(Frame)
  BY DEF Extended
<1>1. /\ n \in Nat /\ m \in Nat /\ n < m
      /\ \A i \in CommitFrames(frames) : i \in 1 .. n /\ frames[i].ts \in Nat
      /\ \A i \in WriteFrames(frames) : i \in 1 .. n
      /\ \A i \in CommitFrames(big) : big[i].ts \in Nat
      /\ \A i \in WriteFrames(big) : big[i].key \in Keys /\ big[i].val \in Slot
  BY <1>0, FrameFields DEF Extended
<1>2. /\ \A i \in 1 .. n : big[i] = frames[i]
      /\ \A i \in CommitFrames(big) : i \in CommitFrames(frames) \/ i = m
      /\ big[m].txn = id /\ big[m].ts = T /\ m \in CommitFrames(big)
      /\ \A i \in CommitFrames(frames) : i \in CommitFrames(big)
      /\ \A i \in WriteFrames(frames) : i \in WriteFrames(big)
  BY DEF Extended
<1>2a. \A i \in WriteFrames(big) :
          i \in WriteFrames(frames) \/ (big[i].txn = id /\ big[i].val = W[big[i].key])
  BY DEF Extended
<1>2b. \A k \in Keys : W[k] # Absent =>
          \E i \in WriteFrames(big) : big[i].txn = id /\ big[i].key = k /\ big[i].val = W[k]
  BY DEF Extended
<1>3. \A x \in CommittedVersion : x.key \in Keys /\ x.ts \in Nat /\ x.val \in Slot
  BY DEF CommittedVersion
<1>4. \A i \in WriteFrames(big), j \in CommitFrames(big) :
          /\ ver(i, j) \in CommittedVersion
          /\ ver(i, j).key = big[i].key /\ ver(i, j).ts = big[j].ts /\ ver(i, j).val = big[i].val
  BY <1>1 DEF CommittedVersion
<1> HIDE DEF n, m
<1>5. /\ \A i \in WriteFrames(frames) : big[i] = frames[i] /\ big[i].txn # id
      /\ \A i \in CommitFrames(frames) : big[i] = frames[i] /\ big[i].txn # id /\ big[i].ts <= hi
  BY <1>1, <1>2, SMTT(20) DEF Fresh, Holds
<1>6. ASSUME NEW j \in CommitFrames(big)
      PROVE  big[j].ts <= T
  <2>1. CASE j \in CommitFrames(frames)
    <3>1. big[j].ts <= hi /\ big[j].ts \in Nat
      BY <1>1, <1>5, <2>1
    <3> QED
      BY <3>1
  <2>2. CASE j = m
    BY <1>2, <2>2
  <2> QED
    BY <1>2, <2>1, <2>2
<1>7. ASSUME NEW i \in WriteFrames(big), NEW j \in CommitFrames(big), big[i].txn = big[j].txn
      PROVE  ver(i, j) \in U
  <2>1. CASE i \in WriteFrames(frames) /\ j \in CommitFrames(frames)
    <3>1. ver(i, j) \in V
      BY <1>5, <1>7, <2>1, SMTT(20) DEF Holds
    <3> HIDE DEF ver
    <3> QED
      BY <1>4, <1>5, <2>1, <3>1
  <2>2. CASE j = m /\ big[i].val = W[big[i].key]
    <3> HIDE DEF ver
    <3> QED
      BY <1>2, <1>4, <2>2
  <2> QED
    BY <1>2, <1>2a, <1>5, <1>7, <2>1, <2>2
<1>8. ASSUME NEW j \in CommitFrames(big), NEW x \in U, x.ts = big[j].ts
      PROVE  \E i \in WriteFrames(big) : /\ big[i].txn = big[j].txn
                                         /\ big[i].key = x.key /\ big[i].val = x.val
  <2>0. x \in CommittedVersion
    OBVIOUS
  <2>1. CASE j \in CommitFrames(frames)
    <3>1. x \in V
      BY <1>5, <1>8, <2>0, <2>1, SMTT(20)
    <3>2. PICK i \in WriteFrames(frames) : /\ frames[i].txn = frames[j].txn
                                           /\ frames[i].key = x.key /\ frames[i].val = x.val
      BY <1>5, <1>8, <2>1, <3>1 DEF Holds
    <3> QED
      BY <1>2, <1>5, <2>1, <3>2
  <2>2. CASE j = m
    <3>1. W[x.key] = x.val /\ x.key \in Keys /\ x.val \in Slot
      BY <1>2, <1>3, <1>8, <2>0, <2>2
    <3>2. W[x.key] # Absent
      BY <3>1, AbsentAssumption DEF Slot
    <3> QED
      BY <1>2, <1>2b, <2>2, <3>1, <3>2
  <2> QED
    BY <1>2, <2>1, <2>2
<1>9. ASSUME NEW x \in U, lo < x.ts, x.ts <= T
      PROVE  \E j \in CommitFrames(big) : big[j].ts = x.ts
  <2>0. x \in CommittedVersion /\ x.ts \in Nat
    BY <1>3
  <2>1. CASE x.ts <= hi
    <3>1. x \in V
      BY <2>0, <2>1
    <3>2. PICK j \in CommitFrames(frames) : frames[j].ts = x.ts
      BY <1>9, <2>1, <3>1 DEF Holds
    <3> QED
      BY <1>2, <1>5, <3>2
  <2>2. CASE x.ts = T
    BY <1>2, <2>2
  <2> QED
    BY <1>9, <2>0, <2>1, <2>2
<1> QED
  BY <1>6, <1>7, <1>8, <1>9 DEF Holds

-----------------------------------------------------------------------------
(* Logs that lose their end.                                               *)

(* part is a beginning of frames.                                          *)
Beginning(part, frames) ==
    /\ part \in Seq(Frame) /\ Len(part) <= Len(frames)
    /\ \A i \in 1 .. Len(part) : part[i] = frames[i]

(* A log that loses its end stays in order.                                *)
LEMMA PrefixWellFormed ==
  ASSUME NEW frames \in Seq(Frame), WellFormed(frames), NEW part, Beginning(part, frames)
  PROVE  /\ \A i \in CommitFrames(part) :
                i \in CommitFrames(frames) /\ part[i] = frames[i] /\ i <= Len(part)
         /\ \A i \in WriteFrames(part) :
                i \in WriteFrames(frames) /\ part[i] = frames[i] /\ i <= Len(part)
         /\ \A i \in CommitFrames(frames) : i <= Len(part) => i \in CommitFrames(part)
         /\ \A i \in WriteFrames(frames) : i <= Len(part) => i \in WriteFrames(part)
         /\ WellFormed(part)
<1> DEFINE n == Len(part)
<1>1. Len(part) = n /\ \A i \in 1 .. n : part[i] = frames[i]
  BY DEF Beginning
<1>3. /\ n \in Nat /\ Len(frames) \in Nat /\ n <= Len(frames)
      /\ \A i \in CommitFrames(frames) : i \in 1 .. Len(frames)
      /\ \A i \in WriteFrames(frames) : i \in 1 .. Len(frames)
  BY FrameFields DEF Beginning
<1> HIDE DEF n
<1>2. ASSUME NEW i \in CommitFrames(frames), i <= n
      PROVE  i \in CommitFrames(part)
  BY <1>1, <1>2, <1>3 DEF CommitFrames
<1>9. ASSUME NEW i \in WriteFrames(frames), i <= n
      PROVE  i \in WriteFrames(part)
  BY <1>1, <1>3, <1>9 DEF WriteFrames
<1>10. ASSUME NEW i \in CommitFrames(part)
       PROVE  i \in CommitFrames(frames) /\ part[i] = frames[i] /\ i <= n
  BY <1>1, <1>3 DEF CommitFrames
<1>11. ASSUME NEW i \in WriteFrames(part)
       PROVE  i \in WriteFrames(frames) /\ part[i] = frames[i] /\ i <= n
  BY <1>1, <1>3 DEF WriteFrames
<1>4. /\ \A i \in CommitFrames(part) : i \in CommitFrames(frames) /\ part[i] = frames[i]
      /\ \A i \in WriteFrames(part) : i \in WriteFrames(frames) /\ part[i] = frames[i]
  BY <1>10, <1>11
<1>5. WellFormed(part)
  <2>1. ASSUME NEW i \in CommitFrames(part), NEW j \in CommitFrames(part)
        PROVE  (i < j => part[i].ts < part[j].ts) /\ (part[i].txn = part[j].txn => i = j)
    BY <1>4 DEF WellFormed
  <2>2. ASSUME NEW i \in WriteFrames(part), NEW j \in WriteFrames(part),
               part[i].txn = part[j].txn, part[i].key = part[j].key
        PROVE  i = j
    BY <1>4, <2>2 DEF WellFormed
  <2>3. ASSUME NEW i \in WriteFrames(part), NEW j \in CommitFrames(part),
               part[i].txn = part[j].txn
        PROVE  i < j
    BY <1>4, <2>3, SMTT(20) DEF WellFormed
  <2> QED
    BY <2>1, <2>2, <2>3 DEF WellFormed
<1> QED
  BY <1>1, <1>2, <1>5, <1>9, <1>10, <1>11

(* A crash leaves a beginning of the log, with whole commits up to the     *)
(* newest one left.                                                        *)
LEMMA PrefixHolds ==
  ASSUME NEW frames \in Seq(Frame), WellFormed(frames), NEW part, Beginning(part, frames),
         NEW V, V \subseteq CommittedVersion,
         NEW lo \in Nat, NEW hi \in Nat, NEW newest \in Nat,
         Holds(frames, V, lo, hi),
         \A j \in CommitFrames(part) : part[j].ts <= newest,
         newest = lo \/ \E j \in CommitFrames(part) : part[j].ts = newest,
         NEW U, \A x \in V : x.ts <= newest => x \in U,
         \A x \in U : x \in V /\ x.ts <= newest
  PROVE  Holds(part, U, lo, newest)
<1> DEFINE n == Len(part)
<1>0. /\ \A x \in V : x.ts <= newest => x \in U
      /\ \A x \in U : x \in V /\ x.ts <= newest /\ x.ts \in Nat
  BY DEF CommittedVersion
<1>3. /\ n \in Nat
      /\ \A i \in CommitFrames(frames) : i \in 1 .. Len(frames) /\ frames[i].ts \in Nat
      /\ \A i \in WriteFrames(frames) : i \in 1 .. Len(frames)
  BY FrameFields DEF Beginning
<1>4. /\ \A i \in CommitFrames(part) : i \in CommitFrames(frames) /\ part[i] = frames[i] /\ i <= n
      /\ \A i \in WriteFrames(part) : i \in WriteFrames(frames) /\ part[i] = frames[i] /\ i <= n
  BY PrefixWellFormed
<1>2. \A i \in CommitFrames(frames) : i <= n => i \in CommitFrames(part)
  BY PrefixWellFormed
<1>9. \A i \in WriteFrames(frames) : i <= n => i \in WriteFrames(part)
  BY PrefixWellFormed
<1> HIDE DEF n
<1>6. ASSUME NEW i \in WriteFrames(part), NEW j \in CommitFrames(part),
             part[i].txn = part[j].txn
      PROVE  [key |-> part[i].key, ts |-> part[j].ts, val |-> part[i].val] \in U
  <2> DEFINE x == [key |-> part[i].key, ts |-> part[j].ts, val |-> part[i].val]
  <2>1. x \in V
    BY <1>4, <1>6, ZenonT(30) DEF Holds
  <2>2. x.ts = part[j].ts
    OBVIOUS
  <2>3. x.ts <= newest
    BY <2>2
  <2> HIDE DEF x
  <2>4. x \in U
    BY <1>0, <2>1, <2>3
  <2> QED
    BY <2>4 DEF x
<1>7. ASSUME NEW j \in CommitFrames(part), NEW x \in U, x.ts = part[j].ts
      PROVE  \E i \in WriteFrames(part) : /\ part[i].txn = part[j].txn
                                          /\ part[i].key = x.key /\ part[i].val = x.val
  <2>1. PICK i \in WriteFrames(frames) : /\ frames[i].txn = frames[j].txn
                                         /\ frames[i].key = x.key /\ frames[i].val = x.val
    BY <1>0, <1>4, <1>7 DEF Holds
  <2>2. i < j
    BY <1>4, <2>1 DEF WellFormed
  <2>3. i \in WriteFrames(part)
    <3>1. i <= n
      BY <1>3, <1>4, <2>2
    <3> QED
      BY <1>9, <3>1
  <2> QED
    BY <1>4, <2>1, <2>3
<1>8. ASSUME NEW x \in U, lo < x.ts, x.ts <= newest
      PROVE  \E j \in CommitFrames(part) : part[j].ts = x.ts
  <2>0. x.ts \in Nat
    BY <1>0
  <2>1. PICK l \in CommitFrames(part) : part[l].ts = newest
    BY <1>8, <2>0
  <2>2. newest <= hi
    BY <1>4, <2>1 DEF Holds
  <2>3. PICK j \in CommitFrames(frames) : frames[j].ts = x.ts
    BY <1>0, <1>8, <2>0, <2>2 DEF Holds
  <2>4. ~(l < j)
    <3>1. l < j => frames[l].ts < frames[j].ts
      BY <1>4 DEF WellFormed
    <3>2. frames[l].ts = newest
      BY <1>4, <2>1
    <3> QED
      BY <1>8, <2>0, <2>3, <3>1, <3>2
  <2>5. j \in CommitFrames(part)
    <3>1. j <= n
      BY <1>3, <1>4, <2>4
    <3> QED
      BY <1>2, <3>1
  <2> QED
    BY <1>4, <2>3, <2>5
<1> QED
  BY <1>6, <1>7, <1>8, SMTT(20) DEF Holds

(* What a log holds above lo it holds above anything higher, and where     *)
(* nothing was committed its reach is a matter of words.                   *)
LEMMA HoldsBetween ==
  ASSUME NEW frames \in Seq(Frame), NEW V, V \subseteq CommittedVersion,
         NEW lo \in Nat, NEW hi \in Nat, Holds(frames, V, lo, hi),
         NEW lo2 \in Nat, NEW hi2 \in Nat, lo <= lo2, hi <= hi2,
         \A x \in V : ~(hi < x.ts /\ x.ts <= hi2)
  PROVE  Holds(frames, V, lo2, hi2)
<1>1. \A x \in V : x.ts \in Nat
  BY DEF CommittedVersion
<1>2. \A j \in CommitFrames(frames) : frames[j].ts \in Nat
  BY FrameFields
<1>3. \A j \in CommitFrames(frames) : frames[j].ts <= hi2
  BY <1>2 DEF Holds
<1>4. ASSUME NEW x \in V, lo2 < x.ts, x.ts <= hi2
      PROVE  \E j \in CommitFrames(frames) : frames[j].ts = x.ts
  <2>1. lo < x.ts /\ x.ts <= hi
    BY <1>1, <1>4
  <2> QED
    BY <2>1 DEF Holds
<1> QED
  BY <1>3, <1>4 DEF Holds

(* A log without commits is in order, and enough when there is nothing     *)
(* above lo.                                                               *)
LEMMA NoCommitsHold ==
  ASSUME NEW frames \in Seq(Frame), CommitFrames(frames) = {}, WriteFrames(frames) = {},
         NEW V, NEW lo \in Nat, NEW hi \in Nat,
         \A x \in V : ~(lo < x.ts /\ x.ts <= hi)
  PROVE  WellFormed(frames) /\ Holds(frames, V, lo, hi)
<1>1. WellFormed(frames)
  BY DEF WellFormed
<1>2. Holds(frames, V, lo, hi)
  BY DEF Holds
<1> QED
  BY <1>1, <1>2

-----------------------------------------------------------------------------
(* The log and the histories it keeps.                                     *)

(* An empty log keeps what the tree has.                                   *)
LEMMA NothingKept ==
  ASSUME NEW H \in [Keys -> Seq(Committed)], NEW lo \in Nat, NEW hi \in Nat, lo <= hi,
         \A k \in Keys : Sorted(H[k], hi),
         \A k \in Keys : \A i \in 1 .. Len(H[k]) : H[k][i].ts <= lo
  PROVE  Keeps(<<>>, H, lo, hi)
<1>1. <<>> \in Seq(Frame) /\ CommitFrames(<<>>) = {} /\ WriteFrames(<<>>) = {}
  BY DEF CommitFrames, WriteFrames
<1>2. ASSUME NEW x \in Versions(H)
      PROVE  ~(lo < x.ts /\ x.ts <= hi)
  <2>1. x \in CommittedVersion
    BY VersionsAre
  <2>2. x.key \in Keys /\ x.ts \in Nat
    BY <2>1 DEF CommittedVersion
  <2>3. PICK i \in 1 .. Len(H[x.key]) : H[x.key][i].ts = x.ts
    BY <2>1, InVersions
  <2>4. x.ts <= lo
    BY <2>2, <2>3
  <2> QED
    BY <2>2, <2>4
<1>3. WellFormed(<<>>) /\ Holds(<<>>, Versions(H), lo, hi)
  BY <1>1, <1>2, NoCommitsHold, Zenon
<1> QED
  BY <1>1, <1>3 DEF Keeps

(* G is H with the writes W committed at ts.                               *)
Grown(G, H, ts, W) ==
    /\ G \in [Keys -> Seq(Committed)]
    /\ \A k \in Keys : Sorted(G[k], ts)
    /\ \A k \in Keys : W[k] = Absent => G[k] = H[k]
    /\ \A k \in Keys : W[k] # Absent =>
           \E w \in Committed : w.ts = ts /\ w.val = W[k] /\ G[k] = Append(H[k], w)

(* The versions a commit adds are those it writes.                         *)
LEMMA GrownVersions ==
  ASSUME NEW H \in [Keys -> Seq(Committed)], NEW hi \in Nat, NEW T \in Nat, hi < T,
         \A k \in Keys : Sorted(H[k], hi),
         NEW W \in [Keys -> Slot \cup {Absent}], NEW G, Grown(G, H, T, W),
         NEW x \in CommittedVersion
  PROVE  /\ x.ts <= hi => (x \in Versions(G) <=> x \in Versions(H))
         /\ x.ts = T => (x \in Versions(G) <=> W[x.key] = x.val)
         /\ x \in Versions(G) => ~(hi < x.ts /\ x.ts < T)
<1> DEFINE k == x.key
           h == H[k]
           g == G[k]
           In(s) == \E i \in 1 .. Len(s) : s[i].ts = x.ts /\ s[i].val = x.val
<1>1. k \in Keys /\ x.ts \in Nat /\ x.val \in Slot
  BY DEF CommittedVersion
<1>2. G \in [Keys -> Seq(Committed)]
  BY DEF Grown
<1>3. (x \in Versions(G) <=> In(g)) /\ (x \in Versions(H) <=> In(h))
  BY <1>2, InVersions, ZenonT(30)
<1>4. h \in Seq(Committed) /\ Len(h) \in Nat
      /\ \A i \in 1 .. Len(h) : h[i].ts \in Nat /\ h[i].ts <= hi
  BY <1>1, HistoryEntries DEF Sorted
<1>5. In(h) => x.ts <= hi
  BY <1>4
<1>6. CASE W[k] = Absent
  <2>1. g = h
    BY <1>1, <1>6 DEF Grown
  <2>2. x.val # W[k]
    BY <1>1, <1>6, AbsentAssumption DEF Slot
  <2> HIDE DEF g, h
  <2>3. In(g) <=> In(h)
    BY <2>1
  <2> HIDE DEF In
  <2> QED
    BY <1>1, <1>3, <1>5, <2>2, <2>3
<1>7. CASE W[k] # Absent
  <2>1. PICK w \in Committed : w.ts = T /\ w.val = W[k] /\ g = Append(h, w)
    BY <1>1, <1>7, ZenonT(30) DEF Grown
  <2> HIDE DEF g, h
  <2>2. /\ Len(g) = Len(h) + 1 /\ g[Len(h) + 1] = w
        /\ \A i \in 1 .. Len(h) : g[i] = h[i]
    BY <1>4, <2>1
  <2>3. \A i \in 1 .. Len(g) : i \in 1 .. Len(h) \/ i = Len(h) + 1
    BY <1>4, <2>2
  <2>4. (Len(h) + 1) \in 1 .. Len(g) /\ \A i \in 1 .. Len(h) : i \in 1 .. Len(g)
    BY <1>4, <2>2
  <2>5. In(g) <=> In(h) \/ (x.ts = T /\ x.val = W[k])
    <3>1. ASSUME In(g)
          PROVE  In(h) \/ (x.ts = T /\ x.val = W[k])
      <4>1. PICK i \in 1 .. Len(g) : g[i].ts = x.ts /\ g[i].val = x.val
        BY <3>1
      <4>2. CASE i \in 1 .. Len(h)
        BY <2>2, <4>1, <4>2
      <4>3. CASE i = Len(h) + 1
        BY <2>1, <2>2, <4>1, <4>3
      <4> QED
        BY <2>3, <4>2, <4>3
    <3>2. In(h) => In(g)
      BY <2>2, <2>4
    <3>3. x.ts = T /\ x.val = W[k] => In(g)
      BY <2>1, <2>2, <2>4
    <3> QED
      BY <3>1, <3>2, <3>3
  <2> HIDE DEF In
  <2> QED
    BY <1>1, <1>3, <1>5, <2>5
<1> QED
  BY <1>6, <1>7

(* A commit goes to the end of the log and of the histories (txn.rs        *)
(* commit, wal.rs:321-341).                                                *)
LEMMA CommitKept ==
  ASSUME NEW frames, NEW H, NEW lo, NEW hi, Keeps(frames, H, lo, hi),
         NEW id \in Nat, Fresh(frames, id), NEW W \in [Keys -> Slot \cup {Absent}],
         NEW b, CommitBlock(b, id, hi + 1, W), NEW G, Grown(G, H, hi + 1, W)
  PROVE  Keeps(frames \o b, G, lo, hi + 1)
<1> DEFINE T == hi + 1
           big == frames \o b
           V == Versions(H)
           U == Versions(G)
<1>1. /\ frames \in Seq(Frame) /\ H \in [Keys -> Seq(Committed)]
      /\ lo \in Nat /\ hi \in Nat /\ lo <= hi /\ WellFormed(frames)
      /\ Holds(frames, V, lo, hi)
      /\ \A k \in Keys : Sorted(H[k], hi)
  BY DEF Keeps
<1>2. T \in Nat /\ hi \in Nat /\ hi < T /\ lo <= T
  BY <1>1
<1>3. /\ G \in [Keys -> Seq(Committed)]
      /\ \A k \in Keys : Sorted(G[k], T)
  BY DEF Grown
<1>4. Grown(G, H, T, W) /\ CommitBlock(b, id, T, W)
  OBVIOUS
<1> HIDE DEF T
<1>5. U \subseteq CommittedVersion
  BY <1>3, VersionsAre
<1>6. \A x \in CommittedVersion :
        /\ x.ts <= hi => (x \in U <=> x \in V)
        /\ x.ts = T => (x \in U <=> W[x.key] = x.val)
        /\ x \in U => ~(hi < x.ts /\ x.ts < T)
  BY <1>1, <1>2, <1>4, GrownVersions, ZenonT(30)
<1>7. Extended(big, frames, id, T, W)
  BY <1>1, <1>2, <1>4, AppendedFrames
<1>8. big \in Seq(Frame)
  BY <1>7, Zenon DEF Extended
<1> HIDE DEF big, U, V
<1>9. ASSUME NEW j \in CommitFrames(frames)
      PROVE  frames[j].ts < T
  <2>1. frames[j].ts <= hi
    BY <1>1, ZenonT(30) DEF Holds
  <2>2. frames[j].ts \in Nat
    BY <1>1, FrameFields, ZenonT(30)
  <2> QED
    BY <1>2, <2>1, <2>2, SMTT(20)
<1>10. WellFormed(big)
  BY <1>1, <1>2, <1>7, <1>9, AppendWellFormed, ZenonT(30)
<1>13. \A x \in CommittedVersion : x.ts <= hi => (x \in U <=> x \in V)
  BY <1>6
<1>14. \A x \in CommittedVersion : x.ts = T => (x \in U <=> W[x.key] = x.val)
  BY <1>6
<1>15. \A x \in U : ~(hi < x.ts /\ x.ts < T)
  BY <1>5, <1>6
<1>16. frames \in Seq(Frame) /\ lo \in Nat /\ hi \in Nat /\ Holds(frames, V, lo, hi)
  BY <1>1
<1>11. Holds(big, U, lo, T)
  BY <1>2, <1>5, <1>7, <1>16, <1>13, <1>14, <1>15, AppendHolds, SMTT(20)
<1>12. Keeps(big, G, lo, T)
  BY <1>1, <1>2, <1>3, <1>8, <1>10, <1>11 DEF Keeps, U
<1> QED
  BY <1>12 DEF big, T

(* A tree as of a later timestamp needs no more of the log.                *)
LEMMA RaiseKept ==
  ASSUME NEW frames, NEW H, NEW lo, NEW hi, Keeps(frames, H, lo, hi),
         NEW lo2 \in Nat, lo <= lo2, lo2 <= hi
  PROVE  Keeps(frames, H, lo2, hi)
<1>1. /\ frames \in Seq(Frame) /\ H \in [Keys -> Seq(Committed)]
      /\ lo \in Nat /\ hi \in Nat /\ Holds(frames, Versions(H), lo, hi)
  BY DEF Keeps
<1>2. Versions(H) \subseteq CommittedVersion
  BY <1>1, VersionsAre
<1>3. \A x \in Versions(H) : ~(hi < x.ts /\ x.ts <= hi)
  BY <1>1, <1>2 DEF CommittedVersion
<1>4. Holds(frames, Versions(H), lo2, hi)
  BY <1>1, <1>2, <1>3, HoldsBetween
<1> QED
  BY <1>4 DEF Keeps

(* The histories H up to ts.                                               *)
UpTo(H, ts) == [k \in Keys |-> SubSeq(H[k], 1, LastAt(H[k], ts))]

(* What is left of a log that is cut after n frames.                       *)
LeftOf(frames, n, part) ==
    /\ Beginning(part, frames) /\ Len(part) = n
    /\ \A j \in CommitFrames(frames) :
           j <= n => j \in CommitFrames(part) /\ part[j] = frames[j]

LEMMA CutFrames ==
  ASSUME NEW frames \in Seq(Frame), NEW n \in 0 .. Len(frames)
  PROVE  LeftOf(frames, n, SubSeq(frames, 1, n))
<1> DEFINE part == SubSeq(frames, 1, n)
<1>1. Len(frames) \in Nat /\ \A i \in 1 .. Len(frames) : frames[i] \in Frame
  BY FrameFields
<1>2. n \in Int /\ 1 \in Int /\ n - 1 + 1 = n /\ (1 <= n \/ n = 0)
  BY <1>1
<1>3. \A i \in 1 .. n : frames[i] \in Frame
  BY <1>1
<1>4. /\ part \in Seq(Frame) /\ Len(part) = IF 1 <= n THEN n - 1 + 1 ELSE 0
      /\ \A i \in 1 .. (n - 1 + 1) : part[i] = frames[1 + i - 1]
  BY <1>2, <1>3
<1>5. Len(part) = n /\ \A i \in 1 .. n : part[i] = frames[i]
  BY <1>1, <1>2, <1>4
<1>6. Beginning(part, frames)
  BY <1>1, <1>4, <1>5 DEF Beginning
<1> QED
  BY <1>1, <1>5, <1>6 DEF CommitFrames, LeftOf

-----------------------------------------------------------------------------
(* What recovery reads from a log.                                         *)

(* Pass 1 of recovery (wal.rs:160-173) finds every transaction with a      *)
(* commit record, at the timestamp of that record; no two share one.       *)
LEMMA CommitTsFinds ==
  ASSUME NEW frames \in Seq(Frame), WellFormed(frames)
  PROVE  /\ \A j \in CommitFrames(frames) :
                /\ frames[j].txn \in DOMAIN CommitTs(frames)
                /\ CommitTs(frames)[frames[j].txn] = frames[j].ts
         /\ \A t \in DOMAIN CommitTs(frames) :
                \E j \in CommitFrames(frames) : frames[j].txn = t
         /\ IsInjective(CommitTs(frames))
<1> DEFINE C == CommitFrames(frames)
           D == {frames[i].txn : i \in C}
           At(t) == CHOOSE i \in C : /\ frames[i].txn = t
                                     /\ \A j \in C : frames[j].txn = t => j <= i
<1>0. CommitTs(frames) = [t \in D |-> frames[At(t)].ts]
  BY DEF CommitTs
<1>1. \A j \in C : j \in Nat
  BY FrameFields
<1>2. ASSUME NEW j \in C
      PROVE  At(frames[j].txn) = j
  <2>1. \A i \in C : frames[i].txn = frames[j].txn => i = j
    BY DEF WellFormed
  <2> HIDE DEF C
  <2>2. /\ frames[j].txn = frames[j].txn
        /\ \A i \in C : frames[i].txn = frames[j].txn => i <= j
    BY <1>1, <2>1
  <2> QED
    BY <2>1, <2>2
<1>3. \A t \in D : \E j \in C : frames[j].txn = t
  OBVIOUS
<1>4. \A j \in C : frames[j].txn \in D
  OBVIOUS
<1> HIDE DEF D, At
<1>5. ASSUME NEW j \in C
      PROVE  CommitTs(frames)[frames[j].txn] = frames[j].ts
  BY <1>0, <1>2, <1>4
<1>6. ASSUME NEW t \in D, NEW u \in D, CommitTs(frames)[t] = CommitTs(frames)[u]
      PROVE  t = u
  <2>1. PICK i \in C : frames[i].txn = t
    BY <1>3
  <2>2. PICK j \in C : frames[j].txn = u
    BY <1>3
  <2>3. frames[i].ts = frames[j].ts
    BY <1>5, <1>6, <2>1, <2>2
  <2>4. frames[i].ts \in Nat /\ i \in Nat /\ j \in Nat
    BY FrameFields
  <2>5. (i < j => frames[i].ts < frames[j].ts) /\ (j < i => frames[j].ts < frames[i].ts)
    BY DEF WellFormed
  <2>6. i = j
    BY <2>3, <2>4, <2>5
  <2> QED
    BY <2>1, <2>2, <2>6
<1>7. DOMAIN CommitTs(frames) = D
  BY <1>0
<1> QED
  BY <1>3, <1>4, <1>5, <1>6, <1>7 DEF IsInjective

(* A log without a torn frame is read to its end.                          *)
LEMMA ValidPrefixIsAll ==
  ASSUME NEW frames \in Seq(Frame)
  PROVE  ValidPrefix(frames) = frames
<1>1. \A f \in Frame : f # Torn
  <2>1. \A f \in Frame : f.type # "torn"
    BY DEF Frame
  <2> QED
    BY <2>1 DEF Torn
<1>2. {i \in 1 .. Len(frames) : frames[i] = Torn} = {}
  BY <1>1, FrameFields
<1> QED
  BY <1>2 DEF ValidPrefix

(* The chain c is what h has above lo.                                     *)
Rebuilt(h, c, lo) ==
    /\ c \in Seq(Version)
    /\ Len(c) = Len(h) - LastAt(h, lo)
    /\ \A n \in 1 .. Len(c) : /\ c[n].ts = h[LastAt(h, lo) + n].ts
                              /\ c[n].val = h[LastAt(h, lo) + n].val

(* Such a chain, over the tree as of lo, stands for the history.           *)
LEMMA RebuiltRepresents ==
  ASSUME NEW h \in Seq(Committed), NEW c, NEW lo \in Nat, Rebuilt(h, c, lo)
  PROVE  /\ Represents(h, c, AsOf(h, None, lo))
         /\ CutBelow(h, c, lo)
         /\ \A n \in 1 .. Len(c) : c[n].ts > lo
<1> DEFINE cut == LastAt(h, lo)
<1>1. \A i \in 1 .. Len(h) : h[i].ts \in Nat
  BY HistoryEntries
<1>2. /\ cut \in 0 .. Len(h)
      /\ cut # 0 => h[cut].ts <= lo
      /\ \A j \in (cut + 1) .. Len(h) : h[j].ts > lo
  BY <1>1, LastAtFinds
<1>3. Len(h) \in Nat /\ Len(c) \in Nat /\ Len(c) = Len(h) - cut
  BY DEF Rebuilt
<1>4. \A n \in 1 .. Len(c) : c[n].ts = h[cut + n].ts /\ c[n].val = h[cut + n].val
  BY DEF Rebuilt
<1>5. AsOf(h, None, lo) = IF cut = 0 THEN None ELSE h[cut].val
  BY DEF AsOf
<1> HIDE DEF cut
<1>6. Len(h) - Len(c) = cut
  BY <1>2, <1>3
<1>7. Represents(h, c, AsOf(h, None, lo))
  <2> DEFINE d == Len(h) - Len(c)
  <2>1. d = cut /\ d >= 0
    BY <1>2, <1>6
  <2> HIDE DEF d
  <2>2. \A i \in 1 .. Len(c) : c[i].ts = h[d + i].ts /\ c[i].val = h[d + i].val
    BY <1>4, <2>1
  <2>3. AsOf(h, None, lo) = IF d = 0 THEN None ELSE h[d].val
    BY <1>5, <2>1
  <2> QED
    BY <2>1, <2>2, <2>3 DEF Represents, d
<1>8. CutBelow(h, c, lo)
  BY <1>2, <1>3, <1>6 DEF CutBelow
<1>9. ASSUME NEW n \in 1 .. Len(c)
      PROVE  c[n].ts > lo
  <2>1. cut + n \in (cut + 1) .. Len(h)
    BY <1>2, <1>3
  <2>2. h[cut + n].ts > lo
    BY <1>2, <2>1
  <2> QED
    BY <1>4, <2>2
<1> QED
  BY <1>7, <1>8, <1>9

(* The entries ops with the timestamps key and the values val are the      *)
(* versions of h above lo.                                                 *)
Matched(h, lo, ops, key, val) ==
    /\ \A i, j \in ops : key[i] = key[j] => i = j
    /\ \A n \in (LastAt(h, lo) + 1) .. Len(h) :
           \E i \in ops : key[i] = h[n].ts /\ val[i] = h[n].val
    /\ \A i \in ops : \E n \in (LastAt(h, lo) + 1) .. Len(h) : key[i] = h[n].ts

(* The timestamp and the value recovery reads for a write to key k.        *)
LiveTs(frames, lo, k) ==
    [i \in LiveWrites(frames, lo, k) |-> CommitTs(frames)[frames[i].txn]]
LiveVal(frames, lo, k) ==
    [i \in LiveWrites(frames, lo, k) |-> frames[i].val]

(* The live writes to key k of a log that holds the history above lo are   *)
(* the versions of k above lo.                                             *)
LEMMA LiveWritesMatch ==
  ASSUME NEW frames \in Seq(Frame), WellFormed(frames),
         NEW H \in [Keys -> Seq(Committed)], NEW k \in Keys,
         NEW lo \in Nat, NEW hi \in Nat, Sorted(H[k], hi),
         Holds(frames, Versions(H), lo, hi)
  PROVE  /\ LiveTs(frames, lo, k) \in [LiveWrites(frames, lo, k) -> Nat]
         /\ Matched(H[k], lo, LiveWrites(frames, lo, k), LiveTs(frames, lo, k),
                    LiveVal(frames, lo, k))
         /\ \A i, j \in LiveWrites(frames, lo, k) :
                frames[i].txn = frames[j].txn => i = j
<1> DEFINE h == H[k]
           cut == LastAt(h, lo)
           c == CommitTs(frames)
           ops == LiveWrites(frames, lo, k)
           key == LiveTs(frames, lo, k)
           val == LiveVal(frames, lo, k)
<1>1. h \in Seq(Committed) /\ Len(h) \in Nat /\ \A i \in 1 .. Len(h) : h[i].ts \in Nat
  BY HistoryEntries, SMTT(20)
<1>2. /\ cut \in 0 .. Len(h)
      /\ cut # 0 => h[cut].ts <= lo
      /\ \A j \in (cut + 1) .. Len(h) : h[j].ts > lo
  BY <1>1, LastAtFinds, ZenonT(30)
<1>3. /\ \A j \in CommitFrames(frames) :
             frames[j].txn \in DOMAIN c /\ c[frames[j].txn] = frames[j].ts
      /\ \A t \in DOMAIN c : \E j \in CommitFrames(frames) : frames[j].txn = t
      /\ \A t, u \in DOMAIN c : c[t] = c[u] => t = u
  BY CommitTsFinds, ZenonT(30) DEF IsInjective
<1>4. \A j \in CommitFrames(frames) : frames[j].ts \in Nat
  BY FrameFields, SMTT(20)
<1>5. \A i \in ops : i \in WriteFrames(frames) /\ frames[i].key = k
                     /\ frames[i].txn \in DOMAIN c /\ c[frames[i].txn] > lo
  BY DEF LiveWrites, WriteFrames
<1>6. \A i \in WriteFrames(frames) :
         frames[i].key = k /\ frames[i].txn \in DOMAIN c /\ c[frames[i].txn] > lo => i \in ops
  BY SMTT(20) DEF LiveWrites, WriteFrames
<1>7. \A i \in WriteFrames(frames), j \in WriteFrames(frames) :
         frames[i].txn = frames[j].txn /\ frames[i].key = frames[j].key => i = j
  BY SMTT(20) DEF WellFormed
<1>8. \A a, b \in 1 .. Len(h) : a < b => h[a].ts < h[b].ts
  BY DEF Sorted
<1>9. /\ \A n \in 1 .. Len(h) :
             [key |-> k, ts |-> h[n].ts, val |-> h[n].val] \in Versions(H)
      /\ \A ts, v : [key |-> k, ts |-> ts, val |-> v] \in Versions(H) =>
             \E n \in 1 .. Len(h) : h[n].ts = ts /\ h[n].val = v
  BY VersionsAre, SMTT(20)
<1>10. \A n \in 1 .. Len(h) : h[n].ts <= hi
  BY ZenonT(30) DEF Sorted
<1>11. \A i \in ops : key[i] = c[frames[i].txn] /\ val[i] = frames[i].val
  BY DEF LiveTs, LiveVal
<1>12. key = [i \in ops |-> key[i]]
  BY DEF LiveTs
<1> HIDE DEF h, cut, c, ops, key, val
<1>13. ASSUME NEW i \in ops, NEW j \in ops, frames[i].txn = frames[j].txn
       PROVE  i = j
  BY <1>5, <1>7, <1>13, SMTT(20)
<1>14. ASSUME NEW i \in ops, NEW j \in ops, key[i] = key[j]
       PROVE  i = j
  BY <1>3, <1>5, <1>11, <1>13, <1>14, SMTT(20)
<1>15. ASSUME NEW n \in (cut + 1) .. Len(h)
       PROVE  \E i \in ops : key[i] = h[n].ts /\ val[i] = h[n].val
  <2> DEFINE x == [key |-> k, ts |-> h[n].ts, val |-> h[n].val]
  <2>1. n \in 1 .. Len(h) /\ h[n].ts > lo
    BY <1>1, <1>2, SMTT(20)
  <2>2. x \in Versions(H) /\ lo < x.ts /\ x.ts <= hi
    BY <1>9, <1>10, <2>1
  <2>3. x.key = k /\ x.ts = h[n].ts /\ x.val = h[n].val
    BY SMTT(20)
  <2> HIDE DEF x
  <2>4. PICK j \in CommitFrames(frames) : frames[j].ts = x.ts
    BY <2>2, ZenonT(30) DEF Holds
  <2>5. PICK i \in WriteFrames(frames) : /\ frames[i].txn = frames[j].txn
                                         /\ frames[i].key = x.key /\ frames[i].val = x.val
    BY <2>2, <2>4, SMTT(20) DEF Holds
  <2>6. frames[i].txn \in DOMAIN c /\ c[frames[i].txn] = h[n].ts
    BY <1>3, <2>3, <2>4, <2>5, SMTT(20)
  <2>7. i \in ops
    BY <1>6, <2>1, <2>3, <2>5, <2>6, ZenonT(30)
  <2> QED
    BY <1>11, <2>3, <2>5, <2>6, <2>7, SMTT(20)
<1>16. ASSUME NEW i \in ops
       PROVE  \E n \in (cut + 1) .. Len(h) : key[i] = h[n].ts
  <2>1. i \in WriteFrames(frames) /\ frames[i].key = k /\ frames[i].txn \in DOMAIN c
        /\ c[frames[i].txn] > lo
    BY <1>5, SMTT(20)
  <2>2. PICK j \in CommitFrames(frames) : frames[j].txn = frames[i].txn
    BY <1>3, <2>1, SMTT(20)
  <2>3. c[frames[i].txn] = frames[j].ts /\ frames[j].ts > lo
    BY <1>3, <2>1, <2>2, SMTT(20)
  <2>4. [key |-> k, ts |-> frames[j].ts, val |-> frames[i].val] \in Versions(H)
    BY <2>1, <2>2, <2>3, ZenonT(30) DEF Holds
  <2>5. PICK n \in 1 .. Len(h) : h[n].ts = frames[j].ts
    BY <1>9, <2>4
  <2>6. n = cut => h[n].ts <= lo
    BY <1>2
  <2>7. n < cut => cut \in 1 .. Len(h) /\ h[cut].ts \in Nat /\ h[n].ts < h[cut].ts /\ h[cut].ts <= lo
    BY <1>1, <1>2, <1>8
  <2>8. h[n].ts \in Nat /\ h[n].ts > lo
    BY <1>1, <2>3, <2>5, SMTT(20)
  <2>9. n \in (cut + 1) .. Len(h)
    BY <1>1, <1>2, <2>6, <2>7, <2>8, SMTT(20)
  <2>10. key[i] = h[n].ts
    BY <1>11, <2>3, <2>5, Zenon
  <2> QED
    BY <2>9, <2>10, Zenon
<1>17. ASSUME NEW i \in ops
       PROVE  key[i] \in Nat
  <2>1. PICK j \in CommitFrames(frames) : frames[j].txn = frames[i].txn
    BY <1>3, <1>5
  <2>2. c[frames[j].txn] = frames[j].ts /\ frames[j].ts \in Nat
    BY <1>3, <1>4
  <2> QED
    BY <1>11, <2>1, <2>2, SMTT(20)
<1>18. key \in [ops -> Nat]
  BY <1>12, <1>17
<1>19. Matched(h, lo, ops, key, val)
  BY <1>14, <1>15, <1>16 DEF Matched, cut
<1> QED
  BY <1>13, <1>18, <1>19, SMTT(20) DEF h, ops, key, val
=============================================================================
