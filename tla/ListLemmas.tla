----------------------------- MODULE ListLemmas -----------------------------
(***************************************************************************)
(* What taking an element out of a linked list, and putting one in, does   *)
(* to the list: the C code walks to the place and relinks the neighbours.  *)
(* The models use RemoveAt and InsertAt of SequencesExt.  And what a fold  *)
(* over a list is: the models join and parse with FoldLeft.                *)
(***************************************************************************)
EXTENDS Integers, Sequences, SequencesExt, SequenceTheorems,
        WellFoundedInduction, TLAPS

\* A function on 1 .. n is a list of length n.
LEMMA FunctionIsList ==
    ASSUME NEW S, NEW n \in Nat, NEW f \in [1 .. n -> S]
    PROVE  f \in Seq(S) /\ Len(f) = n
<1>1. f \in Seq(S)
  BY SeqDef
<1>2. Len(f) \in Nat /\ 1 .. Len(f) = 1 .. n
  BY <1>1, LenProperties
<1> QED
  BY <1>1, <1>2

\* One list followed by another.
LEMMA Concatenated ==
    ASSUME NEW S, NEW s \in Seq(S), NEW t \in Seq(S)
    PROVE  /\ s \o t \in Seq(S) /\ Len(s \o t) = Len(s) + Len(t)
           /\ \A i \in 1 .. Len(s) : (s \o t)[i] = s[i]
           /\ \A i \in 1 .. Len(t) : (s \o t)[Len(s) + i] = t[i]
<1>1. Len(s) \in Nat /\ Len(t) \in Nat
  BY LenProperties
<1>2. /\ s \o t \in Seq(S) /\ Len(s \o t) = Len(s) + Len(t)
      /\ \A i \in 1 .. Len(s) + Len(t) :
           (s \o t)[i] = IF i <= Len(s) THEN s[i] ELSE t[i - Len(s)]
  BY ConcatProperties
<1> DEFINE c == s \o t
           m == Len(s)
           n == Len(t)
<1> HIDE DEF c, m, n
<1>3. /\ m \in Nat /\ n \in Nat
      /\ \A i \in 1 .. m + n : c[i] = IF i <= m THEN s[i] ELSE t[i - m]
  BY <1>1, <1>2 DEF c, m, n
<1>4. \A i \in 1 .. m : c[i] = s[i]
  BY <1>3
<1>5. \A i \in 1 .. n : m + i \in 1 .. m + n /\ ~(m + i <= m) /\ m + i - m = i
  BY <1>3
<1>6. \A i \in 1 .. n : c[m + i] = t[i]
  BY <1>3, <1>5
<1> QED
  BY <1>2, <1>4, <1>6 DEF c, m, n

\* The end of a list.
LEMMA Ending ==
    ASSUME NEW S, NEW s \in Seq(S), NEW n \in Nat, n <= Len(s)
    PROVE  LET e == SubSeq(s, Len(s) - n + 1, Len(s))
           IN  /\ e \in Seq(S) /\ Len(e) = n
               /\ \A i \in 1 .. n : e[i] = s[Len(s) - n + i]
<1> DEFINE m == Len(s) - n + 1
<1>1. Len(s) \in Nat /\ m \in Int /\ \A i \in m .. Len(s) : s[i] \in S
  BY LenProperties, ElementOfSeq
<1>2. /\ SubSeq(s, m, Len(s)) \in Seq(S)
      /\ Len(SubSeq(s, m, Len(s))) = IF m <= Len(s) THEN Len(s) - m + 1 ELSE 0
      /\ \A i \in 1 .. Len(s) - m + 1 : SubSeq(s, m, Len(s))[i] = s[m + i - 1]
  <2> HIDE DEF m
  <2> QED
    BY <1>1, SubSeqProperties
<1>3. Len(s) - m + 1 = n /\ \A i \in 1 .. n : m + i - 1 = Len(s) - n + i
  BY <1>1
<1>4. (IF m <= Len(s) THEN Len(s) - m + 1 ELSE 0) = n
  BY <1>1
<1> QED
  BY <1>2, <1>3, <1>4

\* What stands where when b follows a and both are parts of s.
LEMMA Joined ==
    ASSUME NEW n \in Nat, NEW k \in 1 .. n, NEW s, NEW a, NEW b, NEW c,
           \A i \in 1 .. k - 1 : a[i] = s[i],
           \A i \in 1 .. n - k : b[i] = s[k + i],
           \A i \in 1 .. n - 1 : c[i] = IF i <= k - 1 THEN a[i] ELSE b[i - (k - 1)]
    PROVE  \A i \in 1 .. n - 1 : c[i] = IF i < k THEN s[i] ELSE s[i + 1]
<1> TAKE i \in 1 .. n - 1
<1>1. CASE i < k
  <2>1. i \in 1 .. k - 1 /\ i <= k - 1
    BY <1>1
  <2>2. c[i] = a[i]
    BY <2>1
  <2> QED
    BY <1>1, <2>1, <2>2
<1>2. CASE ~(i < k)
  <2>1. /\ i - (k - 1) \in 1 .. n - k /\ ~(i <= k - 1)
        /\ k + (i - (k - 1)) = i + 1
    BY <1>2
  <2>2. c[i] = b[i - (k - 1)]
    BY <2>1
  <2>3. b[i - (k - 1)] = s[k + (i - (k - 1))]
    BY <2>1
  <2> QED
    BY <1>2, <2>1, <2>2, <2>3
<1> QED
  BY <1>1, <1>2

\* Taking an element out of a list.
LEMMA RemovedAt ==
    ASSUME NEW S, NEW s \in Seq(S), NEW k \in 1 .. Len(s)
    PROVE  LET r == RemoveAt(s, k)
           IN  /\ r \in Seq(S) /\ Len(r) = Len(s) - 1
               /\ \A i \in 1 .. Len(s) - 1 : r[i] = IF i < k THEN s[i] ELSE s[i + 1]
<1> DEFINE a == SubSeq(s, 1, k - 1)
           b == SubSeq(s, k + 1, Len(s))
           r == RemoveAt(s, k)
<1>1. /\ Len(s) \in Nat /\ k \in Int
      /\ \A i \in 1 .. Len(s) : s[i] \in S
  BY LenProperties, ElementOfSeq
<1>2. /\ a \in Seq(S) /\ Len(a) = k - 1
      /\ \A i \in 1 .. k - 1 : a[i] = s[i]
  <2>1. \A i \in 1 .. k - 1 : s[i] \in S
    BY <1>1
  <2>2. /\ SubSeq(s, 1, k - 1) \in Seq(S)
        /\ Len(SubSeq(s, 1, k - 1)) = IF 1 <= k - 1 THEN (k - 1) - 1 + 1 ELSE 0
        /\ \A i \in 1 .. (k - 1) - 1 + 1 : SubSeq(s, 1, k - 1)[i] = s[1 + i - 1]
    BY <1>1, <2>1, SubSeqProperties
  <2> QED
    BY <1>1, <2>2
<1>3. /\ b \in Seq(S) /\ Len(b) = Len(s) - k
      /\ \A i \in 1 .. Len(s) - k : b[i] = s[k + i]
  <2>1. \A i \in k + 1 .. Len(s) : s[i] \in S
    BY <1>1
  <2>2. /\ SubSeq(s, k + 1, Len(s)) \in Seq(S)
        /\ Len(SubSeq(s, k + 1, Len(s)))
             = IF k + 1 <= Len(s) THEN Len(s) - (k + 1) + 1 ELSE 0
        /\ \A i \in 1 .. Len(s) - (k + 1) + 1 :
             SubSeq(s, k + 1, Len(s))[i] = s[(k + 1) + i - 1]
    BY <1>1, <2>1, SubSeqProperties
  <2> QED
    BY <1>1, <2>2
<1>4. /\ r \in Seq(S) /\ Len(r) = Len(a) + Len(b)
      /\ \A i \in 1 .. Len(a) + Len(b) :
           r[i] = IF i <= Len(a) THEN a[i] ELSE b[i - Len(a)]
  <2>1. r = a \o b
    BY DEF RemoveAt
  <2> HIDE DEF a, b, r
  <2>2. a \in Seq(S) /\ b \in Seq(S)
    BY <1>2, <1>3
  <2>3. /\ a \o b \in Seq(S) /\ Len(a \o b) = Len(a) + Len(b)
        /\ \A i \in 1 .. Len(a) + Len(b) :
             (a \o b)[i] = IF i <= Len(a) THEN a[i] ELSE b[i - Len(a)]
    BY <2>2, ConcatProperties
  <2> QED
    BY <2>1, <2>3
<1> HIDE DEF a, b, r
<1>5. /\ r \in Seq(S) /\ Len(r) = Len(s) - 1
      /\ \A i \in 1 .. Len(s) - 1 : r[i] = IF i < k THEN s[i] ELSE s[i + 1]
  <2>1. Len(a) = k - 1 /\ Len(b) = Len(s) - k /\ Len(a) + Len(b) = Len(s) - 1
    BY <1>1, <1>2, <1>3
  <2>2. \A i \in 1 .. Len(s) - 1 :
          r[i] = IF i <= k - 1 THEN a[i] ELSE b[i - (k - 1)]
    BY <1>4, <2>1
  <2>3. \A i \in 1 .. Len(s) - 1 : r[i] = IF i < k THEN s[i] ELSE s[i + 1]
    BY <1>1, <1>2, <1>3, <2>2, Joined
  <2> QED
    BY <1>4, <2>1, <2>3
<1> QED
  BY <1>5 DEF r

\* Taking an element out of a list of different elements.
LEMMA RemovedElements ==
    ASSUME NEW S, NEW s \in Seq(S), NEW k \in 1 .. Len(s),
           \A i, j \in 1 .. Len(s) : s[i] = s[j] => i = j
    PROVE  LET r == RemoveAt(s, k)
           IN  /\ \A i, j \in 1 .. Len(r) : r[i] = r[j] => i = j
               /\ {r[i] : i \in 1 .. Len(r)} = {s[i] : i \in 1 .. Len(s)} \ {s[k]}
<1> DEFINE r == RemoveAt(s, k)
<1>1. Len(s) \in Nat /\ k \in Int
  BY LenProperties
<1>2. /\ r \in Seq(S) /\ Len(r) = Len(s) - 1
      /\ \A i \in 1 .. Len(s) - 1 : r[i] = IF i < k THEN s[i] ELSE s[i + 1]
  BY RemovedAt
<1> HIDE DEF r
<1>3. ASSUME NEW i \in 1 .. Len(r), NEW j \in 1 .. Len(r), r[i] = r[j]
      PROVE  i = j
  BY <1>1, <1>2, <1>3
<1>4. ASSUME NEW x
      PROVE  (\E i \in 1 .. Len(r) : r[i] = x)
               <=> (\E i \in 1 .. Len(s) : s[i] = x) /\ x # s[k]
  <2>1. ASSUME NEW i \in 1 .. Len(r), r[i] = x
        PROVE  (\E m \in 1 .. Len(s) : s[m] = x) /\ x # s[k]
    BY <1>1, <1>2, <2>1
  <2>2. ASSUME NEW m \in 1 .. Len(s), s[m] = x, x # s[k]
        PROVE  \E i \in 1 .. Len(r) : r[i] = x
    <3>1. CASE m < k
      <4>1. m \in 1 .. Len(r) /\ r[m] = x
        BY <1>1, <1>2, <2>2, <3>1
      <4> QED
        BY <4>1
    <3>2. CASE m > k
      <4>1. m - 1 \in 1 .. Len(r) /\ r[m - 1] = x
        BY <1>1, <1>2, <2>2, <3>2
      <4> QED
        BY <4>1
    <3> QED
      BY <1>1, <2>2, <3>1, <3>2
  <2> QED
    BY <2>1, <2>2
<1>5. {r[i] : i \in 1 .. Len(r)} = {s[i] : i \in 1 .. Len(s)} \ {s[k]}
  <2>1. ASSUME NEW x
        PROVE  x \in {r[i] : i \in 1 .. Len(r)}
                 <=> x \in {s[i] : i \in 1 .. Len(s)} /\ x # s[k]
    <3>1. x \in {r[i] : i \in 1 .. Len(r)} <=> \E i \in 1 .. Len(r) : r[i] = x
      OBVIOUS
    <3>2. x \in {s[i] : i \in 1 .. Len(s)} <=> \E i \in 1 .. Len(s) : s[i] = x
      OBVIOUS
    <3> QED
      BY <1>4, <3>1, <3>2
  <2> QED
    BY <2>1
<1> QED
  BY <1>3, <1>5 DEF r

\* The same, of the elements one by one.
LEMMA Removed ==
    ASSUME NEW S, NEW s \in Seq(S), NEW k \in 1 .. Len(s),
           \A i, j \in 1 .. Len(s) : s[i] = s[j] => i = j
    PROVE  LET r == RemoveAt(s, k)
           IN  /\ r \in Seq(S) /\ Len(r) = Len(s) - 1
               /\ \A i, j \in 1 .. Len(r) : r[i] = r[j] => i = j
               /\ \A x : (\E i \in 1 .. Len(r) : r[i] = x)
                           <=> (\E i \in 1 .. Len(s) : s[i] = x) /\ x # s[k]
<1> DEFINE r == RemoveAt(s, k)
<1>1. r \in Seq(S) /\ Len(r) = Len(s) - 1
  BY RemovedAt
<1>2. /\ \A i, j \in 1 .. Len(r) : r[i] = r[j] => i = j
      /\ {r[i] : i \in 1 .. Len(r)} = {s[i] : i \in 1 .. Len(s)} \ {s[k]}
  BY RemovedElements
<1> HIDE DEF r
<1>3. ASSUME NEW x
      PROVE  (\E i \in 1 .. Len(r) : r[i] = x)
               <=> (\E i \in 1 .. Len(s) : s[i] = x) /\ x # s[k]
  <2>1. x \in {r[i] : i \in 1 .. Len(r)} <=> \E i \in 1 .. Len(r) : r[i] = x
    OBVIOUS
  <2>2. x \in {s[i] : i \in 1 .. Len(s)} <=> \E i \in 1 .. Len(s) : s[i] = x
    OBVIOUS
  <2> QED
    BY <1>2, <2>1, <2>2
<1> QED
  BY <1>1, <1>2, <1>3 DEF r

\* A set of natural numbers has a least one.
LEMMA Least ==
    ASSUME NEW T, T \subseteq Nat, T # {}
    PROVE  \E x \in T : \A y \in T : x <= y
<1> DEFINE R == {ss \in Nat \X Nat : ss[1] < ss[2]}
<1>1. IsWellFoundedOn(R, Nat)
  BY NatLessThanWellFounded DEF OpToRel
<1>2. PICK x \in T : \A y \in T : ~(<<y, x>> \in R)
  <2> HIDE DEF R
  <2> QED
    BY <1>1, WFMin
<1>3. ASSUME NEW y \in T PROVE x <= y
  <2>1. x \in Nat /\ y \in Nat
    OBVIOUS
  <2>2. ~(y < x)
    <3>1. SUFFICES ASSUME y < x PROVE FALSE
      OBVIOUS
    <3>2. <<y, x>> \in R
      BY <2>1, <3>1
    <3> QED
      BY <1>2, <3>2
  <2> QED
    BY <2>1, <2>2
<1> QED
  BY <1>3

\* Putting an element into a list.
LEMMA Inserted ==
    ASSUME NEW S, NEW s \in Seq(S), NEW e \in S, NEW k \in 1 .. Len(s) + 1
    PROVE  LET r == InsertAt(s, k, e)
           IN  /\ r \in Seq(S) /\ Len(r) = Len(s) + 1
               /\ \A i \in 1 .. Len(s) + 1 :
                    r[i] = IF i < k THEN s[i] ELSE IF i = k THEN e ELSE s[i - 1]
<1> DEFINE a == SubSeq(s, 1, k - 1)
           b == SubSeq(s, k, Len(s))
           n == Len(s)
<1>1. /\ n \in Nat /\ k \in Int /\ k >= 1 /\ k <= n + 1
      /\ \A i \in 1 .. n : s[i] \in S
  BY LenProperties, ElementOfSeq
<1>2. /\ a \in Seq(S) /\ Len(a) = k - 1
      /\ \A i \in 1 .. k - 1 : a[i] = s[i]
  <2>1. \A i \in 1 .. k - 1 : s[i] \in S
    BY <1>1
  <2>2. /\ SubSeq(s, 1, k - 1) \in Seq(S)
        /\ Len(SubSeq(s, 1, k - 1)) = IF 1 <= k - 1 THEN (k - 1) - 1 + 1 ELSE 0
        /\ \A i \in 1 .. (k - 1) - 1 + 1 : SubSeq(s, 1, k - 1)[i] = s[1 + i - 1]
    BY <1>1, <2>1, SubSeqProperties
  <2> QED
    BY <1>1, <2>2
<1>3. /\ b \in Seq(S) /\ Len(b) = n - k + 1
      /\ \A i \in 1 .. n - k + 1 : b[i] = s[k + i - 1]
  <2>1. \A i \in k .. n : s[i] \in S
    BY <1>1
  <2>2. /\ SubSeq(s, k, Len(s)) \in Seq(S)
        /\ Len(SubSeq(s, k, Len(s))) = IF k <= Len(s) THEN Len(s) - k + 1 ELSE 0
        /\ \A i \in 1 .. Len(s) - k + 1 : SubSeq(s, k, Len(s))[i] = s[k + i - 1]
    BY <1>1, <2>1, SubSeqProperties
  <2> QED
    BY <1>1, <2>2
<1>4. \A x, y \in Seq(S) :
        /\ x \o y \in Seq(S) /\ Len(x \o y) = Len(x) + Len(y)
        /\ \A i \in 1 .. Len(x) : (x \o y)[i] = x[i]
        /\ \A i \in 1 .. Len(y) : (x \o y)[Len(x) + i] = y[i]
  BY Concatenated
<1> DEFINE c == <<e>>
           f == a \o c
           r == f \o b
<1>5. c \in Seq(S) /\ Len(c) = 1 /\ c[1] = e
  OBVIOUS
<1>5a. InsertAt(s, k, e) = r
  BY DEF InsertAt
<1> HIDE DEF a, b, c
<1>6. /\ f \in Seq(S) /\ Len(f) = k
      /\ \A i \in 1 .. k - 1 : f[i] = s[i]
      /\ f[k] = e
  <2>1. /\ f \in Seq(S) /\ Len(f) = Len(a) + Len(c)
        /\ \A i \in 1 .. Len(a) : f[i] = a[i]
        /\ \A i \in 1 .. Len(c) : f[Len(a) + i] = c[i]
    BY <1>2, <1>4, <1>5
  <2>2. 1 \in 1 .. Len(c)
    BY <1>5
  <2> QED
    BY <1>1, <1>2, <1>5, <2>1, <2>2
<1> HIDE DEF f
<1>7. /\ r \in Seq(S) /\ Len(r) = n + 1
      /\ \A i \in 1 .. k : r[i] = f[i]
      /\ \A i \in 1 .. n - k + 1 : r[k + i] = b[i]
  <2>1. /\ r \in Seq(S) /\ Len(r) = Len(f) + Len(b)
        /\ \A i \in 1 .. Len(f) : r[i] = f[i]
        /\ \A i \in 1 .. Len(b) : r[Len(f) + i] = b[i]
    BY <1>3, <1>4, <1>6
  <2> QED
    BY <1>1, <1>3, <1>6, <2>1
<1> HIDE DEF r, n
<1>9. ASSUME NEW i \in 1 .. n + 1
      PROVE  r[i] = IF i < k THEN s[i] ELSE IF i = k THEN e ELSE s[i - 1]
  <2>1. CASE i <= k
    <3>1. i \in 1 .. k /\ (i < k => i \in 1 .. k - 1)
      BY <1>1, <2>1
    <3> QED
      BY <1>1, <1>6, <1>7, <2>1, <3>1
  <2>2. CASE i > k
    <3>1. i - k \in 1 .. n - k + 1 /\ k + (i - k) = i /\ k + (i - k) - 1 = i - 1
      BY <1>1, <2>2
    <3>2. r[k + (i - k)] = b[i - k] /\ b[i - k] = s[k + (i - k) - 1]
      BY <1>3, <1>7, <3>1
    <3> QED
      BY <1>1, <2>2, <3>1, <3>2
  <2> QED
    BY <1>1, <2>1, <2>2
<1> QED
  BY <1>5a, <1>7, <1>9 DEF n

-----------------------------------------------------------------------------
(* Folds over a list: FoldLeft is a recursive function on sets of positions, *)
(* which must be shown to exist.                                             *)

\* Induction: a set with 0, and with the next number of each of its numbers.
LEMMA Induction ==
    ASSUME NEW T, 0 \in T, \A k \in Nat : k \in T => k + 1 \in T
    PROVE  \A k \in Nat : k \in T
<1> DEFINE B == {k \in Nat : k \notin T}
<1>1. SUFFICES ASSUME B # {} PROVE FALSE
  OBVIOUS
<1>2. PICK x \in B : \A y \in B : x <= y
  <2>1. B \subseteq Nat
    OBVIOUS
  <2> HIDE DEF B
  <2> QED
    BY <1>1, <2>1, Least
<1>3. x \in Nat /\ x # 0
  OBVIOUS
<1>4. x - 1 \in Nat /\ x - 1 \notin B
  BY <1>2, <1>3
<1> QED
  BY <1>3, <1>4

\* The greatest of a set of positions.
LEMMA Greatest ==
    ASSUME NEW n \in Nat, NEW s \in SUBSET (1 .. n), s # {}
    PROVE  Max(s) \in s /\ \A y \in s : y <= Max(s)
<1> DEFINE T == {n - x : x \in s}
<1>1. PICK z \in T : \A y \in T : z <= y
  <2>0. \A x \in s : x \in 1 .. n /\ n - x \in Nat
    OBVIOUS
  <2>1. T \subseteq Nat /\ T # {}
    BY <2>0
  <2> HIDE DEF T
  <2> QED
    BY <2>1, Least
<1>2. PICK x \in s : z = n - x
  OBVIOUS
<1>3. \A y \in s : x >= y
  <2> TAKE y \in s
  <2>1. n - x <= n - y
    BY <1>1, <1>2
  <2> QED
    BY <2>1
<1>4. \E m \in s : \A y \in s : m >= y
  BY <1>3
<1>5. Max(s) \in s /\ \A y \in s : Max(s) >= y
  BY <1>4 DEF Max
<1> QED
  BY <1>5

\* The function on sets of positions by which FoldLeft is defined, for an
\* operator that is the function f on the values S and the elements of t.
FoldsSets(g, S, f, base, n, t) ==
    /\ g \in [SUBSET (1 .. n) -> S]
    /\ \A s \in SUBSET (1 .. n) :
         g[s] = IF s = {} THEN base ELSE f[g[s \ {Max(s)}]][t[Max(s)]]

\* The values that a fold goes through.
FoldsUp(v, S, f, base, n, t) ==
    /\ v \in [0 .. n -> S] /\ v[0] = base
    /\ \A k \in 1 .. n : v[k] = f[v[k - 1]][t[k]]

LEMMA FoldExists ==
    ASSUME NEW S, NEW X, NEW f \in [S -> [X -> S]], NEW base \in S,
           NEW n \in Nat, NEW t \in [1 .. n -> X]
    PROVE  \E g : FoldsSets(g, S, f, base, n, t)
<1> DEFINE Q(k) == \E g \in [SUBSET (1 .. k) -> S] : \A s \in SUBSET (1 .. k) :
               g[s] = IF s = {} THEN base ELSE f[g[s \ {Max(s)}]][t[Max(s)]]
           T == {k \in Nat : k <= n => Q(k)}
<1>1. Q(0)
  <2> DEFINE g == [s \in SUBSET (1 .. 0) |-> base]
  <2>1. g \in [SUBSET (1 .. 0) -> S]
    OBVIOUS
  <2>2. \A s \in SUBSET (1 .. 0) : s = {} /\ g[s] = base
    OBVIOUS
  <2> HIDE DEF g
  <2> QED
    BY <2>1, <2>2
<1>2. ASSUME NEW k \in Nat, k + 1 <= n, Q(k) PROVE Q(k + 1)
  <2>2. PICK g \in [SUBSET (1 .. k) -> S] : \A s \in SUBSET (1 .. k) :
               g[s] = IF s = {} THEN base ELSE f[g[s \ {Max(s)}]][t[Max(s)]]
    BY <1>2
  <2> HIDE DEF Q
  <2> DEFINE h == [s \in SUBSET (1 .. k + 1) |->
                     IF k + 1 \in s THEN f[g[s \ {k + 1}]][t[k + 1]] ELSE g[s]]
  <2>3. ASSUME NEW s \in SUBSET (1 .. k + 1)
        PROVE  /\ s \ {k + 1} \in SUBSET (1 .. k)
               /\ k + 1 \notin s => s \in SUBSET (1 .. k)
    OBVIOUS
  <2>4. t[k + 1] \in X
    BY <1>2
  <2>5. h \in [SUBSET (1 .. k + 1) -> S]
    <3>1. ASSUME NEW s \in SUBSET (1 .. k + 1)
          PROVE  (IF k + 1 \in s THEN f[g[s \ {k + 1}]][t[k + 1]] ELSE g[s]) \in S
      <4>1. CASE k + 1 \in s
        <5>1. g[s \ {k + 1}] \in S
          BY <2>3
        <5>2. f[g[s \ {k + 1}]] \in [X -> S]
          BY <5>1
        <5>3. f[g[s \ {k + 1}]][t[k + 1]] \in S
          BY <2>4, <5>2
        <5> QED
          BY <4>1, <5>3
      <4>2. CASE k + 1 \notin s
        BY <2>3, <4>2
      <4> QED
        BY <4>1, <4>2
    <3> QED
      BY <3>1
  <2>7. ASSUME NEW s \in SUBSET (1 .. k + 1)
        PROVE  /\ k + 1 \in s => h[s] = f[g[s \ {k + 1}]][t[k + 1]]
               /\ k + 1 \notin s => h[s] = g[s]
    OBVIOUS
  <2> HIDE DEF h
  <2>6. ASSUME NEW s \in SUBSET (1 .. k + 1)
        PROVE  h[s] = IF s = {} THEN base ELSE f[h[s \ {Max(s)}]][t[Max(s)]]
    <3>1. CASE k + 1 \in s
      <4>1. Max(s) = k + 1
        <5>1. k + 1 \in Nat /\ s # {}
          BY <3>1
        <5>2. Max(s) \in s /\ \A y \in s : y <= Max(s)
          BY <5>1, Greatest
        <5>3. Max(s) \in 1 .. k + 1 /\ k + 1 <= Max(s)
          BY <3>1, <5>2
        <5> QED
          BY <5>3
      <4>2. s \ {k + 1} \in SUBSET (1 .. k + 1) /\ k + 1 \notin s \ {k + 1}
        OBVIOUS
      <4>3. h[s \ {k + 1}] = g[s \ {k + 1}]
        BY <2>7, <4>2
      <4> QED
        BY <2>7, <3>1, <4>1, <4>3
    <3>2. CASE k + 1 \notin s
      <4>1. h[s] = g[s] /\ s \in SUBSET (1 .. k)
        BY <2>3, <2>7, <3>2
      <4>2. CASE s = {}
        BY <2>2, <4>1, <4>2
      <4>3. CASE s # {}
        <5>1. Max(s) \in s
          BY <4>1, <4>3, Greatest
        <5>2. h[s \ {Max(s)}] = g[s \ {Max(s)}]
          BY <2>7, <3>2
        <5> QED
          BY <2>2, <4>1, <4>3, <5>2
      <4> QED
        BY <4>2, <4>3
    <3> QED
      BY <3>1, <3>2
  <2> QED
    BY <2>5, <2>6 DEF Q
<1> HIDE DEF Q
<1>3. 0 \in T /\ \A k \in Nat : k \in T => k + 1 \in T
  BY <1>1, <1>2
<1>4. n \in T
  <2> HIDE DEF T
  <2> QED
    BY <1>3, Induction
<1>5. Q(n)
  BY <1>4
<1> QED
  BY <1>5 DEF Q, FoldsSets

LEMMA RunExists ==
    ASSUME NEW S, NEW X, NEW f \in [S -> [X -> S]], NEW base \in S,
           NEW n \in Nat, NEW t \in [1 .. n -> X]
    PROVE  \E v : FoldsUp(v, S, f, base, n, t)
<1> DEFINE Q(k) == \E v \in [0 .. k -> S] :
             v[0] = base /\ \A j \in 1 .. k : v[j] = f[v[j - 1]][t[j]]
           T == {k \in Nat : k <= n => Q(k)}
<1>1. Q(0)
  <2> DEFINE v == [k \in 0 .. 0 |-> base]
  <2>1. v \in [0 .. 0 -> S] /\ v[0] = base
    OBVIOUS
  <2> HIDE DEF v
  <2> QED
    BY <2>1
<1>2. ASSUME NEW k \in Nat, k + 1 <= n, Q(k) PROVE Q(k + 1)
  <2>2. PICK v \in [0 .. k -> S] :
          v[0] = base /\ \A j \in 1 .. k : v[j] = f[v[j - 1]][t[j]]
    BY <1>2
  <2> HIDE DEF Q
  <2> DEFINE w == [j \in 0 .. k + 1 |-> IF j = k + 1 THEN f[v[k]][t[k + 1]] ELSE v[j]]
  <2>3. w \in [0 .. k + 1 -> S]
    <3>1. f[v[k]][t[k + 1]] \in S
      BY <1>2, <2>2
    <3> QED
      BY <2>2, <3>1
  <2>4. w[k + 1] = f[v[k]][t[k + 1]] /\ \A j \in 0 .. k : w[j] = v[j]
    OBVIOUS
  <2> HIDE DEF w
  <2>5. ASSUME NEW j \in 1 .. k + 1 PROVE w[j] = f[w[j - 1]][t[j]]
    <3>1. CASE j = k + 1
      BY <2>4, <3>1
    <3>2. CASE j # k + 1
      <4>1. j \in 1 .. k /\ j \in 0 .. k /\ j - 1 \in 0 .. k
        BY <3>2
      <4> QED
        BY <2>2, <2>4, <4>1
    <3> QED
      BY <3>1, <3>2
  <2>6. w[0] = base
    BY <2>2, <2>4
  <2> QED
    BY <2>3, <2>5, <2>6 DEF Q
<1> HIDE DEF Q
<1>3. 0 \in T /\ \A k \in Nat : k \in T => k + 1 \in T
  BY <1>1, <1>2
<1>4. n \in T
  <2> HIDE DEF T
  <2> QED
    BY <1>3, Induction
<1>5. Q(n)
  BY <1>4
<1> QED
  BY <1>5 DEF Q, FoldsUp

\* Such a function, of which it is not yet known that its values are in S.
FoldsInto(g, S, f, base, n, t) ==
    \A s \in SUBSET (1 .. n) :
      /\ s = {} => g[s] = base
      /\ s # {} /\ g[s \ {Max(s)}] \in S =>
           g[s] = f[g[s \ {Max(s)}]][t[Max(s)]]

FoldsTo(x, S, f, base, n, t) ==
    \E v : FoldsUp(v, S, f, base, n, t) /\ v[n] = x

\* What such a function gives for all positions is where the fold ends.
LEMMA FoldRuns ==
    ASSUME NEW S, NEW X, NEW f \in [S -> [X -> S]], NEW base \in S,
           NEW n \in Nat, NEW t \in [1 .. n -> X], NEW g,
           FoldsInto(g, S, f, base, n, t)
    PROVE  FoldsTo(g[1 .. n], S, f, base, n, t)
<1>1. PICK v : FoldsUp(v, S, f, base, n, t)
  BY RunExists
<1>2. /\ v \in [0 .. n -> S] /\ v[0] = base
      /\ \A k \in 1 .. n : v[k] = f[v[k - 1]][t[k]]
  BY <1>1 DEF FoldsUp
<1> DEFINE T == {k \in Nat : k <= n => g[1 .. k] = v[k]}
<1>3. 0 \in T
  <2>1. 1 .. 0 = {} /\ {} \in SUBSET (1 .. n)
    OBVIOUS
  <2> QED
    BY <1>2, <2>1 DEF FoldsInto
<1>4. ASSUME NEW k \in Nat, k \in T PROVE k + 1 \in T
  <2>1. SUFFICES ASSUME k + 1 <= n PROVE g[1 .. k + 1] = v[k + 1]
    OBVIOUS
  <2>2. /\ k + 1 \in 1 .. k + 1 /\ 1 .. k + 1 \in SUBSET (1 .. n)
        /\ k + 1 \in 1 .. n /\ k \in 0 .. n /\ k + 1 - 1 = k
    BY <2>1
  <2>3. Max(1 .. k + 1) = k + 1
    <3>1. k + 1 \in Nat
      OBVIOUS
    <3>2. 1 .. k + 1 # {}
      BY <2>2
    <3>3. /\ Max(1 .. k + 1) \in 1 .. k + 1
          /\ \A y \in 1 .. k + 1 : y <= Max(1 .. k + 1)
      BY <3>1, <3>2, Greatest
    <3>4. k + 1 \in 1 .. k + 1
      BY <2>2
    <3> QED
      BY <3>3, <3>4
  <2>4. (1 .. k + 1) \ {k + 1} = 1 .. k
    OBVIOUS
  <2>5. g[1 .. k] = v[k] /\ v[k] \in S
    BY <1>2, <1>4, <2>1, <2>2
  <2>6. 1 .. k + 1 # {}
    BY <2>2
  <2>7. g[1 .. k + 1] = f[g[1 .. k]][t[k + 1]]
    BY <2>2, <2>3, <2>4, <2>5, <2>6 DEF FoldsInto
  <2> QED
    BY <1>2, <2>2, <2>5, <2>7
<1>5. n \in T
  <2> HIDE DEF T
  <2> QED
    BY <1>3, <1>4, Induction
<1> QED
  BY <1>1, <1>5 DEF FoldsTo

\* u is t with the element x at its end.
Longer(u, t, x, X) == t \in Seq(X) /\ x \in X /\ u = Append(t, x)

\* Folding one element more is one step more.
LEMMA FoldsFurther ==
    ASSUME NEW S, NEW X, NEW f, NEW base, NEW t, NEW x, NEW u, NEW a, NEW b,
           Longer(u, t, x, X),
           FoldsTo(a, S, f, base, Len(t), t), FoldsTo(b, S, f, base, Len(u), u)
    PROVE  a \in S /\ b = f[a][x]
<1> DEFINE n == Len(t)
<1>1. /\ n \in Nat /\ Len(u) = n + 1 /\ \A k \in 1 .. n : u[k] = t[k]
      /\ u[n + 1] = x
  BY LenProperties, AppendProperties DEF Longer
<1>2. PICK v : FoldsUp(v, S, f, base, n, t) /\ v[n] = a
  BY DEF FoldsTo
<1>3. PICK w : FoldsUp(w, S, f, base, n + 1, u) /\ w[n + 1] = b
  BY <1>1 DEF FoldsTo
<1> HIDE DEF n
<1>4. /\ v \in [0 .. n -> S] /\ v[0] = base
      /\ \A k \in 1 .. n : v[k] = f[v[k - 1]][t[k]]
      /\ w \in [0 .. n + 1 -> S] /\ w[0] = base
      /\ \A k \in 1 .. n + 1 : w[k] = f[w[k - 1]][u[k]]
  BY <1>2, <1>3 DEF FoldsUp
<1> DEFINE T == {k \in Nat : k <= n => w[k] = v[k]}
<1>5. 0 \in T
  BY <1>4
<1>6. ASSUME NEW k \in Nat, k \in T PROVE k + 1 \in T
  <2>1. SUFFICES ASSUME k + 1 <= n PROVE w[k + 1] = v[k + 1]
    OBVIOUS
  <2>2. k + 1 \in 1 .. n /\ k + 1 \in 1 .. n + 1 /\ k + 1 - 1 = k /\ k <= n
    BY <1>1, <2>1
  <2>3. w[k + 1] = f[w[k]][u[k + 1]] /\ v[k + 1] = f[v[k]][t[k + 1]]
    BY <1>4, <2>2
  <2>4. w[k] = v[k] /\ u[k + 1] = t[k + 1]
    BY <1>1, <1>6, <2>2
  <2> QED
    BY <2>3, <2>4
<1>7. w[n] = v[n]
  <2>1. n \in T
    <3> HIDE DEF T
    <3> QED
      BY <1>1, <1>5, <1>6, Induction
  <2> QED
    BY <1>1, <2>1
<1>8. n + 1 \in 1 .. n + 1 /\ n + 1 - 1 = n /\ n \in 0 .. n
  BY <1>1
<1>9. w[n + 1] = f[w[n]][u[n + 1]] /\ v[n] \in S
  BY <1>4, <1>8
<1> QED
  BY <1>1, <1>2, <1>3, <1>7, <1>9
=============================================================================
