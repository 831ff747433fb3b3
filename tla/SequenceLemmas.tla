---------------------------- MODULE SequenceLemmas ----------------------------
(***************************************************************************)
(* What the other proofs need to know about natural numbers and about the  *)
(* sequences that FlattenSeq makes.  Induction is over a set of naturals:  *)
(* whatever holds for a number unless it fails for a smaller one.          *)
(***************************************************************************)
EXTENDS Integers, SequencesExt, SequenceTheorems, WellFoundedInduction, TLAPS

(* The order of the naturals is well founded, as a set of pairs.           *)
LEMMA NatOrder ==
  \E R : IsWellFoundedOn(R, Nat) /\ R = {p \in Nat \X Nat : p[1] < p[2]}
<1>1. IsWellFoundedOn({p \in Nat \X Nat : p[1] < p[2]}, Nat)
  BY NatLessThanWellFounded, Zenon DEF OpToRel
<1> QED
  BY <1>1, Zenon

(* Every set of naturals has a least element.                              *)
LEMMA LeastNat ==
  ASSUME NEW S \in SUBSET Nat, S # {}
  PROVE  \E n \in S : \A m \in S : n <= m
<1>1. PICK R : IsWellFoundedOn(R, Nat) /\ R = {p \in Nat \X Nat : p[1] < p[2]}
  BY NatOrder, Zenon
<1>2. PICK n \in S : \A m \in S : <<m, n>> \notin R
  BY <1>1, WFMin, Zenon
<1>3. ASSUME NEW m \in S PROVE n <= m
  <2>1. <<m, n>> \notin {p \in Nat \X Nat : p[1] < p[2]}
    BY <1>1, <1>2, Zenon
  <2>2. m \in Nat /\ n \in Nat
    OBVIOUS
  <2> QED
    BY <2>1, <2>2
<1> QED
  BY <1>3

(* A set of naturals with a bound has a greatest element.                  *)
LEMMA GreatestNat ==
  ASSUME NEW S \in SUBSET Nat, S # {}, NEW b \in Nat, \A n \in S : n <= b
  PROVE  \E n \in S : \A m \in S : m <= n
<1> DEFINE D == {b - n : n \in S}
<1>1. D \in SUBSET Nat /\ D # {}
  <2>1. \A n \in S : n \in Nat /\ b - n \in Nat
    OBVIOUS
  <2> QED
    BY <2>1
<1>2. PICK d \in D : \A e \in D : d <= e
  BY <1>1, LeastNat
<1>3. PICK n \in S : d = b - n
  BY <1>2
<1>4. ASSUME NEW m \in S PROVE m <= n
  <2>1. b - m \in D
    OBVIOUS
  <2> QED
    BY <1>2, <1>3, <2>1
<1> QED
  BY <1>4

(* Induction over the naturals up to n.                                    *)
LEMMA UptoInduction ==
  ASSUME NEW n \in Nat, NEW S, 1 \in S,
         \A k \in 1 .. n - 1 : k \in S => k + 1 \in S
  PROVE  1 .. n \subseteq S
<1> DEFINE F == {k \in Nat : k \in 1 .. n /\ k \notin S}
<1> SUFFICES ASSUME F # {} PROVE FALSE
  OBVIOUS
<1>1. PICK k \in F : \A m \in F : k <= m
  <2>1. F \in SUBSET Nat
    OBVIOUS
  <2> QED
    BY <2>1, LeastNat
<1>2. k \in 2 .. n /\ k - 1 \in Nat /\ k - 1 \notin F
  BY <1>1
<1>3. k - 1 \in S /\ k - 1 \in 1 .. n - 1
  BY <1>2
<1> QED
  BY <1>1, <1>2, <1>3

LEMMA TimesPlus ==
  ASSUME NEW k \in Nat, NEW w \in Nat, NEW l \in Nat
  PROVE  k * w + l \in Nat
  OBVIOUS

(* s is a sequence of n elements; z is x and behind it y.                  *)
OfLength(s, T, n) == n \in Nat /\ s \in Seq(T) /\ Len(s) = n
Joined(z, x, a, y, b) ==
  (\A i \in 1 .. a : z[i] = x[i]) /\ \A i \in 1 .. b : z[a + i] = y[i]

(* The places of two sequences joined.                                     *)
LEMMA ConcatAt ==
  ASSUME NEW T, NEW x, NEW y, NEW a, NEW b, OfLength(x, T, a), OfLength(y, T, b)
  PROVE  OfLength(x \o y, T, a + b) /\ Joined(x \o y, x, a, y, b)
<1> USE DEF OfLength
<1>1. /\ x \o y \in Seq(T) /\ Len(x \o y) = Len(x) + Len(y)
      /\ \A i \in 1 .. Len(x) + Len(y) :
           (x \o y)[i] = IF i <= Len(x) THEN x[i] ELSE y[i - Len(x)]
  BY ConcatProperties
<1>2. /\ Len(x \o y) = a + b
      /\ \A i \in 1 .. a + b : (x \o y)[i] = IF i <= a THEN x[i] ELSE y[i - a]
  BY <1>1
<1>3. ASSUME NEW i \in 1 .. a PROVE (x \o y)[i] = x[i]
  BY <1>2
<1>4. ASSUME NEW i \in 1 .. b PROVE (x \o y)[a + i] = y[i]
  <2>1. a + i \in 1 .. a + b /\ ~(a + i <= a) /\ (a + i) - a = i
    OBVIOUS
  <2> QED
    BY <1>2, <2>1
<1> QED
  BY <1>1, <1>2, <1>3, <1>4 DEF Joined

(* The places of a sequence and of one element behind it.                  *)
LEMMA AppendPlaces ==
  ASSUME NEW T, NEW s \in Seq(T), NEW e \in T, NEW k, Len(s) = k
  PROVE  /\ Append(s, e) \in Seq(T) /\ Len(Append(s, e)) = k + 1
         /\ Append(s, e)[k + 1] = e /\ \A i \in 1 .. k : Append(s, e)[i] = s[i]
  BY AppendProperties

(* The places of a piece of a sequence, n elements after the first a.      *)
PieceOf(p, s, a, n) == \A i \in 1 .. n : p[i] = s[a + i]
LEMMA PieceAt ==
  ASSUME NEW T, NEW s, NEW l, OfLength(s, T, l), NEW a \in Nat, NEW n \in 0 .. l - a
  PROVE  OfLength(SubSeq(s, a + 1, a + n), T, n) /\ PieceOf(SubSeq(s, a + 1, a + n), s, a, n)
<1>1. n \in Nat /\ l \in Nat /\ a + n <= l /\ s \in Seq(T) /\ Len(s) = l
  BY DEF OfLength
<1>2. SubSeq(s, a + 1, a + n) \in Seq(T) /\ Len(SubSeq(s, a + 1, a + n)) = n
  BY <1>1
<1>3. \A i \in 1 .. n : SubSeq(s, a + 1, a + n)[i] = s[a + i]
  BY <1>1
<1> QED
  BY <1>1, <1>2, <1>3 DEF OfLength, PieceOf

(* Sequences that agree at every place are equal.                          *)
LEMMA SameSequence ==
  ASSUME NEW T, NEW s, NEW t, NEW n, OfLength(s, T, n), OfLength(t, T, n),
         \A i \in 1 .. n : s[i] = t[i]
  PROVE  s = t
  BY SeqEqual DEF OfLength

(* A product leaves no remainder, and what leaves none is a product.       *)
LEMMA TimesMod == ASSUME NEW k \in Nat, NEW w \in Nat \ {0} PROVE (k * w) % w = 0
  OBVIOUS
LEMMA ModZero ==
  ASSUME NEW n \in Nat, NEW w \in Nat \ {0}, n % w = 0
  PROVE  \E k \in Nat : k * w = n
<1>1. n \div w \in Nat /\ (n \div w) * w = n
  OBVIOUS
<1> QED
  BY <1>1

(* Parts of one width that begin one after the other do not overlap.       *)
LEMMA TimesLess ==
  ASSUME NEW k \in Nat, NEW n \in Nat, k < n, NEW w \in Nat
  PROVE  k * w \in Nat /\ n * w \in Nat /\ k * w + w <= n * w
<1>1. PICK d \in Nat : n = k + 1 + d
  <2>1. n - k - 1 \in Nat /\ n = k + 1 + (n - k - 1)
    OBVIOUS
  <2> QED
    BY <2>1
<1>2. (k + 1 + d) * w = k * w + w + d * w /\ d * w \in Nat /\ k * w \in Nat
  OBVIOUS
<1> QED
  BY <1>1, <1>2

-------------------------------------------------------------------------------
(* FlattenSeq.  Its recursive function is defined on the places of the     *)
(* sequence: it exists and is the only one, step by step.                  *)
Flattening(s, f, n) ==
  \A i \in 1 .. n : f[i] = IF i = 1 THEN s[i] ELSE f[i - 1] \o s[i]

LEMMA FlatteningExists ==
  ASSUME NEW T, NEW s \in Seq(Seq(T)), Len(s) > 0
  PROVE  \E f \in [1 .. Len(s) -> Seq(T)] : Flattening(s, f, Len(s))
<1> DEFINE S == {n \in Nat : \E f \in [1 .. n -> Seq(T)] : Flattening(s, f, n)}
<1>1. Len(s) \in Nat /\ \A i \in 1 .. Len(s) : s[i] \in Seq(T)
  BY LenProperties, ElementOfSeq
<1>2. 1 \in S
  <2> DEFINE f == [i \in 1 .. 1 |-> s[1]]
  <2>1. f \in [1 .. 1 -> Seq(T)] /\ Flattening(s, f, 1)
    BY <1>1 DEF Flattening
  <2> QED
    BY <2>1
<1>3. ASSUME NEW k \in 1 .. Len(s) - 1, k \in S PROVE k + 1 \in S
  <2>1. PICK f \in [1 .. k -> Seq(T)] : Flattening(s, f, k)
    BY <1>3
  <2> DEFINE g == [i \in 1 .. k + 1 |-> IF i = k + 1 THEN f[k] \o s[k + 1] ELSE f[i]]
  <2>2. k \in Nat /\ k + 1 \in 1 .. Len(s) /\ k \in 1 .. k
    BY <1>1
  <2>3. f[k] \o s[k + 1] \in Seq(T)
    BY <1>1, <2>2, ConcatProperties
  <2>4. g \in [1 .. k + 1 -> Seq(T)]
    BY <2>2, <2>3
  <2>5. ASSUME NEW i \in 1 .. k + 1
        PROVE  g[i] = IF i = 1 THEN s[i] ELSE g[i - 1] \o s[i]
    <3>1. CASE i = k + 1
      <4>1. i # 1 /\ i - 1 = k /\ k # k + 1 /\ k \in 1 .. k + 1
        BY <2>2, <3>1
      <4> QED
        BY <3>1, <4>1
    <3>2. CASE i # k + 1
      <4>1. i \in 1 .. k /\ (i # 1 => i - 1 \in 1 .. k + 1 /\ i - 1 # k + 1)
        BY <2>2, <3>2
      <4>2. f[i] = IF i = 1 THEN s[i] ELSE f[i - 1] \o s[i]
        BY <2>1, <4>1 DEF Flattening
      <4> QED
        BY <3>2, <4>1, <4>2
    <3> QED
      BY <3>1, <3>2
  <2> HIDE DEF g
  <2>6. Flattening(s, g, k + 1)
    BY <2>5 DEF Flattening
  <2> QED
    BY <2>2, <2>4, <2>6
<1>4. 1 .. Len(s) \subseteq S
  <2> HIDE DEF S
  <2> QED
    BY <1>1, <1>2, <1>3, UptoInduction
<1>5. Len(s) \in S
  <2>1. Len(s) \in 1 .. Len(s)
    BY <1>1
  <2> HIDE DEF S
  <2> QED
    BY <1>4, <2>1, Zenon
<1> QED
  BY <1>5, Zenon

(* FlattenSeq joins the parts of a sequence one after the other.           *)
LEMMA FlattenSteps ==
  ASSUME NEW T, NEW s \in Seq(Seq(T)), Len(s) > 0
  PROVE  \E f \in [1 .. Len(s) -> Seq(T)] :
           Flattening(s, f, Len(s)) /\ FlattenSeq(s) = f[Len(s)]
<1> DEFINE n == Len(s)
           Def(f) == f = [i \in 1 .. n |-> IF i = 1 THEN s[i] ELSE f[i - 1] \o s[i]]
           g == CHOOSE f : Def(f)
<1>1. n \in Nat /\ n # 0 /\ n >= 1
  BY LenProperties
<1>2. PICK f \in [1 .. n -> Seq(T)] : Flattening(s, f, n)
  BY FlatteningExists
<1>3. Def(f)
  BY <1>2 DEF Flattening
<1>4. Def(g)
  BY <1>3, Zenon
<1>5. FlattenSeq(s) = g[n]
  BY <1>1, Zenon DEF FlattenSeq
<1> HIDE DEF g
<1>6. \A i \in 1 .. n : g[i] = IF i = 1 THEN s[i] ELSE g[i - 1] \o s[i]
  BY <1>4
<1> HIDE DEF Def
<1> DEFINE S == {i \in 1 .. n : g[i] = f[i]}
<1>7. 1 \in S
  <2>1. 1 \in 1 .. n
    BY <1>1
  <2>2. g[1] = s[1] /\ f[1] = s[1]
    BY <1>2, <1>6, <2>1 DEF Flattening
  <2> QED
    BY <2>1, <2>2
<1>8. ASSUME NEW k \in 1 .. n - 1, k \in S PROVE k + 1 \in S
  <2>1. k + 1 \in 1 .. n /\ k + 1 # 1 /\ (k + 1) - 1 = k
    BY <1>1
  <2>2. g[k + 1] = g[k] \o s[k + 1] /\ f[k + 1] = f[k] \o s[k + 1]
    BY <1>2, <1>6, <2>1 DEF Flattening
  <2> QED
    BY <1>8, <2>1, <2>2
<1>9. 1 .. n \subseteq S
  <2> HIDE DEF S
  <2> QED
    BY <1>1, <1>7, <1>8, UptoInduction
<1>10. g[n] = f[n]
  <2>1. n \in 1 .. n
    BY <1>1
  <2> QED
    BY <1>9, <2>1
<1> QED
  BY <1>2, <1>5, <1>10

(* n parts of width w, of which only the last may be of another width; and *)
(* a sequence that has them at their places.                               *)
Parts(s, w, n) == n = Len(s) /\ n > 0 /\ \A i \in 1 .. n - 1 : Len(s[i]) = w
Joins(t, s, w, n) ==
  /\ Len(t) = (n - 1) * w + Len(s[n])
  /\ \A i \in 1 .. n : \A r \in 1 .. Len(s[i]) : t[(i - 1) * w + r] = s[i][r]

(* Flattening puts every part at its place.                                *)
LEMMA FlattenBlocks ==
  ASSUME NEW T, NEW s \in Seq(Seq(T)), NEW w \in Nat, NEW n \in Nat, Parts(s, w, n)
  PROVE  FlattenSeq(s) \in Seq(T) /\ Joins(FlattenSeq(s), s, w, n)
<1> USE DEF Parts
<1>1. PICK f \in [1 .. n -> Seq(T)] : Flattening(s, f, n) /\ FlattenSeq(s) = f[n]
  BY FlattenSteps
<1>2. \A i \in 1 .. n : s[i] \in Seq(T) /\ Len(s[i]) \in Nat
  BY ElementOfSeq, LenProperties
<1>3. f[1] = s[1] /\ \A k \in 1 .. n - 1 : f[k + 1] = f[k] \o s[k + 1]
  <2>1. 1 \in 1 .. n /\ \A k \in 1 .. n - 1 :
          k + 1 \in 1 .. n /\ k + 1 # 1 /\ (k + 1) - 1 = k
    OBVIOUS
  <2> QED
    BY <1>1, <2>1 DEF Flattening
<1> DEFINE S == {k \in 1 .. n :
                   /\ Len(f[k]) = (k - 1) * w + Len(s[k])
                   /\ \A i \in 1 .. k : \A r \in 1 .. Len(s[i]) :
                        f[k][(i - 1) * w + r] = s[i][r]}
<1>4. 1 \in S
  <2>1. (1 - 1) * w = 0 /\ 1 \in 1 .. n /\ 1 .. 1 = {1}
    OBVIOUS
  <2>2. \A r \in 1 .. Len(s[1]) : 0 + r = r
    BY <1>2, <2>1
  <2>3. Len(f[1]) = 0 + Len(s[1])
    BY <1>2, <1>3, <2>1
  <2> QED
    BY <1>3, <2>1, <2>2, <2>3
<1>5. ASSUME NEW k \in 1 .. n - 1, k \in S PROVE k + 1 \in S
  <2>1. k \in 1 .. n /\ k + 1 \in 1 .. n /\ k \in Nat
    OBVIOUS
  <2>2. f[k + 1] = f[k] \o s[k + 1] /\ f[k] \in Seq(T) /\ s[k + 1] \in Seq(T)
    BY <1>2, <1>3, <2>1
  <2>3. PICK m \in Nat : m = (k - 1) * w
    BY <2>1
  <2>4. k * w = m + w /\ ((k + 1) - 1) * w = m + w
    BY <2>1, <2>3
  <2>5. Len(f[k]) = m + w
    BY <1>5, <2>3
  <2>6. /\ Len(f[k + 1]) = (m + w) + Len(s[k + 1])
        /\ \A j \in 1 .. (m + w) + Len(s[k + 1]) :
             f[k + 1][j] = IF j <= m + w THEN f[k][j] ELSE s[k + 1][j - (m + w)]
    <3> DEFINE x == f[k]
               y == s[k + 1]
    <3>1. x \in Seq(T) /\ y \in Seq(T) /\ f[k + 1] = x \o y
      BY <2>2
    <3>2. Len(x) = m + w
      BY <2>5
    <3> HIDE DEF x, y
    <3>3. /\ Len(x \o y) = Len(x) + Len(y)
          /\ \A j \in 1 .. Len(x) + Len(y) :
               (x \o y)[j] = IF j <= Len(x) THEN x[j] ELSE y[j - Len(x)]
      BY <3>1, ConcatProperties
    <3>4. /\ Len(f[k + 1]) = (m + w) + Len(y)
          /\ \A j \in 1 .. (m + w) + Len(y) :
               f[k + 1][j] = IF j <= m + w THEN x[j] ELSE y[j - (m + w)]
      BY <3>1, <3>2, <3>3
    <3> QED
      BY <3>4 DEF x, y
  <2>7. ASSUME NEW i \in 1 .. k + 1, NEW r \in 1 .. Len(s[i])
        PROVE  f[k + 1][(i - 1) * w + r] = s[i][r]
    <3>1. CASE i = k + 1
      <4>1. PICK l \in Nat : l = Len(s[k + 1])
        BY <1>2, <2>1
      <4>2. (i - 1) * w = m + w /\ r \in 1 .. l
        BY <2>4, <3>1, <4>1
      <4>3. (m + w) + r \in 1 .. (m + w) + l /\ ~((m + w) + r <= m + w)
            /\ ((m + w) + r) - (m + w) = r
        BY <4>2
      <4> QED
        BY <2>6, <3>1, <4>1, <4>2, <4>3
    <3>2. CASE i # k + 1
      <4>1. i \in 1 .. k /\ i \in 1 .. n - 1
        BY <2>1, <3>2
      <4>2. Len(s[i]) = w
        BY <4>1
      <4>3. PICK d \in Nat : d = k - i
        BY <4>1
      <4>4. PICK a \in Nat : a = (i - 1) * w
        BY <4>1
      <4>5. a <= m
        <5>1. (k - 1) * w = (i - 1) * w + d * w
          BY <4>1, <4>3
        <5>2. d * w \in Nat
          OBVIOUS
        <5> QED
          BY <2>3, <4>4, <5>1, <5>2
      <4>6. a + r \in 1 .. m + w /\ r \in 1 .. w
        BY <4>2, <4>5
      <4>7. a + r \in 1 .. (m + w) + Len(s[k + 1]) /\ a + r <= m + w
        <5>1. PICK l \in Nat : l = Len(s[k + 1])
          BY <1>2, <2>1
        <5>2. a + r \in 1 .. (m + w) + l /\ a + r <= m + w
          BY <4>6
        <5> QED
          BY <5>1, <5>2
      <4>8. f[k + 1][a + r] = f[k][a + r]
        BY <2>6, <4>7
      <4>9. f[k][(i - 1) * w + r] = s[i][r]
        BY <1>5, <4>1
      <4> QED
        BY <4>4, <4>8, <4>9
    <3> QED
      BY <3>1, <3>2
  <2>8. Len(f[k + 1]) = ((k + 1) - 1) * w + Len(s[k + 1])
    BY <2>4, <2>6
  <2> QED
    BY <2>1, <2>7, <2>8
<1>6. 1 .. n \subseteq S
  <2> HIDE DEF S
  <2> QED
    BY <1>4, <1>5, UptoInduction
<1>7. n \in S
  <2>1. n \in 1 .. n
    OBVIOUS
  <2> HIDE DEF S
  <2> QED
    BY <1>6, <2>1
<1>8. /\ Len(f[n]) = (n - 1) * w + Len(s[n])
      /\ \A i \in 1 .. n : \A r \in 1 .. Len(s[i]) : f[n][(i - 1) * w + r] = s[i][r]
  BY <1>7, Zenon
<1> HIDE DEF S
<1>9. f[n] \in Seq(T)
  <2>1. n \in 1 .. n
    OBVIOUS
  <2> QED
    BY <1>1, <2>1
<1> QED
  BY <1>1, <1>8, <1>9, Zenon DEF Joins

(* Every place of such a sequence is in one of its parts.                  *)
Placed(j, w, n, l) ==
  \E i \in 1 .. n : \E r \in 1 .. w : j = (i - 1) * w + r /\ (i = n => r <= l)
LEMMA PlaceInPart ==
  ASSUME NEW w \in Nat \ {0}, NEW n \in Nat, n > 0, NEW l \in 0 .. w,
         NEW c, c = (n - 1) * w + l, NEW j \in 1 .. c
  PROVE  Placed(j, w, n, l)
<1> USE DEF Placed
<1> DEFINE S == {k \in Nat : k < n /\ k * w < j}
<1>1. j \in Nat /\ j > 0
  <2>1. PICK m \in Nat : m = (n - 1) * w
    OBVIOUS
  <2> QED
    BY <2>1
<1>2. PICK k \in S : \A m \in S : m <= k
  <2>1. 0 * w = 0
    OBVIOUS
  <2>2. 0 \in S /\ S \in SUBSET Nat /\ \A m \in S : m <= n
    BY <1>1, <2>1
  <2> HIDE DEF S
  <2> QED
    BY <2>2, GreatestNat
<1>3. k \in Nat /\ k < n /\ k * w < j /\ k * w \in Nat
  BY <1>2
<1>4. (k + 1) * w = k * w + w
  BY <1>3
<1>5. CASE k + 1 < n
  <2>1. k + 1 \notin S
    BY <1>2, <1>3
  <2>2. ~((k + 1) * w < j)
    BY <1>3, <1>5, <2>1
  <2>3. j - k * w \in 1 .. w
    BY <1>1, <1>3, <1>4, <2>2
  <2>4. k + 1 \in 1 .. n /\ k + 1 # n /\ (k + 1) - 1 = k
    BY <1>3, <1>5
  <2>5. j = ((k + 1) - 1) * w + (j - k * w)
    BY <1>1, <1>3, <2>4
  <2> QED
    BY <2>3, <2>4, <2>5
<1>6. CASE k + 1 = n
  <2>1. n - 1 = k /\ n \in 1 .. n
    BY <1>3, <1>6
  <2>2. PICK m \in Nat : m = k * w
    BY <1>3
  <2>3. j \in 1 .. m + l /\ m < j
    BY <1>3, <2>1, <2>2
  <2>4. j - m \in 1 .. w /\ j - m <= l /\ j = m + (j - m)
    BY <2>3
  <2>5. j = (n - 1) * w + (j - m)
    BY <2>1, <2>2, <2>4
  <2> QED
    BY <2>1, <2>4, <2>5
<1> QED
  BY <1>3, <1>5, <1>6

(* A sequence that has the parts at their places is their flattening.      *)
LEMMA FlattenIs ==
  ASSUME NEW T, NEW s \in Seq(Seq(T)), NEW w \in Nat \ {0}, NEW n \in Nat, Parts(s, w, n),
         Len(s[n]) <= w, NEW t, t \in Seq(T), Joins(t, s, w, n)
  PROVE  FlattenSeq(s) = t
<1> DEFINE F == FlattenSeq(s)
<1>1. F \in Seq(T) /\ Joins(F, s, w, n)
  BY FlattenBlocks
<1> HIDE DEF F
<1>2. n > 0 /\ n = Len(s) /\ \A i \in 1 .. n - 1 : Len(s[i]) = w
  BY DEF Parts
<1>3. PICK l \in Nat : l = Len(s[n])
  BY <1>2, ElementOfSeq, LenProperties
<1>4. l \in 0 .. w
  BY <1>3
<1>5. PICK c \in Nat : c = (n - 1) * w + l
  <2>1. n - 1 \in Nat /\ w \in Nat
    BY <1>2
  <2>2. (n - 1) * w + l \in Nat
    BY <2>1, TimesPlus, Zenon
  <2> QED
    BY <2>2, Zenon
<1>6. Len(F) = c /\ Len(t) = c
  BY <1>1, <1>3, <1>5 DEF Joins
<1>7. ASSUME NEW j \in 1 .. c PROVE F[j] = t[j]
  <2>1. Placed(j, w, n, l)
    BY <1>2, <1>4, <1>5, PlaceInPart
  <2>2. PICK i \in 1 .. n, r \in 1 .. w : j = (i - 1) * w + r /\ (i = n => r <= l)
    BY <2>1 DEF Placed
  <2>3. r \in 1 .. Len(s[i])
    <3>1. CASE i = n
      BY <1>3, <2>2, <3>1
    <3>2. CASE i # n
      <4>1. i \in 1 .. n - 1
        BY <3>2
      <4> QED
        BY <1>2, <4>1
    <3> QED
      BY <3>1, <3>2
  <2>4. F[(i - 1) * w + r] = s[i][r] /\ t[(i - 1) * w + r] = s[i][r]
    BY <1>1, <2>3, Zenon DEF Joins
  <2> QED
    BY <2>2, <2>4
<1>8. F = t
  BY <1>1, <1>6, <1>7, SeqEqual
<1> QED
  BY <1>8 DEF F
===============================================================================
