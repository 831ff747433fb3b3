---------------------------- MODULE InlineHashProof ----------------------------
(***************************************************************************)
(* A hash table implements a finite map and owns one copy of each string   *)
(* key, for every set of keys, every hash function and every initial size. *)
(*                                                                         *)
(* The proof looks at a table as the set of its entries, in vector or in   *)
(* bigger.  A table in order has each entry in the chain of its hash and   *)
(* no key twice, so that a change of one chain changes the set of entries  *)
(* by one.                                                                 *)
(***************************************************************************)
EXTENDS InlineHash, SequenceTheorems, FiniteSetTheorems, TLAPS

(* Chains and tables.                                                      *)
Distinct(s) == \A n, m \in DOMAIN s : s[n].key = s[m].key => n = m
Placed(e, b, size) == e.hash = Hash[e.key] /\ b = e.hash % size
GoodChain(s, b, size) ==
  s \in Seq(Entry) /\ Distinct(s) /\ \A e \in Range(s) : Placed(e, b, size)
GoodTable(v, size) ==
  /\ v \in [0 .. size - 1 -> Seq(Entry)]
  /\ \A b \in 0 .. size - 1 : GoodChain(v[b], b, size)
In(v) == UNION {Range(v[b]) : b \in DOMAIN v}

(* Table w is v with t as chain b; chain t is s with the value w of e, its *)
(* n-th entry, which then is f.                                            *)
Changed(v, b, t, w) == w = [v EXCEPT ![b] = t]
Replaced(s, n, w, t, f) == f = [s[n] EXCEPT !.value = w] /\ t = [s EXCEPT ![n] = f]

(* Sets of entries, and the map such a set stands for.                     *)
Keys(E) == {e.key : e \in E}
Unique(E) == \A e, f \in E : e.key = f.key => e = f
MapOf(E) == [k \in Keys(E) |-> (CHOOSE e \in E : e.key = k).value]

-------------------------------------------------------------------------------
(* The invariant.  While a table grows, its entries are in two vectors, of *)
(* which no key is in both.                                                *)
Scalars ==
  /\ mask \in Nat /\ count \in Nat /\ i \in 0 .. mask + 1
  /\ kind \in {"string", "pointer"} /\ copies \in [Key -> Int]
  /\ pc \in {"idle", "called", "grow", "add", "destroy"}
  /\ out \in [status : Nat, value : Value \cup {NULL}]

Chains ==
  /\ IF vector = NoVector THEN pc = "idle" /\ mask = 0 /\ count = 0
     ELSE GoodTable(vector, mask + 1)
  /\ IF pc = "grow" THEN GoodTable(bigger, 2 * (mask + 1)) ELSE bigger = NoVector
  /\ pc \in {"grow", "destroy"} => \A b \in 0 .. mask : b < i => vector[b] = <<>>
  /\ \A e \in In(vector), f \in In(bigger) : e.key # f.key

(* All entries own their keys or none does (utils.c:305, 319).             *)
Owned == \A e \in Entries : e.owns_key = (kind = "string")

(* A call keeps its arguments until it returns, and adds an entry only for *)
(* a key that has none.                                                    *)
Requested ==
  /\ IF pc = "idle" THEN request = NoRequest ELSE request \in Calls
  /\ pc \in {"grow", "add"} => request.op = "at_put" /\ request.key \notin Keys(Entries)
  /\ pc = "destroy" => request.op = "destroy"

(* There is room for an entry that will be added.                          *)
Counted ==
  /\ pc # "destroy" => IsFiniteSet(Keys(Entries)) /\ count = Cardinality(Keys(Entries))
  /\ count <= mask + 1 /\ (pc = "add" => count <= mask)

IInv == Scalars /\ Chains /\ Owned /\ Requested /\ Counted /\ KeysOwned

-------------------------------------------------------------------------------
LEMMA ModRange == ASSUME NEW n \in Nat, NEW w \in Nat, 0 < w PROVE n % w \in 0 .. w - 1
  OBVIOUS

LEMMA RangeSeq ==
  ASSUME NEW s \in Seq(Entry)
  PROVE  /\ Len(s) \in Nat /\ DOMAIN s = 1 .. Len(s)
         /\ Range(s) = {s[n] : n \in 1 .. Len(s)} /\ Range(s) \subseteq Entry
         /\ \A n \in 1 .. Len(s) : s[n] \in Entry
  BY LenProperties, ElementOfSeq DEF Range

(* An entry before a chain that has none for its key.                      *)
LEMMA PrependChain ==
  ASSUME NEW b, NEW size, NEW s, GoodChain(s, b, size),
         NEW e \in Entry, Placed(e, b, size), \A f \in Range(s) : f.key # e.key
  PROVE  GoodChain(<<e>> \o s, b, size) /\ Range(<<e>> \o s) = Range(s) \cup {e}
<1> DEFINE t == <<e>> \o s
<1>1. s \in Seq(Entry) /\ <<e>> \in Seq(Entry) /\ Len(<<e>>) = 1 /\ <<e>>[1] = e
  BY DEF GoodChain
<1>2. t \in Seq(Entry) /\ Len(t) = 1 + Len(s)
      /\ \A n \in 1 .. 1 + Len(s) : t[n] = IF n <= 1 THEN <<e>>[n] ELSE s[n - 1]
  BY <1>1, ConcatProperties
<1> HIDE DEF t
<1>3. PICK l \in Nat : l = Len(s)
  BY <1>1, LenProperties
<1>4. t[1] = e /\ \A n \in 2 .. l + 1 : t[n] = s[n - 1]
  BY <1>1, <1>2, <1>3
<1>5. DOMAIN t = 1 .. l + 1 /\ DOMAIN s = 1 .. l
  BY <1>1, <1>2, <1>3, LenProperties
<1>6. Range(t) = Range(s) \cup {e}
  <2>1. \A n \in 1 .. l : s[n] = t[n + 1] /\ n + 1 \in 1 .. l + 1
    BY <1>3, <1>4
  <2>2. \A n \in 2 .. l + 1 : n - 1 \in 1 .. l
    BY <1>3
  <2>3. 1 \in 1 .. l + 1 /\ \A n \in 1 .. l + 1 : n = 1 \/ n \in 2 .. l + 1
    BY <1>3
  <2>4. Range(t) \subseteq Range(s) \cup {e}
    BY <1>4, <1>5, <2>2, <2>3 DEF Range
  <2>5. Range(s) \subseteq Range(t)
    BY <1>5, <2>1 DEF Range
  <2>6. e \in Range(t)
    BY <1>4, <1>5, <2>3 DEF Range
  <2> QED
    BY <2>4, <2>5, <2>6
<1>7. Distinct(t)
  <2> SUFFICES ASSUME NEW n \in 1 .. l + 1, NEW m \in 1 .. l + 1, t[n].key = t[m].key
               PROVE  n = m
    BY <1>5 DEF Distinct
  <2>1. \A k \in 2 .. l + 1 : t[k].key # e.key
    <3>1. \A k \in 1 .. l : s[k] \in Range(s)
      BY <1>5 DEF Range
    <3>2. \A k \in 2 .. l + 1 : k - 1 \in 1 .. l
      BY <1>3
    <3> QED
      BY <1>4, <3>1, <3>2
  <2>2. CASE n = 1 \/ m = 1
    BY <1>3, <1>4, <2>1, <2>2
  <2>3. CASE n # 1 /\ m # 1
    <3>1. n - 1 \in 1 .. l /\ m - 1 \in 1 .. l /\ s[n - 1].key = s[m - 1].key
      BY <1>3, <1>4, <2>3
    <3>2. n - 1 = m - 1
      BY <3>1, <1>5 DEF GoodChain, Distinct
    <3> QED
      BY <1>3, <3>2
  <2> QED
    BY <2>2, <2>3
<1> QED
  BY <1>2, <1>6, <1>7 DEF GoodChain, t

(* An entry taken out of a chain, wherever it is.                          *)
LEMMA RemoveFromChain ==
  ASSUME NEW b, NEW size, NEW s, GoodChain(s, b, size), NEW n \in DOMAIN s
  PROVE  GoodChain(RemoveAt(s, n), b, size) /\ Range(RemoveAt(s, n)) = Range(s) \ {s[n]}
<1>1. s \in Seq(Entry) /\ Distinct(s)
  BY DEF GoodChain
<1>2. PICK l \in Nat : l = Len(s)
  BY <1>1, LenProperties
<1>3. DOMAIN s = 1 .. l /\ n \in 1 .. l /\ \A k \in 1 .. l : s[k] \in Entry
  BY <1>1, <1>2, RangeSeq
<1> DEFINE t == RemoveAt(s, n)
<1> DEFINE front == SubSeq(s, 1, n - 1)
<1> DEFINE back == SubSeq(s, n + 1, l)
<1>4. front \in Seq(Entry) /\ Len(front) = n - 1 /\ \A k \in 1 .. n - 1 : front[k] = s[k]
  <2>1. n - 1 \in Int /\ \A k \in 1 .. n - 1 : s[k] \in Entry
    BY <1>3
  <2>2. /\ front \in Seq(Entry) /\ Len(front) = (IF 1 <= n - 1 THEN n - 1 - 1 + 1 ELSE 0)
        /\ \A k \in 1 .. n - 1 - 1 + 1 : front[k] = s[1 + k - 1]
    BY <2>1, SubSeqProperties
  <2> HIDE DEF front
  <2> QED
    BY <1>3, <2>2
<1>5. back \in Seq(Entry) /\ Len(back) = l - n /\ \A k \in 1 .. l - n : back[k] = s[n + k]
  <2>1. n + 1 \in Int /\ l \in Int /\ \A k \in n + 1 .. l : s[k] \in Entry
    BY <1>3
  <2>2. /\ back \in Seq(Entry) /\ Len(back) = (IF n + 1 <= l THEN l - (n + 1) + 1 ELSE 0)
        /\ \A k \in 1 .. l - (n + 1) + 1 : back[k] = s[n + 1 + k - 1]
    BY <2>1, SubSeqProperties
  <2> HIDE DEF back
  <2>3. n \in Nat /\ n <= l
    BY <1>3
  <2>4. l - (n + 1) + 1 = l - n /\ \A k \in 1 .. l - n : n + 1 + k - 1 = n + k
    BY <2>3
  <2>5. Len(back) = l - n
    BY <2>2, <2>3, SMTT(30)
  <2> QED
    BY <2>2, <2>4, <2>5
<1>6. t = front \o back
  BY <1>2 DEF RemoveAt
<1> HIDE DEF front, back
<1>7. /\ t \in Seq(Entry) /\ Len(t) = l - 1
      /\ \A k \in 1 .. l - 1 : t[k] = IF k < n THEN s[k] ELSE s[k + 1]
  <2>1. /\ t \in Seq(Entry) /\ Len(t) = Len(front) + Len(back)
        /\ \A k \in 1 .. Len(front) + Len(back) :
             t[k] = IF k <= Len(front) THEN front[k] ELSE back[k - Len(front)]
    <3> HIDE DEF t
    <3> QED
      BY <1>4, <1>5, <1>6, ConcatProperties
  <2> HIDE DEF t
  <2> QED
    <3>1. n \in Nat /\ 1 <= n /\ n <= l
      BY <1>3
    <3>2. Len(t) = l - 1 /\ Len(front) = n - 1 /\ Len(front) + Len(back) = l - 1
      BY <1>4, <1>5, <2>1, <3>1
    <3>3. ASSUME NEW k \in 1 .. l - 1 PROVE t[k] = IF k < n THEN s[k] ELSE s[k + 1]
      <4>1. t[k] = IF k <= n - 1 THEN front[k] ELSE back[k - (n - 1)]
        BY <2>1, <3>2
      <4>2. CASE k < n
        BY <1>4, <3>1, <4>1, <4>2
      <4>3. CASE k >= n
        <5>1. k - (n - 1) \in 1 .. l - n /\ n + (k - (n - 1)) = k + 1 /\ ~(k <= n - 1)
          BY <3>1, <4>3
        <5>2. t[k] = s[n + (k - (n - 1))]
          BY <1>5, <4>1, <5>1
        <5> QED
          BY <4>3, <5>1, <5>2, <3>1
      <4> QED
        BY <3>1, <4>2, <4>3
    <3> QED
      BY <2>1, <3>2, <3>3
<1> HIDE DEF t
<1>8. DOMAIN t = 1 .. l - 1
  BY <1>7, LenProperties
<1>9. Distinct(t)
  <2> SUFFICES ASSUME NEW j \in 1 .. l - 1, NEW m \in 1 .. l - 1, t[j].key = t[m].key
               PROVE  j = m
    BY <1>8 DEF Distinct
  <2>1. \A x, y \in 1 .. l : s[x].key = s[y].key => x = y
    BY <1>1, <1>3 DEF Distinct
  <2> QED
    BY <1>3, <1>7, <2>1, SMTT(30)
<1>10. Range(t) = Range(s) \ {s[n]}
  <2>1. \A x \in 1 .. l : x # n => s[x] # s[n]
    BY <1>1, <1>3 DEF Distinct
  <2>2. \A k \in 1 .. l - 1 : \E x \in 1 .. l : x # n /\ t[k] = s[x]
    <3> TAKE k \in 1 .. l - 1
    <3>1. CASE k < n
      BY <1>3, <1>7, <3>1
    <3>2. CASE k >= n
      BY <1>3, <1>7, <3>2
    <3> QED
      BY <1>3, <3>1, <3>2
  <2>3. \A x \in 1 .. l : x # n => \E k \in 1 .. l - 1 : t[k] = s[x]
    <3> TAKE x \in 1 .. l
    <3> HAVE x # n
    <3>1. CASE x < n
      BY <1>3, <1>7, <3>1
    <3>2. CASE x > n
      <4>1. x - 1 \in 1 .. l - 1 /\ ~(x - 1 < n) /\ x - 1 + 1 = x
        BY <1>3, <3>2
      <4> QED
        BY <1>7, <4>1
    <3> QED
      BY <1>3, <3>1, <3>2
  <2>4. Range(t) = {t[k] : k \in 1 .. l - 1} /\ Range(s) = {s[x] : x \in 1 .. l}
    BY <1>3, <1>8 DEF Range
  <2>5. Range(t) \subseteq Range(s) \ {s[n]}
    BY <2>1, <2>2, <2>4
  <2>6. Range(s) \ {s[n]} \subseteq Range(t)
    BY <2>3, <2>4
  <2> QED
    BY <2>5, <2>6
<1> QED
  BY <1>7, <1>9, <1>10 DEF GoodChain, t

(* The first entry taken off.                                              *)
LEMMA TailOfChain ==
  ASSUME NEW b, NEW size, NEW s, GoodChain(s, b, size), s # <<>>
  PROVE  /\ GoodChain(Tail(s), b, size) /\ Range(Tail(s)) = Range(s) \ {Head(s)}
         /\ Head(s) \in Range(s)
<1>1. s \in Seq(Entry)
  BY DEF GoodChain
<1>2. Len(s) \in Nat \ {0} /\ DOMAIN s = 1 .. Len(s)
  BY <1>1, EmptySeq, LenProperties
<1>3. 1 \in DOMAIN s /\ Head(s) = s[1]
  BY <1>1, <1>2
<1>4. Tail(s) = RemoveAt(s, 1)
  <2>1. Tail(s) = SubSeq(s, 2, Len(s)) /\ Tail(s) \in Seq(Entry)
    BY <1>1, TailIsSubSeq, HeadTailProperties
  <2>2. SubSeq(s, 1, 1 - 1) = <<>>
    BY SubSeqEmpty
  <2>3. RemoveAt(s, 1) = <<>> \o SubSeq(s, 2, Len(s))
    BY <2>2 DEF RemoveAt
  <2> QED
    BY <2>1, <2>3, ConcatEmptySeq
<1>5. GoodChain(RemoveAt(s, 1), b, size) /\ Range(RemoveAt(s, 1)) = Range(s) \ {s[1]}
  BY <1>3, RemoveFromChain
<1> QED
  BY <1>3, <1>4, <1>5 DEF Range

(* Another value for an entry.                                             *)
LEMMA ReplaceInChain ==
  ASSUME NEW b, NEW size, NEW s, GoodChain(s, b, size), NEW n \in DOMAIN s, NEW w \in Value,
         NEW t, NEW e, Replaced(s, n, w, t, e)
  PROVE  /\ GoodChain(t, b, size) /\ Range(t) = (Range(s) \ {s[n]}) \cup {e}
         /\ e.key = s[n].key /\ e.value = w /\ e.owns_key = s[n].owns_key
<1>1. s \in Seq(Entry) /\ Distinct(s) /\ \A f \in Range(s) : Placed(f, b, size)
  BY DEF GoodChain
<1>2. PICK l \in Nat : l = Len(s)
  BY <1>1, LenProperties
<1>3. DOMAIN s = 1 .. l /\ n \in 1 .. l /\ \A k \in 1 .. l : s[k] \in Entry
  BY <1>1, <1>2, RangeSeq
<1>4. /\ e \in Entry /\ e.key = s[n].key /\ e.hash = s[n].hash
      /\ e.value = w /\ e.owns_key = s[n].owns_key
  BY <1>3 DEF Entry, Replaced
<1>5. Placed(e, b, size)
  BY <1>1, <1>3, <1>4 DEF Placed, Range
<1>6. t \in Seq(Entry) /\ Len(t) = l /\ \A k \in 1 .. l : t[k] = IF k = n THEN e ELSE s[k]
  BY <1>1, <1>2, <1>3, <1>4, ExceptSeq DEF Replaced
<1>7. DOMAIN t = 1 .. l
  BY <1>6, LenProperties
<1>8. \A k \in 1 .. l : t[k].key = s[k].key
  BY <1>4, <1>6
<1>9. Distinct(t)
  BY <1>1, <1>3, <1>7, <1>8 DEF Distinct
<1>10. Range(t) = (Range(s) \ {s[n]}) \cup {e}
  <2>1. \A k \in 1 .. l : k # n => s[k] # s[n]
    BY <1>1, <1>3 DEF Distinct
  <2>2. Range(t) \subseteq (Range(s) \ {s[n]}) \cup {e}
    BY <1>3, <1>6, <1>7, <2>1 DEF Range
  <2>3. (Range(s) \ {s[n]}) \cup {e} \subseteq Range(t)
    <3>1. e \in Range(t)
      BY <1>3, <1>6, <1>7 DEF Range
    <3>2. ASSUME NEW f \in Range(s) \ {s[n]} PROVE f \in Range(t)
      <4>1. PICK k \in 1 .. l : f = s[k]
        BY <1>3 DEF Range
      <4>2. t[k] = f
        BY <1>6, <4>1
      <4> QED
        BY <1>7, <4>2 DEF Range
    <3> QED
      BY <3>1, <3>2
  <2> QED
    BY <2>2, <2>3
<1>11. GoodChain(t, b, size)
  BY <1>1, <1>5, <1>6, <1>9, <1>10 DEF GoodChain
<1> QED
  BY <1>4, <1>10, <1>11

(* What is in a table is in the chain of its hash, and no key is in twice. *)
LEMMA InTable ==
  ASSUME NEW size \in Nat, NEW v, GoodTable(v, size), NEW e \in In(v)
  PROVE  /\ e \in Entry /\ e.hash = Hash[e.key]
         /\ e.hash % size \in 0 .. size - 1 /\ e \in Range(v[e.hash % size])
<1>1. PICK b \in 0 .. size - 1 : e \in Range(v[b])
  BY DEF In, GoodTable
<1>2. GoodChain(v[b], b, size)
  BY DEF GoodTable
<1>3. v[b] \in Seq(Entry) /\ Placed(e, b, size)
  BY <1>1, <1>2 DEF GoodChain
<1> QED
  BY <1>1, <1>3, RangeSeq DEF Placed

LEMMA InChain ==
  ASSUME NEW size \in Nat, NEW v, GoodTable(v, size), NEW b \in 0 .. size - 1
  PROVE  GoodChain(v[b], b, size) /\ Range(v[b]) \subseteq In(v)
  BY DEF GoodTable, In

LEMMA UniqueTable ==
  ASSUME NEW size \in Nat, NEW v, GoodTable(v, size) PROVE Unique(In(v))
<1> SUFFICES ASSUME NEW e \in In(v), NEW f \in In(v), e.key = f.key PROVE e = f
  BY DEF Unique
<1> DEFINE b == e.hash % size
<1>1. b \in 0 .. size - 1 /\ e \in Range(v[b]) /\ f \in Range(v[b])
  BY InTable
<1>2. Distinct(v[b])
  BY <1>1, InChain DEF GoodChain
<1> HIDE DEF b
<1> QED
  BY <1>1, <1>2 DEF Distinct, Range

(* A table in which one chain is another one.                              *)
LEMMA ChangeChain ==
  ASSUME NEW size \in Nat, NEW v, GoodTable(v, size), NEW b \in 0 .. size - 1,
         NEW t, GoodChain(t, b, size), NEW w, Changed(v, b, t, w)
  PROVE  GoodTable(w, size) /\ In(w) = (In(v) \ Range(v[b])) \cup Range(t)
<1>1. DOMAIN v = 0 .. size - 1 /\ t \in Seq(Entry) /\ v \in [0 .. size - 1 -> Seq(Entry)]
  BY DEF GoodTable, GoodChain
<1>2. w \in [0 .. size - 1 -> Seq(Entry)] /\ w[b] = t
      /\ \A c \in 0 .. size - 1 : c # b => w[c] = v[c]
  BY <1>1 DEF Changed
<1>3. GoodTable(w, size)
  BY <1>2 DEF GoodTable
<1>4. \A c \in 0 .. size - 1 : c # b => Range(v[c]) \cap Range(v[b]) = {}
  <2> TAKE c \in 0 .. size - 1
  <2>1. GoodChain(v[c], c, size) /\ GoodChain(v[b], b, size)
    BY InChain
  <2> QED
    BY <2>1 DEF GoodChain, Placed
<1>5. In(w) = (In(v) \ Range(v[b])) \cup Range(t)
  <2>1. In(w) \subseteq (In(v) \ Range(v[b])) \cup Range(t)
    <3> SUFFICES ASSUME NEW e \in In(w), e \notin Range(t)
                 PROVE  e \in In(v) /\ e \notin Range(v[b])
      OBVIOUS
    <3>1. PICK c \in 0 .. size - 1 : e \in Range(w[c])
      BY <1>2 DEF In
    <3>2. c # b /\ e \in Range(v[c])
      BY <1>2, <3>1
    <3> QED
      BY <1>1, <1>4, <3>2 DEF In
  <2>2. Range(t) \subseteq In(w)
    BY <1>2 DEF In
  <2>3. ASSUME NEW e \in In(v), e \notin Range(v[b]) PROVE e \in In(w)
    <3>1. PICK c \in 0 .. size - 1 : e \in Range(v[c])
      BY <1>1 DEF In
    <3>2. e \in Range(w[c])
      BY <1>2, <2>3, <3>1
    <3> QED
      BY <1>2, <3>2 DEF In
  <2> QED
    BY <2>1, <2>2, <2>3
<1> QED
  BY <1>3, <1>5

LEMMA EmptyTable ==
  ASSUME NEW size \in Nat PROVE GoodTable(Empty(size), size) /\ In(Empty(size)) = {}
<1>1. <<>> \in Seq(Entry) /\ DOMAIN <<>> = {}
  BY EmptySeq, LenProperties
<1>2. GoodTable(Empty(size), size)
  BY <1>1 DEF GoodTable, GoodChain, Distinct, Range, Empty
<1>3. In(Empty(size)) = {}
  BY <1>1 DEF In, Range, Empty
<1> QED
  BY <1>2, <1>3

-------------------------------------------------------------------------------
(* Sets of entries.                                                        *)
LEMMA MapValue ==
  ASSUME NEW E, Unique(E), NEW e \in E
  PROVE  e.key \in DOMAIN MapOf(E) /\ DOMAIN MapOf(E) = Keys(E) /\ MapOf(E)[e.key] = e.value
<1>1. e.key \in Keys(E)
  BY DEF Keys
<1>2. (CHOOSE f \in E : f.key = e.key) = e
  BY DEF Unique
<1> QED
  BY <1>1, <1>2 DEF MapOf

LEMMA AddToSet ==
  ASSUME NEW E, Unique(E), NEW e, e.key \notin Keys(E)
  PROVE  /\ Unique(E \cup {e}) /\ Keys(E \cup {e}) = Keys(E) \cup {e.key}
         /\ MapOf(E \cup {e}) =
              [k \in Keys(E) \cup {e.key} |-> IF k = e.key THEN e.value ELSE MapOf(E)[k]]
<1> DEFINE F == E \cup {e}
<1>1. Unique(F) /\ Keys(F) = Keys(E) \cup {e.key}
  BY DEF Unique, Keys
<1>2. ASSUME NEW k \in Keys(E) \cup {e.key}
      PROVE  MapOf(F)[k] = IF k = e.key THEN e.value ELSE MapOf(E)[k]
  <2>1. PICK f \in F : f.key = k
    BY <1>1 DEF Keys
  <2>2. MapOf(F)[k] = f.value
    BY <1>1, <2>1, MapValue
  <2>3. CASE f = e
    BY <2>1, <2>2, <2>3
  <2>4. CASE f # e
    <3>1. f \in E /\ MapOf(E)[k] = f.value
      BY <2>1, <2>4, MapValue
    <3>2. k # e.key
      BY <2>1, <3>1 DEF Keys
    <3> QED
      BY <2>2, <3>1, <3>2
  <2> QED
    BY <2>3, <2>4
<1>3. MapOf(F) = [k \in Keys(F) |-> MapOf(F)[k]]
  BY DEF MapOf
<1> HIDE DEF F
<1>4. MapOf(F) = [k \in Keys(E) \cup {e.key} |-> IF k = e.key THEN e.value ELSE MapOf(E)[k]]
  BY <1>1, <1>2, <1>3
<1> QED
  BY <1>1, <1>4 DEF F

LEMMA RemoveFromSet ==
  ASSUME NEW E, Unique(E), NEW e \in E
  PROVE  /\ Unique(E \ {e}) /\ Keys(E \ {e}) = Keys(E) \ {e.key} /\ e.key \in Keys(E)
         /\ MapOf(E \ {e}) = [k \in Keys(E) \ {e.key} |-> MapOf(E)[k]]
<1> DEFINE F == E \ {e}
<1>1. Unique(F) /\ Keys(F) = Keys(E) \ {e.key} /\ e.key \in Keys(E)
  BY DEF Unique, Keys
<1>2. ASSUME NEW k \in Keys(E) \ {e.key} PROVE MapOf(F)[k] = MapOf(E)[k]
  <2>1. PICK f \in F : f.key = k
    BY <1>1 DEF Keys
  <2>2. MapOf(F)[k] = f.value /\ MapOf(E)[k] = f.value
    BY <1>1, <2>1, MapValue
  <2> QED
    BY <2>2
<1>3. MapOf(F) = [k \in Keys(F) |-> MapOf(F)[k]]
  BY DEF MapOf
<1> HIDE DEF F
<1>4. MapOf(F) = [k \in Keys(E) \ {e.key} |-> MapOf(E)[k]]
  BY <1>1, <1>2, <1>3
<1> QED
  BY <1>1, <1>4 DEF F

(* Replacing the value of an entry.                                        *)
LEMMA ReplaceInSet ==
  ASSUME NEW E, Unique(E), NEW e \in E, NEW f, f.key = e.key
  PROVE  /\ Unique((E \ {e}) \cup {f}) /\ Keys((E \ {e}) \cup {f}) = Keys(E)
         /\ MapOf((E \ {e}) \cup {f}) =
              [k \in Keys(E) \cup {e.key} |-> IF k = e.key THEN f.value ELSE MapOf(E)[k]]
<1> DEFINE D == E \ {e}
<1>1. /\ Unique(D) /\ Keys(D) = Keys(E) \ {e.key} /\ e.key \in Keys(E)
      /\ MapOf(D) = [k \in Keys(E) \ {e.key} |-> MapOf(E)[k]]
  BY RemoveFromSet
<1> HIDE DEF D
<1>2. /\ Unique(D \cup {f}) /\ Keys(D \cup {f}) = Keys(D) \cup {f.key}
      /\ MapOf(D \cup {f}) =
           [k \in Keys(D) \cup {f.key} |-> IF k = f.key THEN f.value ELSE MapOf(D)[k]]
  <2>1. f.key \notin Keys(D)
    BY <1>1
  <2> QED
    BY <1>1, <2>1, AddToSet, ZenonT(60)
<1>3. Keys(D \cup {f}) = Keys(E)
  <2>1. e.key \in Keys(E) /\ Keys(D \cup {f}) = (Keys(E) \ {e.key}) \cup {e.key}
    BY <1>1, <1>2
  <2> QED
    BY <2>1
<1>4. MapOf(D \cup {f}) =
        [k \in Keys(E) \cup {e.key} |-> IF k = e.key THEN f.value ELSE MapOf(E)[k]]
  <2>1. Keys(D) \cup {f.key} = Keys(E) \cup {e.key}
    BY <1>1
  <2>2. \A k \in Keys(E) \cup {e.key} : k # f.key => MapOf(D)[k] = MapOf(E)[k]
    BY <1>1
  <2> QED
    BY <1>2, <2>1, <2>2
<1> QED
  BY <1>2, <1>3, <1>4 DEF D

-------------------------------------------------------------------------------
(* The entries of the state.                                               *)
LEMMA UnionIn ==
  ASSUME NEW v, NEW w
  PROVE  UNION ({Range(v[b]) : b \in DOMAIN v} \cup {Range(w[b]) : b \in DOMAIN w})
           = In(v) \cup In(w)
  BY DEF In

LEMMA AllEntries ==
  Entries = In(vector) \cup In(bigger) /\ Entries' = In(vector') \cup In(bigger')
  BY UnionIn DEF Entries

LEMMA NoneIn == In(NoVector) = {}
  BY DEF In, NoVector

LEMMA NotNoVector ==
  ASSUME NEW size \in Nat \ {0}, NEW v, GoodTable(v, size) PROVE v # NoVector
<1>1. 0 \in DOMAIN v
  BY DEF GoodTable
<1> QED
  BY <1>1 DEF NoVector

LEMMA UniqueEntries == ASSUME Scalars, Chains PROVE Unique(Entries)
<1>1. mask + 1 \in Nat /\ 2 * (mask + 1) \in Nat
  BY DEF Scalars
<1>2. Unique(In(vector))
  BY <1>1, UniqueTable, NoneIn DEF Chains, Unique
<1>3. Unique(In(bigger))
  BY <1>1, UniqueTable, NoneIn DEF Chains, Unique
<1> QED
  BY <1>2, <1>3, AllEntries DEF Chains, Unique

(* The arguments of a call.                                                *)
LEMMA Arguments ==
  ASSUME NEW r \in Calls
  PROVE  /\ r.op \in {"at", "remove", "at_put", "count", "destroy"}
         /\ r.op \in {"at", "remove", "at_put"} => r.key \in Key
         /\ r.op = "at_put" => r.value \in Value
<1>1. CASE r \in [op : {"at", "remove"}, key : Key, value : {NULL}]
  BY <1>1
<1>2. CASE r \in [op : {"at_put"}, key : Key, value : Value]
  BY <1>2
<1>3. CASE r \in [op : {"count", "destroy"}, key : {NULL}, value : {NULL}]
  BY <1>3
<1> QED
  BY <1>1, <1>2, <1>3 DEF Calls

(* A call works on a table.                                                *)
LEMMA RunsFacts ==
  ASSUME IInv, NEW op, Runs(op)
  PROVE  /\ pc = "called" /\ request \in Calls /\ request.op = op
         /\ vector # NoVector /\ bigger = NoVector
<1>1. pc = "called" /\ request.op = op
  BY DEF Runs
<1>2. request \in Calls
  BY <1>1 DEF IInv, Requested
<1>3. vector # NoVector /\ bigger = NoVector
  BY <1>1 DEF IInv, Chains
<1> QED
  BY <1>1, <1>2, <1>3

(* Looking up a key finds its entry, if there is one.                      *)
LEMMA FoundFacts ==
  ASSUME IInv, pc = "called", NEW k \in Key
  PROVE  /\ Entries = In(vector) /\ GoodTable(vector, mask + 1)
         /\ Bucket(k) \in 0 .. mask /\ GoodChain(Chain(k), Bucket(k), mask + 1)
         /\ Found(k) = {} => k \notin Keys(Entries)
         /\ \A n \in Found(k) :
              n \in DOMAIN Chain(k) /\ Chain(k)[n] \in Entries /\ Chain(k)[n].key = k
<1>1. mask \in Nat /\ mask + 1 \in Nat /\ 0 < mask + 1 /\ mask + 1 - 1 = mask
  BY DEF IInv, Scalars
<1>2. GoodTable(vector, mask + 1) /\ bigger = NoVector
  BY DEF IInv, Chains
<1>3. Entries = In(vector)
  BY <1>2, AllEntries, NoneIn
<1>4. Bucket(k) \in 0 .. mask
  BY <1>1, HashAssumption, ModRange DEF Bucket
<1>5. GoodChain(Chain(k), Bucket(k), mask + 1) /\ Range(Chain(k)) \subseteq In(vector)
  BY <1>1, <1>2, <1>4, InChain DEF Chain
<1>6. \A n \in Found(k) : n \in DOMAIN Chain(k) /\ Chain(k)[n].key = k
  BY DEF Found, Match
<1>7. ASSUME k \in Keys(Entries) PROVE Found(k) # {}
  <2>1. PICK e \in In(vector) : e.key = k
    BY <1>3, <1>7 DEF Keys
  <2>2. e.hash = Hash[k] /\ e \in Range(Chain(k))
    BY <1>1, <1>2, <2>1, InTable DEF Chain, Bucket
  <2>3. PICK n \in DOMAIN Chain(k) : Chain(k)[n] = e
    BY <2>2 DEF Range
  <2>4. DOMAIN Chain(k) = 1 .. Len(Chain(k)) /\ Len(Chain(k)) \in Nat
    BY <1>5, LenProperties DEF GoodChain
  <2>5. \A m \in 1 .. n - 1 : m \in DOMAIN Chain(k) /\ m # n
    BY <2>3, <2>4
  <2>6. \A m \in 1 .. n - 1 : ~Match(Chain(k)[m], k)
    BY <1>5, <2>1, <2>3, <2>5 DEF Match, GoodChain, Distinct
  <2>7. n \in Found(k)
    BY <2>1, <2>2, <2>3, <2>6 DEF Found, Match
  <2> QED
    BY <2>7
<1> QED
  BY <1>2, <1>3, <1>4, <1>5, <1>6, <1>7 DEF Range

-------------------------------------------------------------------------------
(* The steps: each keeps the invariant and changes the set of entries as   *)
(* its lemma says.                                                         *)
LEMMA InitIInv == Init => IInv /\ Entries = {}
<1> SUFFICES ASSUME Init PROVE IInv /\ Entries = {}
  OBVIOUS
<1>1. Entries = {} /\ Keys({}) = {}
  BY AllEntries, NoneIn DEF Init, Keys
<1>2. Scalars
  BY DEF Init, Scalars, Answer
<1>3. Chains
  BY NoneIn DEF Init, Chains
<1>4. Counted
  BY <1>1, FS_EmptySet DEF Init, Counted
<1>5. Owned /\ Requested /\ KeysOwned
  BY <1>1 DEF Init, Owned, Requested, KeysOwned
<1> QED
  BY <1>1, <1>2, <1>3, <1>4, <1>5 DEF IInv

LEMMA InitTableIInv ==
  ASSUME IInv, NEW t \in {"string", "pointer"}, LTE_InlineHash_init(t)
  PROVE  IInv' /\ Entries = {} /\ Entries' = {}
<1>1. pc = "idle" /\ vector = NoVector /\ bigger = NoVector /\ mask = 0 /\ count = 0
  BY DEF LTE_InlineHash_init, IInv, Chains
<1>2. /\ vector' = Empty(InitialSize) /\ mask' = InitialSize - 1 /\ count' = 0 /\ kind' = t
      /\ copies' = copies /\ pc' = "idle" /\ request' = request /\ i' = i
      /\ bigger' = NoVector /\ out' = out
  BY <1>1 DEF LTE_InlineHash_init, loop
<1>3. InitialSize \in Nat \ {0} /\ mask' + 1 = InitialSize
  BY <1>2, InitialSizeAssumption
<1>4. GoodTable(vector', mask' + 1) /\ In(vector') = {}
  BY <1>2, <1>3, EmptyTable
<1>5. Entries = {} /\ Entries' = {} /\ Keys({}) = {}
  BY <1>1, <1>2, <1>4, AllEntries, NoneIn DEF Keys
<1>6. Scalars'
  BY <1>1, <1>2, <1>3 DEF IInv, Scalars
<1>7. Chains'
  BY <1>2, <1>3, <1>4, NotNoVector, NoneIn DEF Chains
<1>8. Counted'
  BY <1>2, <1>3, <1>5, FS_EmptySet DEF Counted
<1>9. Owned' /\ KeysOwned'
  BY <1>2, <1>5 DEF IInv, Owned, KeysOwned
<1>10. Requested'
  BY <1>1, <1>2 DEF IInv, Requested
<1> QED
  BY <1>5, <1>6, <1>7, <1>8, <1>9, <1>10 DEF IInv

(* A call, and the return of one that leaves the table alone.              *)
LEMMA CallIInv ==
  ASSUME IInv, Call
  PROVE  /\ IInv' /\ Entries' = Entries /\ pc = "idle" /\ pc' = "called"
         /\ request = NoRequest /\ request' \in Calls /\ out' = Answer(0, NULL)
<1>1. /\ pc = "idle" /\ pc' = "called" /\ vector # NoVector /\ request' \in Calls
      /\ vector' = vector /\ mask' = mask /\ count' = count /\ kind' = kind
      /\ copies' = copies /\ i' = i /\ bigger' = bigger /\ out' = Answer(0, NULL)
  BY DEF Call, Ready, table
<1>2. Entries' = Entries
  BY <1>1 DEF Entries
<1>3. Scalars'
  BY <1>1 DEF IInv, Scalars, Answer
<1>4. Chains'
  BY <1>1 DEF IInv, Chains
<1>5. request = NoRequest /\ Requested'
  BY <1>1 DEF IInv, Requested
<1>6. Owned' /\ Counted' /\ KeysOwned'
  BY <1>1, <1>2 DEF IInv, Owned, Counted, KeysOwned
<1> QED
  BY <1>1, <1>2, <1>3, <1>4, <1>5, <1>6 DEF IInv

LEMMA ReadIInv ==
  ASSUME IInv, pc = "called", UNCHANGED table, Return,
         out' \in [status : Nat, value : Value \cup {NULL}]
  PROVE  IInv' /\ Entries' = Entries
<1>1. /\ pc' = "idle" /\ request' = NoRequest /\ i' = i /\ bigger' = bigger
      /\ vector' = vector /\ mask' = mask /\ count' = count /\ kind' = kind
      /\ copies' = copies
  BY DEF Return, table
<1>2. Entries' = Entries
  BY <1>1 DEF Entries
<1>3. Scalars' /\ Requested'
  BY <1>1 DEF IInv, Scalars, Requested
<1>4. Chains'
  BY <1>1 DEF IInv, Chains
<1>5. Owned' /\ Counted' /\ KeysOwned'
  BY <1>1, <1>2 DEF IInv, Owned, Counted, KeysOwned
<1> QED
  BY <1>2, <1>3, <1>4, <1>5 DEF IInv

LEMMA StutterIInv == ASSUME IInv, UNCHANGED vars PROVE IInv' /\ Entries' = Entries
<1>1. /\ vector' = vector /\ mask' = mask /\ count' = count /\ kind' = kind
      /\ copies' = copies /\ pc' = pc /\ request' = request /\ i' = i
      /\ bigger' = bigger /\ out' = out
  BY DEF vars, table, loop
<1>2. Entries' = Entries
  BY <1>1 DEF Entries
<1>3. Scalars' /\ Requested'
  BY <1>1, <1>2 DEF IInv, Scalars, Requested
<1>4. Chains'
  BY <1>1 DEF IInv, Chains
<1>5. Owned' /\ Counted' /\ KeysOwned'
  BY <1>1, <1>2 DEF IInv, Owned, Counted, KeysOwned
<1> QED
  BY <1>2, <1>3, <1>4, <1>5 DEF IInv

LEMMA ReplaceIInv ==
  ASSUME IInv, NEW k \in Key, NEW w \in Value, Replace(k, w)
  PROVE  /\ IInv' /\ Scalars /\ out' = Answer(0, NULL) /\ pc = "called" /\ pc' = "idle"
         /\ request.op = "at_put" /\ request' = NoRequest
         /\ \E e \in Entries : \E f : e.key = k /\ f.key = k /\ f.value = w
                                      /\ Entries' = (Entries \ {e}) \cup {f}
<1>1. pc = "called" /\ request.op = "at_put" /\ mask \in Nat
  BY DEF Replace, Runs, IInv, Scalars
<1>2. PICK size \in Nat \ {0} : size = mask + 1
  BY <1>1
<1>3. PICK n \in Found(k) : vector' = [vector EXCEPT ![Bucket(k)][n].value = w]
  BY DEF Replace
<1>4. PICK b : b = Bucket(k)
  OBVIOUS
<1>5. PICK s : s = vector[b]
  OBVIOUS
<1>6. PICK e : e = s[n]
  OBVIOUS
<1>7. PICK f : f = [e EXCEPT !.value = w]
  OBVIOUS
<1>8. PICK t : t = [s EXCEPT ![n] = f]
  OBVIOUS
<1>9. Replaced(s, n, w, t, f) /\ Changed(vector, b, t, vector')
  BY <1>3, <1>4, <1>5, <1>6, <1>7, <1>8 DEF Replaced, Changed
<1>10. /\ Entries = In(vector) /\ GoodTable(vector, size) /\ b \in 0 .. size - 1
       /\ GoodChain(s, b, size) /\ n \in DOMAIN s /\ e \in Entries /\ e.key = k
  BY <1>1, <1>2, <1>4, <1>5, <1>6, FoundFacts DEF Chain
<1>11. /\ GoodChain(t, b, size) /\ Range(t) = (Range(s) \ {e}) \cup {f}
       /\ f.key = e.key /\ f.value = w /\ f.owns_key = e.owns_key
  BY <1>6, <1>9, <1>10, ReplaceInChain
<1>12. GoodTable(vector', size) /\ In(vector') = (In(vector) \ Range(s)) \cup Range(t)
  BY <1>5, <1>9, <1>10, <1>11, ChangeChain
<1>13. /\ mask' = mask /\ count' = count /\ kind' = kind /\ copies' = copies
       /\ pc' = "idle" /\ request' = NoRequest /\ i' = i /\ bigger' = NoVector
       /\ bigger = NoVector /\ out' = Answer(0, NULL)
  BY <1>1 DEF Replace, Return, IInv, Chains
<1>14. Range(s) \subseteq In(vector) /\ e \in Range(s)
  BY <1>5, <1>6, <1>10, InChain DEF Range
<1>15. Entries' = (Entries \ {e}) \cup {f}
  BY <1>10, <1>11, <1>12, <1>13, <1>14, AllEntries, NoneIn
<1>16. Keys(Entries') = Keys(Entries)
  BY <1>10, <1>11, <1>15 DEF Keys
<1>17. Scalars'
  BY <1>13 DEF IInv, Scalars, Answer
<1>18. Chains'
  BY <1>2, <1>12, <1>13, NotNoVector, NoneIn DEF Chains
<1>19. Owned'
  BY <1>10, <1>11, <1>13, <1>15 DEF IInv, Owned
<1>20. KeysOwned'
  <2>1. \A q \in Key : (\E x \in Entries' : x.key = q) <=> (\E x \in Entries : x.key = q)
    BY <1>16 DEF Keys
  <2> QED
    BY <1>13, <2>1 DEF IInv, KeysOwned
<1>21. Requested' /\ Counted'
  BY <1>1, <1>13, <1>16 DEF IInv, Requested, Counted
<1> QED
  BY <1>1, <1>10, <1>11, <1>13, <1>15, <1>17, <1>18, <1>19, <1>20, <1>21 DEF IInv

LEMMA StartAddIInv ==
  ASSUME IInv, StartAdd(request.key)
  PROVE  /\ IInv' /\ Entries' = Entries /\ pc = "called" /\ pc' # "destroy"
         /\ request' = request /\ out' = out
<1> DEFINE k == request.key
<1>1. /\ Runs("at_put") /\ Found(k) = {} /\ mask \in Nat /\ count \in Nat
      /\ 2 * (mask + 1) \in Nat \ {0}
  BY DEF StartAdd, IInv, Scalars
<1>12. /\ pc = "called" /\ request \in Calls /\ request.op = "at_put"
       /\ vector # NoVector /\ k \in Key
  BY <1>1, RunsFacts, Arguments
<1>2. /\ request' = request /\ out' = out /\ vector' = vector
      /\ mask' = mask /\ count' = count /\ kind' = kind /\ copies' = copies
  BY DEF StartAdd, table
<1>3. k \notin Keys(Entries) /\ bigger = NoVector
  BY <1>1, <1>12, FoundFacts DEF IInv, Chains
<1> HIDE DEF k
<1>4. \/ MustGrow /\ pc' = "grow" /\ i' = 0 /\ bigger' = Empty(2 * (mask + 1))
      \/ ~MustGrow /\ pc' = "add" /\ i' = i /\ bigger' = bigger
  BY DEF StartAdd
<1>5. In(bigger') = {} /\ (pc' = "grow" => GoodTable(bigger', 2 * (mask + 1)))
  BY <1>1, <1>3, <1>4, EmptyTable, NoneIn
<1>6. Entries' = Entries
  BY <1>2, <1>3, <1>5, AllEntries, NoneIn
<1>7. Scalars'
  BY <1>1, <1>2, <1>4 DEF IInv, Scalars
<1>8. Chains'
  BY <1>1, <1>2, <1>3, <1>4, <1>5, <1>12 DEF IInv, Chains
<1>9. Owned' /\ KeysOwned'
  BY <1>2, <1>6 DEF IInv, Owned, KeysOwned
<1>10. Requested'
  BY <1>2, <1>3, <1>4, <1>6, <1>12 DEF Requested, k
<1>11. Counted'
  BY <1>1, <1>2, <1>4, <1>6, <1>12 DEF IInv, Counted, MustGrow
<1> QED
  BY <1>2, <1>4, <1>6, <1>7, <1>8, <1>9, <1>10, <1>11, <1>12 DEF IInv

LEMMA AddEntryIInv ==
  ASSUME IInv, AddEntry
  PROVE  /\ IInv' /\ pc = "add" /\ pc' = "idle" /\ out' = Answer(0, NULL)
         /\ request.op = "at_put" /\ request' = NoRequest
         /\ request.key \in Key \ Keys(Entries) /\ request.value \in Value
         /\ \E e : e.key = request.key /\ e.value = request.value
                   /\ Entries' = Entries \cup {e}
<1>1. /\ pc = "add" /\ bigger = NoVector /\ vector # NoVector
      /\ mask \in Nat /\ count \in Nat /\ count <= mask
  BY DEF AddEntry, IInv, Scalars, Chains, Counted
<1>25. /\ request \in Calls /\ request.op = "at_put" /\ request.key \in Key
       /\ request.value \in Value
  <2>1. request \in Calls /\ request.op = "at_put"
    BY <1>1 DEF IInv, Requested
  <2> QED
    BY <2>1, Arguments
<1>2. PICK size \in Nat \ {0} : size = mask + 1
  BY <1>1
<1>3. PICK k \in Key : k = request.key
  BY <1>25
<1>4. k \notin Keys(Entries) /\ request.value \in Value
  BY <1>1, <1>3, <1>25 DEF IInv, Requested
<1>5. PICK e : e = [key |-> k, hash |-> Hash[k], value |-> request.value,
                    owns_key |-> kind = "string"]
  OBVIOUS
<1>6. /\ e \in Entry /\ e.key = k /\ e.hash = Hash[k] /\ e.value = request.value
      /\ e.owns_key = (kind = "string") /\ Hash[k] \in Nat
  BY <1>4, <1>5, HashAssumption DEF Entry
<1>7. PICK b : b = Bucket(k)
  OBVIOUS
<1>8. b = e.hash % size /\ b \in 0 .. size - 1
  BY <1>2, <1>6, <1>7, ModRange DEF Bucket
<1>9. PICK s : s = vector[b]
  OBVIOUS
<1>10. PICK t : t = <<e>> \o s
  OBVIOUS
<1>11. Changed(vector, b, t, vector')
  <2>1. vector' = [vector EXCEPT ![b] = <<e>> \o vector[b]]
    BY <1>3, <1>5, <1>7 DEF AddEntry
  <2> QED
    BY <2>1, <1>9, <1>10 DEF Changed
<1>12. GoodTable(vector, size) /\ Entries = In(vector)
  BY <1>1, <1>2, AllEntries, NoneIn DEF IInv, Chains
<1>13. GoodChain(s, b, size) /\ Range(s) \subseteq In(vector)
  BY <1>8, <1>9, <1>12, InChain
<1>14. GoodChain(t, b, size) /\ Range(t) = Range(s) \cup {e}
  <2>1. \A f \in Range(s) : f.key # e.key
    BY <1>4, <1>6, <1>12, <1>13 DEF Keys
  <2>2. Placed(e, b, size)
    BY <1>6, <1>8 DEF Placed
  <2> QED
    BY <1>6, <1>10, <1>13, <2>1, <2>2, PrependChain
<1>15. GoodTable(vector', size) /\ In(vector') = (In(vector) \ Range(s)) \cup Range(t)
  <2>1. b \in 0 .. size - 1 /\ size \in Nat
    BY <1>8
  <2> QED
    BY <2>1, <1>9, <1>11, <1>12, <1>14, ChangeChain
<1>16. /\ mask' = mask /\ count' = count + 1 /\ kind' = kind /\ i' = i /\ bigger' = NoVector
       /\ copies' = (IF kind = "string" THEN [copies EXCEPT ![k] = @ + 1] ELSE copies)
       /\ pc' = "idle" /\ request' = NoRequest /\ out' = Answer(0, NULL)
  BY <1>1, <1>3 DEF AddEntry, Return
<1>17. Entries' = Entries \cup {e}
  BY <1>12, <1>13, <1>14, <1>15, <1>16, AllEntries, NoneIn
<1>18. Keys(Entries') = Keys(Entries) \cup {k}
  BY <1>6, <1>17 DEF Keys
<1>19. Scalars'
  BY <1>1, <1>3, <1>16 DEF IInv, Scalars, Answer
<1>20. Chains'
  BY <1>2, <1>15, <1>16, NotNoVector, NoneIn DEF Chains
<1>21. Owned'
  BY <1>6, <1>16, <1>17 DEF IInv, Owned
<1>22. Counted'
  <2>1. IsFiniteSet(Keys(Entries)) /\ count = Cardinality(Keys(Entries))
    BY <1>1 DEF IInv, Counted
  <2>2. /\ IsFiniteSet(Keys(Entries) \cup {k})
        /\ Cardinality(Keys(Entries) \cup {k}) = Cardinality(Keys(Entries)) + 1
    BY <1>4, <2>1, FS_AddElement
  <2> QED
    BY <1>1, <1>16, <1>18, <2>1, <2>2 DEF Counted
<1>23. KeysOwned'
  <2>1. \A q \in Key : (\E x \in Entries' : x.key = q) <=> (q = k \/ \E x \in Entries : x.key = q)
    BY <1>18 DEF Keys
  <2>2. ~ \E x \in Entries : x.key = k
    BY <1>4 DEF Keys
  <2>3. copies \in [Key -> Int] /\ KeysOwned
    BY DEF IInv, Scalars
  <2>4. CASE kind = "string"
    <3>1. copies[k] = 0 /\ copies'[k] = 1 /\ \A q \in Key : q # k => copies'[q] = copies[q]
      BY <1>16, <2>2, <2>3, <2>4 DEF KeysOwned
    <3> QED
      BY <1>16, <2>1, <2>3, <2>4, <3>1 DEF KeysOwned
  <2>5. CASE kind # "string"
    BY <1>16, <2>3, <2>5 DEF KeysOwned
  <2> QED
    BY <2>4, <2>5
<1>24. Requested'
  BY <1>16 DEF Requested
<1> QED
  BY <1>1, <1>3, <1>4, <1>6, <1>16, <1>17, <1>19, <1>20, <1>21, <1>22, <1>23, <1>24, <1>25
  DEF IInv

(* Moving an entry leaves it in the table.                                 *)
LEMMA MoveEntryIInv ==
  ASSUME IInv, MoveEntry
  PROVE  /\ IInv' /\ Entries' = Entries /\ pc = "grow" /\ pc' = "grow"
         /\ request' = request /\ out' = out
<1>1. /\ pc = "grow" /\ i <= mask /\ i \in Nat /\ vector[i] # <<>> /\ mask \in Nat
      /\ vector # NoVector
  <2>1. pc = "grow" /\ i <= mask /\ vector[i] # <<>>
    BY DEF MoveEntry
  <2>2. i \in Nat /\ mask \in Nat
    BY DEF IInv, Scalars
  <2>3. vector # NoVector
    BY <2>1 DEF IInv, Chains
  <2> QED
    BY <2>1, <2>2, <2>3
<1>2. PICK size \in Nat \ {0} : size = mask + 1
  BY <1>1
<1>3. PICK double \in Nat \ {0} : double = 2 * (mask + 1)
  BY <1>1
<1>4. GoodTable(vector, size) /\ GoodTable(bigger, double)
      /\ \A x \in In(vector), y \in In(bigger) : x.key # y.key
  BY <1>1, <1>2, <1>3 DEF IInv, Chains
<1>5. PICK b \in 0 .. size - 1 : b = i
  BY <1>1, <1>2
<1>6. PICK s : s = vector[b]
  OBVIOUS
<1>7. PICK t : t = Tail(s)
  OBVIOUS
<1>8. PICK e : e = Head(s)
  OBVIOUS
<1>9. GoodChain(s, b, size) /\ Range(s) \subseteq In(vector)
  BY <1>4, <1>6, InChain
<1>10. GoodChain(t, b, size) /\ Range(t) = Range(s) \ {e} /\ e \in Range(s)
  BY <1>1, <1>5, <1>6, <1>7, <1>8, <1>9, TailOfChain
<1>11. Changed(vector, b, t, vector')
  BY <1>5, <1>6, <1>7 DEF MoveEntry, Changed
<1>12. GoodTable(vector', size) /\ In(vector') = (In(vector) \ Range(s)) \cup Range(t)
  BY <1>4, <1>6, <1>10, <1>11, ChangeChain
<1>13. e \in In(vector) /\ e \in Entry /\ e.hash = Hash[e.key] /\ e.hash \in Nat
  <2>1. e \in In(vector) /\ size \in Nat
    BY <1>9, <1>10
  <2>2. e \in Entry /\ e.hash = Hash[e.key]
    BY <1>4, <2>1, InTable
  <2> QED
    BY <2>1, <2>2 DEF Entry
<1>14. PICK c : c = e.hash % double
  OBVIOUS
<1>15. c \in 0 .. double - 1
  BY <1>13, <1>14, ModRange
<1>16. PICK r : r = bigger[c]
  OBVIOUS
<1>17. PICK u : u = <<e>> \o r
  OBVIOUS
<1>18. GoodChain(r, c, double) /\ Range(r) \subseteq In(bigger)
  BY <1>4, <1>15, <1>16, InChain
<1>19. GoodChain(u, c, double) /\ Range(u) = Range(r) \cup {e}
  <2>1. \A f \in Range(r) : f.key # e.key
    BY <1>4, <1>13, <1>18
  <2>2. Placed(e, c, double)
    BY <1>13, <1>14 DEF Placed
  <2> QED
    BY <1>13, <1>17, <1>18, <2>1, <2>2, PrependChain
<1>20. Changed(bigger, c, u, bigger')
  <2>1. bigger' = [bigger EXCEPT ![c] = <<e>> \o bigger[c]]
    BY <1>3, <1>5, <1>6, <1>8, <1>14 DEF MoveEntry
  <2> QED
    BY <2>1, <1>16, <1>17 DEF Changed
<1>21. GoodTable(bigger', double) /\ In(bigger') = (In(bigger) \ Range(r)) \cup Range(u)
  BY <1>4, <1>15, <1>16, <1>19, <1>20, ChangeChain
<1>22. In(vector') = In(vector) \ {e}
  BY <1>9, <1>10, <1>12
<1>23. In(bigger') = In(bigger) \cup {e}
  BY <1>18, <1>19, <1>21
<1>24. Entries' = Entries
  BY <1>13, <1>22, <1>23, AllEntries
<1>25. /\ mask' = mask /\ count' = count /\ kind' = kind /\ copies' = copies
       /\ pc' = pc /\ request' = request /\ i' = i /\ out' = out
  BY DEF MoveEntry
<1>26. \A x \in In(vector'), y \in In(bigger') : x.key # y.key
  <2>1. Unique(In(vector))
    BY <1>2, <1>4, UniqueTable
  <2> QED
    BY <1>4, <1>13, <1>22, <1>23, <2>1 DEF Unique
<1>27. \A a \in 0 .. mask' : a < i' => vector'[a] = <<>>
  <2>1. \A a \in 0 .. mask : a < i => vector[a] = <<>> /\ a # i
    BY <1>1 DEF IInv, Chains
  <2>2. DOMAIN vector = 0 .. mask
    BY <1>1, <1>2, <1>4 DEF GoodTable
  <2> QED
    BY <1>5, <1>11, <1>25, <2>1, <2>2 DEF Changed
<1>28. Chains'
  <2>1. vector' # NoVector /\ mask' + 1 = size /\ 2 * (mask' + 1) = double /\ pc' = "grow"
    BY <1>1, <1>2, <1>3, <1>12, <1>25, NotNoVector
  <2> QED
    BY <1>12, <1>21, <1>26, <1>27, <2>1 DEF Chains
<1>29. Scalars' /\ Owned' /\ Requested' /\ Counted' /\ KeysOwned'
  BY <1>24, <1>25 DEF IInv, Scalars, Owned, Requested, Counted, KeysOwned
<1> QED
  BY <1>1, <1>24, <1>25, <1>28, <1>29 DEF IInv

(* A vector whose chains are empty holds nothing.                          *)
LEMMA NothingLeft ==
  ASSUME NEW size \in Nat, NEW v, GoodTable(v, size), \A b \in 0 .. size - 1 : v[b] = <<>>
  PROVE  In(v) = {}
<1>1. DOMAIN v = 0 .. size - 1 /\ DOMAIN <<>> = {}
  BY EmptySeq, LenProperties DEF GoodTable
<1> QED
  BY <1>1 DEF In, Range

LEMMA EndGrowIInv ==
  ASSUME IInv, EndGrow
  PROVE  /\ IInv' /\ Entries' = Entries /\ pc = "grow" /\ pc' = "add"
         /\ request' = request /\ out' = out
<1>1. pc = "grow" /\ i = mask + 1 /\ mask \in Nat /\ count \in Nat /\ vector # NoVector
  BY DEF EndGrow, IInv, Scalars, Chains
<1>2. PICK size \in Nat \ {0} : size = mask + 1
  BY <1>1
<1>3. PICK double \in Nat \ {0} : double = 2 * (mask + 1)
  BY <1>1
<1>4. GoodTable(vector, size) /\ GoodTable(bigger, double)
  BY <1>1, <1>2, <1>3 DEF IInv, Chains
<1>5. In(vector) = {}
  <2>1. \A b \in 0 .. size - 1 : b \in 0 .. mask /\ b < i
    BY <1>1, <1>2
  <2>2. \A b \in 0 .. size - 1 : vector[b] = <<>>
    BY <1>1, <2>1 DEF IInv, Chains
  <2> QED
    BY <1>2, <1>4, <2>2, NothingLeft
<1>6. /\ vector' = bigger /\ mask' = 2 * (mask + 1) - 1 /\ pc' = "add" /\ i' = 0
      /\ bigger' = NoVector /\ count' = count /\ kind' = kind /\ copies' = copies
      /\ request' = request /\ out' = out
  BY DEF EndGrow
<1>7. mask' \in Nat /\ mask' + 1 = double /\ double = 2 * mask + 2
  BY <1>1, <1>3, <1>6
<1>8. Entries' = Entries
  BY <1>5, <1>6, AllEntries, NoneIn
<1>9. Scalars'
  BY <1>6, <1>7 DEF IInv, Scalars
<1>10. Chains'
  BY <1>4, <1>6, <1>7, NotNoVector, NoneIn DEF Chains
<1>11. Counted'
  <2>1. count <= mask + 1
    BY DEF IInv, Counted
  <2>2. count <= mask' /\ count <= mask' + 1
    BY <1>1, <1>6, <2>1
  <2> QED
    BY <1>1, <1>6, <1>8, <2>2 DEF IInv, Counted
<1>12. Owned' /\ Requested' /\ KeysOwned'
  BY <1>1, <1>6, <1>8 DEF IInv, Owned, Requested, KeysOwned
<1> QED
  BY <1>1, <1>6, <1>8, <1>9, <1>10, <1>11, <1>12 DEF IInv

LEMMA RemoveEntryIInv ==
  ASSUME IInv, NEW k \in Key, RemoveEntry(k)
  PROVE  /\ IInv' /\ pc = "called" /\ pc' = "idle"
         /\ request.op = "remove" /\ request' = NoRequest
         /\ \/ k \notin Keys(Entries) /\ Entries' = Entries /\ out' = Answer(0, NULL)
            \/ \E e \in Entries : /\ e.key = k /\ out' = Answer(1, e.value)
                                  /\ Entries' = Entries \ {e}
<1>1. /\ pc = "called" /\ request.op = "remove" /\ mask \in Nat /\ count \in Nat
      /\ Return /\ pc' = "idle" /\ request' = NoRequest
  BY DEF RemoveEntry, Runs, Return, IInv, Scalars
<1>2. CASE Found(k) = {}
  <2>1. out' = Answer(0, NULL) /\ UNCHANGED table
    BY <1>2 DEF RemoveEntry
  <2>2. IInv' /\ Entries' = Entries
    BY <1>1, <2>1, ReadIInv DEF Answer
  <2>3. k \notin Keys(Entries)
    BY <1>1, <1>2, FoundFacts
  <2> QED
    BY <1>1, <2>1, <2>2, <2>3
<1>3. CASE Found(k) # {}
  <2>1. PICK n \in Found(k) :
          /\ vector' = [vector EXCEPT ![Bucket(k)] = RemoveAt(vector[Bucket(k)], n)]
          /\ count' = count - 1
          /\ out' = Answer(1, Chain(k)[n].value)
          /\ copies' = (IF kind = "string" /\ Chain(k)[n].owns_key
                        THEN [copies EXCEPT ![k] = copies[k] - 1] ELSE copies)
          /\ UNCHANGED <<mask, kind>>
    BY <1>3 DEF RemoveEntry
  <2>2. PICK size \in Nat \ {0} : size = mask + 1
    BY <1>1
  <2>3. PICK b : b = Bucket(k)
    OBVIOUS
  <2>4. PICK s : s = vector[b]
    OBVIOUS
  <2>5. PICK e : e = s[n]
    OBVIOUS
  <2>6. PICK t : t = RemoveAt(s, n)
    OBVIOUS
  <2>7. /\ Entries = In(vector) /\ GoodTable(vector, size) /\ b \in 0 .. size - 1
        /\ GoodChain(s, b, size) /\ n \in DOMAIN s /\ e \in Entries /\ e.key = k
    BY <1>1, <2>2, <2>3, <2>4, <2>5, FoundFacts DEF Chain
  <2>8. GoodChain(t, b, size) /\ Range(t) = Range(s) \ {e}
    BY <2>5, <2>6, <2>7, RemoveFromChain
  <2>9. Changed(vector, b, t, vector')
    BY <2>1, <2>3, <2>4, <2>6 DEF Changed
  <2>10. GoodTable(vector', size) /\ In(vector') = (In(vector) \ Range(s)) \cup Range(t)
    <3>1. b \in 0 .. size - 1 /\ size \in Nat
      BY <2>7
    <3> QED
      BY <2>4, <2>7, <2>8, <2>9, <3>1, ChangeChain
  <2>11. /\ mask' = mask /\ count' = count - 1 /\ kind' = kind /\ out' = Answer(1, e.value)
         /\ copies' = (IF kind = "string" THEN [copies EXCEPT ![k] = copies[k] - 1] ELSE copies)
         /\ pc' = "idle" /\ request' = NoRequest /\ i' = i /\ bigger' = NoVector
         /\ bigger = NoVector
    <3>1. e.owns_key = (kind = "string") /\ e = Chain(k)[n]
      BY <2>3, <2>4, <2>5, <2>7 DEF IInv, Owned, Chain
    <3> QED
      BY <1>1, <2>1, <3>1 DEF Return, IInv, Chains
  <2>12. Range(s) \subseteq In(vector) /\ e \in Range(s)
    BY <2>4, <2>5, <2>7, InChain DEF Range
  <2>13. Entries' = Entries \ {e}
    BY <2>7, <2>8, <2>10, <2>11, <2>12, AllEntries, NoneIn
  <2>14. k \in Keys(Entries) /\ Keys(Entries') = Keys(Entries) \ {k}
    <3>1. Unique(Entries)
      BY UniqueEntries DEF IInv
    <3> QED
      BY <2>7, <2>13, <3>1, RemoveFromSet
  <2>15. Counted' /\ count' \in Nat
    <3>1. IsFiniteSet(Keys(Entries)) /\ count = Cardinality(Keys(Entries)) /\ count <= mask + 1
      BY <1>1 DEF IInv, Counted
    <3>2. /\ IsFiniteSet(Keys(Entries) \ {k})
          /\ Cardinality(Keys(Entries) \ {k}) = Cardinality(Keys(Entries)) - 1
      BY <2>14, <3>1, FS_RemoveElement
    <3>3. Cardinality(Keys(Entries) \ {k}) \in Nat
      BY <3>2, FS_CardinalityType
    <3> QED
      BY <1>1, <2>11, <2>14, <3>1, <3>2, <3>3 DEF Counted
  <2>16. Scalars'
    <3>1. e.value \in Value
      BY <2>2, <2>7, InTable DEF Entry
    <3> QED
      BY <1>1, <2>11, <2>15, <3>1 DEF IInv, Scalars, Answer
  <2>17. Chains'
    BY <2>2, <2>10, <2>11, NotNoVector, NoneIn DEF Chains
  <2>18. Owned' /\ Requested'
    BY <2>11, <2>13 DEF IInv, Owned, Requested
  <2>19. KeysOwned'
    <3>1. \A q \in Key : (\E x \in Entries' : x.key = q) <=> q # k /\ \E x \in Entries : x.key = q
      BY <2>14 DEF Keys
    <3>2. \E x \in Entries : x.key = k
      BY <2>7
    <3>3. copies \in [Key -> Int] /\ KeysOwned
      BY DEF IInv, Scalars
    <3>4. CASE kind = "string"
      <4>1. copies[k] = 1 /\ copies'[k] = 0 /\ \A q \in Key : q # k => copies'[q] = copies[q]
        BY <2>11, <3>2, <3>3, <3>4 DEF KeysOwned
      <4> QED
        BY <2>11, <3>1, <3>3, <3>4, <4>1 DEF KeysOwned
    <3>5. CASE kind # "string"
      BY <2>11, <3>3, <3>5 DEF KeysOwned
    <3> QED
      BY <3>4, <3>5
  <2> QED
    BY <1>1, <2>7, <2>11, <2>13, <2>15, <2>16, <2>17, <2>18, <2>19 DEF IInv
<1> QED
  BY <1>2, <1>3

LEMMA DestroyIInv ==
  ASSUME IInv, LTE_InlineHash_destroy
  PROVE  /\ IInv' /\ Entries' = Entries /\ pc = "called" /\ pc' = "destroy"
         /\ request.op = "destroy" /\ request' = request /\ out' = out
<1>1. /\ pc = "called" /\ vector # NoVector /\ mask \in Nat
      /\ request \in Calls /\ request.op = "destroy"
  BY RunsFacts DEF LTE_InlineHash_destroy, IInv, Scalars
<1>2. /\ vector' = vector /\ mask' = mask /\ count' = count /\ kind' = kind
      /\ copies' = copies /\ pc' = "destroy" /\ request' = request /\ i' = 0
      /\ bigger' = bigger /\ out' = out
  BY DEF LTE_InlineHash_destroy, table
<1>3. Entries' = Entries
  BY <1>2, AllEntries
<1>4. Scalars'
  BY <1>1, <1>2 DEF IInv, Scalars
<1>5. Chains'
  BY <1>1, <1>2 DEF IInv, Chains
<1>6. Owned' /\ Requested' /\ Counted' /\ KeysOwned'
  BY <1>1, <1>2, <1>3 DEF IInv, Owned, Requested, Counted, KeysOwned
<1> QED
  BY <1>1, <1>2, <1>3, <1>4, <1>5, <1>6 DEF IInv

LEMMA FreeEntryIInv ==
  ASSUME IInv, FreeEntry
  PROVE  IInv' /\ pc = "destroy" /\ pc' = "destroy" /\ request' = request /\ out' = out
<1>1. /\ pc = "destroy" /\ i <= mask /\ i \in Nat /\ vector[i] # <<>> /\ mask \in Nat
      /\ vector # NoVector /\ bigger = NoVector
  BY DEF FreeEntry, IInv, Scalars, Chains
<1>2. PICK size \in Nat \ {0} : size = mask + 1
  BY <1>1
<1>3. GoodTable(vector, size) /\ Entries = In(vector)
  BY <1>1, <1>2, AllEntries, NoneIn DEF IInv, Chains
<1>4. PICK b \in 0 .. size - 1 : b = i
  BY <1>1, <1>2
<1>5. PICK s : s = vector[b]
  OBVIOUS
<1>6. PICK t : t = Tail(s)
  OBVIOUS
<1>7. PICK e : e = Head(s)
  OBVIOUS
<1>8. GoodChain(s, b, size) /\ Range(s) \subseteq In(vector)
  BY <1>3, <1>5, InChain
<1>9. GoodChain(t, b, size) /\ Range(t) = Range(s) \ {e} /\ e \in Range(s)
  BY <1>1, <1>4, <1>5, <1>6, <1>7, <1>8, TailOfChain
<1>10. Changed(vector, b, t, vector')
  BY <1>4, <1>5, <1>6 DEF FreeEntry, Changed
<1>11. GoodTable(vector', size) /\ In(vector') = (In(vector) \ Range(s)) \cup Range(t)
  BY <1>3, <1>5, <1>9, <1>10, ChangeChain
<1>12. /\ mask' = mask /\ count' = count /\ kind' = kind /\ pc' = "destroy"
       /\ request' = request /\ i' = i /\ bigger' = NoVector /\ out' = out
       /\ copies' = (IF e.owns_key THEN [copies EXCEPT ![e.key] = copies[e.key] - 1]
                     ELSE copies)
  BY <1>1, <1>4, <1>5, <1>7 DEF FreeEntry, loop
<1>13. Entries' = Entries \ {e} /\ e \in Entries
  BY <1>3, <1>8, <1>9, <1>11, <1>12, AllEntries, NoneIn
<1>14. e.key \in Keys(Entries) /\ Keys(Entries') = Keys(Entries) \ {e.key} /\ e.key \in Key
  <2>1. Unique(Entries)
    BY UniqueEntries DEF IInv
  <2>2. e \in Entry
    BY <1>2, <1>3, <1>13, InTable
  <2> QED
    BY <1>13, <2>1, <2>2, RemoveFromSet DEF Entry
<1>15. Scalars'
  BY <1>1, <1>12, <1>14 DEF IInv, Scalars
<1>16. \A c \in 0 .. mask' : c < i' => vector'[c] = <<>>
  <2>1. \A c \in 0 .. mask : c < i => vector[c] = <<>> /\ c # i
    BY <1>1 DEF IInv, Chains
  <2>2. DOMAIN vector = 0 .. mask
    BY <1>1, <1>2, <1>3 DEF GoodTable
  <2> QED
    BY <1>4, <1>10, <1>12, <2>1, <2>2 DEF Changed
<1>17. Chains'
  BY <1>2, <1>11, <1>12, <1>16, NotNoVector, NoneIn DEF Chains
<1>18. Owned' /\ Requested' /\ Counted'
  BY <1>1, <1>12, <1>13 DEF IInv, Owned, Requested, Counted
<1>19. KeysOwned'
  <2>1. PICK k \in Key : k = e.key
    BY <1>14
  <2>2. \A q \in Key : (\E x \in Entries' : x.key = q) <=> q # k /\ \E x \in Entries : x.key = q
    BY <1>14, <2>1 DEF Keys
  <2>3. \E x \in Entries : x.key = k
    BY <1>13, <2>1
  <2>4. copies \in [Key -> Int] /\ KeysOwned /\ e.owns_key = (kind = "string")
    BY <1>13 DEF IInv, Scalars, Owned
  <2>5. CASE kind = "string"
    <3>1. copies' = [copies EXCEPT ![k] = copies[k] - 1] /\ copies[k] = 1
      BY <1>12, <2>1, <2>3, <2>4, <2>5 DEF KeysOwned
    <3>2. copies'[k] = 0 /\ \A q \in Key : q # k => copies'[q] = copies[q]
      BY <2>4, <3>1
    <3> QED
      BY <1>12, <2>2, <2>4, <2>5, <3>2 DEF KeysOwned
  <2>6. CASE kind # "string"
    BY <1>12, <2>4, <2>6 DEF KeysOwned
  <2> QED
    BY <2>5, <2>6
<1> QED
  BY <1>1, <1>12, <1>15, <1>17, <1>18, <1>19 DEF IInv

LEMMA EndDestroyIInv ==
  ASSUME IInv, EndDestroy
  PROVE  /\ IInv' /\ pc = "destroy" /\ pc' = "idle" /\ out' = out
         /\ request.op = "destroy" /\ request' = NoRequest
         /\ Entries = {} /\ Entries' = {}
<1>1. /\ pc = "destroy" /\ i = mask + 1 /\ mask \in Nat /\ vector # NoVector
      /\ bigger = NoVector
  BY DEF EndDestroy, IInv, Scalars, Chains
<1>2. PICK size \in Nat \ {0} : size = mask + 1
  BY <1>1
<1>3. GoodTable(vector, size)
  BY <1>1, <1>2 DEF IInv, Chains
<1>4. In(vector) = {}
  <2>1. \A b \in 0 .. size - 1 : b \in 0 .. mask /\ b < i
    BY <1>1, <1>2
  <2>2. \A b \in 0 .. size - 1 : vector[b] = <<>>
    BY <1>1, <2>1 DEF IInv, Chains
  <2> QED
    BY <1>2, <1>3, <2>2, NothingLeft
<1>5. /\ vector' = NoVector /\ mask' = 0 /\ count' = 0 /\ pc' = "idle" /\ i' = 0
      /\ kind' = kind /\ copies' = copies /\ request' = NoRequest /\ bigger' = NoVector
      /\ out' = out
  BY <1>1 DEF EndDestroy
<1>6. Entries = {} /\ Entries' = {} /\ Keys({}) = {}
  BY <1>1, <1>4, <1>5, AllEntries, NoneIn DEF Keys
<1>7. Scalars'
  BY <1>5 DEF IInv, Scalars
<1>8. Chains' /\ Requested'
  BY <1>5, NoneIn DEF Chains, Requested
<1>9. Counted'
  BY <1>5, <1>6, FS_EmptySet DEF Counted
<1>10. Owned' /\ KeysOwned'
  BY <1>5, <1>6 DEF IInv, Owned, KeysOwned
<1>11. request.op = "destroy"
  BY <1>1 DEF IInv, Requested
<1> QED
  BY <1>1, <1>5, <1>6, <1>7, <1>8, <1>9, <1>10, <1>11 DEF IInv

LEMMA NextChainIInv ==
  ASSUME IInv, NextChain
  PROVE  IInv' /\ Entries' = Entries /\ pc' = pc /\ request' = request /\ out' = out
<1>1. /\ pc \in {"grow", "destroy"} /\ i <= mask /\ i \in Nat /\ vector[i] = <<>>
      /\ mask \in Nat /\ vector # NoVector
  BY DEF NextChain, IInv, Scalars, Chains
<1>2. /\ vector' = vector /\ mask' = mask /\ count' = count /\ kind' = kind
      /\ copies' = copies /\ pc' = pc /\ request' = request /\ i' = i + 1
      /\ bigger' = bigger /\ out' = out
  BY DEF NextChain, table
<1>3. Entries' = Entries
  BY <1>2, AllEntries
<1>4. Scalars'
  BY <1>1, <1>2 DEF IInv, Scalars
<1>5. \A b \in 0 .. mask : b < i' => vector[b] = <<>>
  <2>1. \A b \in 0 .. mask : b < i' => b < i \/ b = i
    BY <1>1, <1>2
  <2> QED
    BY <1>1, <2>1 DEF IInv, Chains
<1>6. Chains'
  BY <1>1, <1>2, <1>5 DEF IInv, Chains
<1>7. Owned' /\ Requested' /\ Counted' /\ KeysOwned'
  BY <1>2, <1>3 DEF IInv, Owned, Requested, Counted, KeysOwned
<1> QED
  BY <1>2, <1>3, <1>4, <1>6, <1>7 DEF IInv

(* What looking up a key returns.                                          *)
LEMMA AtIInv ==
  ASSUME IInv, NEW k \in Key, At(k)
  PROVE  /\ IInv' /\ Entries' = Entries /\ pc = "called" /\ pc' = "idle"
         /\ request.op = "at" /\ request' = NoRequest
         /\ \/ k \notin Keys(Entries) /\ out' = Answer(0, NULL)
            \/ \E e \in Entries : e.key = k /\ out' = Answer(0, e.value)
<1>1. /\ pc = "called" /\ pc' = "idle" /\ request.op = "at" /\ request' = NoRequest
      /\ Return /\ UNCHANGED table
  BY DEF At, Runs, Return
<1>2. CASE Found(k) = {}
  <2>1. out' = Answer(0, NULL) /\ k \notin Keys(Entries)
    BY <1>1, <1>2, FoundFacts DEF At
  <2>2. IInv' /\ Entries' = Entries
    BY <1>1, <2>1, ReadIInv DEF Answer
  <2> QED
    BY <1>1, <2>1, <2>2
<1>3. CASE Found(k) # {}
  <2>1. PICK n \in Found(k) : out' = Answer(0, Chain(k)[n].value)
    BY <1>3 DEF At
  <2>2. PICK e : e = Chain(k)[n]
    OBVIOUS
  <2>3. e \in In(vector) /\ e \in Entries /\ e.key = k /\ GoodTable(vector, mask + 1)
    BY <1>1, <2>1, <2>2, FoundFacts
  <2>4. e.value \in Value
    BY <2>3, InTable DEF Entry, IInv, Scalars
  <2>5. IInv' /\ Entries' = Entries
    BY <1>1, <2>1, <2>2, <2>4, ReadIInv DEF Answer
  <2> QED
    BY <1>1, <2>1, <2>2, <2>3, <2>5
<1> QED
  BY <1>2, <1>3

LEMMA CountIInv ==
  ASSUME IInv, LTE_InlineHash_count
  PROVE  /\ IInv' /\ Entries' = Entries /\ pc = "called" /\ pc' = "idle"
         /\ request.op = "count" /\ request' = NoRequest
         /\ out' = Answer(Cardinality(Keys(Entries)), NULL)
<1>1. /\ pc = "called" /\ pc' = "idle" /\ request.op = "count" /\ request' = NoRequest
      /\ Return /\ UNCHANGED table /\ out' = Answer(count, NULL)
  BY DEF LTE_InlineHash_count, Runs, Return
<1>2. count \in Nat /\ count = Cardinality(Keys(Entries))
  BY <1>1 DEF IInv, Scalars, Counted
<1>3. IInv' /\ Entries' = Entries
  BY <1>1, <1>2, ReadIInv DEF Answer
<1> QED
  BY <1>1, <1>2, <1>3

(* The operation that was called, with its arguments.                      *)
LEMMA OperationCases ==
  ASSUME IInv, Operation
  PROVE  \/ request.key \in Key /\ (At(request.key) \/ RemoveEntry(request.key))
         \/ /\ request.key \in Key /\ request.value \in Value
            /\ Replace(request.key, request.value)
         \/ StartAdd(request.key)
         \/ LTE_InlineHash_count \/ LTE_InlineHash_destroy
<1>1. CASE At(request.key)
  <2>1. request \in Calls /\ request.op = "at"
    BY <1>1, RunsFacts DEF At
  <2> QED
    BY <1>1, <2>1, Arguments
<1>2. CASE RemoveEntry(request.key)
  <2>1. request \in Calls /\ request.op = "remove"
    BY <1>2, RunsFacts DEF RemoveEntry
  <2> QED
    BY <1>2, <2>1, Arguments
<1>3. CASE Replace(request.key, request.value)
  <2>1. request \in Calls /\ request.op = "at_put"
    BY <1>3, RunsFacts DEF Replace
  <2> QED
    BY <1>3, <2>1, Arguments
<1> QED
  BY <1>1, <1>2, <1>3 DEF Operation

LEMMA NextIInv == IInv /\ [Next]_vars => IInv'
<1> SUFFICES ASSUME IInv, [Next]_vars PROVE IInv'
  OBVIOUS
<1>1. CASE Program
  BY <1>1, CallIInv, InitTableIInv DEF Program
<1>2. CASE Operation
  <2>1. CASE request.key \in Key /\ At(request.key)
    BY <2>1, AtIInv
  <2>2. CASE request.key \in Key /\ RemoveEntry(request.key)
    BY <2>2, RemoveEntryIInv
  <2>3. CASE /\ request.key \in Key /\ request.value \in Value
             /\ Replace(request.key, request.value)
    BY <2>3, ReplaceIInv
  <2>4. CASE StartAdd(request.key)
    BY <2>4, StartAddIInv
  <2>5. CASE LTE_InlineHash_count
    BY <2>5, CountIInv
  <2>6. CASE LTE_InlineHash_destroy
    BY <2>6, DestroyIInv
  <2> QED
    BY <1>2, <2>1, <2>2, <2>3, <2>4, <2>5, <2>6, OperationCases
<1>3. CASE Loop
  BY <1>3, AddEntryIInv, MoveEntryIInv, EndGrowIInv, FreeEntryIInv, EndDestroyIInv,
     NextChainIInv DEF Loop
<1>4. CASE UNCHANGED vars
  BY <1>4, StutterIInv
<1> QED
  BY <1>1, <1>2, <1>3, <1>4 DEF Next

-------------------------------------------------------------------------------
(* The table is in order at every step of every operation, the ones of     *)
(* grow_table and LTE_InlineHash_destroy included (utils.c:255-343).       *)
THEOREM Invariance == Spec => []IInv
<1>1. Init => IInv
  BY InitIInv
<1> QED
  BY <1>1, NextIInv, PTL DEF Spec

(* Every variable keeps its type (utils.h:48-60).                          *)
THEOREM Types == Spec => []TypeOK
<1>1. IInv => TypeOK
  <2> SUFFICES ASSUME IInv PROVE TypeOK
    OBVIOUS
  <2>1. mask \in Nat /\ mask + 1 - 1 = mask /\ 2 * (mask + 1) - 1 = 2 * mask + 1
    BY DEF IInv, Scalars
  <2>2. vector \in {NoVector} \cup [0 .. mask -> Seq(Entry)]
    BY <2>1 DEF IInv, Chains, GoodTable
  <2>3. bigger \in {NoVector} \cup [0 .. 2 * mask + 1 -> Seq(Entry)]
    BY <2>1 DEF IInv, Chains, GoodTable
  <2>4. request \in Calls \cup {NoRequest}
    BY DEF IInv, Requested
  <2> QED
    BY <2>2, <2>3, <2>4 DEF TypeOK, IInv, Scalars
<1> QED
  BY <1>1, Invariance, PTL

(* The copies of keys match the entries (utils.c:226-228, 305, 377-379).   *)
THEOREM CopiesOwned == Spec => []KeysOwned
<1>1. IInv => KeysOwned
  BY DEF IInv
<1> QED
  BY <1>1, Invariance, PTL

(* count is right whenever the table can be used, and no table has more    *)
(* entries than chains (utils.c:299, 304, 373).                            *)
THEOREM CountIsExact == Spec => []CountExact
<1>1. IInv => CountExact
  BY DEF IInv, Counted, CountExact, Keys
<1> QED
  BY <1>1, Invariance, PTL

(* A key is in one place of a vector.                                      *)
LEMMA OnePlace ==
  ASSUME NEW size \in Nat, NEW v, GoodTable(v, size),
         NEW b \in DOMAIN v, NEW c \in DOMAIN v, NEW n \in DOMAIN v[b], NEW m \in DOMAIN v[c],
         v[b][n].key = v[c][m].key
  PROVE  b = c /\ n = m
<1>1. DOMAIN v = 0 .. size - 1
  BY DEF GoodTable
<1>2. PICK e : e = v[b][n]
  OBVIOUS
<1>3. PICK f : f = v[c][m]
  OBVIOUS
<1>4. GoodChain(v[b], b, size) /\ GoodChain(v[c], c, size)
  BY <1>1, InChain
<1>5. e \in Range(v[b]) /\ f \in Range(v[c]) /\ e.key = f.key
  BY <1>2, <1>3 DEF Range
<1>6. b = c
  BY <1>4, <1>5 DEF GoodChain, Placed
<1> QED
  BY <1>4, <1>6 DEF GoodChain, Distinct

(* An entry is in the chain of its hash, and the only one for its key,     *)
(* also while grow_table moves the others (utils.c:246-253, 282-284).      *)
THEOREM EveryEntryFound == Spec => []Findable
<1>1. IInv => Findable
  <2> SUFFICES ASSUME IInv PROVE Findable
    OBVIOUS
  <2>1. mask + 1 \in Nat /\ 2 * (mask + 1) \in Nat
    BY DEF IInv, Scalars
  <2>2. \A b \in DOMAIN vector : GoodTable(vector, mask + 1)
    BY DEF IInv, Chains, NoVector
  <2>3. \A b \in DOMAIN bigger : GoodTable(bigger, 2 * (mask + 1))
    BY DEF IInv, Chains, NoVector
  <2>4. \A b \in DOMAIN vector : \A e \in Range(vector[b]) :
          e.hash = Hash[e.key] /\ b = e.hash % (mask + 1)
    BY <2>2 DEF GoodTable, GoodChain, Placed
  <2>5. \A b \in DOMAIN bigger : \A e \in Range(bigger[b]) :
          e.hash = Hash[e.key] /\ b = e.hash % (2 * (mask + 1))
    BY <2>3 DEF GoodTable, GoodChain, Placed
  <2>6. ASSUME NEW p \in Filled, NEW q \in Filled, ChainAt(p)[p[3]].key = ChainAt(q)[q[3]].key
        PROVE  p = q
    <3>1. \A x \in Filled :
            \/ /\ x = <<"vector", x[2], x[3]>> /\ x[2] \in DOMAIN vector
               /\ ChainAt(x) = vector[x[2]] /\ x[3] \in DOMAIN vector[x[2]]
            \/ /\ x = <<"bigger", x[2], x[3]>> /\ x[2] \in DOMAIN bigger
               /\ ChainAt(x) = bigger[x[2]] /\ x[3] \in DOMAIN bigger[x[2]]
      BY DEF Filled, Places, ChainAt
    <3>2. \A x \in Filled : x[1] \in {"vector", "bigger"} /\ x = <<x[1], x[2], x[3]>>
      BY DEF Filled, Places
    <3>3. CASE p[1] = "vector" /\ q[1] = "vector"
      <4>1. p[2] = q[2] /\ p[3] = q[3]
        BY <2>1, <2>2, <2>6, <3>1, <3>3, OnePlace
      <4> QED
        BY <3>2, <3>3, <4>1
    <3>4. CASE p[1] = "bigger" /\ q[1] = "bigger"
      <4>1. p[2] = q[2] /\ p[3] = q[3]
        BY <2>1, <2>3, <2>6, <3>1, <3>4, OnePlace
      <4> QED
        BY <3>2, <3>4, <4>1
    <3>5. CASE p[1] # q[1]
      <4>1. \A b \in DOMAIN vector : \A n \in DOMAIN vector[b] : vector[b][n] \in In(vector)
        BY DEF In, Range
      <4>2. \A b \in DOMAIN bigger : \A n \in DOMAIN bigger[b] : bigger[b][n] \in In(bigger)
        BY DEF In, Range
      <4>3. \A e \in In(vector), f \in In(bigger) : e.key # f.key
        BY DEF IInv, Chains
      <4> QED
        BY <2>6, <3>1, <3>5, <4>1, <4>2, <4>3
    <3> QED
      BY <3>2, <3>3, <3>4, <3>5
  <2> QED
    BY <2>4, <2>5, <2>6 DEF Findable
<1> QED
  BY <1>1, Invariance, PTL

-------------------------------------------------------------------------------
(* The map that the table stands for.                                      *)
NoMap == [k \in {} |-> NULL]
Map == IF pc = "destroy" THEN NoMap ELSE MapOf(Entries)

LEMMA EmptyMap == MapOf({}) = NoMap
  BY DEF MapOf, Keys, NoMap

(* The steps of the map are those of the table, of which the ones that     *)
(* move or free entries are none.                                          *)
LEMMA CallMaps ==
  ASSUME request = NoRequest, request' \in Calls, out' = Answer(0, NULL), Map' = Map
  PROVE  Promise!Next
<1>1. Promise!NoCall = NoRequest /\ Promise!Calls = Calls
  BY DEF Promise!NoCall, NoRequest, Promise!Calls, Calls
<1>2. Promise!Invoke
  BY <1>1 DEF Promise!Invoke, Promise!Answer, Answer, Map, NoMap, MapOf, Keys
<1> QED
  BY <1>2 DEF Promise!Next

LEMMA PutMaps ==
  ASSUME NEW k, NEW w, k = request.key, w = request.value,
         request.op = "at_put", request' = NoRequest, out' = Answer(0, NULL),
         Map' = [x \in DOMAIN Map \cup {k} |-> IF x = k THEN w ELSE Map[x]]
  PROVE  Promise!Next
<1>1. Promise!NoCall = NoRequest
  BY DEF Promise!NoCall, NoRequest
<1>2. Promise!AtPut
  BY <1>1 DEF Promise!AtPut, Promise!Answer, Answer, Map, NoMap, MapOf, Keys
<1> QED
  BY <1>2 DEF Promise!Next

LEMMA AtMaps ==
  ASSUME NEW k, k = request.key, request.op = "at", request' = NoRequest,
         out' = Answer(0, IF k \in DOMAIN Map THEN Map[k] ELSE NULL), Map' = Map
  PROVE  Promise!Next
<1>1. Promise!NoCall = NoRequest
  BY DEF Promise!NoCall, NoRequest
<1>2. Promise!At
  BY <1>1 DEF Promise!At, Promise!Answer, Answer, Map, NoMap, MapOf, Keys
<1> QED
  BY <1>2 DEF Promise!Next

LEMMA RemoveMaps ==
  ASSUME NEW k, k = request.key, request.op = "remove", request' = NoRequest,
         out' = (IF k \in DOMAIN Map THEN Answer(1, Map[k]) ELSE Answer(0, NULL)),
         Map' = [x \in DOMAIN Map \ {k} |-> Map[x]]
  PROVE  Promise!Next
<1>1. Promise!NoCall = NoRequest
  BY DEF Promise!NoCall, NoRequest
<1>2. Promise!Remove
  BY <1>1 DEF Promise!Remove, Promise!Answer, Answer, Map, NoMap, MapOf, Keys
<1> QED
  BY <1>2 DEF Promise!Next

LEMMA CountMaps ==
  ASSUME request.op = "count", request' = NoRequest,
         out' = Answer(Cardinality(DOMAIN Map), NULL), Map' = Map
  PROVE  Promise!Next
<1>1. \A S : Promise!Cardinality(S) = Cardinality(S)
  BY DEF Promise!Cardinality, Cardinality
<1>2. Promise!NoCall = NoRequest
  BY DEF Promise!NoCall, NoRequest
<1>3. Promise!Count
  BY <1>1, <1>2 DEF Promise!Count, Promise!Answer, Answer, Map, NoMap, MapOf, Keys
<1> QED
  BY <1>3 DEF Promise!Next

LEMMA DestroyMaps ==
  ASSUME request.op = "destroy", request' = request, Map' = NoMap, out' = out
  PROVE  Promise!Next
<1>1. Promise!Destroy
  BY DEF Promise!Destroy, Map, NoMap, MapOf, Keys
<1> QED
  BY <1>1 DEF Promise!Next

LEMMA DestroyedMaps ==
  ASSUME request.op = "destroy", request' = NoRequest, Map = NoMap, Map' = Map, out' = out
  PROVE  Promise!Next
<1>1. Promise!NoCall = NoRequest
  BY DEF Promise!NoCall, NoRequest
<1>2. Promise!Destroyed
  BY <1>1 DEF Promise!Destroyed, Map, NoMap, MapOf, Keys
<1> QED
  BY <1>2 DEF Promise!Next

LEMMA NothingMaps ==
  ASSUME Map' = Map, request' = request, out' = out PROVE UNCHANGED Promise!dictVars
  BY DEF Promise!dictVars, Map, NoMap, MapOf, Keys

(* The operation that was called does to the map what Dictionary says.     *)
LEMMA OperationMaps ==
  ASSUME IInv, Operation PROVE Promise!Next \/ UNCHANGED Promise!dictVars
<1>1. Unique(Entries) /\ DOMAIN MapOf(Entries) = Keys(Entries)
  BY UniqueEntries DEF IInv, MapOf
<1>2. PICK k : k = request.key
  OBVIOUS
<1>3. PICK w : w = request.value
  OBVIOUS
<1>4. CASE k \in Key /\ At(k)
  <2>1. Map = MapOf(Entries) /\ Map' = Map /\ request.op = "at" /\ request' = NoRequest
    BY <1>4, AtIInv DEF Map
  <2>2. out' = Answer(0, IF k \in DOMAIN Map THEN Map[k] ELSE NULL)
    <3>1. CASE k \notin Keys(Entries) /\ out' = Answer(0, NULL)
      BY <1>1, <2>1, <3>1
    <3>2. ASSUME NEW e \in Entries, e.key = k, out' = Answer(0, e.value)
          PROVE  out' = Answer(0, IF k \in DOMAIN Map THEN Map[k] ELSE NULL)
      BY <1>1, <2>1, <3>2, MapValue
    <3> QED
      BY <1>4, <3>1, <3>2, AtIInv
  <2> QED
    BY <1>2, <2>1, <2>2, AtMaps
<1>5. CASE k \in Key /\ RemoveEntry(k)
  <2>1. /\ Map = MapOf(Entries) /\ Map' = MapOf(Entries)'
        /\ request.op = "remove" /\ request' = NoRequest
    BY <1>5, RemoveEntryIInv DEF Map
  <2>2. CASE k \notin Keys(Entries) /\ Entries' = Entries /\ out' = Answer(0, NULL)
    <3>1. Map' = Map /\ k \notin DOMAIN Map
      BY <1>1, <2>1, <2>2
    <3>2. Map = [x \in DOMAIN Map \ {k} |-> Map[x]]
      <4>1. DOMAIN Map \ {k} = DOMAIN Map /\ Map = [x \in DOMAIN Map |-> Map[x]]
        BY <2>1, <3>1 DEF MapOf
      <4> QED
        BY <4>1
    <3> QED
      BY <1>2, <2>1, <2>2, <3>1, <3>2, RemoveMaps
  <2>3. ASSUME NEW e \in Entries, e.key = k, out' = Answer(1, e.value),
               Entries' = Entries \ {e}
        PROVE  Promise!Next
    <3>1. Map' = [x \in Keys(Entries) \ {k} |-> MapOf(Entries)[x]] /\ k \in Keys(Entries)
      BY <1>1, <2>1, <2>3, RemoveFromSet
    <3>2. MapOf(Entries)[k] = e.value
      BY <1>1, <2>3, MapValue
    <3>3. k \in DOMAIN Map /\ out' = Answer(1, Map[k])
      BY <1>1, <2>1, <2>3, <3>1, <3>2
    <3>4. Map' = [x \in DOMAIN Map \ {k} |-> Map[x]]
      BY <1>1, <2>1, <3>1
    <3>5. out' = (IF k \in DOMAIN Map THEN Answer(1, Map[k]) ELSE Answer(0, NULL))
      BY <3>3
    <3> QED
      BY <1>2, <2>1, <3>4, <3>5, RemoveMaps
  <2> QED
    BY <1>5, <2>2, <2>3, RemoveEntryIInv
<1>6. CASE k \in Key /\ w \in Value /\ Replace(k, w)
  <2>1. /\ Map = MapOf(Entries) /\ Map' = MapOf(Entries)' /\ out' = Answer(0, NULL)
        /\ request.op = "at_put" /\ request' = NoRequest
    BY <1>6, ReplaceIInv DEF Map
  <2>2. PICK e \in Entries : \E f : e.key = k /\ f.key = k /\ f.value = w
                                   /\ Entries' = (Entries \ {e}) \cup {f}
    BY <1>6, ReplaceIInv
  <2>3. Map' = [x \in Keys(Entries) \cup {k} |-> IF x = k THEN w ELSE MapOf(Entries)[x]]
    BY <1>1, <2>1, <2>2, ReplaceInSet
  <2> QED
    BY <1>1, <1>2, <1>3, <2>1, <2>3, PutMaps
<1>7. CASE StartAdd(k)
  <2>1. Map' = Map /\ request' = request /\ out' = out
    BY <1>2, <1>7, StartAddIInv DEF Map
  <2> QED
    BY <2>1, NothingMaps
<1>8. CASE LTE_InlineHash_count
  <2>1. /\ Map = MapOf(Entries) /\ Map' = Map /\ request.op = "count" /\ request' = NoRequest
        /\ out' = Answer(Cardinality(Keys(Entries)), NULL)
    BY <1>8, CountIInv DEF Map
  <2> QED
    BY <1>1, <2>1, CountMaps
<1>9. CASE LTE_InlineHash_destroy
  <2>1. Map' = NoMap /\ request.op = "destroy" /\ request' = request /\ out' = out
    BY <1>9, DestroyIInv DEF Map, NoMap
  <2> QED
    BY <2>1, DestroyMaps
<1> QED
  BY <1>2, <1>3, <1>4, <1>5, <1>6, <1>7, <1>8, <1>9, OperationCases

LEMMA LoopMaps ==
  ASSUME IInv, Loop PROVE Promise!Next \/ UNCHANGED Promise!dictVars
<1>1. Unique(Entries) /\ DOMAIN MapOf(Entries) = Keys(Entries)
  BY UniqueEntries DEF IInv, MapOf
<1>2. CASE AddEntry
  <2>1. PICK k : k = request.key
    OBVIOUS
  <2>2. PICK w : w = request.value
    OBVIOUS
  <2>3. /\ k \notin Keys(Entries) /\ Map = MapOf(Entries) /\ Map' = MapOf(Entries)'
        /\ request.op = "at_put" /\ request' = NoRequest /\ out' = Answer(0, NULL)
    BY <1>2, <2>1, AddEntryIInv DEF Map
  <2>4. PICK e : e.key = k /\ e.value = w /\ Entries' = Entries \cup {e}
    BY <1>2, <2>1, <2>2, AddEntryIInv
  <2>5. Map' = [x \in Keys(Entries) \cup {k} |-> IF x = k THEN w ELSE MapOf(Entries)[x]]
    BY <1>1, <2>3, <2>4, AddToSet
  <2> QED
    BY <1>1, <2>1, <2>2, <2>3, <2>5, PutMaps
<1>3. CASE MoveEntry \/ EndGrow
  <2>1. Map' = Map /\ request' = request /\ out' = out
    BY <1>3, MoveEntryIInv, EndGrowIInv DEF Map
  <2> QED
    BY <2>1, NothingMaps
<1>4. CASE FreeEntry
  <2>1. Map' = Map /\ request' = request /\ out' = out
    BY <1>4, FreeEntryIInv DEF Map, NoMap
  <2> QED
    BY <2>1, NothingMaps
<1>5. CASE EndDestroy
  <2>1. /\ Map = NoMap /\ Map' = Map /\ request.op = "destroy" /\ request' = NoRequest
        /\ out' = out
    BY <1>5, EndDestroyIInv, EmptyMap DEF Map
  <2> QED
    BY <2>1, DestroyedMaps
<1>6. CASE NextChain
  <2>1. Map' = Map /\ request' = request /\ out' = out
    BY <1>6, NextChainIInv DEF Map
  <2> QED
    BY <2>1, NothingMaps
<1> QED
  BY <1>2, <1>3, <1>4, <1>5, <1>6 DEF Loop

(* A hash table implements a finite map: at_put, at, remove, count and     *)
(* destroy do to the map what Dictionary says for the key they were given, *)
(* in one of their steps and in that one only, and return what it says     *)
(* (utils.c:219-440).                                                      *)
THEOREM MapImplemented == Spec => MapKept
<1>1. Init => Promise!Init
  <2> SUFFICES ASSUME Init PROVE Promise!Init
    OBVIOUS
  <2>1. Map = NoMap
    BY InitIInv, EmptyMap DEF Map
  <2>2. out = Answer(0, NULL) /\ request = NoRequest
    BY DEF Init
  <2>3. Promise!NoCall = NoRequest
    BY DEF Promise!NoCall, NoRequest
  <2> QED
    BY <2>1, <2>2, <2>3 DEF Promise!Init, Promise!Answer, Answer, Map, NoMap, MapOf, Keys
<1>2. IInv /\ [Next]_vars => [Promise!Next]_(Promise!dictVars)
  <2> SUFFICES ASSUME IInv, [Next]_vars PROVE Promise!Next \/ UNCHANGED Promise!dictVars
    OBVIOUS
  <2>1. CASE Call
    <3>1. Map' = Map
      BY <2>1, CallIInv DEF Map
    <3> QED
      BY <2>1, <3>1, CallIInv, CallMaps
  <2>2. CASE \E t \in {"string", "pointer"} : LTE_InlineHash_init(t)
    <3>1. Map' = Map /\ request' = request /\ out' = out
      BY <2>2, InitTableIInv DEF LTE_InlineHash_init, Map, loop
    <3> QED
      BY <3>1, NothingMaps
  <2>3. CASE Operation
    BY <2>3, OperationMaps
  <2>4. CASE Loop
    BY <2>4, LoopMaps
  <2>5. CASE UNCHANGED vars
    <3>1. Map' = Map /\ request' = request /\ out' = out
      BY <2>5 DEF vars, table, loop, Map, Entries
    <3> QED
      BY <3>1, NothingMaps
  <2> QED
    BY <2>1, <2>2, <2>3, <2>4, <2>5 DEF Next, Program
<1> QED
  BY <1>1, <1>2, Invariance, PTL DEF Spec, MapKept, Promise!Spec
===============================================================================
