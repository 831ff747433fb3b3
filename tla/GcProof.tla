-------------------------------- MODULE GcProof --------------------------------
(***************************************************************************)
(* Gc is safe for every heap, every set of classes and every program, if   *)
(* Unscanned is empty: one lemma for each action shows that it preserves  *)
(* IInv of GcInvariant, and the theorems at the end follow from it.        *)
(***************************************************************************)
EXTENDS GcInvariant, SequenceTheorems, FiniteSetTheorems, TLAPS

USE DEF ObjectWords, FreeListNodeWords

(* Addresses are the multiples of LTE_GC_ALIGNMENT_WORDS in the heap.      *)
LEMMA HeapFacts ==
  /\ heap_size \in Nat /\ heap_size % 4 = 0 /\ heap_size >= 4
  /\ Addr \subseteq Nat /\ 0 \in Addr
  /\ \A a \in Addr : a < heap_size /\ a % 4 = 0
  /\ \A n \in Nat : n % 4 = 0 /\ n < heap_size => n \in Addr
BY HeapAssumption, SMT DEF heap_size, Addr, LTE_GC_ALIGNMENT_WORDS

(* align_size rounds up to a multiple of LTE_GC_ALIGNMENT_WORDS            *)
(* (gc.c:32-34).                                                           *)
LEMMA AlignFacts ==
  ASSUME NEW w \in Nat
  PROVE  align_size(w) \in Nat /\ align_size(w) % 4 = 0 /\ align_size(w) >= w
BY SMT DEF align_size, LTE_GC_ALIGNMENT_WORDS

(* What class_instance_size returns is such a multiple, and not zero       *)
(* (gc.c:36-48).                                                           *)
LEMMA ClassSizeFacts ==
  ASSUME TypeOK, NEW c \in Class
  PROVE  /\ instance_size(c) \in Nat
         /\ class_instance_size(c) \in Nat
         /\ class_instance_size(c) % 4 = 0
         /\ class_instance_size(c) >= 4
<1>1. instance_size(c) \in Nat
  <2>1. iwords \in [Addr -> ClassWords \cup {0}] BY DEF TypeOK
  <2>2. ClassWords \cup {0} \subseteq Nat /\ StaticWords \in [StaticClass -> Nat]
    BY ClassAssumption
  <2> QED BY <2>1, <2>2 DEF instance_size, Class
<1>2. align_size(instance_size(c)) \in Nat /\ align_size(instance_size(c)) % 4 = 0
  BY <1>1, AlignFacts
<1>3. align_size(3) \in Nat /\ align_size(3) % 4 = 0 /\ align_size(3) >= 3
  BY AlignFacts
<1> QED
  BY <1>1, <1>2, <1>3 DEF class_instance_size

(* A block starts and ends at an address, inside the heap.                 *)
LEMMA BlockFacts ==
  ASSUME TypeOK, Aligned, BlocksTileHeap, NEW a \in blocks
  PROVE  /\ a \in Addr /\ a \in Nat
         /\ Size(a) \in Nat /\ Size(a) % 4 = 0 /\ Size(a) >= 4
         /\ a + Size(a) \in Addr \cup {heap_size}
         /\ a + Size(a) <= heap_size
<1>1. a \in Addr /\ a \in Nat
  BY HeapFacts DEF TypeOK
<1>2. hdr[a] \in Class \cup {Free}
  BY <1>1 DEF TypeOK
<1>3. Size(a) \in Nat /\ Size(a) % 4 = 0 /\ Size(a) > 0
  <2>1. CASE hdr[a] = Free
    BY <1>1, <2>1, HeapFacts DEF Size, TypeOK, Aligned, BlocksTileHeap
  <2>2. CASE hdr[a] # Free
    BY <1>2, <2>2, ClassSizeFacts DEF Size
  <2> QED BY <2>1, <2>2
<1>4. a + Size(a) \in Addr \cup {heap_size}
  BY DEF BlocksTileHeap, TypeOK
<1> QED
  BY <1>1, <1>3, <1>4, HeapFacts

(* The layout only depends on the blocks, their headers and their sizes.   *)
LEMMA SameMemory ==
  ASSUME UNCHANGED <<blocks, hdr, fsize, iwords>>
  PROVE  /\ Layout => Layout'
         /\ Object' = Object /\ FreeRecord' = FreeRecord
BY DEF Layout, Aligned, BlocksTileHeap, Sized, Object, FreeRecord, Size,
       class_instance_size, instance_size

(* Marking an object goes on to everything it refers to (gc.c:88-93).      *)
LEMMA HeldTraced ==
  ASSUME TypeOK, Untraced, NEW o \in Object
  PROVE  Holds(o) = Refs(o)
<1>1. o \in Addr /\ hdr[o] \in Class /\ slot[o] \in [Field -> Addr \cup {Null}]
  BY DEF TypeOK, Object
<1>2. Range(slot[o]) = {slot[o][f] : f \in Field}
  BY <1>1 DEF Range
<1>3. CASE Traces(hdr[o])
  BY <1>2, <1>3 DEF Holds, Refs
<1>4. CASE ~Traces(hdr[o])
  <2>1. hdr[o] \in StaticClass \ Tracing
    BY <1>1, <1>4 DEF Traces, Class
  <2>2. \A f \in Field : slot[o][f] = Null
    BY <2>1 DEF Untraced
  <2> QED BY <1>2, <1>4, <2>2, NullAssumption DEF Holds, Refs
<1> QED BY <1>3, <1>4

(* LTE__gc_init establishes the invariant (gc.c:57-72).                    *)
LEMMA InitIInv == ASSUME Init PROVE IInv
<1>0. 0 \in Addr BY HeapFacts
<1>1. TypeOK
  BY <1>0, HeapFacts, ClassAssumption, VarAssumption DEF Init, TypeOK, Emptied, NoRequest, Class
<1>2. Object = {} /\ FreeRecord = {0} /\ Size(0) = heap_size
  BY <1>0 DEF Init, Object, FreeRecord, Size
<1>3. Layout
  BY <1>0, <1>2, HeapFacts DEF Init, Layout, Aligned, BlocksTileHeap, Sized
<1>4. FreeListExact /\ Cursor /\ NeverCorrupt
  BY <1>2 DEF Init, FreeListExact, Cursor, NeverCorrupt, Listed, Range
<1>5. Held = {} /\ Usable \subseteq Var
  BY NullAssumption DEF Init, Held, Usable, Range, Var
<1>6. Untraced /\ NoDangling /\ Marking /\ Requested /\ UnusedNull
  BY <1>2, <1>5, ClassAssumption
  DEF Init, Untraced, NoDangling, Held, Kept, Marking, Collecting, Requested,
      UnusedNull, NoRequest, Usable
<1> QED BY <1>1, <1>3, <1>4, <1>6 DEF IInv

(* What the program holds is kept, and the collector scans all of it.      *)
LEMMA KeptFacts ==
  ASSUME IInv, Unscanned = {}
  PROVE  /\ Held \subseteq Kept /\ Kept \subseteq Object /\ Object \subseteq Addr
         /\ pc \notin {"sweep", "coalesce"} => Kept = Object
         /\ Roots = Held
         /\ Usable \subseteq Var
<1>1. Usable \subseteq Var
  BY DEF IInv, TypeOK, Usable, Var, Range
<1>2. Roots = Held
  BY DEF Roots, Held, Scanned, Usable
<1>3. Held \subseteq Kept
  BY DEF IInv, NoDangling, Held
<1> QED
  BY <1>1, <1>2, <1>3 DEF Kept, Object, IInv, TypeOK

(* A step of the program preserves the invariant if it does not touch the  *)
(* layout and only stores references to objects.                           *)
LEMMA ProgramStep ==
  ASSUME IInv, Unscanned = {}, pc = "run",
         UNCHANGED <<blocks, hdr, fsize, free_list, control, collector>>,
         TypeOK', Layout', Untraced', UnusedNull',
         Held' \subseteq Object, \A o \in Object : Holds(o)' \subseteq Object
  PROVE  IInv'
<1>1. Object' = Object /\ FreeRecord' = FreeRecord
  BY DEF Object, FreeRecord
<1>2. pc' = "run" /\ free_list' = free_list /\ request' = request /\ ret' = ret
      /\ marked' = marked /\ gray' = gray /\ current' = current /\ blocks' = blocks
  BY DEF control, collector
<1>3. FreeListExact' /\ Cursor' /\ NeverCorrupt'
  BY <1>1, <1>2 DEF IInv, FreeListExact, Listed, Cursor, NeverCorrupt
<1>4. NoDangling'
  BY <1>1, <1>2 DEF NoDangling, Kept, Held
<1>5. Marking'
  BY <1>1, <1>2 DEF IInv, Marking, Collecting
<1>6. Requested'
  BY <1>2, ClassAssumption DEF IInv, Requested, Collecting, NoRequest
<1> QED
  BY <1>1, <1>3, <1>4, <1>5, <1>6 DEF IInv

(* The references a program can compute with are references to objects.    *)
LEMMA ReadableFacts ==
  ASSUME IInv, Unscanned = {}, pc = "run", NEW x \in Readable
  PROVE  /\ x \in Addr \cup {Null}
         /\ x \in Addr => x \in Object
<1>1. Held \subseteq Object /\ Usable \subseteq Var
  BY KeptFacts
<1>2. \A o \in Object : Holds(o) \subseteq Object
  BY KeptFacts DEF IInv, NoDangling
<1>3. val \in [Var -> Addr \cup {Null}] /\ slot \in [Addr -> [Field -> Addr \cup {Null}]]
  BY DEF IInv, TypeOK
<1>4. CASE x = Null
  BY <1>4, NullAssumption
<1>5. ASSUME NEW v \in Usable, x = val[v]
      PROVE  x \in Addr \cup {Null} /\ (x \in Addr => x \in Object)
  BY <1>1, <1>3, <1>5 DEF Held
<1>6. ASSUME NEW o \in Instances, NEW f \in Field, x = slot[o][f]
      PROVE  x \in Addr \cup {Null} /\ (x \in Addr => x \in Object)
  <2>1. o \in Addr /\ o \in Held
    BY <1>6 DEF Instances, Held
  <2>2. x \in Addr \cup {Null}
    BY <1>3, <1>6, <2>1
  <2>3. x \in Range(slot[o])
    BY <1>3, <1>6, <2>1 DEF Range
  <2> QED
    BY <1>1, <1>2, <2>1, <2>2, <2>3 DEF Holds
<1> QED
  BY <1>4, <1>5, <1>6 DEF Readable

(* The program's own steps: assignment to a variable,                      *)
LEMMA AssignStep ==
  ASSUME IInv, Unscanned = {}, NEW v \in Var, Assign(v)
  PROVE  IInv'
<1>1. PICK x \in Readable : val' = [val EXCEPT ![v] = x]
  BY DEF Assign
<1>2. pc = "run" /\ v \in Usable
      /\ UNCHANGED <<blocks, hdr, fsize, iwords, slot, free_list, control, collector,
                     allocated_since_last_gc, root_list>>
  BY DEF Assign, memory
<1>3. x \in Addr \cup {Null} /\ (x \in Addr => x \in Object)
  BY <1>2, ReadableFacts
<1>4. val \in [Var -> Addr \cup {Null}] /\ val' \in [Var -> Addr \cup {Null}]
  BY <1>1, <1>3 DEF IInv, TypeOK
<1>5. TypeOK'
  BY <1>2, <1>4 DEF IInv, TypeOK, control, collector
<1>6. Usable' = Usable /\ Usable \subseteq Var
  BY <1>2, KeptFacts DEF Usable
<1>7. Untraced' /\ UnusedNull'
  BY <1>1, <1>2, <1>4, <1>6 DEF IInv, Untraced, UnusedNull, Object
<1>8. Held' \subseteq Held \cup (Addr \cap {x})
  BY <1>1, <1>4, <1>6 DEF Held
<1>9. Held' \subseteq Object
  BY <1>2, <1>3, <1>8, KeptFacts
<1>10. \A o \in Object : Holds(o)' \subseteq Object
  BY <1>2, KeptFacts DEF IInv, NoDangling, Holds
<1> QED
  BY <1>2, <1>5, <1>7, <1>9, <1>10, SameMemory, ProgramStep DEF IInv

(* to a field of an object,                                                *)
LEMMA StoreStep ==
  ASSUME IInv, Unscanned = {}, NEW o \in Addr, NEW f \in Field, Store(o, f)
  PROVE  IInv'
<1>1. PICK x \in Readable : slot' = [slot EXCEPT ![o][f] = x]
  BY DEF Store
<1>2. pc = "run" /\ o \in Instances
      /\ UNCHANGED <<blocks, hdr, fsize, iwords, free_list, control, collector,
                     allocated_since_last_gc, root_list, val>>
  BY DEF Store, program
<1>3. x \in Addr \cup {Null} /\ (x \in Addr => x \in Object)
  BY <1>2, ReadableFacts
<1>4. slot \in [Addr -> [Field -> Addr \cup {Null}]] /\ slot' \in [Addr -> [Field -> Addr \cup {Null}]]
  BY <1>1, <1>3 DEF IInv, TypeOK
<1>5. TypeOK'
  BY <1>2, <1>4 DEF IInv, TypeOK, control, collector
<1>6. Usable' = Usable /\ Held' = Held
  BY <1>2 DEF Usable, Held
<1>7. Traces(hdr[o])
  BY <1>2 DEF Instances
<1>8. Untraced'
  <2> SUFFICES ASSUME NEW b \in Object, hdr[b] \in StaticClass \ Tracing, NEW e \in Field
               PROVE  slot'[b][e] = Null
    BY <1>2 DEF Untraced, Object
  <2>1. b # o
    BY <1>7, ClassAssumption DEF Traces
  <2>2. b \in Addr /\ slot[b][e] = Null
    BY DEF IInv, Untraced, Object, TypeOK
  <2> QED BY <1>1, <1>4, <2>1, <2>2
<1>9. UnusedNull'
  BY <1>2, <1>6 DEF IInv, UnusedNull
<1>10. ASSUME NEW b \in Object PROVE Holds(b)' \subseteq Object
  <2>1. b \in Addr /\ Holds(b) \subseteq Object
    BY <1>2, KeptFacts DEF IInv, NoDangling
  <2>2. Range(slot'[b]) \subseteq Range(slot[b]) \cup {x}
    BY <1>1, <1>4, <2>1 DEF Range
  <2> QED BY <1>2, <1>3, <2>1, <2>2 DEF Holds
<1> QED
  BY <1>2, <1>5, <1>6, <1>8, <1>9, <1>10, KeptFacts, SameMemory, ProgramStep DEF IInv

(* and to the instance size of a class that has no instances yet.          *)
LEMMA DefineClassSizes ==
  ASSUME IInv, NEW c \in Addr, NEW w \in ClassWords, DefineClass(c, w)
  PROVE  /\ Object' = Object
         /\ \A o \in Object : instance_size(hdr[o])' = instance_size(hdr[o])
         /\ \A a \in blocks : Size(a)' = Size(a)
<1>1. iwords[c] = 0 /\ iwords' = [iwords EXCEPT ![c] = w] /\ UNCHANGED <<blocks, hdr, fsize>>
  BY DEF DefineClass
<1>2. iwords \in [Addr -> ClassWords \cup {0}]
  BY DEF IInv, TypeOK
<1>3. Object' = Object /\ Object \subseteq Addr /\ hdr \in [Addr -> Class \cup {Free}]
  BY <1>1 DEF Object, IInv, TypeOK
<1>4. ASSUME NEW o \in Object PROVE instance_size(hdr[o])' = instance_size(hdr[o])
  <2>1. instance_size(hdr[o]) >= 1 /\ hdr[o] \in Class
    BY <1>3 DEF IInv, Layout, Sized, Object
  <2>2. CASE hdr[o] \in StaticClass
    BY <1>1, <2>2 DEF instance_size
  <2>3. CASE hdr[o] \notin StaticClass
    <3>1. iwords[hdr[o]] >= 1 /\ hdr[o] \in Addr
      BY <2>1, <2>3 DEF instance_size, Class
    <3>2. hdr[o] # c
      BY <1>1, <3>1
    <3> QED BY <1>1, <1>2, <2>3, <3>1, <3>2 DEF instance_size
  <2> QED BY <2>2, <2>3
<1>5. ASSUME NEW a \in blocks PROVE Size(a)' = Size(a)
  <2>1. a \in Object \/ hdr[a] = Free
    BY DEF Object
  <2> QED BY <1>1, <1>4, <2>1 DEF Size, class_instance_size
<1> QED
  BY <1>3, <1>4, <1>5

LEMMA DefineClassStep ==
  ASSUME IInv, Unscanned = {}, NEW c \in Addr, NEW w \in ClassWords, DefineClass(c, w)
  PROVE  IInv'
<1>1. pc = "run" /\ iwords[c] = 0 /\ iwords' = [iwords EXCEPT ![c] = w]
      /\ UNCHANGED <<blocks, hdr, fsize, slot, free_list, control, collector,
                     allocated_since_last_gc, root_list, val>>
  BY DEF DefineClass, program
<1>2. iwords \in [Addr -> ClassWords \cup {0}] /\ iwords' \in [Addr -> ClassWords \cup {0}]
  BY <1>1 DEF IInv, TypeOK
<1>3. TypeOK'
  BY <1>1, <1>2 DEF IInv, TypeOK, control, collector
<1>4. Object' = Object /\ Object \subseteq Addr /\ hdr \in [Addr -> Class \cup {Free}]
  BY <1>1 DEF Object, IInv, TypeOK
<1>5. \A o \in Object : instance_size(hdr[o])' = instance_size(hdr[o])
  BY DefineClassSizes
<1>6. \A a \in blocks : Size(a)' = Size(a)
  BY DefineClassSizes
<1>7. Layout'
  BY <1>1, <1>4, <1>5, <1>6 DEF IInv, Layout, Aligned, BlocksTileHeap, Sized
<1>8. Usable' = Usable /\ Held' = Held
  BY <1>1 DEF Usable, Held
<1>9. Untraced' /\ UnusedNull'
  BY <1>1, <1>4, <1>8 DEF IInv, Untraced, UnusedNull
<1>10. \A o \in Object : Holds(o)' \subseteq Object
  BY <1>1, KeptFacts DEF IInv, NoDangling, Holds
<1> QED
  BY <1>1, <1>3, <1>7, <1>8, <1>9, <1>10, KeptFacts, ProgramStep

(* Unlinking the i-th node of a list.                                      *)
LEMMA RemoveAtFacts ==
  ASSUME NEW S, NEW s \in Seq(S), NEW i \in DOMAIN s
  PROVE  /\ RemoveAt(s, i) \in Seq(S)
         /\ DOMAIN RemoveAt(s, i) = 1 .. Len(s) - 1
         /\ \A j \in 1 .. Len(s) - 1 : RemoveAt(s, i)[j] = IF j < i THEN s[j] ELSE s[j + 1]
<1>1. i \in 1 .. Len(s) /\ Len(s) \in Nat
  OBVIOUS
<1>2. SubSeq(s, 1, i - 1) \in Seq(S) /\ Len(SubSeq(s, 1, i - 1)) = i - 1
      /\ \A j \in 1 .. i - 1 : SubSeq(s, 1, i - 1)[j] = s[j]
  BY <1>1
<1>3. SubSeq(s, i + 1, Len(s)) \in Seq(S) /\ Len(SubSeq(s, i + 1, Len(s))) = Len(s) - i
      /\ \A j \in 1 .. Len(s) - i : SubSeq(s, i + 1, Len(s))[j] = s[i + j]
  BY <1>1
<1> DEFINE l == SubSeq(s, 1, i - 1)
           r == SubSeq(s, i + 1, Len(s))
<1>4. l \o r \in Seq(S) /\ Len(l \o r) = Len(l) + Len(r)
      /\ \A j \in 1 .. Len(l) + Len(r) : (l \o r)[j] = IF j <= Len(l) THEN l[j] ELSE r[j - Len(l)]
  BY <1>2, <1>3, ConcatProperties
<1>5. RemoveAt(s, i) = l \o r
  BY DEF RemoveAt
<1> HIDE DEF l, r
<1>6. Len(l) = i - 1 /\ Len(r) = Len(s) - i
      /\ (\A j \in 1 .. i - 1 : l[j] = s[j]) /\ \A j \in 1 .. Len(s) - i : r[j] = s[i + j]
  BY <1>2, <1>3 DEF l, r
<1>7. DOMAIN (l \o r) = 1 .. Len(s) - 1
  BY <1>1, <1>4, <1>6, SMTT(30)
<1>8. ASSUME NEW j \in 1 .. Len(s) - 1
      PROVE  (l \o r)[j] = IF j < i THEN s[j] ELSE s[j + 1]
  <2>1. j \in 1 .. Len(l) + Len(r) /\ (j <= Len(l) <=> j < i)
    BY <1>1, <1>6, SMTT(30)
  <2>2. (l \o r)[j] = IF j <= Len(l) THEN l[j] ELSE r[j - Len(l)]
    BY <1>4, <2>1
  <2>3. CASE j < i
    <3>1. j \in 1 .. i - 1
      BY <1>1, <2>3
    <3> QED BY <1>6, <2>1, <2>2, <2>3, <3>1
  <2>4. CASE ~(j < i)
    <3> DEFINE k == j - (i - 1)
    <3>1. j - Len(l) = k /\ k \in 1 .. Len(s) - i /\ i + k = j + 1
      BY <1>1, <1>6, <2>4, SMTT(30)
    <3> HIDE DEF k
    <3>2. (l \o r)[j] = r[k]
      BY <2>1, <2>2, <2>4, <3>1
    <3>3. r[k] = s[j + 1]
      BY <1>6, <3>1
    <3> QED BY <2>4, <3>2, <3>3
  <2> QED BY <2>3, <2>4
<1> QED
  BY <1>4, <1>5, <1>7, <1>8

(* LTE_gc_register_root (gc.c:193-198).                                    *)
LEMMA RegisterRootStep ==
  ASSUME IInv, Unscanned = {}, NEW v \in Var, LTE_gc_register_root(v)
  PROVE  IInv' /\ Held' \subseteq Held
<1>1. pc = "run" /\ root_list' = <<v>> \o root_list
      /\ UNCHANGED <<blocks, hdr, fsize, iwords, slot, free_list, control, collector,
                     allocated_since_last_gc, val>>
  BY DEF LTE_gc_register_root, memory
<1>2. root_list \in Seq(Var) /\ val \in [Var -> Addr \cup {Null}]
  BY DEF IInv, TypeOK
<1>3. root_list' \in Seq(Var) /\ Range(root_list') = {v} \cup Range(root_list)
  <2>1. <<v>> \in Seq(Var) /\ Len(<<v>>) = 1 /\ <<v>>[1] = v
    OBVIOUS
  <2>2. root_list' \in Seq(Var) /\ Len(root_list') = 1 + Len(root_list) /\ Len(root_list) \in Nat
        /\ \A j \in 1 .. 1 + Len(root_list) :
             root_list'[j] = IF j <= 1 THEN <<v>>[j] ELSE root_list[j - 1]
    BY <1>1, <1>2, <2>1, ConcatProperties
  <2>3. DOMAIN root_list = 1 .. Len(root_list) /\ DOMAIN root_list' = 1 .. 1 + Len(root_list)
    BY <1>2, <2>2
  <2>4. root_list'[1] = v /\ \A j \in 1 .. Len(root_list) : root_list'[j + 1] = root_list[j]
    BY <2>1, <2>2
  <2>5. ASSUME NEW j \in DOMAIN root_list' PROVE root_list'[j] \in {v} \cup Range(root_list)
    <3>1. CASE j = 1
      BY <2>4, <3>1
    <3>2. CASE j # 1
      <4>1. j - 1 \in 1 .. Len(root_list) /\ (j - 1) + 1 = j
        BY <2>2, <2>3, <3>2
      <4>2. root_list'[j] = root_list[j - 1]
        BY <2>4, <4>1
      <4> QED BY <2>3, <4>1, <4>2 DEF Range
    <3> QED BY <3>1, <3>2
  <2>6. v \in Range(root_list')
    BY <2>2, <2>3, <2>4 DEF Range
  <2>7. ASSUME NEW j \in DOMAIN root_list PROVE root_list[j] \in Range(root_list')
    <3>1. j + 1 \in DOMAIN root_list' /\ root_list'[j + 1] = root_list[j]
      BY <2>2, <2>3, <2>4
    <3> QED BY <3>1 DEF Range
  <2> QED BY <2>2, <2>5, <2>6, <2>7 DEF Range
<1>4. TypeOK'
  BY <1>1, <1>3 DEF IInv, TypeOK, control, collector
<1>5. Usable' = Usable \cup {v}
  BY <1>3 DEF Usable
<1>6. v \notin Usable => val[v] = Null
  BY DEF IInv, UnusedNull
<1>7. Held' = Held
  BY <1>1, <1>5, <1>6, NullAssumption DEF Held
<1>8. Untraced' /\ UnusedNull'
  BY <1>1, <1>5 DEF IInv, Untraced, UnusedNull, Object
<1>9. \A o \in Object : Holds(o)' \subseteq Object
  BY <1>1, KeptFacts DEF IInv, NoDangling, Holds
<1> QED
  BY <1>1, <1>4, <1>7, <1>8, <1>9, KeptFacts, SameMemory, ProgramStep DEF IInv

(* LTE_gc_unregister_root (gc.c:199-216).                                  *)
LEMMA UnregisterRootStep ==
  ASSUME IInv, Unscanned = {}, NEW v \in Var, LTE_gc_unregister_root(v)
  PROVE  IInv' /\ Held' \subseteq Held
<1>1. PICK i \in DOMAIN root_list :
        root_list[i] = v /\ UnregisterRoot(v, RemoveAt(root_list, i))
  BY DEF LTE_gc_unregister_root, FirstRoot
<1>2. pc = "run" /\ root_list' = RemoveAt(root_list, i)
      /\ val' = (IF v \in Locals \cup Range(root_list') THEN val ELSE [val EXCEPT ![v] = Null])
      /\ UNCHANGED <<blocks, hdr, fsize, iwords, slot, free_list, control, collector,
                     allocated_since_last_gc>>
  BY <1>1 DEF UnregisterRoot, memory
<1>3. root_list \in Seq(Var) /\ val \in [Var -> Addr \cup {Null}]
  BY DEF IInv, TypeOK
<1>4. root_list' \in Seq(Var)
  BY <1>2, <1>3, RemoveAtFacts
<1>5. Range(root_list) \subseteq Range(root_list') \cup {root_list[i]}
      /\ Range(root_list') \subseteq Range(root_list)
  <2>1. DOMAIN root_list' = 1 .. Len(root_list) - 1
        /\ \A j \in 1 .. Len(root_list) - 1 :
             root_list'[j] = IF j < i THEN root_list[j] ELSE root_list[j + 1]
    BY <1>2, <1>3, RemoveAtFacts
  <2>2. DOMAIN root_list = 1 .. Len(root_list) /\ Len(root_list) \in Nat
    BY <1>3
  <2>3. ASSUME NEW k \in DOMAIN root_list, k # i PROVE root_list[k] \in Range(root_list')
    <3>1. CASE k < i
      BY <2>1, <2>2, <2>3, <3>1 DEF Range
    <3>2. CASE k > i
      <4>1. k - 1 \in DOMAIN root_list' /\ root_list'[k - 1] = root_list[k]
        BY <2>1, <2>2, <3>2
      <4> QED BY <4>1 DEF Range
    <3> QED BY <2>2, <2>3, <3>1, <3>2
  <2>4. ASSUME NEW k \in DOMAIN root_list' PROVE root_list'[k] \in Range(root_list)
    BY <2>1, <2>2 DEF Range
  <2> QED BY <2>3, <2>4 DEF Range
<1>6. Usable' \subseteq Usable /\ Usable \subseteq Usable' \cup {v}
  BY <1>1, <1>5 DEF Usable
<1>7. val' \in [Var -> Addr \cup {Null}]
      /\ \A u \in Var : val'[u] = IF u = v /\ v \notin Usable' THEN Null ELSE val[u]
  BY <1>2, <1>3 DEF Usable
<1>8. TypeOK'
  BY <1>2, <1>4, <1>7 DEF IInv, TypeOK, control, collector
<1>9. Held' \subseteq Held
  BY <1>6, <1>7, KeptFacts, NullAssumption DEF Held
<1>10. Untraced'
  BY <1>2 DEF IInv, Untraced, Object
<1>11. UnusedNull'
  BY <1>6, <1>7 DEF IInv, UnusedNull
<1>12. \A o \in Object : Holds(o)' \subseteq Object
  BY <1>2, KeptFacts DEF IInv, NoDangling, Holds
<1> QED
  BY <1>2, <1>8, <1>9, <1>10, <1>11, <1>12, KeptFacts, SameMemory, ProgramStep DEF IInv

(* A collection starts: the roots are all the references the program holds *)
(* (gc.c:182-189).                                                         *)
LEMMA StartCollectStep ==
  ASSUME IInv, Unscanned = {}, pc \in {"run", "first"},
         NEW k \in {"run", "first", "second"}, StartCollect(k),
         UNCHANGED <<memory, free_list, allocated_since_last_gc, program>>,
         request' \in [cls : Class, dst : Var \cup {Null}],
         request'.cls \in StaticClass \cup Held,
         IF k = "run" THEN request' = NoRequest ELSE request'.dst \in Usable
  PROVE  IInv'
<1>0. PICK stale \in SUBSET (StaleWords \cap blocks) : gray' = Roots \cup stale
  BY DEF StartCollect
<1>1. pc' = "mark" /\ ret' = k /\ gray' = Held \cup stale /\ marked' = marked
      /\ current' = current
      /\ UNCHANGED <<blocks, hdr, fsize, iwords, slot, free_list, allocated_since_last_gc,
                     root_list, val>>
  BY <1>0, KeptFacts DEF StartCollect, memory, program
<1>2. Held \subseteq Object /\ Object \subseteq Addr /\ Kept = Object /\ marked = {}
      /\ stale \subseteq blocks /\ Object \subseteq blocks /\ blocks \subseteq Addr
  BY KeptFacts DEF IInv, TypeOK, Marking, Collecting, Object
<1>3. TypeOK'
  BY <1>1, <1>2 DEF IInv, TypeOK
<1>4. Layout' /\ Object' = Object /\ FreeRecord' = FreeRecord
  BY <1>1, SameMemory DEF IInv
<1>5. Usable' = Usable /\ Held' = Held /\ Kept' = Kept
  BY <1>1, <1>2, <1>4 DEF Usable, Held, Kept
<1>6. FreeListExact'
  BY <1>1, <1>4 DEF IInv, FreeListExact, Listed
<1>7. Cursor' /\ NeverCorrupt' /\ Requested'
  <2>1. Cursor' /\ NeverCorrupt'
    BY <1>1 DEF Cursor, NeverCorrupt
  <2>2. Requested'
    BY <1>1, <1>5 DEF Requested, Collecting, NoRequest
  <2> QED BY <2>1, <2>2
<1>8. Untraced' /\ UnusedNull'
  BY <1>1, <1>4, <1>5 DEF IInv, Untraced, UnusedNull
<1>9. NoDangling'
  BY <1>1, <1>5 DEF IInv, NoDangling, Holds
<1>10. Marking'
  BY <1>1, <1>2, <1>4, <1>5 DEF Marking, Collecting
<1> QED
  BY <1>3, <1>4, <1>6, <1>7, <1>8, <1>9, <1>10 DEF IInv

(* LTE_gc_collect, called by the program.                                  *)
LEMMA CollectStep ==
  ASSUME IInv, Unscanned = {}, LTE_gc_collect
  PROVE  IInv'
<1>1. pc = "run" /\ StartCollect("run") /\ request' = request
      /\ UNCHANGED <<memory, free_list, allocated_since_last_gc, program>>
  BY DEF LTE_gc_collect
<1>2. request \in [cls : Class, dst : Var \cup {Null}] /\ request = NoRequest
      /\ request.cls \in StaticClass \cup Held
  BY <1>1 DEF IInv, TypeOK, Requested
<1> QED
  BY <1>1, <1>2, StartCollectStep

(* The steps that leave memory, free list, roots and mark state alone.     *)
LEMMA ControlStep ==
  ASSUME IInv, pc \in {"run", "first", "second"}, pc' \in {"run", "first", "second", "error"},
         UNCHANGED <<memory, free_list, root_list, ret, collector>>,
         TypeOK', Requested', UnusedNull', Held' \subseteq Held
  PROVE  IInv'
<1>1. UNCHANGED <<blocks, hdr, fsize, iwords, slot, free_list, root_list, marked, gray, current>>
  BY DEF memory, collector
<1>2. Layout' /\ Object' = Object /\ FreeRecord' = FreeRecord
  BY <1>1, SameMemory DEF IInv
<1>3. Kept' = Kept
  BY <1>1, <1>2 DEF Kept
<1>4. FreeListExact'
  BY <1>1, <1>2 DEF IInv, FreeListExact, Listed
<1>5. Cursor' /\ NeverCorrupt' /\ Untraced'
  BY <1>1, <1>2 DEF IInv, Cursor, NeverCorrupt, Untraced
<1>6. NoDangling'
  BY <1>1, <1>3 DEF IInv, NoDangling, Holds, Held
<1>7. Marking'
  BY <1>1, <1>2 DEF IInv, Marking, Collecting
<1> QED
  BY <1>2, <1>4, <1>5, <1>6, <1>7 DEF IInv

(* LTE_gc_alloc is called, and collects when it is due (gc.c:250-253).     *)
LEMMA AllocStep ==
  ASSUME IInv, Unscanned = {}, NEW c \in Class, NEW v \in Var, LTE_gc_alloc(c, v)
  PROVE  IInv'
<1>1. pc = "run" /\ v \in Usable /\ HeldClass(c) /\ request' = [cls |-> c, dst |-> v]
      /\ UNCHANGED <<memory, free_list, allocated_since_last_gc, program>>
  BY DEF LTE_gc_alloc
<1>2. c \in StaticClass \cup Held
  BY <1>1 DEF HeldClass, Held
<1>3. request' \in [cls : Class, dst : Var \cup {Null}] /\ request'.cls = c /\ request'.dst = v
  BY <1>1
<1>4. CASE CollectionDue
  BY <1>1, <1>2, <1>3, <1>4, StartCollectStep DEF LTE_gc_alloc
<1>5. CASE ~CollectionDue
  <2>1. pc' = "first" /\ UNCHANGED <<ret, collector>>
    BY <1>5 DEF LTE_gc_alloc
  <2>2. UNCHANGED <<root_list, val>>
    BY <1>1 DEF program
  <2>3. Usable' = Usable /\ Held' = Held
    BY <2>2 DEF Usable, Held
  <2>4. TypeOK'
    BY <1>1, <1>3, <2>1, <2>2 DEF IInv, TypeOK, memory, collector
  <2>5. Requested' /\ UnusedNull'
    BY <1>1, <1>2, <1>3, <2>1, <2>2, <2>3 DEF IInv, Requested, Collecting, UnusedNull
  <2> QED
    BY <1>1, <2>1, <2>2, <2>3, <2>4, <2>5, ControlStep
<1> QED
  BY <1>4, <1>5

(* LTE_gc_alloc aborts for a class without an instance size (gc.c:39-41).  *)
LEMMA AllocBadClassStep ==
  ASSUME IInv, AllocBadClass
  PROVE  IInv'
<1>1. pc = "first" /\ pc' = "error"
      /\ UNCHANGED <<memory, free_list, allocated_since_last_gc, root_list, val, ret, request,
                     collector>>
  BY DEF AllocBadClass, program
<1>2. Usable' = Usable /\ Held' = Held
  BY <1>1 DEF Usable, Held
<1>3. TypeOK'
  BY <1>1 DEF IInv, TypeOK, memory, collector
<1>4. Requested' /\ UnusedNull'
  BY <1>1, <1>2 DEF IInv, Requested, Collecting, UnusedNull
<1> QED
  BY <1>1, <1>2, <1>3, <1>4, ControlStep

(* LTE_gc_alloc collects because no record fits (gc.c:257-259).            *)
LEMMA AllocRetryStep ==
  ASSUME IInv, Unscanned = {}, AllocRetry
  PROVE  IInv'
<1>1. pc = "first" /\ StartCollect("second") /\ request' = request
      /\ UNCHANGED <<memory, free_list, allocated_since_last_gc, program>>
  BY DEF AllocRetry
<1>2. request \in [cls : Class, dst : Var \cup {Null}] /\ request.cls \in StaticClass \cup Held
      /\ request.dst \in Usable
  BY <1>1 DEF IInv, TypeOK, Requested, Collecting
<1> QED
  BY <1>1, <1>2, StartCollectStep

(* LTE_gc_alloc returns x to the variable that waits for it.               *)
LEMMA ReturnFacts ==
  ASSUME IInv, pc \in {"first", "second"}, NEW x \in Addr \cup {Null}, Return(x)
  PROVE  /\ pc' = "run"
         /\ UNCHANGED <<root_list, ret, collector>>
         /\ request.dst \in Usable /\ Usable' = Usable
         /\ \A v \in Var : val'[v] = IF v = request.dst THEN x ELSE val[v]
         /\ val' \in [Var -> Addr \cup {Null}]
         /\ Held' \subseteq Held \cup (Addr \cap {x})
         /\ request' \in [cls : Class, dst : Var \cup {Null}]
         /\ Requested' /\ UnusedNull'
<1>1. pc' = "run" /\ val' = [val EXCEPT ![request.dst] = x] /\ request' = NoRequest
      /\ UNCHANGED <<root_list, ret, collector>>
  BY DEF Return
<1>2. val \in [Var -> Addr \cup {Null}] /\ Usable \subseteq Var
  BY DEF IInv, TypeOK, Usable, Var, Range
<1>3. Usable' = Usable
  BY <1>1 DEF Usable
<1>4. val' \in [Var -> Addr \cup {Null}]
      /\ \A v \in Var : val'[v] = IF v = request.dst THEN x ELSE val[v]
  BY <1>1, <1>2
<1>5. Held' \subseteq Held \cup (Addr \cap {x})
  BY <1>2, <1>3, <1>4 DEF Held
<1>6. request' \in [cls : Class, dst : Var \cup {Null}] /\ Requested'
  BY <1>1, ClassAssumption DEF NoRequest, Requested, Collecting, Class
<1>7. request.dst \in Usable
  BY DEF IInv, Requested, Collecting
<1>8. UnusedNull'
  BY <1>3, <1>4, <1>7 DEF IInv, UnusedNull
<1> QED
  BY <1>1, <1>3, <1>4, <1>5, <1>6, <1>7, <1>8

(* LTE_gc_alloc returns LTE_INVALID (gc.c:260-262).                        *)
LEMMA AllocFailsStep ==
  ASSUME IInv, AllocFails
  PROVE  IInv'
<1>1. pc = "second" /\ Return(Null)
      /\ UNCHANGED <<memory, free_list, allocated_since_last_gc>>
  BY DEF AllocFails
<1>2. TypeOK'
  BY <1>1, ReturnFacts DEF IInv, TypeOK, memory, collector
<1> QED
  BY <1>1, <1>2, ReturnFacts, ControlStep, NullAssumption

(* mark_object (gc.c:74-94).                                               *)
LEMMA MarkStep ==
  ASSUME IInv, NEW o \in Addr, mark_object(o)
  PROVE  IInv'
<1>1. pc = "mark" /\ o \in gray
      /\ UNCHANGED <<blocks, hdr, fsize, iwords, slot, free_list, allocated_since_last_gc,
                     root_list, val, pc, ret, request, current>>
  BY DEF mark_object, memory, program, control
<1>2. o \in blocks /\ Object \subseteq blocks /\ blocks \subseteq Addr /\ Kept = Object
      /\ (hdr[o] # Free <=> o \in Object)
  BY <1>1 DEF IInv, Marking, TypeOK, Object, Kept
<1>3. /\ Held \subseteq Object /\ \A b \in Object : Holds(b) \subseteq Object
      /\ o \in Object => Refs(o) = Holds(o)
  BY <1>2, HeldTraced DEF IInv, NoDangling, Held
<1>4. Layout' /\ Object' = Object /\ FreeRecord' = FreeRecord
  BY <1>1, SameMemory DEF IInv
<1>5. Usable' = Usable /\ Held' = Held /\ Kept' = Kept
  BY <1>1, <1>2, <1>4 DEF Usable, Held, Kept
<1>6. marked \subseteq Object /\ gray \subseteq blocks /\ Held \subseteq marked \cup gray
      /\ \A b \in marked : Holds(b) \subseteq marked \cup gray
  BY <1>1 DEF IInv, Marking
<1>7. \A b \in Object : Holds(b)' = Holds(b)
  BY <1>1 DEF Holds
<1>8. /\ marked' \subseteq Object /\ gray' \subseteq blocks
      /\ Held \subseteq marked' \cup gray'
      /\ \A b \in marked' : Holds(b) \subseteq marked' \cup gray'
  <2>1. CASE hdr[o] = Free
    <3>1. gray' = gray \ {o} /\ marked' = marked /\ o \notin Object
      BY <1>2, <2>1 DEF mark_object
    <3> QED BY <1>3, <1>6, <3>1
  <2>2. CASE hdr[o] # Free /\ o \in marked
    BY <1>6, <2>2 DEF mark_object
  <2>3. CASE hdr[o] # Free /\ o \notin marked
    <3>1. gray' = (gray \ {o}) \cup Holds(o) /\ marked' = marked \cup {o} /\ o \in Object
      BY <1>2, <1>3, <2>3 DEF mark_object
    <3> QED BY <1>2, <1>3, <1>6, <3>1
  <2> QED BY <2>1, <2>2, <2>3
<1>9. Marking'
  BY <1>1, <1>4, <1>5, <1>7, <1>8 DEF Marking, Collecting
<1>10. TypeOK'
  BY <1>1, <1>2, <1>8 DEF IInv, TypeOK
<1>11. FreeListExact' /\ Cursor' /\ NeverCorrupt' /\ Untraced' /\ UnusedNull'
  BY <1>1, <1>4, <1>5
  DEF IInv, FreeListExact, Listed, Cursor, NeverCorrupt, Untraced, UnusedNull
<1>12. Requested' /\ NoDangling'
  BY <1>1, <1>5, <1>7, <1>2
  DEF IInv, Requested, Collecting, NoRequest, NoDangling
<1> QED
  BY <1>4, <1>9, <1>10, <1>11, <1>12 DEF IInv

(* The sweep starts: what is marked holds the roots and is closed under    *)
(* references, so all of it will be kept (gc.c:106-111).                   *)
LEMMA StartSweepStep ==
  ASSUME IInv, StartSweep
  PROVE  IInv'
<1>1. pc = "mark" /\ gray = {} /\ pc' = "sweep" /\ current' = 0 /\ free_list' = << >>
      /\ UNCHANGED <<blocks, hdr, fsize, iwords, slot, allocated_since_last_gc,
                     root_list, val, ret, request, marked, gray>>
  BY DEF StartSweep, memory, program
<1>2. Layout' /\ Object' = Object /\ FreeRecord' = FreeRecord
  BY <1>1, SameMemory DEF IInv
<1>3. Object \subseteq Addr /\ FreeRecord \subseteq Addr /\ 0 \in Addr /\ Addr \subseteq Nat
  <2>1. blocks \subseteq Addr
    BY DEF IInv, TypeOK
  <2> QED BY <2>1, HeapFacts DEF Object, FreeRecord
<1>4. marked \subseteq Object /\ Held \subseteq marked
      /\ \A b \in marked : Holds(b) \subseteq marked
  BY <1>1 DEF IInv, Marking
<1>5. Kept' = marked /\ Listed' = {}
  <2>1. \A a \in Addr : ~(a < 0)
    BY HeapFacts
  <2>2. Kept' = {o \in Object : o < 0 \/ o \in marked}
    BY <1>1, <1>2 DEF Kept
  <2>3. Listed' = {a \in FreeRecord : a < 0}
    BY <1>1, <1>2 DEF Listed
  <2> QED BY <1>3, <1>4, <2>1, <2>2, <2>3
<1>6. Usable' = Usable /\ Held' = Held /\ \A b \in Object : Holds(b)' = Holds(b)
  BY <1>1 DEF Usable, Held, Holds
<1>7. NoDangling'
  BY <1>1, <1>4, <1>5, <1>6 DEF NoDangling, Held
<1>9. FreeListExact'
  BY <1>1, <1>5 DEF FreeListExact, Range
<1>10. Cursor' /\ NeverCorrupt' /\ Untraced' /\ UnusedNull'
  BY <1>1, <1>2, <1>6
  DEF IInv, Layout, BlocksTileHeap, Cursor, NeverCorrupt, Untraced, UnusedNull
<1>11. Marking' /\ Requested'
  BY <1>1, <1>2, <1>3, <1>4, <1>6
  DEF IInv, Marking, Collecting, Requested, NoRequest
<1>12. TypeOK'
  BY <1>1, <1>3 DEF IInv, TypeOK
<1> QED
  BY <1>2, <1>7, <1>9, <1>10, <1>11, <1>12 DEF IInv

(* What the sweep finds at its cursor.                                     *)
LEMMA CursorFacts ==
  ASSUME IInv, NEW a \in blocks
  PROVE  /\ a \in Addr /\ a \in Nat /\ Size(a) \in Nat /\ Size(a) >= 4
         /\ a + Size(a) \in blocks \cup {heap_size} /\ a + Size(a) <= heap_size
         /\ a + Size(a) \in Addr \cup {heap_size}
         /\ \A b \in blocks : b <= a \/ b >= a + Size(a)
         /\ \A b \in blocks : b < a + Size(a) <=> b < a \/ b = a
         /\ hdr[a] # Free => SoundObject(a) /\ Size(a) = class_instance_size(hdr[a])
         /\ hdr[a] = Free => SoundRecord(a) /\ Size(a) = fsize[a]
<1>1. TypeOK /\ Aligned /\ BlocksTileHeap /\ Sized
  BY DEF IInv, Layout
<1>2. /\ a \in Addr /\ a \in Nat /\ Size(a) \in Nat /\ Size(a) >= 4
      /\ a + Size(a) \in Addr \cup {heap_size} /\ a + Size(a) <= heap_size
  BY <1>1, BlockFacts
<1>3. a + Size(a) \in blocks \cup {heap_size} /\ \A b \in blocks : b <= a \/ b >= a + Size(a)
  BY <1>1 DEF BlocksTileHeap
<1>4. \A b \in blocks : b \in Nat
  BY HeapFacts DEF IInv, TypeOK
<1>5. \A b \in blocks : b < a + Size(a) <=> b < a \/ b = a
  BY <1>2, <1>3, <1>4
<1>6. hdr[a] # Free => SoundObject(a) /\ Size(a) = class_instance_size(hdr[a])
  BY <1>1, <1>2 DEF Size, SoundObject, Sized, Object
<1>7. hdr[a] = Free => SoundRecord(a) /\ Size(a) = fsize[a]
  BY <1>2 DEF Size, SoundRecord
<1> QED
  BY <1>2, <1>3, <1>5, <1>6, <1>7

(* The sweep passes a marked object (gc.c:123-137).                        *)
LEMMA SweepMarkedStep ==
  ASSUME IInv, SweepMarked
  PROVE  IInv'
<1>1. pc = "sweep" /\ current \in Object /\ current \in marked /\ current \in blocks
  BY DEF SweepMarked, Object
<1>2. current \in Addr /\ current \in Nat /\ Size(current) \in Nat /\ Size(current) >= 4
      /\ current + Size(current) \in blocks \cup {heap_size}
      /\ current + Size(current) \in Addr \cup {heap_size}
      /\ (\A b \in blocks : b < current + Size(current) <=> b < current \/ b = current)
      /\ SoundObject(current) /\ Size(current) = class_instance_size(hdr[current])
  BY <1>1, CursorFacts DEF Object
<1>3. pc' = "sweep" /\ marked' = marked \ {current} /\ current' = current + Size(current)
      /\ UNCHANGED <<blocks, hdr, fsize, iwords, slot, free_list, allocated_since_last_gc,
                     root_list, val, ret, request, gray>>
  BY <1>1, <1>2 DEF SweepMarked, memory, program
<1>4. Layout' /\ Object' = Object /\ FreeRecord' = FreeRecord
  BY <1>3, SameMemory DEF IInv
<1>5. Object \subseteq blocks /\ FreeRecord \subseteq blocks /\ \A b \in blocks : b \in Nat /\ b \in Addr
  BY HeapFacts DEF IInv, TypeOK, Object, FreeRecord
<1>6. Kept' = Kept
  BY <1>1, <1>2, <1>3, <1>4, <1>5 DEF Kept
<1>7. Usable' = Usable /\ Held' = Held /\ \A b \in Object : Holds(b)' = Holds(b)
  BY <1>3 DEF Usable, Held, Holds
<1>8. NoDangling'
  <2>1. Kept \subseteq Object BY DEF Kept
  <2> QED BY <2>1, <1>3, <1>6, <1>7 DEF IInv, NoDangling
<1>9. current \notin FreeRecord
  BY <1>1 DEF Object, FreeRecord
<1>10. Listed' = Listed
  BY <1>1, <1>2, <1>3, <1>4, <1>5, <1>9 DEF Listed
<1>11. FreeListExact'
  BY <1>3, <1>10 DEF IInv, FreeListExact
<1>12. Cursor' /\ NeverCorrupt' /\ Untraced' /\ UnusedNull'
  BY <1>2, <1>3, <1>4, <1>7 DEF IInv, Cursor, NeverCorrupt, Untraced, UnusedNull
<1>13. Marking'
  <2>1. marked \subseteq Object /\ (\A b \in marked : b >= current) /\ gray = {}
    BY <1>1 DEF IInv, Marking
  <2>2. \A b \in marked' : b >= current'
    BY <1>2, <1>3, <1>5, <2>1
  <2> QED BY <1>3, <1>4, <2>1, <2>2 DEF Marking, Collecting
<1>14. Requested'
  BY <1>1, <1>3, <1>7 DEF IInv, Requested, Collecting, NoRequest
<1>15. TypeOK'
  BY <1>2, <1>3 DEF IInv, TypeOK
<1> QED
  BY <1>4, <1>8, <1>11, <1>12, <1>13, <1>14, <1>15 DEF IInv

(* The sweep reclaims an object: it is not kept (gc.c:139-147).            *)
LEMMA SweepUnmarkedStep ==
  ASSUME IInv, SweepUnmarked
  PROVE  IInv'
<1>1. pc = "sweep" /\ current \in Object /\ current \notin marked /\ current \in blocks
      /\ hdr[current] # Free
  BY DEF SweepUnmarked, Object
<1>2. current \in Addr /\ current \in Nat /\ Size(current) \in Nat
      /\ current + Size(current) <= heap_size
      /\ SoundObject(current) /\ Size(current) = class_instance_size(hdr[current])
  BY <1>1, CursorFacts
<1>3. pc' = "coalesce" /\ hdr' = [hdr EXCEPT ![current] = Free]
      /\ fsize' = [fsize EXCEPT ![current] = Size(current)]
      /\ slot' = [slot EXCEPT ![current] = Emptied]
      /\ UNCHANGED <<blocks, iwords, free_list, allocated_since_last_gc,
                     root_list, val, ret, request, marked, gray, current>>
  BY <1>1, <1>2 DEF SweepUnmarked, program, collector
<1>4. hdr \in [Addr -> Class \cup {Free}] /\ fsize \in [Addr -> 0 .. heap_size]
      /\ slot \in [Addr -> [Field -> Addr \cup {Null}]] /\ blocks \subseteq Addr
  BY DEF IInv, TypeOK
<1>5. /\ \A b \in Addr : hdr'[b] = IF b = current THEN Free ELSE hdr[b]
      /\ \A b \in Addr : fsize'[b] = IF b = current THEN Size(current) ELSE fsize[b]
      /\ \A b \in Addr \ {current} : slot'[b] = slot[b]
      /\ hdr' \in [Addr -> Class \cup {Free}]
  BY <1>3, <1>4
<1>6. fsize' \in [Addr -> 0 .. heap_size]
  <2>1. Size(current) \in 0 .. heap_size
    BY <1>2, HeapFacts
  <2> QED BY <1>3, <1>4, <2>1
<1>7. slot' \in [Addr -> [Field -> Addr \cup {Null}]]
  <2>1. Emptied \in [Field -> Addr \cup {Null}]
    BY DEF Emptied
  <2> QED BY <1>3, <1>4, <2>1
<1>8. TypeOK'
  BY <1>3, <1>5, <1>6, <1>7 DEF IInv, TypeOK
<1>9. Object' = Object \ {current} /\ FreeRecord' = FreeRecord \cup {current}
  BY <1>1, <1>3, <1>4, <1>5 DEF Object, FreeRecord
<1>10. \A b \in blocks : Size(b)' = Size(b)
  BY <1>1, <1>2, <1>3, <1>4, <1>5 DEF Size, class_instance_size, instance_size
<1>11. Layout'
  <2>1. Size(current) % 4 = 0
    BY <1>1, BlockFacts DEF IInv, Layout
  <2>2. Aligned'
    BY <1>2, <1>5, <2>1 DEF IInv, Layout, Aligned
  <2>3. BlocksTileHeap'
    BY <1>3, <1>10 DEF IInv, Layout, BlocksTileHeap
  <2>4. Sized'
    BY <1>3, <1>4, <1>5, <1>9 DEF IInv, Layout, Sized, Object, instance_size
  <2> QED BY <2>2, <2>3, <2>4 DEF Layout
<1>12. Listed' = Listed
  BY <1>2, <1>1, <1>3, <1>9 DEF Listed
<1>13. FreeListExact'
  BY <1>3, <1>12 DEF IInv, FreeListExact
<1>14. Kept' = Kept /\ current \notin Kept /\ Kept \subseteq Object /\ Object \subseteq Addr
  <2>1. Kept = {o \in Object : o < current \/ o \in marked}
    BY <1>1 DEF Kept
  <2>2. Kept' = {o \in Object \ {current} : o < current \/ o \in marked}
    BY <1>3, <1>9 DEF Kept
  <2>3. ~(current < current)
    BY <1>2
  <2>4. Object \subseteq Addr
    BY <1>4 DEF Object
  <2> QED BY <1>1, <2>1, <2>2, <2>3, <2>4
<1>15. \A b \in Kept : Holds(b)' = Holds(b)
  BY <1>5, <1>14 DEF Holds
<1>16. Usable' = Usable /\ Held' = Held
  BY <1>3 DEF Usable, Held
<1>17. NoDangling'
  BY <1>3, <1>14, <1>15, <1>16 DEF IInv, NoDangling
<1>18. Cursor' /\ NeverCorrupt' /\ UnusedNull'
  BY <1>3, <1>9, <1>16 DEF IInv, Cursor, NeverCorrupt, UnusedNull
<1>19. Untraced'
  BY <1>5, <1>9, <1>14 DEF IInv, Untraced
<1>20. Marking'
  BY <1>1, <1>3, <1>9 DEF IInv, Marking, Collecting
<1>21. Requested'
  BY <1>1, <1>3, <1>16 DEF IInv, Requested, Collecting, NoRequest
<1> QED
  BY <1>8, <1>11, <1>13, <1>17, <1>18, <1>19, <1>20, <1>21 DEF IInv

(* The sweep meets a free record (gc.c:116-122).                           *)
LEMMA SweepFreeStep ==
  ASSUME IInv, SweepFree
  PROVE  IInv'
<1>1. pc = "sweep" /\ current \in FreeRecord /\ current \in blocks /\ hdr[current] = Free
  BY DEF SweepFree, FreeRecord
<1>2. SoundRecord(current)
  BY <1>1, CursorFacts
<1>3. pc' = "coalesce"
      /\ UNCHANGED <<blocks, hdr, fsize, iwords, slot, free_list, allocated_since_last_gc,
                     root_list, val, ret, request, marked, gray, current>>
  BY <1>1, <1>2 DEF SweepFree, memory, program, collector
<1>4. Layout' /\ Object' = Object /\ FreeRecord' = FreeRecord
  BY <1>3, SameMemory DEF IInv
<1>5. Kept' = Kept /\ Listed' = Listed /\ Usable' = Usable /\ Held' = Held
  BY <1>1, <1>3, <1>4 DEF Kept, Listed, Usable, Held
<1>6. TypeOK'
  BY <1>3 DEF IInv, TypeOK
<1>7. FreeListExact' /\ Cursor' /\ NeverCorrupt' /\ Untraced' /\ UnusedNull'
  BY <1>1, <1>3, <1>4, <1>5
  DEF IInv, FreeListExact, Cursor, NeverCorrupt, Untraced, UnusedNull
<1>8. NoDangling'
  BY <1>3, <1>5 DEF IInv, NoDangling, Holds
<1>9. Marking' /\ Requested'
  BY <1>1, <1>3, <1>4, <1>5 DEF IInv, Marking, Collecting, Requested, NoRequest
<1> QED
  BY <1>4, <1>6, <1>7, <1>8, <1>9 DEF IInv

(* The sweep merges the free record that follows (gc.c:152-160).           *)
LEMMA CoalesceNextStep ==
  ASSUME IInv, CoalesceNext
  PROVE  IInv'
<1> DEFINE n == next_block
<1>1. pc = "coalesce" /\ n < heap_size /\ hdr[n] = Free /\ n = current + fsize[current]
  BY DEF CoalesceNext, NextIsFree, next_block
<1>2. current \in FreeRecord /\ current \in blocks /\ hdr[current] = Free
  BY <1>1 DEF IInv, Cursor, FreeRecord
<1>3. /\ current \in Addr /\ current \in Nat /\ fsize[current] \in Nat /\ fsize[current] >= 4
      /\ n \in blocks \cup {heap_size} /\ Size(current) = fsize[current]
      /\ \A b \in blocks : b <= current \/ b >= n
  BY <1>1, <1>2, CursorFacts
<1>4. n \in blocks /\ n # current
  BY <1>1, <1>3, HeapFacts
<1>5. /\ n \in Addr /\ n \in Nat /\ fsize[n] \in Nat /\ fsize[n] >= 4 /\ Size(n) = fsize[n]
      /\ n + fsize[n] \in blocks \cup {heap_size} /\ n + fsize[n] <= heap_size
      /\ \A b \in blocks : b <= n \/ b >= n + fsize[n]
      /\ SoundRecord(n)
  BY <1>1, <1>4, CursorFacts
<1> DEFINE total == fsize[current] + fsize[n]
<1>6. pc' = "coalesce" /\ fsize' = [fsize EXCEPT ![current] = total] /\ blocks' = blocks \ {n}
      /\ UNCHANGED <<hdr, iwords, slot, free_list, allocated_since_last_gc,
                     root_list, val, ret, request, marked, gray, current>>
  BY <1>1, <1>5 DEF CoalesceNext, program, collector
<1>7. total \in 0 .. heap_size /\ current + total = n + fsize[n]
  BY <1>1, <1>3, <1>5, HeapFacts
<1> HIDE DEF n, total
<1>8. hdr \in [Addr -> Class \cup {Free}] /\ fsize \in [Addr -> 0 .. heap_size]
      /\ blocks \subseteq Addr /\ Addr \subseteq Nat
  BY HeapFacts DEF IInv, TypeOK
<1>9. \A b \in Addr : fsize'[b] = IF b = current THEN total ELSE fsize[b]
  BY <1>6, <1>8
<1>10. TypeOK'
  BY <1>6, <1>7, <1>8 DEF IInv, TypeOK
<1>11. Object' = Object /\ FreeRecord' = FreeRecord \ {n}
  BY <1>1, <1>6 DEF Object, FreeRecord
<1>12. ASSUME NEW b \in blocks PROVE Size(b)' = IF b = current THEN total ELSE Size(b)
  BY <1>2, <1>3, <1>6, <1>8, <1>9 DEF Size, class_instance_size, instance_size
<1>13. Layout'
  <2>1. Aligned'
    <3>1. fsize[current] % 4 = 0 /\ fsize[n] % 4 = 0
      BY <1>3, <1>5 DEF IInv, Layout, Aligned
    <3>2. total % 4 = 0
      BY <1>3, <1>5, <3>1 DEF total
    <3> QED BY <1>9, <3>2 DEF IInv, Layout, Aligned
  <2>2. 0 \in blocks'
    BY <1>3, <1>5, <1>6, <1>1 DEF IInv, Layout, BlocksTileHeap
  <2>3. ASSUME NEW a \in blocks'
        PROVE  /\ Size(a)' > 0 /\ a + Size(a)' \in blocks' \cup {heap_size}
               /\ \A b \in blocks' : b <= a \/ b >= a + Size(a)'
    <3>1. CASE a = current
      <4>1. current + total > n /\ current + total \in blocks' \cup {heap_size} /\ total > 0
        BY <1>3, <1>5, <1>6, <1>7 DEF total
      <4>2. ASSUME NEW b \in blocks' PROVE b <= current \/ b >= current + total
        <5>1. b \in blocks /\ b # n /\ b \in Nat
          BY <1>6, <1>8
        <5> QED BY <1>3, <1>5, <1>7, <5>1
      <4>3. Size(a)' = total
        BY <1>2, <1>12, <3>1
      <4> QED BY <3>1, <4>1, <4>2, <4>3
    <3>2. CASE a # current
      <4>1. a \in blocks /\ a # n /\ Size(a)' = Size(a) /\ a \in Nat
        BY <1>6, <1>8, <1>12, <3>2
      <4>2. Size(a) \in Nat /\ Size(a) >= 4 /\ a + Size(a) \in blocks \cup {heap_size}
            /\ \A b \in blocks : b <= a \/ b >= a + Size(a)
        BY <4>1, CursorFacts
      <4>3. a + Size(a) # n
        BY <1>1, <1>2, <1>3, <3>2, <4>1, <4>2
      <4> QED BY <1>6, <4>1, <4>2, <4>3
    <3> QED BY <3>1, <3>2
  <2>4. BlocksTileHeap'
    BY <2>2, <2>3 DEF BlocksTileHeap
  <2>5. Sized'
    BY <1>6, <1>11 DEF IInv, Layout, Sized, instance_size
  <2> QED BY <2>1, <2>4, <2>5 DEF Layout
<1>14. Listed' = Listed
  BY <1>1, <1>3, <1>5, <1>6, <1>11 DEF Listed
<1>15. FreeListExact'
  BY <1>6, <1>14 DEF IInv, FreeListExact
<1>16. Kept' = Kept /\ Usable' = Usable /\ Held' = Held
  BY <1>1, <1>6, <1>11 DEF Kept, Usable, Held
<1>17. NoDangling'
  BY <1>6, <1>16 DEF IInv, NoDangling, Holds
<1>18. Cursor' /\ NeverCorrupt' /\ Untraced' /\ UnusedNull'
  BY <1>2, <1>4, <1>6, <1>11, <1>16
  DEF IInv, Cursor, NeverCorrupt, Untraced, UnusedNull
<1>19. Marking' /\ Requested'
  BY <1>1, <1>6, <1>11, <1>16 DEF IInv, Marking, Collecting, Requested, NoRequest
<1> QED
  BY <1>10, <1>13, <1>15, <1>17, <1>18, <1>19 DEF IInv

(* The sweep links the record it has made (gc.c:96-104, 162-163).          *)
LEMMA AppendFreeNodeStep ==
  ASSUME IInv, append_free_node
  PROVE  IInv'
<1>1. pc = "coalesce" /\ ~NextIsFree
  BY DEF append_free_node
<1>2. current \in FreeRecord /\ current \in blocks /\ hdr[current] = Free
  BY <1>1 DEF IInv, Cursor, FreeRecord
<1>3. /\ current \in Addr /\ current \in Nat /\ fsize[current] \in Nat /\ fsize[current] >= 4
      /\ next_block \in blocks \cup {heap_size} /\ next_block \in Addr \cup {heap_size}
      /\ next_block = current + fsize[current]
      /\ \A b \in blocks : b < next_block <=> b < current \/ b = current
  BY <1>2, CursorFacts DEF next_block
<1>4. pc' = "sweep" /\ free_list' = Append(free_list, current) /\ current' = next_block
      /\ UNCHANGED <<blocks, hdr, fsize, iwords, slot, allocated_since_last_gc,
                     root_list, val, ret, request, marked, gray>>
  BY DEF append_free_node, memory, program
<1>5. Layout' /\ Object' = Object /\ FreeRecord' = FreeRecord
  BY <1>4, SameMemory DEF IInv
<1>6. Object \subseteq blocks /\ FreeRecord \subseteq blocks /\ blocks \subseteq Addr /\ Addr \subseteq Nat
  BY HeapFacts DEF IInv, TypeOK, Object, FreeRecord
<1>7. Kept' = Kept
  <2>1. Kept = {o \in Object : o < current \/ o \in marked}
    BY <1>1 DEF Kept
  <2>2. Kept' = {o \in Object : o < next_block \/ o \in marked}
    BY <1>4, <1>5 DEF Kept
  <2>3. current \notin Object
    BY <1>2 DEF Object
  <2> QED BY <1>3, <1>6, <2>1, <2>2, <2>3
<1>8. Usable' = Usable /\ Held' = Held
  BY <1>4 DEF Usable, Held
<1>9. free_list \in Seq(Addr) /\ Range(free_list) = {a \in FreeRecord : a < current}
      /\ \A i, j \in DOMAIN free_list : i < j => free_list[i] < free_list[j]
  BY <1>1 DEF IInv, TypeOK, FreeListExact, Listed
<1>10. /\ free_list' \in Seq(Addr) /\ DOMAIN free_list = 1 .. Len(free_list)
       /\ Len(free_list) \in Nat /\ DOMAIN free_list' = 1 .. Len(free_list) + 1
       /\ \A i \in 1 .. Len(free_list) : free_list'[i] = free_list[i]
       /\ free_list'[Len(free_list) + 1] = current
  BY <1>3, <1>4, <1>9, AppendProperties
<1>11. Listed' = Listed \cup {current}
  <2>1. Listed = {a \in FreeRecord : a < current}
    BY <1>1 DEF Listed
  <2>2. Listed' = {a \in FreeRecord : a < next_block}
    BY <1>4, <1>5 DEF Listed
  <2> QED BY <1>2, <1>3, <1>6, <2>1, <2>2
<1>12. Range(free_list') = Range(free_list) \cup {current}
  BY <1>10 DEF Range
<1>13. ASSUME NEW i \in DOMAIN free_list', NEW j \in DOMAIN free_list', i < j
       PROVE  free_list'[i] < free_list'[j]
  <2>1. i \in 1 .. Len(free_list) /\ free_list'[i] = free_list[i]
    BY <1>10, <1>13
  <2>2. free_list[i] < current
    BY <1>9, <1>10, <2>1 DEF Range
  <2>3. CASE j \in 1 .. Len(free_list)
    BY <1>9, <1>10, <1>13, <2>1, <2>3
  <2>4. CASE j \notin 1 .. Len(free_list)
    <3>1. j = Len(free_list) + 1
      BY <1>10, <2>4
    <3> QED BY <1>10, <2>1, <2>2, <3>1
  <2> QED BY <2>3, <2>4
<1>14. FreeListExact'
  BY <1>9, <1>11, <1>12, <1>13 DEF IInv, FreeListExact
<1>15. Cursor' /\ NeverCorrupt' /\ Untraced' /\ UnusedNull'
  BY <1>3, <1>4, <1>5, <1>8 DEF IInv, Cursor, NeverCorrupt, Untraced, UnusedNull
<1>16. NoDangling'
  BY <1>4, <1>7, <1>8 DEF IInv, NoDangling, Holds
<1>17. Marking'
  <2>1. marked \subseteq Object /\ (\A b \in marked : b >= current) /\ gray = {}
    BY <1>1 DEF IInv, Marking
  <2>2. current \notin marked
    BY <1>2, <2>1 DEF Object
  <2>3. \A b \in marked : b >= next_block
    BY <1>3, <1>6, <2>1, <2>2
  <2> QED BY <1>4, <1>5, <2>1, <2>3 DEF Marking, Collecting
<1>18. Requested'
  BY <1>1, <1>4, <1>8 DEF IInv, Requested, Collecting, NoRequest
<1>19. TypeOK'
  BY <1>3, <1>4, <1>10 DEF IInv, TypeOK
<1> QED
  BY <1>5, <1>14, <1>15, <1>16, <1>17, <1>18, <1>19 DEF IInv

(* The collection ends: no mark is left (gc.c:190-192).                    *)
LEMMA EndCollectStep ==
  ASSUME IInv, EndCollect
  PROVE  IInv'
<1>1. pc = "sweep" /\ current = heap_size /\ pc' = ret /\ ret' = "run" /\ current' = 0
      /\ allocated_since_last_gc' = 0
      /\ UNCHANGED <<blocks, hdr, fsize, iwords, slot, free_list, root_list, val, request,
                     marked, gray>>
  BY DEF EndCollect, memory, program
<1>2. pc' \in {"run", "first", "second"}
  BY <1>1 DEF IInv, TypeOK
<1>3. Layout' /\ Object' = Object /\ FreeRecord' = FreeRecord
  BY <1>1, SameMemory DEF IInv
<1>4. blocks \subseteq Addr /\ \A a \in Addr : a \in Nat /\ a < heap_size
  <2>1. blocks \subseteq Addr
    BY DEF IInv, TypeOK
  <2> QED BY <2>1, HeapFacts
<1>5. marked \subseteq Object /\ (\A b \in marked : b >= heap_size) /\ gray = {}
  BY <1>1 DEF IInv, Marking
<1>6. marked = {}
  BY <1>4, <1>5, HeapFacts DEF Object
<1>7. Kept' = Kept
  <2>1. Kept' = Object
    BY <1>2, <1>3 DEF Kept
  <2>2. Kept = {o \in Object : o < heap_size \/ o \in marked}
    BY <1>1 DEF Kept
  <2> QED BY <1>4, <2>1, <2>2 DEF Object
<1>8. Listed' = Listed
  <2>1. Listed' = FreeRecord
    BY <1>2, <1>3 DEF Listed
  <2>2. Listed = {a \in FreeRecord : a < heap_size}
    BY <1>1 DEF Listed
  <2> QED BY <1>4, <2>1, <2>2 DEF FreeRecord
<1>9. Usable' = Usable /\ Held' = Held
  BY <1>1 DEF Usable, Held
<1>10. FreeListExact'
  BY <1>1, <1>8 DEF IInv, FreeListExact
<1>11. NoDangling'
  BY <1>1, <1>7, <1>9 DEF IInv, NoDangling, Holds
<1>12. Cursor' /\ NeverCorrupt' /\ Untraced' /\ UnusedNull'
  BY <1>1, <1>2, <1>3, <1>9 DEF IInv, Cursor, NeverCorrupt, Untraced, UnusedNull
<1>13. Marking'
  BY <1>1, <1>2, <1>3, <1>5, <1>6 DEF Marking, Collecting
<1>14. Requested'
  BY <1>1, <1>2, <1>9 DEF IInv, Requested, Collecting, NoRequest
<1>15. TypeOK'
  BY <1>1, <1>2, HeapFacts DEF IInv, TypeOK
<1> QED
  BY <1>3, <1>10, <1>11, <1>12, <1>13, <1>14, <1>15 DEF IInv

(* The record that allocate_object picks, the block it turns it into, and  *)
(* what the other blocks keep.                                             *)
LEMMA AllocateFacts ==
  ASSUME IInv, pc \in {"first", "second"}, NEW i \in DOMAIN free_list, NEW a, NEW size,
         a = free_list[i], size = class_instance_size(request.cls), fsize[a] >= size,
         AllocateObject(i, request.cls, size)
  PROVE  /\ size \in Nat /\ size % 4 = 0 /\ size >= 4
         /\ a \in FreeRecord /\ a \in blocks /\ a \in Addr /\ a \in Nat /\ hdr[a] = Free
         /\ fsize[a] \in Nat /\ fsize[a] % 4 = 0 /\ a + fsize[a] <= heap_size
         /\ a + fsize[a] \in blocks \cup {heap_size}
         /\ \A b \in blocks : b <= a \/ b >= a + fsize[a]
         /\ Return(a)
         /\ Object \subseteq blocks /\ Held \subseteq Object /\ request.cls \in StaticClass \cup Object
         /\ \A o \in Object : hdr[o] \in StaticClass \cup Object /\ Holds(o) \subseteq Object
         /\ \A b \in blocks \ {a} : hdr'[b] = hdr[b] /\ fsize'[b] = fsize[b] /\ slot'[b] = slot[b]
         /\ hdr'[a] = request.cls /\ slot'[a] = Emptied /\ fsize'[a] = 0
         /\ hdr' \in [Addr -> Class \cup {Free}]
         /\ slot' \in [Addr -> [Field -> Addr \cup {Null}]]
         /\ iwords' \in [Addr -> ClassWords \cup {0}]
         /\ \A d \in StaticClass \cup Object : instance_size(d)' = instance_size(d)
<1>1. /\ blocks \subseteq Addr /\ Addr \subseteq Nat /\ request.cls \in Class
      /\ hdr \in [Addr -> Class \cup {Free}] /\ fsize \in [Addr -> 0 .. heap_size]
      /\ slot \in [Addr -> [Field -> Addr \cup {Null}]]
      /\ iwords \in [Addr -> ClassWords \cup {0}]
  BY HeapFacts DEF IInv, TypeOK
<1>2. size \in Nat /\ size % 4 = 0 /\ size >= 4
  BY <1>1, ClassSizeFacts DEF IInv
<1>3. Range(free_list) = FreeRecord
  BY DEF IInv, FreeListExact, Listed
<1>4. a \in FreeRecord /\ a \in blocks /\ a \in Addr /\ hdr[a] = Free
  BY <1>1, <1>3 DEF Range, FreeRecord
<1>5. /\ a \in Nat /\ fsize[a] \in Nat /\ a + fsize[a] <= heap_size
      /\ a + fsize[a] \in blocks \cup {heap_size}
      /\ \A b \in blocks : b <= a \/ b >= a + fsize[a]
  BY <1>4, CursorFacts
<1>6. fsize[a] % 4 = 0
  BY <1>4 DEF IInv, Layout, Aligned
<1>7. Return(a)
  BY DEF AllocateObject
<1>8. Object \subseteq blocks /\ Kept = Object
  BY DEF Object, Kept
<1>9. Held \subseteq Object /\ \A o \in Object : Holds(o) \subseteq Object
  BY <1>8 DEF IInv, NoDangling, Held
<1>10. request.cls \in StaticClass \cup Object
  BY <1>9 DEF IInv, Requested
<1>11. ASSUME NEW o \in Object PROVE hdr[o] \in StaticClass \cup Object
  <2>1. o \in Addr /\ hdr[o] \in Class
    BY <1>1, <1>8 DEF Object
  <2>2. hdr[o] \in Addr => hdr[o] \in Holds(o)
    BY DEF Holds
  <2> QED BY <1>9, <2>1, <2>2 DEF Class
<1> DEFINE rest == a + size
<1>12. Splits(a, size) => rest \in Addr /\ rest \notin blocks
  <2> SUFFICES ASSUME fsize[a] > size + 3 PROVE rest \in Addr /\ rest \notin blocks
    BY DEF Splits
  <2>1. rest < a + fsize[a] /\ rest > a /\ rest \in Nat /\ rest < heap_size
    BY <1>2, <1>5, HeapFacts
  <2>2. a % 4 = 0 /\ rest % 4 = 0
    BY <1>2, <1>4, <1>5, HeapFacts
  <2> QED BY <1>1, <1>5, <2>1, <2>2, HeapFacts
<1>13. \A b \in blocks \ {a} : ~(a <= b /\ b < a + size) /\ b \in Addr
  BY <1>1, <1>2, <1>5
<1>14. a <= a /\ a < a + size
  BY <1>2, <1>5
<1>15. \A b \in blocks \ {a} : hdr'[b] = hdr[b] /\ fsize'[b] = fsize[b]
  <2>1. CASE Splits(a, size)
    <3>1. /\ hdr' = [Memset(hdr, a, size, Free) EXCEPT ![rest] = Free, ![a] = request.cls]
          /\ fsize' = [Memset(fsize, a, size, 0) EXCEPT ![rest] = fsize[a] - size]
      BY <2>1 DEF AllocateObject
    <3> QED BY <1>12, <1>13, <2>1, <3>1 DEF Memset
  <2>2. CASE ~Splits(a, size)
    <3>1. /\ hdr' = [Memset(hdr, a, size, Free) EXCEPT ![a] = request.cls]
          /\ fsize' = Memset(fsize, a, size, 0)
      BY <2>2 DEF AllocateObject
    <3> QED BY <1>13, <3>1 DEF Memset
  <2> QED BY <2>1, <2>2
<1>16. hdr' \in [Addr -> Class \cup {Free}] /\ hdr'[a] = request.cls /\ fsize'[a] = 0
  <2>1. Memset(hdr, a, size, Free) \in [Addr -> Class \cup {Free}]
    BY <1>1 DEF Memset
  <2>2. CASE Splits(a, size)
    <3>1. /\ hdr' = [Memset(hdr, a, size, Free) EXCEPT ![rest] = Free, ![a] = request.cls]
          /\ fsize' = [Memset(fsize, a, size, 0) EXCEPT ![rest] = fsize[a] - size]
      BY <2>2 DEF AllocateObject
    <3>2. rest # a
      BY <1>4, <1>12, <2>2
    <3> QED BY <1>1, <1>4, <1>14, <2>1, <3>1, <3>2 DEF Memset
  <2>3. CASE ~Splits(a, size)
    <3>1. /\ hdr' = [Memset(hdr, a, size, Free) EXCEPT ![a] = request.cls]
          /\ fsize' = Memset(fsize, a, size, 0)
      BY <2>3 DEF AllocateObject
    <3> QED BY <1>1, <1>4, <1>14, <2>1, <3>1 DEF Memset
  <2> QED BY <2>2, <2>3
<1>17. slot' = Memset(slot, a, size, Emptied) /\ iwords' = Memset(iwords, a, size, 0)
  BY DEF AllocateObject
<1>18. slot' \in [Addr -> [Field -> Addr \cup {Null}]] /\ slot'[a] = Emptied
       /\ \A b \in blocks \ {a} : slot'[b] = slot[b]
  <2>1. Emptied \in [Field -> Addr \cup {Null}]
    BY DEF Emptied
  <2> QED BY <1>1, <1>4, <1>13, <1>14, <1>17, <2>1 DEF Memset
<1>19. iwords' \in [Addr -> ClassWords \cup {0}] /\ \A b \in blocks \ {a} : iwords'[b] = iwords[b]
  BY <1>1, <1>13, <1>17 DEF Memset
<1>20. ASSUME NEW d \in StaticClass \cup Object PROVE instance_size(d)' = instance_size(d)
  <2>1. d \in Object => d \in blocks \ {a}
    BY <1>4, <1>8 DEF Object
  <2> QED BY <1>19, <2>1 DEF instance_size
<1> HIDE DEF rest
<1> QED
  BY <1>2, <1>4, <1>5, <1>6, <1>7, <1>8, <1>9, <1>10, <1>11, <1>15, <1>16, <1>18, <1>19, <1>20

(* A record that is split: what remains of it takes its place in the list. *)
LEMMA SplitLayout ==
  ASSUME IInv, pc \in {"first", "second"}, NEW i \in DOMAIN free_list, NEW a, NEW size,
         a = free_list[i], size = class_instance_size(request.cls), fsize[a] >= size,
         instance_size(request.cls) >= ObjectWords,
         AllocateObject(i, request.cls, size), Splits(a, size)
  PROVE  /\ blocks' \subseteq Addr /\ fsize' \in [Addr -> 0 .. heap_size]
         /\ Object' = Object \cup {a} /\ FreeRecord' = (FreeRecord \ {a}) \cup {a + size}
         /\ Layout' /\ free_list' = [free_list EXCEPT ![i] = a + size]
         /\ a + size \in Addr /\ a + size < a + fsize[a]
<1> DEFINE rest == a + size
<1>1. /\ size \in Nat /\ size % 4 = 0 /\ size >= 4
      /\ a \in FreeRecord /\ a \in blocks /\ a \in Addr /\ a \in Nat /\ hdr[a] = Free
      /\ fsize[a] \in Nat /\ fsize[a] % 4 = 0 /\ a + fsize[a] <= heap_size
      /\ a + fsize[a] \in blocks \cup {heap_size}
      /\ \A b \in blocks : b <= a \/ b >= a + fsize[a]
      /\ Object \subseteq blocks
  BY AllocateFacts
<1>2. /\ hdr' = [Memset(hdr, a, size, Free) EXCEPT ![rest] = Free, ![a] = request.cls]
      /\ fsize' = [Memset(fsize, a, size, 0) EXCEPT ![rest] = fsize[a] - size]
      /\ blocks' = blocks \cup {rest} /\ free_list' = [free_list EXCEPT ![i] = rest]
  BY DEF AllocateObject
<1>3. /\ \A b \in blocks \ {a} : hdr'[b] = hdr[b] /\ fsize'[b] = fsize[b]
      /\ hdr'[a] = request.cls /\ fsize'[a] = 0 /\ hdr' \in [Addr -> Class \cup {Free}]
      /\ request.cls \in StaticClass \cup Object
      /\ \A o \in Object : hdr[o] \in StaticClass \cup Object
      /\ \A d \in StaticClass \cup Object : instance_size(d)' = instance_size(d)
  BY AllocateFacts
<1>4. fsize[a] > size + 3
  BY DEF Splits
<1>5. rest \in Nat /\ rest < a + fsize[a] /\ rest > a /\ rest < heap_size
  BY <1>1, <1>4, HeapFacts
<1>6. rest \in Addr /\ rest \notin blocks
  <2>1. a % 4 = 0 /\ rest % 4 = 0
    BY <1>1, HeapFacts
  <2> QED BY <1>1, <1>5, <2>1, HeapFacts
<1>7. blocks \subseteq Addr /\ fsize \in [Addr -> 0 .. heap_size]
      /\ hdr \in [Addr -> Class \cup {Free}] /\ Addr \subseteq Nat
  BY HeapFacts DEF IInv, TypeOK
<1>8. fsize[a] - size \in 0 .. heap_size /\ (fsize[a] - size) % 4 = 0 /\ fsize[a] - size > 0
      /\ rest + (fsize[a] - size) = a + fsize[a]
  BY <1>1, <1>4, <1>7, HeapFacts
<1>9. fsize' \in [Addr -> 0 .. heap_size] /\ fsize'[rest] = fsize[a] - size
      /\ \A b \in Addr : fsize'[b] \in {0, fsize[b], fsize[a] - size}
  <2>1. Memset(fsize, a, size, 0) \in [Addr -> 0 .. heap_size]
    BY <1>7, HeapFacts DEF Memset
  <2> QED BY <1>2, <1>6, <1>7, <1>8, <2>1 DEF Memset
<1>10. hdr'[rest] = Free
  BY <1>2, <1>5, <1>6, <1>7 DEF Memset
<1> HIDE DEF rest
<1>11. request.cls # Free /\ blocks' \subseteq Addr
  <2>1. request.cls \in Class
    BY DEF IInv, TypeOK
  <2> QED BY <1>2, <1>6, <1>7, <2>1, NullAssumption
<1>12. Object' = Object \cup {a} /\ FreeRecord' = (FreeRecord \ {a}) \cup {rest}
  BY <1>1, <1>2, <1>3, <1>6, <1>10, <1>11 DEF Object, FreeRecord
<1>13. ASSUME NEW b \in blocks'
       PROVE  Size(b)' = IF b = a THEN size ELSE IF b = rest THEN fsize[a] - size ELSE Size(b)
  <2>1. CASE b = a
    BY <1>3, <1>11, <2>1 DEF Size, class_instance_size
  <2>2. CASE b = rest
    BY <1>5, <1>9, <1>10, <2>2 DEF Size
  <2>3. CASE b # a /\ b # rest
    <3>1. b \in blocks \ {a} /\ hdr'[b] = hdr[b] /\ fsize'[b] = fsize[b]
      BY <1>2, <1>3, <2>3
    <3>2. hdr[b] # Free => instance_size(hdr[b])' = instance_size(hdr[b])
      BY <1>3, <3>1 DEF Object
    <3> QED BY <2>3, <3>1, <3>2 DEF Size, class_instance_size
  <2> QED BY <2>1, <2>2, <2>3, <1>5
<1>14. Aligned'
  BY <1>7, <1>8, <1>9 DEF IInv, Layout, Aligned
<1>15. BlocksTileHeap'
  <2>1. 0 \in blocks'
    BY <1>2 DEF IInv, Layout, BlocksTileHeap
  <2>2. ASSUME NEW b \in blocks'
        PROVE  /\ Size(b)' > 0 /\ b + Size(b)' \in blocks' \cup {heap_size}
               /\ \A d \in blocks' : d <= b \/ d >= b + Size(b)'
    <3>1. CASE b = a
      <4>1. Size(b)' = size /\ b + size = rest
        BY <1>13, <3>1 DEF rest
      <4>2. \A d \in blocks' : d <= a \/ d >= rest
        BY <1>1, <1>2, <1>5, <1>7
      <4> QED BY <1>1, <1>2, <3>1, <4>1, <4>2
    <3>2. CASE b = rest
      <4>1. Size(b)' = fsize[a] - size
        BY <1>5, <1>13, <3>2
      <4>2. \A d \in blocks' : d <= rest \/ d >= a + fsize[a]
        BY <1>1, <1>2, <1>5, <1>7
      <4> QED BY <1>1, <1>2, <1>8, <3>2, <4>1, <4>2
    <3>3. CASE b # a /\ b # rest
      <4>1. b \in blocks /\ Size(b)' = Size(b)
        BY <1>2, <1>13, <3>3
      <4>2. b \in Nat /\ Size(b) \in Nat /\ Size(b) >= 4 /\ b + Size(b) \in blocks \cup {heap_size}
            /\ \A d \in blocks : d <= b \/ d >= b + Size(b)
        BY <4>1, CursorFacts
      <4>3. rest <= b \/ rest >= b + Size(b)
        <5>1. b <= a \/ b >= a + fsize[a]
          BY <1>1, <4>1
        <5>2. a <= b \/ a >= b + Size(b)
          BY <1>1, <4>2
        <5> QED BY <1>1, <1>5, <3>3, <4>2, <5>1, <5>2
      <4> QED BY <1>2, <4>1, <4>2, <4>3
    <3> QED BY <3>1, <3>2, <3>3
  <2> QED BY <2>1, <2>2 DEF BlocksTileHeap
<1>16. Sized'
  <2>1. ASSUME NEW o \in Object PROVE instance_size(hdr[o])' >= ObjectWords
    <3>1. hdr'[o] = hdr[o] /\ hdr[o] \in StaticClass \cup Object
      BY <1>1, <1>3 DEF Object
    <3>2. instance_size(hdr[o]) >= ObjectWords
      BY DEF IInv, Layout, Sized
    <3> QED BY <1>3, <3>1, <3>2 DEF instance_size
  <2>2. instance_size(hdr[a])' >= ObjectWords
    BY <1>3 DEF instance_size
  <2> QED BY <1>2, <1>12, <2>1, <2>2 DEF Sized
<1> QED
  BY <1>2, <1>5, <1>6, <1>9, <1>11, <1>12, <1>14, <1>15, <1>16 DEF Layout, rest

(* A record that fits exactly: it leaves the list.                         *)
LEMMA UnlinkLayout ==
  ASSUME IInv, pc \in {"first", "second"}, NEW i \in DOMAIN free_list, NEW a, NEW size,
         a = free_list[i], size = class_instance_size(request.cls), fsize[a] >= size,
         instance_size(request.cls) >= ObjectWords,
         AllocateObject(i, request.cls, size), ~Splits(a, size)
  PROVE  /\ blocks' = blocks /\ fsize' \in [Addr -> 0 .. heap_size]
         /\ Object' = Object \cup {a} /\ FreeRecord' = FreeRecord \ {a}
         /\ Layout' /\ free_list' = RemoveAt(free_list, i)
<1>1. /\ size \in Nat /\ size % 4 = 0 /\ size >= 4
      /\ a \in blocks /\ a \in Addr /\ a \in Nat /\ hdr[a] = Free
      /\ fsize[a] \in Nat /\ fsize[a] % 4 = 0 /\ Object \subseteq blocks
  BY AllocateFacts
<1>2. /\ blocks' = blocks /\ fsize' = Memset(fsize, a, size, 0)
      /\ free_list' = RemoveAt(free_list, i)
  BY DEF AllocateObject
<1>3. /\ \A b \in blocks \ {a} : hdr'[b] = hdr[b] /\ fsize'[b] = fsize[b]
      /\ hdr'[a] = request.cls /\ request.cls \in StaticClass \cup Object
      /\ \A o \in Object : hdr[o] \in StaticClass \cup Object
      /\ \A d \in StaticClass \cup Object : instance_size(d)' = instance_size(d)
  BY AllocateFacts
<1>4. fsize[a] = size
  BY <1>1 DEF Splits
<1>5. fsize \in [Addr -> 0 .. heap_size] /\ request.cls # Free
  BY NullAssumption DEF IInv, TypeOK
<1>6. fsize' \in [Addr -> 0 .. heap_size] /\ \A b \in Addr : fsize'[b] \in {0, fsize[b]}
  BY <1>2, <1>5, HeapFacts DEF Memset
<1>7. Object' = Object \cup {a} /\ FreeRecord' = FreeRecord \ {a}
  <2>1. /\ a \in blocks' /\ hdr'[a] # Free /\ blocks' = blocks
        /\ \A b \in blocks : b # a => (hdr'[b] = Free <=> hdr[b] = Free)
    BY <1>1, <1>2, <1>3, <1>5
  <2>2. Object' = {b \in blocks : hdr'[b] # Free}
        /\ FreeRecord' = {b \in blocks : hdr'[b] = Free}
    BY <2>1 DEF Object, FreeRecord
  <2>3. Object' = Object \cup {a}
    BY <1>1, <2>1, <2>2 DEF Object
  <2>4. FreeRecord' = FreeRecord \ {a}
    BY <1>1, <2>1, <2>2 DEF FreeRecord
  <2> QED
    BY <2>3, <2>4
<1>8. ASSUME NEW b \in blocks PROVE Size(b)' = Size(b)
  <2>1. CASE b = a
    BY <1>1, <1>3, <1>4, <1>5, <2>1 DEF Size, class_instance_size
  <2>2. CASE b # a
    <3>1. hdr'[b] = hdr[b] /\ fsize'[b] = fsize[b]
      BY <1>3, <2>2
    <3>2. hdr[b] # Free => hdr[b] \in StaticClass \cup Object
      BY <1>3 DEF Object
    <3> QED BY <1>3, <3>1, <3>2 DEF Size, class_instance_size
  <2> QED BY <2>1, <2>2
<1>9. Aligned'
  BY <1>6 DEF IInv, Layout, Aligned
<1>10. BlocksTileHeap'
  BY <1>2, <1>8 DEF IInv, Layout, BlocksTileHeap
<1>11. Sized'
  <2>1. ASSUME NEW o \in Object PROVE instance_size(hdr[o])' >= ObjectWords
    <3>1. hdr'[o] = hdr[o] /\ hdr[o] \in StaticClass \cup Object
      BY <1>1, <1>3 DEF Object
    <3>2. instance_size(hdr[o]) >= ObjectWords
      BY DEF IInv, Layout, Sized
    <3> QED BY <1>3, <3>1, <3>2 DEF instance_size
  <2>2. instance_size(hdr[a])' >= ObjectWords
    BY <1>3 DEF instance_size
  <2> QED BY <1>2, <1>7, <2>1, <2>2 DEF Sized
<1> QED
  BY <1>2, <1>6, <1>7, <1>9, <1>10, <1>11 DEF Layout

(* LTE_gc_alloc returns an object (gc.c:218-248, 264-268).                 *)
LEMMA AllocFitsStep ==
  ASSUME IInv, AllocFits
  PROVE  IInv'
<1>0. PICK size : size = class_instance_size(request.cls)
  OBVIOUS
<1>1. PICK i \in Fitting(size) : AllocateObject(i, request.cls, size)
  BY <1>0 DEF AllocFits
<1>2. PICK a : a = free_list[i] /\ size = class_instance_size(request.cls)
  BY <1>0
<1>3. /\ pc \in {"first", "second"} /\ instance_size(request.cls) >= ObjectWords
      /\ i \in DOMAIN free_list /\ fsize[a] >= size
  BY <1>2 DEF AllocFits, Fitting
<1>4. /\ a \in FreeRecord /\ a \in blocks /\ a \in Addr /\ a \in Nat /\ hdr[a] = Free
      /\ fsize[a] \in Nat /\ \A b \in blocks : b <= a \/ b >= a + fsize[a]
      /\ Return(a) /\ Object \subseteq blocks /\ Held \subseteq Object
      /\ request.cls \in StaticClass \cup Object /\ size \in Nat
  BY <1>1, <1>3, <1>2, AllocateFacts
<1>5. /\ \A o \in Object : Holds(o) \subseteq Object
      /\ \A b \in blocks \ {a} : hdr'[b] = hdr[b] /\ slot'[b] = slot[b]
      /\ hdr'[a] = request.cls /\ slot'[a] = Emptied
      /\ hdr' \in [Addr -> Class \cup {Free}]
      /\ slot' \in [Addr -> [Field -> Addr \cup {Null}]]
      /\ iwords' \in [Addr -> ClassWords \cup {0}]
  BY <1>1, <1>3, <1>2, AllocateFacts
<1>6. /\ pc' = "run" /\ UNCHANGED <<root_list, ret, marked, gray, current>>
      /\ val' \in [Var -> Addr \cup {Null}] /\ Held' \subseteq Held \cup (Addr \cap {a})
      /\ request' \in [cls : Class, dst : Var \cup {Null}] /\ Requested' /\ UnusedNull'
  BY <1>3, <1>4, ReturnFacts DEF collector
<1>7. allocated_since_last_gc' \in Nat
  BY <1>1, <1>4 DEF AllocateObject, IInv, TypeOK
<1>8. free_list \in Seq(Addr) /\ Range(free_list) = FreeRecord /\ FreeRecord \subseteq blocks
      /\ \A j, k \in DOMAIN free_list : j < k => free_list[j] < free_list[k]
  BY <1>3 DEF IInv, TypeOK, FreeListExact, Listed, FreeRecord
<1>9. DOMAIN free_list = 1 .. Len(free_list) /\ Len(free_list) \in Nat
      /\ \A j \in DOMAIN free_list : free_list[j] \in Nat /\ free_list[j] \in blocks /\ (j # i => free_list[j] # a)
  <2>1. DOMAIN free_list = 1 .. Len(free_list) /\ Len(free_list) \in Nat
    BY <1>8
  <2>2. ASSUME NEW j \in DOMAIN free_list PROVE free_list[j] \in blocks /\ free_list[j] \in Nat
    <3>1. free_list[j] \in blocks
      BY <1>8 DEF Range
    <3> QED BY <3>1, HeapFacts DEF IInv, TypeOK
  <2>3. ASSUME NEW j \in DOMAIN free_list, j # i PROVE free_list[j] # a
    <3>1. j < i \/ i < j
      BY <1>3, <2>1, <2>3
    <3>2. free_list[j] < a \/ a < free_list[j]
      BY <1>3, <1>2, <1>8, <3>1
    <3> QED BY <1>4, <2>2, <3>2
  <2> QED BY <2>1, <2>2, <2>3
<1>10. /\ Object' = Object \cup {a} /\ Layout' /\ blocks' \subseteq Addr
       /\ fsize' \in [Addr -> 0 .. heap_size]
       /\ free_list' \in Seq(Addr) /\ Range(free_list') = FreeRecord'
       /\ \A j, k \in DOMAIN free_list' : j < k => free_list'[j] < free_list'[k]
  <2>1. CASE Splits(a, size)
    <3> DEFINE rest == a + size
    <3>1. /\ blocks' \subseteq Addr /\ fsize' \in [Addr -> 0 .. heap_size]
          /\ Object' = Object \cup {a} /\ FreeRecord' = (FreeRecord \ {a}) \cup {rest}
          /\ Layout' /\ free_list' = [free_list EXCEPT ![i] = rest]
          /\ rest \in Addr /\ rest < a + fsize[a]
      BY <1>1, <1>3, <1>2, <2>1, SplitLayout
    <3>2. rest \in Nat /\ a <= rest
      BY <1>4
    <3> HIDE DEF rest
    <3>3. /\ free_list' \in Seq(Addr) /\ DOMAIN free_list' = DOMAIN free_list
          /\ \A j \in DOMAIN free_list : free_list'[j] = IF j = i THEN rest ELSE free_list[j]
      BY <1>3, <1>8, <1>9, <3>1
    <3>4. Range(free_list') = FreeRecord'
      <4>1. Range(free_list') \subseteq FreeRecord'
        BY <1>8, <1>9, <3>1, <3>3 DEF Range
      <4>2. FreeRecord \ {a} \subseteq Range(free_list')
        BY <1>2, <1>8, <3>3 DEF Range
      <4>3. rest \in Range(free_list')
        BY <1>3, <3>3 DEF Range
      <4> QED BY <3>1, <4>1, <4>2, <4>3
    <3>5. ASSUME NEW j \in DOMAIN free_list', NEW k \in DOMAIN free_list', j < k
          PROVE  free_list'[j] < free_list'[k]
      <4>1. free_list[j] < free_list[k] /\ free_list[j] \in Nat /\ free_list[k] \in Nat
            /\ free_list[k] \in blocks
        BY <1>8, <1>9, <3>3, <3>5
      <4>2. CASE j = i
        <5>1. free_list[k] > a
          BY <1>2, <4>1, <4>2
        <5>2. free_list[k] >= a + fsize[a]
          BY <1>4, <4>1, <5>1
        <5>3. free_list'[j] = rest /\ free_list'[k] = free_list[k]
          BY <1>9, <3>3, <3>5, <4>2
        <5> QED BY <1>4, <3>1, <3>2, <4>1, <5>2, <5>3
      <4>3. CASE k = i
        <5>1. free_list'[j] = free_list[j] /\ free_list'[k] = rest /\ free_list[j] < a
          BY <1>2, <1>9, <3>3, <3>5, <4>1, <4>3
        <5> QED BY <1>4, <3>2, <4>1, <5>1
      <4>4. CASE j # i /\ k # i
        BY <3>3, <4>1, <4>4
      <4> QED BY <4>2, <4>3, <4>4
    <3> QED BY <3>1, <3>3, <3>4, <3>5
  <2>2. CASE ~Splits(a, size)
    <3>1. /\ blocks' = blocks /\ fsize' \in [Addr -> 0 .. heap_size]
          /\ Object' = Object \cup {a} /\ FreeRecord' = FreeRecord \ {a}
          /\ Layout' /\ free_list' = RemoveAt(free_list, i)
      BY <1>1, <1>3, <1>2, <2>2, UnlinkLayout
    <3>2. /\ free_list' \in Seq(Addr) /\ DOMAIN free_list' = 1 .. Len(free_list) - 1
          /\ \A j \in 1 .. Len(free_list) - 1 :
               free_list'[j] = IF j < i THEN free_list[j] ELSE free_list[j + 1]
      <4>1. free_list \in Seq(Addr) /\ i \in DOMAIN free_list
        BY <1>3, <1>8
      <4> QED BY <3>1, <4>1, RemoveAtFacts
    <3>3. Range(free_list') \subseteq FreeRecord'
      <4> SUFFICES ASSUME NEW j \in 1 .. Len(free_list) - 1
                   PROVE  free_list'[j] \in FreeRecord \ {a}
        BY <3>1, <3>2 DEF Range
      <4>1. CASE j < i
        <5>1. j \in DOMAIN free_list /\ j # i /\ free_list'[j] = free_list[j]
          BY <1>3, <1>9, <3>2, <4>1
        <5> QED BY <1>8, <1>9, <5>1 DEF Range
      <4>2. CASE ~(j < i)
        <5>1. j + 1 \in DOMAIN free_list /\ j + 1 # i /\ free_list'[j] = free_list[j + 1]
          BY <1>3, <1>9, <3>2, <4>2
        <5> QED BY <1>8, <1>9, <5>1 DEF Range
      <4> QED BY <4>1, <4>2
    <3>4. FreeRecord' \subseteq Range(free_list')
      <4> SUFFICES ASSUME NEW k \in DOMAIN free_list, k # i
                   PROVE  free_list[k] \in Range(free_list')
        BY <1>2, <1>8, <3>1 DEF Range
      <4>1. CASE k < i
        <5>1. k \in DOMAIN free_list' /\ free_list'[k] = free_list[k]
          BY <1>3, <1>9, <3>2, <4>1
        <5> QED BY <5>1 DEF Range
      <4>2. CASE ~(k < i)
        <5>1. k - 1 \in DOMAIN free_list' /\ ~(k - 1 < i) /\ (k - 1) + 1 = k
          BY <1>3, <1>9, <3>2, <4>2
        <5>2. free_list'[k - 1] = free_list[k]
          BY <3>2, <5>1
        <5> QED BY <5>1, <5>2 DEF Range
      <4> QED BY <4>1, <4>2
    <3>5. ASSUME NEW j \in DOMAIN free_list', NEW k \in DOMAIN free_list', j < k
          PROVE  free_list'[j] < free_list'[k]
      <4> DEFINE m(x) == IF x < i THEN x ELSE x + 1
      <4>1. m(j) \in DOMAIN free_list /\ m(k) \in DOMAIN free_list /\ m(j) < m(k)
        BY <1>3, <1>9, <3>2, <3>5
      <4>2. free_list'[j] = free_list[m(j)] /\ free_list'[k] = free_list[m(k)]
        BY <3>2
      <4> QED BY <1>8, <4>1, <4>2
    <3> QED BY <3>1, <3>2, <3>3, <3>4, <3>5, <1>4 DEF IInv, TypeOK
  <2> QED BY <2>1, <2>2
<1>11. TypeOK'
  BY <1>5, <1>6, <1>7, <1>10 DEF IInv, TypeOK
<1>12. FreeListExact'
  BY <1>6, <1>10 DEF FreeListExact, Listed
<1>13. Kept' = Object \cup {a}
  BY <1>6, <1>10 DEF Kept
<1>14. NoDangling'
  <2>1. Holds(a)' \subseteq Object
    <3>1. Range(slot'[a]) \subseteq {Null}
      BY <1>5 DEF Range, Emptied
    <3>2. Addr \cap {request.cls} \subseteq Object
      BY <1>4, ClassAssumption
    <3> QED BY <1>5, <3>1, <3>2, NullAssumption DEF Holds
  <2>2. ASSUME NEW b \in Object PROVE Holds(b)' \subseteq Object
    <3>1. hdr'[b] = hdr[b] /\ slot'[b] = slot[b] /\ Holds(b) \subseteq Object
      BY <1>4, <1>5 DEF Object
    <3> QED BY <3>1 DEF Holds
  <2>3. Held' \subseteq Object \cup {a}
    BY <1>4, <1>6
  <2> QED BY <1>13, <2>1, <2>2, <2>3 DEF NoDangling, Held
<1>15. Untraced'
  <2>1. ASSUME NEW b \in Object PROVE hdr'[b] = hdr[b] /\ slot'[b] = slot[b]
    BY <1>4, <1>5 DEF Object
  <2>2. \A f \in Field : slot'[a][f] = Null
    BY <1>5 DEF Emptied
  <2> QED BY <1>10, <2>1, <2>2 DEF IInv, Untraced
<1>16. Cursor' /\ NeverCorrupt'
  BY <1>6 DEF Cursor, NeverCorrupt
<1>17. Marking'
  BY <1>3, <1>6, <1>10 DEF IInv, Marking, Collecting
<1> QED
  BY <1>6, <1>10, <1>11, <1>12, <1>14, <1>15, <1>16, <1>17 DEF IInv

(***************************************************************************)
(* The invariant holds of the specification.                               *)
(***************************************************************************)
(* Nothing changes.                                                        *)
LEMMA StutterIInv ==
  ASSUME IInv, UNCHANGED vars
  PROVE  IInv'
<1>1. UNCHANGED <<blocks, hdr, fsize, iwords, slot, free_list, allocated_since_last_gc,
                  root_list, val, pc, ret, request, marked, gray, current>>
  BY DEF vars, memory, program, control, collector
<1>2. Layout' /\ Object' = Object /\ FreeRecord' = FreeRecord
  BY <1>1, SameMemory DEF IInv
<1>3. Kept' = Kept /\ Listed' = Listed /\ Usable' = Usable /\ Held' = Held
  BY <1>1, <1>2 DEF Kept, Listed, Usable, Held
<1>4. TypeOK'
  BY <1>1 DEF IInv, TypeOK
<1>5. FreeListExact' /\ Cursor' /\ NeverCorrupt' /\ Untraced' /\ UnusedNull'
  BY <1>1, <1>2, <1>3
  DEF IInv, FreeListExact, Cursor, NeverCorrupt, Untraced, UnusedNull
<1>6. NoDangling'
  BY <1>1, <1>3 DEF IInv, NoDangling, Holds
<1>7. Marking' /\ Requested'
  BY <1>1, <1>2, <1>3 DEF IInv, Marking, Collecting, Holds, Requested, NoRequest
<1> QED
  BY <1>2, <1>4, <1>5, <1>6, <1>7 DEF IInv

(* Every step preserves the invariant.                                     *)
LEMMA NextIInv ==
  ASSUME IInv, Unscanned = {}, [Next]_vars
  PROVE  IInv'
<1>1. ASSUME Mutator PROVE IInv'
  <2>1. CASE \E v \in Var : Assign(v) \/ LTE_gc_register_root(v) \/ LTE_gc_unregister_root(v)
    BY <2>1, AssignStep, RegisterRootStep, UnregisterRootStep
  <2>2. CASE \E o \in Addr, f \in Field : Store(o, f)
    BY <2>2, StoreStep
  <2>3. CASE \E c \in Addr, w \in ClassWords : DefineClass(c, w)
    BY <2>3, DefineClassStep
  <2>4. CASE \E c \in Class, v \in Var : LTE_gc_alloc(c, v)
    BY <2>4, AllocStep
  <2>5. CASE LTE_gc_collect
    BY <2>5, CollectStep
  <2> QED BY <1>1, <2>1, <2>2, <2>3, <2>4, <2>5 DEF Mutator
<1>2. ASSUME MemoryManager PROVE IInv'
  <2>1. CASE AllocBadClass \/ AllocFits \/ AllocRetry \/ AllocFails
    BY <2>1, AllocBadClassStep, AllocFitsStep, AllocRetryStep, AllocFailsStep
  <2>2. CASE (\E o \in Addr : mark_object(o)) \/ StartSweep
    BY <2>2, MarkStep, StartSweepStep
  <2>3. CASE SweepMarked \/ SweepUnmarked \/ SweepFree
    BY <2>3, SweepMarkedStep, SweepUnmarkedStep, SweepFreeStep
  <2>4. CASE CoalesceNext \/ append_free_node \/ EndCollect
    BY <2>4, CoalesceNextStep, AppendFreeNodeStep, EndCollectStep
  <2> QED BY <1>2, <2>1, <2>2, <2>3, <2>4 DEF MemoryManager
<1> QED
  BY <1>1, <1>2, StutterIInv DEF Next

(* Every collection, allocation and write of the program preserves the     *)
(* invariant, if the compiler keeps no reference in a register alone.      *)
THEOREM Invariance ==
  ASSUME Unscanned = {}
  PROVE  Spec => []IInv
<1>1. Init => IInv
  BY InitIInv
<1>2. IInv /\ [Next]_vars => IInv'
  BY NextIInv
<1> QED
  BY <1>1, <1>2, PTL DEF Spec

(* Every variable keeps its type (gc.c:13-30, 167-171).                    *)
THEOREM TypeCorrect ==
  ASSUME Unscanned = {}
  PROVE  Spec => []TypeOK
<1>1. IInv => TypeOK
  BY DEF IInv
<1> QED
  BY <1>1, Invariance, PTL

(* Whatever was allocated, split, freed and merged, the blocks tile the    *)
(* heap, so the walk of sweep() finds every header (gc.c:106-165).         *)
THEOREM HeapTiled ==
  ASSUME Unscanned = {}
  PROVE  Spec => []BlocksTileHeap
<1>1. IInv => BlocksTileHeap
  BY DEF IInv, Layout
<1> QED
  BY <1>1, Invariance, PTL

(* The free list is the free records, in address order (gc.c:96-104,       *)
(* 218-248).                                                               *)
THEOREM FreeListCorrect ==
  ASSUME Unscanned = {}
  PROVE  Spec => []FreeListExact
<1>1. IInv => FreeListExact
  BY DEF IInv
<1> QED
  BY <1>1, Invariance, PTL

(* No sweep reports a corrupt block or a class without an instance size    *)
(* (gc.c:39-41, 120-122, 129-131, 155-157), even when a class dies before  *)
(* its instances in the same sweep.                                        *)
THEOREM SweepNeverCorrupt ==
  ASSUME Unscanned = {}
  PROVE  Spec => []NeverCorrupt
<1>1. IInv => NeverCorrupt
  BY DEF IInv
<1> QED
  BY <1>1, Invariance, PTL

(* No collection reclaims an object that a usable variable, or a field or  *)
(* the class of a surviving object, refers to (gc.c:74-94, 182-192).       *)
THEOREM CollectorSafe ==
  ASSUME Unscanned = {}
  PROVE  Spec => []NoDangling
<1>1. IInv => NoDangling
  BY DEF IInv
<1> QED
  BY <1>1, Invariance, PTL

(***************************************************************************)
(* The counter of the words allocated since the last collection.           *)
(***************************************************************************)
(* The words of objects are words of the heap, finitely many.              *)
LEMMA WordsFacts ==
  ASSUME IInv
  PROVE  IsFiniteSet(AllocatedWords) /\ Cardinality(AllocatedWords) \in Nat
<1>1. AllocatedWords \subseteq 0 .. heap_size
  <2>1. ASSUME NEW o \in Object PROVE WordsOf(o) \subseteq 0 .. heap_size
    <3>1. o \in Nat /\ Size(o) \in Nat /\ o + Size(o) <= heap_size
      BY BlockFacts DEF IInv, Layout, Object
    <3> QED BY <3>1, HeapFacts DEF WordsOf
  <2> QED BY <2>1 DEF AllocatedWords
<1>2. IsFiniteSet(0 .. heap_size)
  BY HeapFacts, FS_Interval
<1>3. IsFiniteSet(AllocatedWords)
  BY <1>1, <1>2, FS_Subset
<1> QED
  BY <1>3, FS_CardinalityType

(* Objects that stay where they are and as large as they are.              *)
LEMMA SameWords ==
  ASSUME Object' = Object, \A o \in Object : Size(o)' = Size(o)
  PROVE  AllocatedWords' = AllocatedWords
BY DEF AllocatedWords, WordsOf

(* A new object adds as many words as LTE_gc_alloc counts (gc.c:251, 266). *)
LEMMA AllocatedMore ==
  ASSUME IInv, AllocFits
  PROVE  \E size \in Nat :
           /\ allocated_since_last_gc' = allocated_since_last_gc + size
           /\ Cardinality(AllocatedWords') = Cardinality(AllocatedWords) + size
<1>0. PICK size : size = class_instance_size(request.cls)
  OBVIOUS
<1>1. PICK i \in Fitting(size) : AllocateObject(i, request.cls, size)
  BY <1>0 DEF AllocFits
<1>2. PICK a : a = free_list[i]
  OBVIOUS
<1>3. /\ pc \in {"first", "second"} /\ instance_size(request.cls) >= ObjectWords
      /\ i \in DOMAIN free_list /\ fsize[a] >= size
  BY <1>2 DEF AllocFits, Fitting
<1>4. /\ size \in Nat /\ size >= 4 /\ a \in blocks /\ a \in Nat /\ hdr[a] = Free
      /\ fsize[a] \in Nat /\ \A b \in blocks : b <= a \/ b >= a + fsize[a]
      /\ Object \subseteq blocks /\ request.cls \in StaticClass \cup Object
      /\ \A o \in Object : hdr[o] \in StaticClass \cup Object
      /\ \A b \in blocks \ {a} : hdr'[b] = hdr[b]
      /\ hdr'[a] = request.cls
      /\ \A d \in StaticClass \cup Object : instance_size(d)' = instance_size(d)
  BY <1>0, <1>1, <1>2, <1>3, AllocateFacts
<1>5. Object' = Object \cup {a}
  BY <1>0, <1>1, <1>2, <1>3, SplitLayout, UnlinkLayout
<1>6. request.cls # Free
  <2>1. request.cls \in Class
    BY DEF IInv, TypeOK
  <2> QED BY <2>1, NullAssumption
<1>7. Size(a)' = size
  BY <1>0, <1>4, <1>6 DEF Size, class_instance_size
<1>8. ASSUME NEW o \in Object
      PROVE  /\ Size(o)' = Size(o) /\ o # a /\ o \in Nat /\ Size(o) \in Nat
             /\ WordsOf(o) \cap (a .. a + size - 1) = {}
  <2>1. hdr[o] # Free /\ o # a /\ o \in blocks
    BY <1>4 DEF Object
  <2>2. Size(o)' = Size(o)
    BY <1>4, <2>1 DEF Size, class_instance_size
  <2>3. o \in Nat /\ Size(o) \in Nat /\ Size(o) > 0
    BY <2>1, BlockFacts DEF IInv, Layout
  <2>4. a <= o \/ a >= o + Size(o)
    BY <1>4, <2>1 DEF IInv, Layout, BlocksTileHeap
  <2>5. o >= a + size \/ a >= o + Size(o)
    BY <1>3, <1>4, <2>1, <2>3, <2>4
  <2> QED BY <1>4, <2>1, <2>2, <2>3, <2>5 DEF WordsOf
<1> DEFINE new == a .. a + size - 1
<1>9. AllocatedWords' = AllocatedWords \cup new
  <2>1. \A o \in Object : WordsOf(o)' = WordsOf(o)
    BY <1>8 DEF WordsOf
  <2>2. WordsOf(a)' = new
    BY <1>7 DEF WordsOf
  <2> HIDE DEF new
  <2>3. AllocatedWords' = UNION {WordsOf(o)' : o \in Object \cup {a}}
    BY <1>5 DEF AllocatedWords
  <2> QED BY <2>1, <2>2, <2>3 DEF AllocatedWords
<1>10. AllocatedWords \cap new = {}
  BY <1>8 DEF AllocatedWords
<1>11. IsFiniteSet(new) /\ Cardinality(new) = size
  <2>1. PICK last \in Int : last = a + size - 1 /\ a \in Int /\ ~(a > last) /\ last - a + 1 = size
    BY <1>4
  <2>2. IsFiniteSet(a .. last) /\ Cardinality(a .. last) = size
    BY <2>1, FS_Interval
  <2> QED BY <2>1, <2>2
<1>12. IsFiniteSet(AllocatedWords) /\ Cardinality(AllocatedWords) \in Nat
  BY WordsFacts
<1>13. Cardinality(AllocatedWords \cup new) = Cardinality(AllocatedWords) + size
  <2> HIDE DEF new
  <2>1. Cardinality(AllocatedWords \cup new)
          = Cardinality(AllocatedWords) + Cardinality(new) - Cardinality(AllocatedWords \cap new)
    BY <1>11, <1>12, FS_Union
  <2>2. Cardinality(AllocatedWords \cap new) = 0
    BY <1>10, FS_EmptySet
  <2> QED BY <1>4, <1>11, <1>12, <2>1, <2>2
<1>14. allocated_since_last_gc' = allocated_since_last_gc + size
  BY <1>1 DEF AllocateObject
<1> QED
  BY <1>4, <1>9, <1>13, <1>14

LEMMA CounterStep ==
  ASSUME IInv, CounterBounded, [Next]_vars
  PROVE  CounterBounded'
<1>1. allocated_since_last_gc \in Nat /\ Cardinality(AllocatedWords) \in Nat
  BY WordsFacts DEF IInv, TypeOK
<1>2. CASE AllocFits
  <2>1. allocated_since_last_gc <= Cardinality(AllocatedWords)
    BY <1>2 DEF CounterBounded, AllocFits
  <2>2. PICK size \in Nat : /\ allocated_since_last_gc' = allocated_since_last_gc + size
                            /\ Cardinality(AllocatedWords') = Cardinality(AllocatedWords) + size
    BY <1>2, AllocatedMore
  <2> QED BY <1>1, <2>1, <2>2 DEF CounterBounded
<1>3. CASE EndCollect
  <2>1. allocated_since_last_gc' = 0 /\ UNCHANGED <<blocks, hdr, fsize, iwords>>
    BY <1>3 DEF EndCollect, memory
  <2>2. AllocatedWords' = AllocatedWords
    BY <2>1 DEF AllocatedWords, WordsOf, Object, Size, class_instance_size, instance_size
  <2> QED BY <1>1, <2>1, <2>2 DEF CounterBounded
<1>4. ASSUME NEW c \in Addr, NEW w \in ClassWords, DefineClass(c, w) PROVE CounterBounded'
  <2>1. AllocatedWords' = AllocatedWords
    <3>1. Object \subseteq blocks
      BY DEF Object
    <3> QED BY <1>4, <3>1, DefineClassSizes, SameWords
  <2>2. UNCHANGED <<pc, allocated_since_last_gc>>
    BY <1>4 DEF DefineClass, control
  <2> QED BY <2>1, <2>2 DEF CounterBounded
<1>5. CASE pc' \in {"mark", "sweep", "coalesce", "error", "corrupt"}
  BY <1>5 DEF CounterBounded
<1>6. CASE /\ pc' \in {"run", "first", "second"} => pc \in {"run", "first", "second"}
           /\ UNCHANGED <<blocks, hdr, fsize, iwords, allocated_since_last_gc>>
  <2>1. AllocatedWords' = AllocatedWords
    BY <1>6 DEF AllocatedWords, WordsOf, Object, Size, class_instance_size, instance_size
  <2> QED BY <1>6, <2>1 DEF CounterBounded
<1>7. ASSUME Mutator PROVE CounterBounded'
  <2>1. CASE \E v \in Var : Assign(v) \/ LTE_gc_register_root(v) \/ LTE_gc_unregister_root(v)
    BY <1>6, <2>1 DEF Assign, LTE_gc_register_root, LTE_gc_unregister_root, UnregisterRoot,
                      memory, control
  <2>2. CASE \E o \in Addr, f \in Field : Store(o, f)
    BY <1>6, <2>2 DEF Store, control
  <2>3. CASE \E c \in Class, v \in Var : LTE_gc_alloc(c, v)
    BY <1>6, <2>3 DEF LTE_gc_alloc, memory
  <2>4. CASE LTE_gc_collect
    BY <1>6, <2>4 DEF LTE_gc_collect, memory
  <2> QED BY <1>4, <1>7, <2>1, <2>2, <2>3, <2>4 DEF Mutator
<1>8. ASSUME MemoryManager PROVE CounterBounded'
  <2>1. CASE AllocBadClass \/ AllocRetry
    BY <1>5, <2>1 DEF AllocBadClass, AllocRetry, StartCollect
  <2>2. CASE AllocFails
    BY <1>6, <2>2 DEF AllocFails, memory
  <2>3. CASE (\E o \in Addr : mark_object(o)) \/ StartSweep
    BY <1>5, <2>3 DEF mark_object, StartSweep, control
  <2>4. CASE SweepMarked \/ SweepUnmarked \/ SweepFree
    BY <1>5, <2>4 DEF SweepMarked, SweepUnmarked, SweepFree
  <2>5. CASE CoalesceNext \/ append_free_node
    BY <1>5, <2>5 DEF CoalesceNext, append_free_node
  <2> QED BY <1>2, <1>3, <1>8, <2>1, <2>2, <2>3, <2>4, <2>5 DEF MemoryManager
<1>9. CASE UNCHANGED vars
  BY <1>6, <1>9 DEF vars, memory, control
<1> QED
  BY <1>7, <1>8, <1>9 DEF Next

(* Between collections the counter is at most the number of words that     *)
(* objects occupy, so it cannot start a collection in a heap that holds    *)
(* less than half of it (gc.c:191, 251-253, 266).                          *)
THEOREM CounterCorrect ==
  ASSUME Unscanned = {}
  PROVE  Spec => []CounterBounded
<1>1. Init => CounterBounded
  <2> SUFFICES ASSUME Init PROVE CounterBounded
    OBVIOUS
  <2>1. IInv /\ allocated_since_last_gc = 0
    BY InitIInv DEF Init
  <2> QED BY <2>1, WordsFacts DEF CounterBounded
<1>2. IInv /\ CounterBounded /\ [Next]_vars => CounterBounded'
  BY CounterStep
<1> QED
  BY <1>1, <1>2, Invariance, PTL DEF Spec

(***************************************************************************)
(* The collector of Gc implements ManagedHeap, for every heap, set of      *)
(* classes and set of variables: each step of Gc is a step of ManagedHeap  *)
(* under the mapping Promise, or changes nothing of what it maps to.  And  *)
(* a collection leaves only what a variable or a stale word leads to.      *)
(***************************************************************************)
AbsRef == [a \in Addr |-> IF a \in Object THEN Holds(a) ELSE {}]
Closed(S) == \A o \in S : AbsRef[o] \subseteq S

(* The abstract reachable objects, with the refinement mapping expanded:   *)
(* a variable the program may not use holds nothing (gc.c:193-216).        *)
LEMMA ReachableDef ==
  ASSUME IInv
  PROVE  Promise!Reachable =
           {o \in Object : \A S \in SUBSET Object : Held \subseteq S /\ Closed(S) => o \in S}
<1>1. Usable \subseteq Var
  BY DEF IInv, TypeOK, Usable, Var, Range
<1>2. Addr \cap {val[v] : v \in Var} = Held
  BY <1>1, NullAssumption DEF IInv, UnusedNull, Held
<1>3. Promise!Root = Held
  BY <1>2 DEF Promise!Root
<1> QED
  BY <1>3 DEF Promise!Reachable, Promise!ClosedUnderRef, Closed, AbsRef

(* Held objects are reachable, and so is what a reachable object holds.    *)
LEMMA ReachableFacts ==
  ASSUME IInv, Unscanned = {}, pc \notin {"sweep", "coalesce"}
  PROVE  /\ Held \subseteq Promise!Reachable
         /\ \A o \in Promise!Reachable : o \in Object /\ Holds(o) \subseteq Promise!Reachable
<1>1. Held \subseteq Object /\ Object \subseteq Addr
  BY KeptFacts
<1>2. \A o \in Object : Holds(o) \subseteq Object /\ AbsRef[o] = Holds(o)
  <2>1. Kept = Object
    BY KeptFacts
  <2> QED BY <1>1, <2>1 DEF IInv, NoDangling, AbsRef
<1>3. Held \subseteq Promise!Reachable
  BY <1>1, ReachableDef
<1>4. ASSUME NEW o \in Promise!Reachable PROVE o \in Object /\ Holds(o) \subseteq Promise!Reachable
  <2>1. o \in Object
    BY ReachableDef
  <2>2. ASSUME NEW x \in Holds(o), NEW S \in SUBSET Object, Held \subseteq S, Closed(S)
        PROVE  x \in S
    <3>1. o \in S
      BY <2>2, ReachableDef
    <3> QED BY <1>2, <2>1, <2>2, <3>1 DEF Closed
  <2>3. Holds(o) \subseteq Object
    BY <1>2, <2>1
  <2> QED BY <2>1, <2>2, <2>3, ReachableDef
<1> QED
  BY <1>3, <1>4

(* Whatever the program can read is an object it reaches, so a store or an *)
(* assignment never revives a dead object (smoke_test.c:145-163).          *)
LEMMA ReadableReachable ==
  ASSUME IInv, Unscanned = {}, pc = "run"
  PROVE  Readable \subseteq Promise!Reachable \cup {Null}
<1> SUFFICES ASSUME NEW x \in Readable, x # Null PROVE x \in Promise!Reachable
  OBVIOUS
<1>1. Held \subseteq Promise!Reachable
  BY ReachableFacts
<1>2. /\ val \in [Var -> Addr \cup {Null}] /\ Usable \subseteq Var
      /\ slot \in [Addr -> [Field -> Addr \cup {Null}]]
  BY KeptFacts DEF IInv, TypeOK
<1>3. ASSUME NEW v \in Usable, x = val[v] PROVE x \in Promise!Reachable
  BY <1>1, <1>2, <1>3 DEF Held
<1>4. ASSUME NEW o \in Instances, NEW f \in Field, x = slot[o][f]
      PROVE  x \in Promise!Reachable
  <2>1. o \in Held /\ o \in Addr
    BY DEF Instances, Held
  <2>2. x \in Holds(o)
    BY <1>2, <1>4, <2>1 DEF Holds, Range
  <2> QED BY <1>1, <2>1, <2>2, ReachableFacts
<1> QED
  BY <1>3, <1>4 DEF Readable

(* Steps that change nothing of the mapped state.                          *)
LEMMA SameAbstract ==
  ASSUME Object' = Object, val' = val, request' = request, (pc' = "run") <=> (pc = "run"),
         \A o \in Object : Holds(o)' = Holds(o)
  PROVE  UNCHANGED Promise!absVars
<1>1. AbsRef' = AbsRef
  BY DEF AbsRef
<1>2. (pc' = "run") = (pc = "run")
  OBVIOUS
<1> QED
  BY <1>1, <1>2 DEF Promise!absVars, AbsRef

(* A step that gives a variable another reachable object is Assign.        *)
LEMMA AssignAbstract ==
  ASSUME NEW v \in Var, NEW x \in Promise!Reachable \cup {Null}, val' = [val EXCEPT ![v] = x],
         Object' = Object, request' = request, pc = "run", pc' = "run",
         \A o \in Object : Holds(o)' = Holds(o)
  PROVE  Promise!Next
<1>1. AbsRef' = AbsRef
  BY DEF AbsRef
<1>2. (pc' = "run") = (pc = "run")
  OBVIOUS
<1>3. Promise!Assign(v)
  BY <1>1, <1>2 DEF Promise!Assign, AbsRef
<1> QED
  BY <1>3 DEF Promise!Next

(* Calling LTE_gc_alloc: the class is a static one, or an object that a    *)
(* variable of the program refers to (gc.c:250-253).                       *)
LEMMA CallImplements ==
  ASSUME IInv, Unscanned = {}, NEW c \in Class, NEW v \in Var, LTE_gc_alloc(c, v)
  PROVE  Promise!Next
<1>1. /\ pc = "run" /\ HeldClass(c) /\ request' = [cls |-> c, dst |-> v]
      /\ UNCHANGED <<blocks, hdr, slot, val>>
  BY DEF LTE_gc_alloc, memory, program
<1>2. pc' \in {"mark", "first"}
  BY DEF LTE_gc_alloc, StartCollect
<1>3. Object' = Object /\ AbsRef' = AbsRef
  BY <1>1 DEF Object, AbsRef, Holds
<1>4. Addr \cap {c} \subseteq Promise!Reachable
  <2>1. c \in Addr => c \in Held
    BY <1>1, ClassAssumption DEF HeldClass, Held
  <2>2. Held \subseteq Promise!Reachable
    BY <1>1, ReachableFacts
  <2> QED BY <2>1, <2>2
<1>5. (pc = "run") = TRUE /\ (pc' = "run") = FALSE
  BY <1>1, <1>2
<1>6. Promise!Allocate(v)
  BY <1>1, <1>3, <1>4, <1>5 DEF Promise!Allocate, AbsRef
<1> QED
  BY <1>6 DEF Promise!Next

(* Every step of the program is a step of ManagedHeap or changes nothing   *)
(* of it: a store writes what is reachable, unregistering a root clears    *)
(* the variable that the program no longer uses, and a call makes the      *)
(* program wait (gc.c:182-216, 250-253).                                   *)
LEMMA ProgramImplements ==
  ASSUME IInv, Unscanned = {}, Mutator
  PROVE  Promise!Next \/ UNCHANGED Promise!absVars
<1>0. pc = "run"
  BY DEF Mutator, Assign, LTE_gc_register_root, LTE_gc_unregister_root, UnregisterRoot, Store,
         DefineClass, LTE_gc_alloc, LTE_gc_collect
<1>1. ASSUME NEW v \in Var, Assign(v) PROVE Promise!Next
  <2>1. PICK x \in Readable : val' = [val EXCEPT ![v] = x]
    BY <1>1 DEF Assign
  <2>2. UNCHANGED <<blocks, hdr, slot, request, pc>>
    BY <1>1 DEF Assign, memory, control
  <2>3. Object' = Object /\ \A o \in Object : Holds(o)' = Holds(o)
    BY <2>2 DEF Object, Holds
  <2>4. x \in Promise!Reachable \cup {Null}
    BY <1>0, ReadableReachable
  <2> QED BY <1>0, <2>1, <2>2, <2>3, <2>4, AssignAbstract
<1>2. ASSUME NEW v \in Var, LTE_gc_register_root(v)
      PROVE  UNCHANGED Promise!absVars
  <2>1. UNCHANGED <<blocks, hdr, slot, val, request, pc>>
    BY <1>2 DEF LTE_gc_register_root, memory, control
  <2> QED BY <2>1, SameAbstract DEF Object, Holds
<1>3. ASSUME NEW v \in Var, LTE_gc_unregister_root(v)
      PROVE  Promise!Next \/ UNCHANGED Promise!absVars
  <2>1. /\ UNCHANGED <<blocks, hdr, slot, request, pc>>
        /\ val' = val \/ val' = [val EXCEPT ![v] = Null]
    BY <1>3 DEF LTE_gc_unregister_root, UnregisterRoot, memory, control
  <2>2. Object' = Object /\ \A o \in Object : Holds(o)' = Holds(o)
    BY <2>1 DEF Object, Holds
  <2>3. CASE val' = val
    BY <2>1, <2>2, <2>3, SameAbstract
  <2>4. CASE val' = [val EXCEPT ![v] = Null]
    BY <1>0, <2>1, <2>2, <2>4, AssignAbstract
  <2> QED BY <2>1, <2>3, <2>4
<1>4. ASSUME NEW o \in Addr, NEW f \in Field, Store(o, f) PROVE Promise!Next
  <2>1. PICK x \in Readable : slot' = [slot EXCEPT ![o][f] = x]
    BY <1>4 DEF Store
  <2>2. o \in Instances /\ UNCHANGED <<blocks, hdr, val, request, pc>>
    BY <1>4 DEF Store, program, control
  <2>3. Object' = Object
    BY <2>2 DEF Object
  <2>4. slot \in [Addr -> [Field -> Addr \cup {Null}]] /\ Object \subseteq Addr
    BY KeptFacts DEF IInv, TypeOK
  <2>5. o \in Promise!Reachable /\ o \in Object /\ Holds(o) \subseteq Promise!Reachable
    <3>1. o \in Held
      BY <2>2 DEF Instances, Held
    <3> QED BY <1>0, <3>1, ReachableFacts
  <2>6. \A b \in Addr \ {o} : Holds(b)' = Holds(b)
    BY <2>1, <2>2, <2>4 DEF Holds
  <2>7. Holds(o)' \subseteq Holds(o) \cup (Addr \cap {x})
    <3>1. Range(slot'[o]) \subseteq Range(slot[o]) \cup {x}
      BY <2>1, <2>4 DEF Range
    <3> QED BY <2>2, <3>1 DEF Holds
  <2>8. PICK R : R = Holds(o)'
    OBVIOUS
  <2>9. R \in SUBSET Promise!Reachable
    BY <1>0, <2>5, <2>7, <2>8, ReadableReachable, NullAssumption
  <2>10. AbsRef' = [AbsRef EXCEPT ![o] = R]
    BY <2>3, <2>4, <2>5, <2>6, <2>8 DEF AbsRef
  <2>11. (pc' = "run") = (pc = "run") /\ request' = request /\ val' = val
    BY <2>2
  <2>12. Promise!Write(o)
    BY <1>0, <2>3, <2>5, <2>9, <2>10, <2>11 DEF Promise!Write, AbsRef
  <2> QED BY <2>12 DEF Promise!Next
<1>5. ASSUME NEW c \in Addr, NEW w \in ClassWords, DefineClass(c, w)
      PROVE  UNCHANGED Promise!absVars
  <2>1. UNCHANGED <<blocks, hdr, slot, val, request, pc>>
    BY <1>5 DEF DefineClass, program, control
  <2> QED BY <2>1, SameAbstract DEF Object, Holds
<1>6. ASSUME NEW c \in Class, NEW v \in Var, LTE_gc_alloc(c, v) PROVE Promise!Next
  BY <1>6, CallImplements
<1>7. ASSUME LTE_gc_collect PROVE Promise!Next
  <2>1. UNCHANGED <<blocks, hdr, slot, val, request>> /\ pc' = "mark"
    BY <1>7 DEF LTE_gc_collect, StartCollect, memory, program
  <2>2. Object' = Object /\ AbsRef' = AbsRef
    BY <2>1 DEF Object, AbsRef, Holds
  <2>3. (pc = "run") = TRUE /\ (pc' = "run") = FALSE
    BY <1>0, <2>1
  <2>4. Promise!Collect
    BY <2>1, <2>2, <2>3 DEF Promise!Collect, AbsRef
  <2> QED BY <2>4 DEF Promise!Next
<1> QED
  BY <1>1, <1>2, <1>3, <1>4, <1>5, <1>6, <1>7 DEF Mutator

(* A call returns: the arguments it was given are no longer there.         *)
LEMMA ReturnAbstract ==
  ASSUME pc # "run", pc' = "run", request' = NoRequest
  PROVE  Promise!Return
<1>1. Addr \cap {request'.cls} = {} /\ request'.dst = Null
  BY ClassAssumption DEF NoRequest
<1>2. (pc = "run") = FALSE /\ (pc' = "run") = TRUE
  OBVIOUS
<1> QED
  BY <1>1, <1>2 DEF Promise!Return

(* Taking a record off the free list (gc.c:218-267) is New: the block was  *)
(* no object before, it refers to its class only, and no variable changes  *)
(* but the one that waits for it.                                          *)
LEMMA AllocImplements ==
  ASSUME IInv, Unscanned = {}, AllocFits
  PROVE  Promise!Next
<1>1. PICK size : size = class_instance_size(request.cls)
  OBVIOUS
<1>2. PICK i \in Fitting(size) : AllocateObject(i, request.cls, size)
  BY <1>1 DEF AllocFits
<1>3. PICK a, c : a = free_list[i] /\ c = request.cls
  OBVIOUS
<1>4. /\ pc \in {"first", "second"} /\ instance_size(c) >= ObjectWords
      /\ i \in DOMAIN free_list /\ fsize[a] >= size
  BY <1>3 DEF AllocFits, Fitting
<1>5. /\ a \in blocks /\ a \in Addr /\ hdr[a] = Free /\ Return(a) /\ Object \subseteq blocks
      /\ blocks \subseteq Addr
      /\ \A b \in blocks \ {a} : hdr'[b] = hdr[b] /\ slot'[b] = slot[b]
      /\ hdr'[a] = c /\ slot'[a] = Emptied
  BY <1>1, <1>2, <1>3, <1>4, AllocateFacts, SMTT(30) DEF IInv, TypeOK
<1>6. Object' = Object \cup {a}
  BY <1>1, <1>2, <1>3, <1>4, SplitLayout, UnlinkLayout
<1>7. val' = [val EXCEPT ![request.dst] = a] /\ pc' = "run" /\ request' = NoRequest
  BY <1>5 DEF Return
<1>8. a \notin Object
  BY <1>5 DEF Object
<1>9. \A b \in Object : Holds(b)' = Holds(b)
  BY <1>5, <1>8 DEF Holds
<1>10. Holds(a)' = Addr \cap {request.cls}
  <2>1. Range(slot'[a]) \subseteq {Null}
    BY <1>5 DEF Range, Emptied
  <2> QED BY <1>3, <1>5, <2>1, NullAssumption DEF Holds
<1>11. PICK R : R = Addr \cap {request.cls}
  OBVIOUS
<1>12. AbsRef' = [AbsRef EXCEPT ![a] = R]
  BY <1>5, <1>6, <1>8, <1>9, <1>10, <1>11 DEF AbsRef
<1>13. request.dst \in Var
  BY <1>4, KeptFacts DEF IInv, Requested, Collecting
<1>14. Promise!Return
  BY <1>4, <1>7, ReturnAbstract
<1>15. Promise!New(a)
  BY <1>5, <1>6, <1>7, <1>8, <1>11, <1>12, <1>13, <1>14 DEF Promise!New, AbsRef
<1> QED
  BY <1>5, <1>15 DEF Promise!Next

(* LTE_INVALID is what the variable that waits receives (gc.c:257-262).    *)
LEMMA FailImplements ==
  ASSUME IInv, Unscanned = {}, AllocFails
  PROVE  Promise!Next
<1>1. /\ pc = "second" /\ pc' = "run" /\ request' = NoRequest
      /\ val' = [val EXCEPT ![request.dst] = Null] /\ UNCHANGED <<blocks, hdr, slot>>
  BY DEF AllocFails, Return, memory
<1>2. Object' = Object /\ AbsRef' = AbsRef
  BY <1>1 DEF Object, AbsRef, Holds
<1>3. request.dst \in Var
  BY <1>1, KeptFacts DEF IInv, Requested, Collecting
<1>4. Promise!Return
  BY <1>1, ReturnAbstract
<1>5. Promise!Fail
  BY <1>1, <1>2, <1>3, <1>4 DEF Promise!Fail, AbsRef
<1> QED
  BY <1>5 DEF Promise!Next

(* Reclaiming: the kept objects are closed under references and hold the   *)
(* roots, so an object outside them is not reachable.                      *)
LEMMA SweepImplements ==
  ASSUME IInv, Unscanned = {}, SweepUnmarked
  PROVE  Promise!Next
<1>1. PICK a : a = current
  OBVIOUS
<1>2. pc = "sweep" /\ a \in Object /\ a \notin marked /\ a \in blocks /\ hdr[a] # Free
  BY <1>1 DEF SweepUnmarked, Object
<1>3. SoundObject(current) /\ a \in Addr /\ a \in Nat
  BY <1>1, <1>2, CursorFacts
<1>4. hdr' = [hdr EXCEPT ![a] = Free] /\ slot' = [slot EXCEPT ![a] = Emptied]
      /\ pc' = "coalesce" /\ UNCHANGED <<blocks, val, request>>
  BY <1>1, <1>3 DEF SweepUnmarked, program
<1>5. hdr \in [Addr -> Class \cup {Free}] /\ blocks \subseteq Addr
      /\ slot \in [Addr -> [Field -> Addr \cup {Null}]]
  BY DEF IInv, TypeOK
<1>6. Object' = Object \ {a}
  BY <1>4, <1>5 DEF Object
<1>7. \A b \in Object \ {a} : Holds(b)' = Holds(b)
  BY <1>4, <1>5 DEF Holds, Object
<1>8. AbsRef' = [AbsRef EXCEPT ![a] = {}]
  BY <1>3, <1>6, <1>7 DEF AbsRef
<1>9. a \notin Kept /\ Kept \subseteq Object /\ Held \subseteq Kept
      /\ \A o \in Kept : Holds(o) \subseteq Kept
  <2>1. Kept = {o \in Object : o < a \/ o \in marked}
    BY <1>1, <1>2 DEF Kept
  <2>2. a \notin Kept
    BY <1>2, <1>3, <2>1
  <2> QED BY <2>1, <2>2, KeptFacts DEF IInv, NoDangling
<1>10. Closed(Kept)
  <2>1. Object \subseteq Addr
    BY KeptFacts
  <2> QED BY <1>9, <2>1 DEF Closed, AbsRef
<1>11. a \notin Promise!Reachable
  BY <1>9, <1>10, ReachableDef
<1>12. (pc = "run") = FALSE /\ (pc' = "run") = FALSE
  BY <1>2, <1>4
<1>13. Promise!Reclaim(a)
  BY <1>2, <1>4, <1>6, <1>8, <1>11, <1>12 DEF Promise!Reclaim, AbsRef
<1> QED
  BY <1>3, <1>13 DEF Promise!Next

(* Every step of gc.c is New, Fail, Reclaim or CollectReturns, or changes  *)
(* nothing of ManagedHeap.                                                 *)
LEMMA ManagerImplements ==
  ASSUME IInv, Unscanned = {}, MemoryManager
  PROVE  Promise!Next \/ UNCHANGED Promise!absVars
<1>1. CASE AllocFits
  BY <1>1, AllocImplements
<1>2. CASE SweepUnmarked
  BY <1>2, SweepImplements
<1>3. CASE AllocFails
  BY <1>3, FailImplements
<1>4. CASE CoalesceNext
  <2>1. /\ hdr[next_block] = Free /\ UNCHANGED <<hdr, slot, val, request>>
        /\ blocks' = blocks \/ blocks' = blocks \ {next_block}
        /\ pc = "coalesce" /\ pc' \in {"coalesce", "corrupt"}
    BY <1>4 DEF CoalesceNext, NextIsFree, program
  <2> QED BY <2>1, SameAbstract DEF Object, Holds
<1>5. CASE AllocBadClass \/ AllocRetry \/ (\E o \in Addr : mark_object(o)) \/ StartSweep
           \/ SweepMarked \/ SweepFree \/ append_free_node
  <2>1. UNCHANGED <<blocks, hdr, slot, val, request>> /\ pc # "run" /\ pc' # "run"
    BY <1>5 DEF AllocBadClass, AllocRetry, StartCollect, mark_object, StartSweep, SweepMarked,
                SweepFree, append_free_node, memory, program, control
  <2> QED BY <2>1, SameAbstract DEF Object, Holds
<1>6. CASE EndCollect
  <2>1. UNCHANGED <<blocks, hdr, slot, val, request>> /\ pc = "sweep" /\ pc' = ret
    BY <1>6 DEF EndCollect, memory, program
  <2>2. CASE ret = "run"
    <3>1. request = NoRequest
      BY <2>1, <2>2 DEF IInv, Requested, Collecting
    <3>2. Promise!Return
      BY <2>1, <2>2, <3>1, ReturnAbstract
    <3>3. Object' = Object /\ AbsRef' = AbsRef
      BY <2>1 DEF Object, AbsRef, Holds
    <3>4. Promise!CollectReturns
      BY <2>1, <3>1, <3>2, <3>3 DEF Promise!CollectReturns, AbsRef, NoRequest
    <3> QED BY <3>4 DEF Promise!Next
  <2>3. CASE ret # "run"
    BY <2>1, <2>3, SameAbstract DEF Object, Holds
  <2> QED BY <2>2, <2>3
<1> QED
  BY <1>1, <1>2, <1>3, <1>4, <1>5, <1>6 DEF MemoryManager

(* Every behaviour of the allocator and the collector is one of            *)
(* ManagedHeap: no reachable object is reclaimed, what is allocated is     *)
(* new, and while the program waits in gc.c none of its variables changes  *)
(* but the one for the result, and no object comes to refer to anything    *)
(* else (gc.c:74-165, 182-192, 218-268).                                   *)
THEOREM Refinement ==
  ASSUME Unscanned = {}
  PROVE  Spec => PromiseKept
<1>1. Init => Promise!Init
  <2> SUFFICES ASSUME Init PROVE Promise!Init
    OBVIOUS
  <2>1. Object = {}
    BY HeapFacts DEF Init, Object
  <2>2. Addr \cap {request.cls} = {} /\ request.dst = Null
    BY ClassAssumption DEF Init, NoRequest
  <2>3. (pc = "run") = TRUE /\ val = [v \in Var |-> Null]
    BY DEF Init
  <2> QED BY <2>1, <2>2, <2>3 DEF Promise!Init
<1>2. IInv /\ [Next]_vars => [Promise!Next]_(Promise!absVars)
  <2> SUFFICES ASSUME IInv, [Next]_vars PROVE [Promise!Next]_(Promise!absVars)
    OBVIOUS
  <2>1. CASE Mutator
    BY <2>1, ProgramImplements
  <2>2. CASE MemoryManager
    BY <2>2, ManagerImplements
  <2>3. CASE UNCHANGED vars
    <3>1. UNCHANGED <<blocks, hdr, slot, val, request, pc>>
      BY <2>3 DEF vars, memory, program, control
    <3> QED BY <3>1, SameAbstract DEF Object, Holds
  <2> QED BY <2>1, <2>2, <2>3 DEF Next
<1> QED
  BY <1>1, <1>2, Invariance, PTL DEF Spec, PromiseKept, Promise!Spec

-------------------------------------------------------------------------------
(* Garbage.  What the collector keeps, from the first mark to the next     *)
(* allocation: whatever is marked or waits to be, then whatever the sweep  *)
(* leaves.  Every such object can be traced to a variable or a stale word  *)
(* that names one of them, so that nothing is kept for another reason.     *)
Named == {val[v] : v \in Usable} \cup StaleWords
Live == IF pc = "mark" THEN Object \cap (marked \cup gray) ELSE Kept
Traced(o) == \A T \in SUBSET Object : Live \cap Named \subseteq T /\ Closed(T) => o \in T
AllTraced == Collecting \/ pc = "second" => \A o \in Live : Traced(o)

(* Steps after which the same objects are kept.                            *)
LEMMA SameLive ==
  ASSUME IInv, Unscanned = {}, AllTraced, Collecting \/ pc = "second",
         Live' = Live, Named' = Named, Object' \subseteq Object,
         \A o \in Object' : Holds(o)' = Holds(o)
  PROVE  AllTraced'
<1> SUFFICES ASSUME NEW o \in Live, NEW T \in SUBSET Object', Live \cap Named \subseteq T,
                    Closed(T)'
             PROVE  o \in T
  BY DEF AllTraced, Traced
<1>1. \A x \in T : AbsRef'[x] = AbsRef[x]
  BY KeptFacts DEF AbsRef
<1>2. T \in SUBSET Object /\ Closed(T)
  BY <1>1 DEF Closed
<1> QED
  BY <1>2 DEF AllTraced, Traced

(* The roots and the stale words are what a collection starts from.        *)
LEMMA StartTraced ==
  ASSUME IInv, Unscanned = {}, pc \in {"run", "first"}, NEW k, StartCollect(k),
         UNCHANGED <<memory, program>>
  PROVE  AllTraced'
<1>1. /\ marked = {} /\ marked' = marked /\ pc' = "mark"
      /\ UNCHANGED <<val, root_list, blocks>>
  BY DEF IInv, Marking, Collecting, StartCollect, program, memory
<1>2. PICK stale \in SUBSET (StaleWords \cap blocks) : gray' = Roots \cup stale
  BY DEF StartCollect
<1>3. Roots \cup StaleWords \subseteq Named /\ Named' = Named
  BY <1>1 DEF Roots, Scanned, Usable, Named
<1>4. Live' \subseteq Named'
  BY <1>1, <1>2, <1>3 DEF Live
<1> QED
  BY <1>4 DEF AllTraced, Traced

LEMMA MarkTraced ==
  ASSUME IInv, Unscanned = {}, AllTraced, NEW o \in Addr, mark_object(o)
  PROVE  AllTraced'
<1>1. /\ pc = "mark" /\ pc' = "mark" /\ o \in gray
      /\ UNCHANGED <<blocks, hdr, slot, val, root_list>>
  BY DEF mark_object, memory, program, control
<1>2. Object' = Object /\ Named' = Named /\ AbsRef' = AbsRef
  BY <1>1 DEF Object, Named, Usable, AbsRef, Holds
<1>3. CASE hdr[o] = Free \/ o \in marked
  <2>1. gray' = gray \ {o} /\ marked' = marked
    BY <1>3 DEF mark_object
  <2>2. Live' = Live
    BY <1>1, <1>2, <1>3, <2>1 DEF Live, Object
  <2>3. \A x \in Object' : Holds(x)' = Holds(x)
    BY <1>1 DEF Holds
  <2> QED
    BY <1>1, <1>2, <2>2, <2>3, SameLive DEF Collecting
<1>4. CASE ~(hdr[o] = Free \/ o \in marked)
  <2>1. gray' = (gray \ {o}) \cup Refs(o) /\ marked' = marked \cup {o}
    BY <1>4 DEF mark_object
  <2>2. o \in Object /\ o \in Live
    BY <1>1, <1>4 DEF IInv, Marking, Object, Live
  <2>3. Live \subseteq Live' /\ Live' \subseteq Live \cup Refs(o)
    BY <1>1, <1>2, <2>1, <2>2 DEF Live
  <2>4. Refs(o) \subseteq AbsRef[o]
    <3>1. Refs(o) = Holds(o)
      BY <2>2, HeldTraced DEF IInv
    <3> QED
      BY <2>2, <3>1 DEF AbsRef
  <2>5. ASSUME NEW x \in Live', NEW T \in SUBSET Object, Live' \cap Named \subseteq T, Closed(T)
        PROVE  x \in T
    <3>1. Live \cap Named \subseteq T
      BY <2>3, <2>5
    <3>2. \A y \in Live : y \in T
      BY <1>1, <2>5, <3>1 DEF AllTraced, Traced, Collecting
    <3>3. Refs(o) \subseteq T
      BY <2>2, <2>4, <2>5, <3>2 DEF Closed
    <3> QED
      BY <2>3, <3>2, <3>3
  <2>6. \A T : Closed(T)' <=> Closed(T)
    BY <1>2 DEF Closed
  <2> QED
    BY <1>2, <2>5, <2>6 DEF AllTraced, Traced
<1> QED
  BY <1>3, <1>4

(* The sweep keeps the marked objects, however far it is.                  *)
LEMMA SweepTraced ==
  ASSUME IInv, Unscanned = {}, AllTraced,
         StartSweep \/ SweepMarked \/ SweepUnmarked \/ SweepFree
         \/ CoalesceNext \/ append_free_node \/ EndCollect
  PROVE  AllTraced'
<1>1. ASSUME UNCHANGED <<blocks, hdr, slot>>
      PROVE  Object' = Object /\ \A x \in Object' : Holds(x)' = Holds(x)
  BY <1>1 DEF Object, Holds
<1>2. ASSUME UNCHANGED program PROVE Named' = Named
  BY <1>2 DEF Named, Usable, program
<1>3. Object \subseteq Addr /\ Object \subseteq blocks
  BY KeptFacts DEF Object
<1>4. \A a \in blocks : a \in Nat /\ a < heap_size /\ Size(a) \in Nat
                        /\ \A b \in blocks : b <= a \/ b >= a + Size(a)
  BY CursorFacts, HeapFacts DEF IInv, Layout, BlocksTileHeap
<1>5. CASE StartSweep
  <2>1. /\ pc = "mark" /\ gray = {} /\ pc' = "sweep" /\ current' = 0 /\ marked' = marked
        /\ UNCHANGED <<blocks, hdr, slot, program>>
    BY <1>5 DEF StartSweep, memory
  <2>2. Live' = Live
    BY <1>1, <1>3, <1>4, <2>1 DEF Live, Kept
  <2> QED
    BY <1>1, <1>2, <2>1, <2>2, SameLive DEF Collecting
<1>6. CASE SweepMarked
  <2>1. pc = "sweep" /\ current \in Object /\ current \in marked /\ current \in blocks
    BY <1>3, <1>6 DEF SweepMarked
  <2>2. SoundObject(current) /\ Size(current) = class_instance_size(hdr[current])
    BY <2>1, CursorFacts DEF Size, Object
  <2>3. /\ marked' = marked \ {current} /\ current' = current + Size(current) /\ pc' = "sweep"
        /\ UNCHANGED <<blocks, hdr, slot, program>>
    BY <1>6, <2>1, <2>2 DEF SweepMarked, memory
  <2>4. \A b \in Object : b < current' \/ b \in marked' <=> b < current \/ b \in marked
    <3> TAKE b \in Object
    <3>1. b \in Nat /\ current \in Nat /\ Size(current) \in Nat /\ b \in blocks
      BY <1>3, <1>4, <2>1
    <3>2. b <= current \/ b >= current + Size(current)
      BY <1>4, <2>1, <3>1
    <3>3. Size(current) > 0
      BY <2>1 DEF IInv, Layout, BlocksTileHeap
    <3> QED
      BY <2>1, <2>3, <3>1, <3>2, <3>3
  <2>5. Live' = Live
    BY <1>1, <2>1, <2>3, <2>4 DEF Live, Kept
  <2> QED
    BY <1>1, <1>2, <2>1, <2>3, <2>5, SameLive DEF Collecting
<1>7. CASE SweepUnmarked
  <2>1. PICK a : a = current
    OBVIOUS
  <2>2. pc = "sweep" /\ a \in Object /\ a \notin marked /\ a \in Nat
    BY <1>3, <1>4, <1>7, <2>1 DEF SweepUnmarked
  <2>3. SoundObject(a)
    BY <1>3, <2>1, <2>2, CursorFacts DEF Object
  <2>4. /\ hdr' = [hdr EXCEPT ![a] = Free] /\ slot' = [slot EXCEPT ![a] = Emptied]
        /\ pc' = "coalesce" /\ UNCHANGED <<blocks, program, marked, current>>
    BY <1>7, <2>1, <2>3 DEF SweepUnmarked, collector
  <2>5. hdr \in [Addr -> Class \cup {Free}] /\ slot \in [Addr -> [Field -> Addr \cup {Null}]]
    BY DEF IInv, TypeOK
  <2>6. Object' = Object \ {a}
    BY <1>3, <2>2, <2>4, <2>5 DEF Object
  <2>7. \A x \in Object' : Holds(x)' = Holds(x)
    BY <1>3, <2>4, <2>5, <2>6 DEF Holds
  <2>8. Live' = Live
    BY <2>1, <2>2, <2>4, <2>6 DEF Live, Kept
  <2> QED
    BY <1>2, <2>2, <2>4, <2>6, <2>7, <2>8, SameLive DEF Collecting
<1>8. CASE SweepFree
  <2>1. pc = "sweep" /\ current \in blocks /\ hdr[current] = Free
    BY <1>8 DEF SweepFree, FreeRecord
  <2>2. /\ pc' \in {"coalesce", "corrupt"}
        /\ UNCHANGED <<blocks, hdr, slot, program, marked, current>>
    BY <1>8 DEF SweepFree, memory, collector
  <2>3. SoundRecord(current)
    BY <2>1, CursorFacts
  <2>4. pc' = "coalesce"
    BY <1>8, <2>3 DEF SweepFree
  <2>5. Live' = Live
    BY <1>1, <2>1, <2>2, <2>4 DEF Live, Kept
  <2> QED
    BY <1>1, <1>2, <2>1, <2>2, <2>5, SameLive DEF Collecting
<1>9. CASE CoalesceNext
  <2>1. /\ pc = "coalesce" /\ hdr[next_block] = Free
        /\ UNCHANGED <<hdr, slot, program, marked, current>>
        /\ (blocks' = blocks \/ blocks' = blocks \ {next_block})
    BY <1>9 DEF CoalesceNext, NextIsFree, collector
  <2>2. Object' = Object /\ \A x \in Object' : Holds(x)' = Holds(x)
    BY <2>1 DEF Object, Holds
  <2>3. pc' = "coalesce"
    BY <1>9, CoalesceNextStep, <2>1 DEF CoalesceNext, IInv, NeverCorrupt
  <2>4. Live' = Live
    BY <2>1, <2>2, <2>3 DEF Live, Kept
  <2> QED
    BY <1>2, <2>1, <2>2, <2>4, SameLive DEF Collecting
<1>10. CASE append_free_node
  <2>1. /\ pc = "coalesce" /\ current' = current + fsize[current] /\ pc' = "sweep"
        /\ marked' = marked /\ UNCHANGED <<blocks, hdr, slot, program>>
    BY <1>10 DEF append_free_node, next_block, memory
  <2>2. current \in blocks /\ hdr[current] = Free /\ Size(current) = fsize[current]
    BY <2>1 DEF IInv, Cursor, FreeRecord, Size
  <2>3. \A b \in Object : b < current' <=> b < current
    <3> TAKE b \in Object
    <3>1. /\ b \in Nat /\ current \in Nat /\ Size(current) \in Nat /\ b \in blocks
          /\ b # current
      BY <1>3, <1>4, <2>2 DEF Object
    <3>2. b <= current \/ b >= current + Size(current)
      BY <1>4, <2>2, <3>1
    <3> QED
      BY <2>1, <2>2, <3>1, <3>2
  <2>4. Live' = Live
    BY <1>1, <2>1, <2>3 DEF Live, Kept
  <2> QED
    BY <1>1, <1>2, <2>1, <2>4, SameLive DEF Collecting
<1>11. CASE EndCollect
  <2>1. /\ pc = "sweep" /\ current = heap_size /\ pc' = ret
        /\ UNCHANGED <<blocks, hdr, slot, program>>
    BY <1>11 DEF EndCollect, memory
  <2>2. ret \in {"run", "first", "second"}
    BY DEF IInv, TypeOK
  <2>3. Live = Object /\ Live' = Object'
    BY <1>3, <1>4, <2>1, <2>2 DEF Live, Kept
  <2>4. CASE pc' = "second"
    BY <1>1, <1>2, <2>1, <2>3, SameLive DEF Collecting
  <2>5. CASE pc' # "second"
    BY <2>1, <2>2, <2>5 DEF AllTraced, Collecting
  <2> QED
    BY <2>4, <2>5
<1> QED
  BY <1>5, <1>6, <1>7, <1>8, <1>9, <1>10, <1>11

LEMMA NextTraced ==
  ASSUME IInv, Unscanned = {}, AllTraced, [Next]_vars
  PROVE  AllTraced'
<1>1. ASSUME Mutator PROVE AllTraced'
  <2>1. CASE (\E v \in Var : Assign(v) \/ LTE_gc_register_root(v) \/ LTE_gc_unregister_root(v))
             \/ (\E o \in Addr, f \in Field : Store(o, f))
             \/ (\E c \in Addr, w \in ClassWords : DefineClass(c, w))
    <3>1. pc' = "run"
      BY <2>1 DEF Assign, LTE_gc_register_root, LTE_gc_unregister_root, UnregisterRoot, Store,
                  DefineClass, control
    <3> QED
      BY <3>1 DEF AllTraced, Collecting
  <2>2. CASE LTE_gc_collect
    BY <2>2, StartTraced DEF LTE_gc_collect
  <2>3. CASE \E c \in Class, v \in Var : LTE_gc_alloc(c, v)
    <3>1. CASE CollectionDue
      BY <2>3, <3>1, StartTraced DEF LTE_gc_alloc
    <3>2. CASE ~CollectionDue
      <4>1. pc' = "first"
        BY <2>3, <3>2 DEF LTE_gc_alloc
      <4> QED
        BY <4>1 DEF AllTraced, Collecting
    <3> QED
      BY <3>1, <3>2
  <2> QED
    BY <1>1, <2>1, <2>2, <2>3 DEF Mutator
<1>2. ASSUME MemoryManager PROVE AllTraced'
  <2>1. CASE AllocBadClass \/ AllocFits \/ AllocFails
    <3>1. pc' \in {"run", "error"}
      BY <2>1 DEF AllocBadClass, AllocFits, AllocFails, AllocateObject, Return
    <3> QED
      BY <3>1 DEF AllTraced, Collecting
  <2>2. CASE AllocRetry
    BY <2>2, StartTraced DEF AllocRetry
  <2>3. CASE \E o \in Addr : mark_object(o)
    BY <2>3, MarkTraced
  <2> QED
    BY <1>2, <2>1, <2>2, <2>3, SweepTraced DEF MemoryManager
<1>3. ASSUME UNCHANGED vars PROVE AllTraced'
  <2>1. UNCHANGED <<blocks, hdr, slot, val, root_list, pc, marked, gray, current>>
    BY <1>3 DEF vars, memory, program, control, collector
  <2>2. Object' = Object /\ Live' = Live /\ Named' = Named
    BY <2>1 DEF Object, Live, Kept, Named, Usable
  <2>3. \A x \in Object' : Holds(x)' = Holds(x)
    BY <2>1 DEF Holds
  <2>4. CASE Collecting \/ pc = "second"
    BY <2>2, <2>3, <2>4, SameLive
  <2>5. CASE ~(Collecting \/ pc = "second")
    BY <2>1, <2>5 DEF AllTraced, Collecting
  <2> QED
    BY <2>4, <2>5
<1> QED
  BY <1>1, <1>2, <1>3 DEF Next

(* A collection leaves no object that neither a variable nor a stale word  *)
(* of the stack leads to (gc.c:74-165), so that an allocation which fails  *)
(* after it could not have had the memory of any other (gc.c:257-262).     *)
THEOREM NoGarbageLeft ==
  ASSUME Unscanned = {}
  PROVE  Spec => []GarbageReclaimed
<1>1. Init => AllTraced
  BY DEF Init, AllTraced, Collecting
<1>2. IInv /\ AllTraced /\ [Next]_vars => AllTraced'
  BY NextTraced
<1>3. IInv /\ AllTraced => GarbageReclaimed
  <2> SUFFICES ASSUME IInv, AllTraced, (pc = "sweep" /\ current = heap_size) \/ pc = "second",
                      NEW o \in Object
               PROVE  LeadTo(Named, o)
    BY DEF GarbageReclaimed, Named
  <2>1. Live = Object
    <3>1. \A a \in Object : a < heap_size
      BY KeptFacts, HeapFacts
    <3> QED
      BY <3>1 DEF Live, Kept
  <2>2. Traced(o)
    BY <2>1 DEF AllTraced, Collecting
  <2>3. \A T : Promise!ClosedUnderRef(T) => Closed(T)
    BY DEF Promise!ClosedUnderRef, Closed, AbsRef
  <2> QED
    BY <2>1, <2>2, <2>3 DEF LeadTo, Traced
<1> QED
  BY <1>1, <1>2, <1>3, Invariance, PTL DEF Spec
===============================================================================
