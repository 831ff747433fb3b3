--------------------------- MODULE NativeClassProof ---------------------------
(***************************************************************************)
(* A class whose ancestors come before it inherits all that its descriptor *)
(* says, for every family of descriptors and in every order of the calls.  *)
(*                                                                         *)
(* A class on the stack is an ancestor of each one below it.  So a class   *)
(* that is met again while it is in progress is part of a cycle, and when  *)
(* an ordered class is filled in, all its ancestors have been.             *)
(***************************************************************************)
EXTENDS NativeClass, SequenceTheorems, TLAPS

Stage == {"super", "meta", "fill"}
Frame == [cls : Native, stage : Stage]

(* What is in progress is not pending, and who waits for a recursive call  *)
(* is waiting for an ancestor (Class.c:282-290).                           *)
Disjoint == InProgress \cap pending = {}
Chain ==
  \A i, j \in DOMAIN stack : i < j => stack[j].cls \in Ancestors(stack[i].cls)
Stages ==
  \A i \in DOMAIN stack :
    LET d == descriptor[stack[i].cls]
    IN  /\ stack[i].stage # "super" => d.superclass \notin pending
        /\ stack[i].stage = "fill" => d.metaclass_superclass \notin pending
AncestorsFirst == \A x \in Initialized : Ordered(x) => Ancestors(x) \subseteq Initialized
CoreReady ==
  /\ ~core_class_cycle_finalized => pending = Native /\ stack = <<>>
  /\ core_class_cycle_finalized => \A c \in CoreClasses : hash[c] # NULL

IInv == TypeOK /\ Disjoint /\ Chain /\ Stages /\ AncestorsFirst /\ CoreReady /\ Inherits

-------------------------------------------------------------------------------
(* Metaclasses are neither classes nor each other's.                       *)
LEMMA MetaFacts ==
  /\ \A c, d \in Base : meta(c) = meta(d) => c = d
  /\ \A c \in Base : meta(c) \in AnyClass /\ meta(c) \notin Base
  /\ Native \subseteq Base /\ Core \subseteq Base /\ Base \subseteq AnyClass
  /\ CoreClasses \subseteq AnyClass
  /\ \A k \in Native : k \notin CoreClasses /\ meta(k) \notin CoreClasses
  BY CoreAssumption DEF meta, Base, AnyClass, CoreClasses

(* Direct superclasses are ancestors, and ancestors of ancestors are.      *)
LEMMA DirectAncestor ==
  ASSUME NEW c, NEW x \in Direct(c) PROVE x \in Ancestors(c)
  BY DEF Ancestors, Direct

LEMMA AncestorsClosed ==
  ASSUME NEW c, NEW x \in Ancestors(c) PROVE Direct(x) \subseteq Ancestors(c)
  BY DEF Ancestors, Direct

LEMMA AncestorsTransitive ==
  ASSUME NEW c, NEW x \in Ancestors(c) PROVE Ancestors(x) \subseteq Ancestors(c)
<1>1. Ancestors(c) \in SUBSET Native
  BY DEF Ancestors
<1>2. Direct(x) \subseteq Ancestors(c)
  BY AncestorsClosed
<1>3. \A y \in Ancestors(c) : Direct(y) \subseteq Ancestors(c)
  BY AncestorsClosed
<1>4. SUFFICES ASSUME NEW z \in Ancestors(x) PROVE z \in Ancestors(c)
  OBVIOUS
<1>5. \A S \in SUBSET Native :
        Direct(x) \subseteq S /\ (\A y \in S : Direct(y) \subseteq S) => z \in S
  BY <1>4 DEF Ancestors
<1> QED
  BY <1>1, <1>2, <1>3, <1>5

(* An ancestor is a direct superclass or an ancestor of one.               *)
LEMMA AncestorsSplit ==
  ASSUME NEW c, NEW z \in Ancestors(c)
  PROVE  z \in Direct(c) \/ \E y \in Direct(c) : z \in Ancestors(y)
<1> DEFINE S == Direct(c) \cup {z1 \in Native : \E y \in Direct(c) : z1 \in Ancestors(y)}
<1>1. S \in SUBSET Native /\ Direct(c) \subseteq S
  BY DEF Direct
<1>2. ASSUME NEW u \in S PROVE Direct(u) \subseteq S
  <2>1. CASE u \in Direct(c)
    BY <2>1, DirectAncestor DEF Direct
  <2>2. CASE \E y \in Direct(c) : u \in Ancestors(y)
    <3>1. PICK y \in Direct(c) : u \in Ancestors(y)
      BY <2>2
    <3>2. Direct(u) \subseteq Ancestors(y)
      BY <3>1, AncestorsClosed
    <3> QED
      BY <3>1, <3>2 DEF Direct
  <2> QED
    BY <2>1, <2>2
<1>3. \A S1 \in SUBSET Native :
        Direct(c) \subseteq S1 /\ (\A y \in S1 : Direct(y) \subseteq S1) => z \in S1
  BY DEF Ancestors
<1>4. z \in S
  <2> HIDE DEF S
  <2> QED
    BY <1>1, <1>2, <1>3
<1> QED
  BY <1>4

(* What an ordered class needs is ordered.                                 *)
LEMMA OrderedDown ==
  ASSUME NEW c, Ordered(c), NEW y \in Ancestors(c) PROVE Ordered(y)
  BY AncestorsTransitive DEF Ordered

(* These depend on the descriptors only, which never change.               *)
LEMMA SameAncestors ==
  ASSUME descriptor' = descriptor, NEW CONSTANT c
  PROVE  Direct(c)' = Direct(c) /\ Ancestors(c)' = Ancestors(c) /\ Ordered(c)' = Ordered(c)
  BY DEF Ordered, Ancestors, Direct

(* What is left of a stack when its top is taken off.                      *)
LEMMA FrontFacts ==
  ASSUME NEW S, NEW q \in Seq(S), q # <<>>
  PROVE  /\ Front(q) \in Seq(S) /\ Len(Front(q)) = Len(q) - 1 /\ Len(q) \in Nat \ {0}
         /\ \A i \in 1 .. Len(q) - 1 : Front(q)[i] = q[i]
         /\ Last(q) = q[Len(q)] /\ Last(q) \in S
<1>1. Len(q) \in Nat \ {0} /\ \A i \in 1 .. Len(q) : q[i] \in S
  BY EmptySeq, LenProperties, ElementOfSeq
<1>2. Front(q) = SubSeq(q, 1, Len(q) - 1) /\ Last(q) = q[Len(q)]
  BY DEF Front, Last
<1>3. \A i \in 1 .. Len(q) - 1 : q[i] \in S
  BY <1>1
<1> DEFINE n == Len(q) - 1
<1>4. /\ SubSeq(q, 1, n) \in Seq(S) /\ Len(SubSeq(q, 1, n)) = n
      /\ \A i \in 1 .. n : SubSeq(q, 1, n)[i] = q[i]
  <2>1. n \in Int /\ 1 \in Int /\ \A i \in 1 .. n : q[i] \in S
    BY <1>1, <1>3
  <2>2. n \in Nat /\ n - 1 + 1 = n /\ (n >= 1 \/ n = 0)
    <3>1. PICK l \in Nat \ {0} : Len(q) = l
      BY <1>1
    <3> QED
      BY <3>1
  <2> HIDE DEF n
  <2>3. /\ SubSeq(q, 1, n) \in Seq(S)
        /\ Len(SubSeq(q, 1, n)) = IF 1 <= n THEN n - 1 + 1 ELSE 0
        /\ \A i \in 1 .. n - 1 + 1 : SubSeq(q, 1, n)[i] = q[1 + i - 1]
    BY <2>1, SubSeqProperties
  <2> QED
    BY <2>2, <2>3
<1> QED
  BY <1>1, <1>2, <1>4

(* The caller moves on to its next stage.                                  *)
LEMMA StageStack ==
  ASSUME stack \in Seq(Frame), stack # <<>>, NEW s \in Stage
  PROVE  /\ Next_stage(s) \in Seq(Frame) /\ Len(Next_stage(s)) = Len(stack)
         /\ \A i \in 1 .. Len(stack) : Next_stage(s)[i].cls = stack[i].cls
         /\ \A i \in 1 .. Len(stack) - 1 : Next_stage(s)[i] = stack[i]
         /\ Next_stage(s)[Len(stack)] = [cls |-> current, stage |-> s]
         /\ Len(stack) \in Nat \ {0} /\ current = stack[Len(stack)].cls /\ current \in Native
<1>1. /\ Front(stack) \in Seq(Frame) /\ Len(Front(stack)) = Len(stack) - 1
      /\ Len(stack) \in Nat \ {0}
      /\ \A i \in 1 .. Len(stack) - 1 : Front(stack)[i] = stack[i]
      /\ Last(stack) = stack[Len(stack)] /\ Last(stack) \in Frame
  BY FrontFacts
<1>2. current = stack[Len(stack)].cls /\ current \in Native
  BY <1>1 DEF current, Frame
<1> DEFINE top == [cls |-> current, stage |-> s]
<1>3. top \in Frame
  BY <1>2 DEF Frame
<1>5. Next_stage(s) = Append(Front(stack), top)
  BY DEF Next_stage
<1>6. /\ Append(Front(stack), top) \in Seq(Frame)
      /\ Len(Append(Front(stack), top)) = Len(stack)
      /\ \A i \in 1 .. Len(stack) - 1 : Append(Front(stack), top)[i] = stack[i]
      /\ Append(Front(stack), top)[Len(stack)] = top
  <2> HIDE DEF top
  <2> QED
    BY <1>1, <1>3, AppendProperties
<1>7. \A i \in 1 .. Len(stack) : Next_stage(s)[i].cls = stack[i].cls
  BY <1>1, <1>2, <1>5, <1>6
<1> QED
  BY <1>1, <1>2, <1>5, <1>6, <1>7

-------------------------------------------------------------------------------
LEMMA InitIInv == Init => IInv
<1> SUFFICES ASSUME Init PROVE IInv
  OBVIOUS
<1>1. pending = Native /\ stack = <<>> /\ core_class_cycle_finalized = FALSE /\ DOMAIN stack = {}
      /\ hash = [c \in AnyClass |-> NULL] /\ slots = [c \in AnyClass |-> NoSlots]
      /\ descriptor \in [Native -> Descriptor]
  BY HierarchiesAssumption DEF Init
<1>2. NoSlots \in [DOMAIN NoSlots -> AnyClass] /\ DOMAIN NoSlots = {}
  BY DEF NoSlots
<1>3. TypeOK
  <2>1. stack \in Seq([cls : Native, stage : {"super", "meta", "fill"}])
    BY <1>1, EmptySeq
  <2>2. \A c \in AnyClass : slots[c] = NoSlots
    BY <1>1
  <2>3. hash \in [AnyClass -> AnyClass \cup {Default, NULL}] /\ DOMAIN slots = AnyClass
    BY <1>1
  <2> QED
    BY <1>1, <1>2, <2>1, <2>2, <2>3 DEF TypeOK
<1>4. InProgress = {} /\ Initialized = {}
  BY <1>1 DEF InProgress, Initialized
<1> QED
  BY <1>1, <1>3, <1>4 DEF IInv, Disjoint, Chain, Stages, AncestorsFirst, CoreReady, Inherits

(* The first call fills in the core classes; no class is initialized yet.  *)
LEMMA StartIInv ==
  ASSUME IInv, NEW k \in AnyClass, LTE_init_native_class(k)
  PROVE  /\ IInv' /\ Initialized' = Initialized
         /\ Initialized # {} => UNCHANGED <<hash, slots>>
<1> USE DEF IInv
<1>1. stack = <<>> /\ descriptor' = descriptor /\ core_class_cycle_finalized' = TRUE
      /\ Called(k, <<>>) /\ stack \in Seq(Frame)
  BY DEF LTE_init_native_class, finalize_core_class_cycle_if_ready, TypeOK, Frame, Stage
<1> DEFINE frame == [cls |-> k, stage |-> "super"]
<1>2. \/ k \in pending /\ stack' = Append(<<>>, frame) /\ pending' = pending \ {k}
      \/ k \notin pending /\ stack' = <<>> /\ pending' = pending
  BY <1>1 DEF Called
<1>3. pending \subseteq Native
  BY DEF TypeOK
<1>4. /\ stack' \in Seq(Frame)
      /\ IF k \in pending THEN DOMAIN stack' = {1} ELSE DOMAIN stack' = {}
      /\ k \in pending => stack'[1] = frame
  <2>1. CASE k \in pending
    <3>1. frame \in Frame /\ <<>> \in Seq(Frame) /\ Len(<<>>) = 0
      BY <1>3, <2>1, EmptySeq DEF Frame, Stage
    <3> HIDE DEF frame
    <3>2. stack' \in Seq(Frame) /\ Len(stack') = 1 /\ stack'[1] = frame
      <4>1. PICK q \in Seq(Frame) : q = <<>> /\ Len(q) = 0
        BY <3>1
      <4>2. stack' = Append(q, frame)
        BY <1>2, <2>1, <4>1
      <4>3. /\ Append(q, frame) \in Seq(Frame) /\ Len(Append(q, frame)) = Len(q) + 1
            /\ Append(q, frame)[Len(q) + 1] = frame
        BY <3>1, AppendProperties
      <4> QED
        BY <4>1, <4>2, <4>3
    <3>3. DOMAIN stack' = 1 .. 1
      BY <3>2, LenProperties
    <3> QED
      BY <2>1, <3>2, <3>3
  <2>2. CASE k \notin pending
    <3>1. stack' = <<>> /\ DOMAIN stack' = {} /\ <<>> \in Seq(Frame)
      BY <1>2, <2>2, EmptySeq
    <3> HIDE DEF frame
    <3> QED
      BY <2>2, <3>1
  <2> QED
    BY <2>1, <2>2
<1>5. pending' \cup InProgress' = pending \cup InProgress /\ Disjoint' /\ Initialized' = Initialized
  <2>1. InProgress = {}
    BY <1>1 DEF InProgress
  <2>2. InProgress' = IF k \in pending THEN {k} ELSE {}
    BY <1>4 DEF InProgress
  <2> QED
    BY <1>2, <2>1, <2>2 DEF Disjoint, Initialized
<1>6. Chain' /\ Stages'
  BY <1>4 DEF Chain, Stages
<1>7. AncestorsFirst'
  BY <1>1, <1>5, SameAncestors DEF AncestorsFirst
<1>8. CASE core_class_cycle_finalized
  <2>1. hash' = hash /\ slots' = slots
    BY <1>8 DEF LTE_init_native_class, finalize_core_class_cycle_if_ready
  <2>2. TypeOK'
    BY <1>1, <1>2, <1>4, <2>1 DEF TypeOK, Frame, Stage
  <2>3. CoreReady'
    BY <1>1, <1>8, <2>1 DEF CoreReady
  <2>4. Inherits'
    BY <1>1, <1>5, <2>1, SameAncestors DEF Inherits, InheritsAll
  <2> QED
    BY <1>5, <1>6, <1>7, <2>1, <2>2, <2>3, <2>4
<1>9. CASE ~core_class_cycle_finalized
  <2>1. hash' = [c \in AnyClass |-> IF c \in CoreClasses THEN Default ELSE hash[c]]
        /\ slots' = [c \in AnyClass |-> IF c \in CoreClasses \ {Object}
                                        THEN ClassSlotTable ELSE slots[c]]
    BY <1>9 DEF LTE_init_native_class, finalize_core_class_cycle_if_ready
  <2>2. ClassSlotTable \in [DOMAIN ClassSlotTable -> AnyClass] /\ DOMAIN ClassSlotTable \subseteq SlotName
    BY CoreAssumption DEF ClassSlotTable, AnyClass, Base, Core
  <2>3. TypeOK'
    <3>1. hash' \in [AnyClass -> AnyClass \cup {Default, NULL}]
      BY <2>1 DEF TypeOK
    <3>2. DOMAIN slots' = AnyClass
      BY <2>1
    <3>3. \A c \in AnyClass : slots'[c] \in [DOMAIN slots'[c] -> AnyClass]
                               /\ DOMAIN slots'[c] \subseteq SlotName
      BY <2>1, <2>2 DEF TypeOK
    <3> QED
      BY <1>1, <1>2, <1>4, <3>1, <3>2, <3>3 DEF TypeOK, Frame, Stage
  <2>4. CoreReady'
    BY <1>1, <2>1, MetaFacts, CoreAssumption DEF CoreReady
  <2>5. Initialized' = {}
    BY <1>5, <1>9 DEF CoreReady, Initialized
  <2>6. Inherits'
    BY <2>5 DEF Inherits
  <2> QED
    BY <1>5, <1>6, <1>7, <2>3, <2>4, <2>5, <2>6
<1> QED
  BY <1>8, <1>9

(* A recursive call: a class that is pending joins those in progress, as   *)
(* an ancestor of all of them.                                             *)
LEMMA CallIInv ==
  ASSUME IInv, stack # <<>>, NEW k, NEW s \in {"meta", "fill"},
         k = IF s = "meta" THEN descriptor[current].superclass
             ELSE descriptor[current].metaclass_superclass,
         s = "fill" => descriptor[current].superclass \notin pending,
         Called(k, Next_stage(s)),
         UNCHANGED <<descriptor, hash, slots, core_class_cycle_finalized>>
  PROVE  IInv' /\ Initialized' = Initialized
<1> DEFINE n == Len(stack)
           t == Next_stage(s)
           frame == [cls |-> k, stage |-> "super"]
<1>1. stack \in Seq(Frame) /\ pending \subseteq Native /\ s \in Stage
  BY DEF IInv, TypeOK, Frame, Stage
<1>2. /\ t \in Seq(Frame) /\ Len(t) = n /\ n \in Nat \ {0}
      /\ \A i \in 1 .. n : t[i].cls = stack[i].cls
      /\ \A i \in 1 .. n - 1 : t[i] = stack[i]
      /\ t[n] = [cls |-> current, stage |-> s]
      /\ current = stack[n].cls /\ current \in Native
  BY <1>1, StageStack
<1> HIDE DEF t
<1>3. \/ k \in pending /\ stack' = Append(t, frame) /\ pending' = pending \ {k}
      \/ k \notin pending /\ stack' = t /\ pending' = pending
  BY DEF Called, t
<1>4. k \in pending => k \in Direct(current) /\ k \in Ancestors(current) /\ frame \in Frame
  <2> SUFFICES ASSUME k \in pending PROVE k \in Direct(current) /\ frame \in Frame
    BY DirectAncestor
  <2> QED
    BY <1>1 DEF Direct, Frame, Stage
<1>5. /\ stack' \in Seq(Frame)
      /\ DOMAIN stack' = IF k \in pending THEN 1 .. n + 1 ELSE 1 .. n
      /\ \A i \in 1 .. n : stack'[i] = t[i]
      /\ k \in pending => stack'[n + 1] = frame
  <2>1. CASE k \in pending
    <3> HIDE DEF frame
    <3>1. /\ Append(t, frame) \in Seq(Frame) /\ Len(Append(t, frame)) = n + 1
          /\ \A i \in 1 .. n : Append(t, frame)[i] = t[i]
          /\ Append(t, frame)[n + 1] = frame
      BY <1>2, <1>4, <2>1, AppendProperties
    <3>2. stack' = Append(t, frame)
      BY <1>3, <2>1
    <3>3. DOMAIN stack' = 1 .. n + 1
      BY <3>1, <3>2, LenProperties
    <3> QED
      BY <2>1, <3>1, <3>2, <3>3
  <2>2. CASE k \notin pending
    <3>1. stack' = t /\ DOMAIN t = 1 .. n
      BY <1>2, <1>3, <2>2, LenProperties
    <3> QED
      BY <1>2, <2>2, <3>1
  <2> QED
    BY <2>1, <2>2
<1>6. DOMAIN stack = 1 .. n
  BY <1>1, LenProperties
<1> HIDE DEF n
<1>7. /\ InProgress = {stack[i].cls : i \in 1 .. n}
      /\ InProgress' = IF k \in pending THEN InProgress \cup {k} ELSE InProgress
  <2>1. InProgress = {stack[i].cls : i \in 1 .. n}
    BY <1>6 DEF InProgress
  <2>2. \A i \in 1 .. n : stack'[i].cls = stack[i].cls
    BY <1>2, <1>5
  <2>3. CASE k \in pending
    <3>1. InProgress' = {stack'[i].cls : i \in 1 .. n + 1}
      BY <1>5, <2>3 DEF InProgress
    <3>2. 1 .. n + 1 = (1 .. n) \cup {n + 1}
      BY <1>2
    <3>3. stack'[n + 1].cls = k
      BY <1>5, <2>3
    <3> QED
      BY <2>1, <2>2, <2>3, <3>1, <3>2, <3>3
  <2>4. CASE k \notin pending
    <3>1. InProgress' = {stack'[i].cls : i \in 1 .. n}
      BY <1>5, <2>4 DEF InProgress
    <3> QED
      BY <2>1, <2>2, <2>4, <3>1
  <2> QED
    BY <2>1, <2>3, <2>4
<1>8. Disjoint' /\ Initialized' = Initialized /\ k \notin pending' /\ pending' \subseteq pending
  BY <1>3, <1>7 DEF IInv, Disjoint, Initialized
<1>9. TypeOK'
  BY <1>1, <1>3, <1>5 DEF IInv, TypeOK, Frame, Stage
<1>10. Chain'
  <2> SUFFICES ASSUME NEW i \in DOMAIN stack', NEW j \in DOMAIN stack', i < j
               PROVE  stack'[j].cls \in Ancestors(stack'[i].cls)
    BY SameAncestors DEF Chain
  <2>1. i \in 1 .. n /\ stack'[i].cls = stack[i].cls
    BY <1>2, <1>5, SMTT(30)
  <2>2. CASE j \in 1 .. n
    <3>1. stack'[j].cls = stack[j].cls
      BY <1>2, <1>5, <2>2
    <3> QED
      BY <1>6, <2>1, <2>2, <3>1 DEF IInv, Chain
  <2>3. CASE j \notin 1 .. n
    <3>1. k \in pending /\ stack'[j].cls = k
      BY <1>2, <1>5, <2>3, SMTT(30)
    <3>2. CASE i = n
      BY <1>2, <1>4, <2>1, <3>1, <3>2
    <3>3. CASE i # n
      <4>1. current \in Ancestors(stack[i].cls)
        BY <1>2, <1>6, <2>1, <3>3 DEF IInv, Chain
      <4> QED
        BY <1>4, <2>1, <3>1, <4>1, AncestorsTransitive
    <3> QED
      BY <3>2, <3>3
  <2> QED
    BY <2>2, <2>3
<1>11. Stages'
  <2> SUFFICES ASSUME NEW i \in DOMAIN stack'
               PROVE  LET d == descriptor[stack'[i].cls]
                      IN  /\ stack'[i].stage # "super" => d.superclass \notin pending'
                          /\ stack'[i].stage = "fill" => d.metaclass_superclass \notin pending'
    BY DEF Stages
  <2>1. CASE i \in 1 .. n - 1
    <3>1. stack'[i] = stack[i] /\ i \in DOMAIN stack
      BY <1>2, <1>5, <1>6, <2>1
    <3> QED
      BY <1>8, <3>1 DEF IInv, Stages
  <2>2. CASE i = n
    <3>1. stack'[i] = [cls |-> current, stage |-> s]
      BY <1>2, <1>5, <2>2
    <3> QED
      BY <1>8, <3>1
  <2>3. CASE i = n + 1
    <3>1. stack'[i].stage = "super"
      BY <1>2, <1>5, <2>3
    <3> QED
      BY <3>1
  <2>4. i \in 1 .. n - 1 \/ i = n \/ i = n + 1
    BY <1>2, <1>5
  <2> QED
    BY <2>1, <2>2, <2>3, <2>4
<1>12. AncestorsFirst'
  BY <1>8, SameAncestors DEF IInv, AncestorsFirst
<1>13. CoreReady'
  BY DEF IInv, CoreReady
<1>14. Inherits'
  BY <1>8, SameAncestors DEF IInv, Inherits, InheritsAll
<1> QED
  BY <1>8, <1>9, <1>10, <1>11, <1>12, <1>13, <1>14 DEF IInv

LEMMA SuperclassIInv == IInv /\ InitSuperclass => IInv' /\ Initialized' = Initialized
<1> SUFFICES ASSUME IInv, InitSuperclass PROVE IInv' /\ Initialized' = Initialized
  OBVIOUS
<1>1. /\ stack # <<>> /\ Called(descriptor[current].superclass, Next_stage("meta"))
      /\ UNCHANGED <<descriptor, hash, slots, core_class_cycle_finalized>>
  BY DEF InitSuperclass, Caller
<1> QED
  BY <1>1, CallIInv

LEMMA MetaclassIInv == IInv /\ InitMetaclassSuperclass => IInv' /\ Initialized' = Initialized
<1> SUFFICES ASSUME IInv, InitMetaclassSuperclass PROVE IInv' /\ Initialized' = Initialized
  OBVIOUS
<1>1. /\ stack # <<>> /\ Called(descriptor[current].metaclass_superclass, Next_stage("fill"))
      /\ Last(stack).stage = "meta"
      /\ UNCHANGED <<descriptor, hash, slots, core_class_cycle_finalized>>
  BY DEF InitMetaclassSuperclass, Caller
<1>2. descriptor[current].superclass \notin pending
  <2>1. stack \in Seq(Frame)
    BY DEF IInv, TypeOK, Frame, Stage
  <2>2. Len(stack) \in Nat \ {0} /\ Last(stack) = stack[Len(stack)] /\ DOMAIN stack = 1 .. Len(stack)
    BY <1>1, <2>1, FrontFacts, LenProperties
  <2>3. Len(stack) \in DOMAIN stack
    BY <2>2
  <2> QED
    BY <1>1, <2>2, <2>3 DEF IInv, Stages, current
<1> QED
  BY <1>1, <1>2, CallIInv

(* When an ordered class is filled in, its ancestors have been: one that   *)
(* is in progress has the class as its own ancestor.                       *)
LEMMA AncestorsReady ==
  ASSUME IInv, Caller("fill"), Ordered(current)
  PROVE  Ancestors(current) \subseteq Initialized
<1> DEFINE n == Len(stack)
<1>1. /\ stack \in Seq(Frame) /\ n \in Nat \ {0} /\ DOMAIN stack = 1 .. n
      /\ Last(stack) = stack[n] /\ Last(stack) \in Frame
  <2>1. stack \in Seq(Frame) /\ stack # <<>>
    BY DEF IInv, TypeOK, Frame, Stage, Caller
  <2> QED
    BY <2>1, FrontFacts, LenProperties
<1>2. n \in DOMAIN stack /\ current = stack[n].cls /\ stack[n].stage = "fill"
  <2>1. n \in DOMAIN stack
    BY <1>1
  <2> QED
    BY <1>1, <2>1 DEF current, Caller
<1>3. Direct(current) \cap pending = {}
  BY <1>2 DEF IInv, Stages, Direct
<1>4. ASSUME NEW y \in Direct(current) PROVE y \in Initialized
  <2> SUFFICES ASSUME y \in InProgress PROVE FALSE
    BY <1>3, <1>4 DEF Initialized, Direct
  <2>1. PICK i \in DOMAIN stack : y = stack[i].cls
    BY DEF InProgress
  <2>2. y \in Ancestors(current)
    BY <1>4, DirectAncestor
  <2>3. current \notin Ancestors(current) /\ y \notin Ancestors(y)
    BY <2>2 DEF Ordered
  <2>4. i < n
    <3>1. i # n
      BY <1>2, <2>1, <2>2, <2>3
    <3> QED
      BY <1>1, <3>1
  <2>5. current \in Ancestors(y)
    BY <1>2, <2>1, <2>4 DEF IInv, Chain
  <2> QED
    BY <2>2, <2>3, <2>5, AncestorsTransitive
<1>5. ASSUME NEW z \in Ancestors(current) PROVE z \in Initialized
  <2>1. CASE z \in Direct(current)
    BY <1>4, <2>1
  <2>2. CASE \E y \in Direct(current) : z \in Ancestors(y)
    <3>1. PICK y \in Direct(current) : z \in Ancestors(y)
      BY <2>2
    <3>2. y \in Initialized /\ Ordered(y)
      BY <1>4, <3>1, DirectAncestor, OrderedDown
    <3> QED
      BY <3>1, <3>2 DEF IInv, AncestorsFirst
  <2> QED
    BY <1>5, <2>1, <2>2, AncestorsSplit
<1> QED
  BY <1>5

(* The class that has been filled in joins the initialized ones.           *)
LEMMA FillStack ==
  ASSUME IInv, Fill
  PROVE  /\ TypeOK' /\ Disjoint' /\ Chain' /\ Stages' /\ CoreReady'
         /\ current \in Native /\ current \in InProgress
         /\ Initialized \subseteq Initialized' /\ Initialized' \subseteq Initialized \cup {current}
<1> DEFINE n == Len(stack)
           c == current
           d == descriptor[c]
<1>1. /\ stack # <<>> /\ stack' = Front(stack)
      /\ UNCHANGED <<descriptor, pending, core_class_cycle_finalized>>
  BY DEF Fill, Caller
<1>2. /\ stack \in Seq(Frame) /\ n \in Nat \ {0} /\ DOMAIN stack = 1 .. n
      /\ Last(stack) = stack[n] /\ Last(stack) \in Frame
      /\ stack' \in Seq(Frame) /\ DOMAIN stack' = 1 .. n - 1
      /\ \A i \in 1 .. n - 1 : stack'[i] = stack[i]
  <2>1. stack \in Seq(Frame)
    BY DEF IInv, TypeOK, Frame, Stage
  <2> QED
    BY <1>1, <2>1, FrontFacts, LenProperties
<1>3. c = stack[n].cls /\ c \in Native /\ n \in DOMAIN stack
  BY <1>2 DEF current, Frame
<1>4. d \in Descriptor /\ c \in AnyClass /\ meta(c) \in AnyClass
  BY <1>3, MetaFacts DEF IInv, TypeOK
<1> HIDE DEF n
<1>5. InProgress' \subseteq InProgress /\ InProgress \subseteq InProgress' \cup {c} /\ c \in InProgress
  <2>1. 1 .. n = (1 .. n - 1) \cup {n}
    BY <1>2
  <2> QED
    BY <1>2, <1>3, <2>1 DEF InProgress
<1>6. Disjoint' /\ Initialized \subseteq Initialized' /\ Initialized' \subseteq Initialized \cup {c}
  BY <1>1, <1>5 DEF IInv, Disjoint, Initialized
<1>7. 1 .. n - 1 \subseteq 1 .. n
  BY <1>2
<1>8. Chain'
  BY <1>1, <1>2, <1>7, SameAncestors DEF IInv, Chain
<1>9. Stages'
  BY <1>1, <1>2, <1>7 DEF IInv, Stages
<1> DEFINE h1 == [hash EXCEPT ![c] = IF d.own_hash THEN c ELSE InheritedHash(d.superclass, hash)]
           s1 == [slots EXCEPT ![c] =
                    materialize_slots(c, d.own_slots, InheritedSlots(d.superclass, slots))]
<1>10. /\ hash' = [h1 EXCEPT ![meta(c)] = InheritedHash(d.metaclass_superclass, h1)]
       /\ slots' = [s1 EXCEPT ![meta(c)] = InheritedSlots(d.metaclass_superclass, s1)]
  BY DEF Fill
<1>11. /\ d.superclass \in AnyClass \cup {NULL} /\ d.metaclass_superclass \in AnyClass \cup {NULL}
       /\ d.own_hash \in BOOLEAN /\ d.own_slots \subseteq SlotName
  BY <1>4, MetaFacts DEF Descriptor
<1>12. hash' \in [AnyClass -> AnyClass \cup {Default, NULL}]
  <2>1. hash \in [AnyClass -> AnyClass \cup {Default, NULL}]
    BY DEF IInv, TypeOK
  <2>2. h1 \in [AnyClass -> AnyClass \cup {Default, NULL}]
    BY <1>4, <1>11, <2>1 DEF InheritedHash
  <2> HIDE DEF h1
  <2>3. InheritedHash(d.metaclass_superclass, h1) \in AnyClass \cup {Default, NULL}
    BY <1>11, <2>2 DEF InheritedHash
  <2> QED
    BY <1>4, <1>10, <2>2, <2>3
<1> DEFINE Table(f) == f \in [DOMAIN f -> AnyClass] /\ DOMAIN f \subseteq SlotName
<1>13. DOMAIN slots' = AnyClass /\ \A x \in AnyClass : Table(slots'[x])
  <2>1. DOMAIN slots = AnyClass /\ \A x \in AnyClass : Table(slots[x])
    BY DEF IInv, TypeOK
  <2>2. Table(NoSlots)
    BY DEF NoSlots
  <2>3. Table(InheritedSlots(d.superclass, slots))
    BY <1>11, <2>1, <2>2 DEF InheritedSlots
  <2>4. ASSUME NEW f, Table(f) PROVE Table(materialize_slots(c, d.own_slots, f))
    BY <1>4, <1>11, <2>4 DEF materialize_slots
  <2>5. DOMAIN s1 = AnyClass /\ \A x \in AnyClass : Table(s1[x])
    <3>1. DOMAIN s1 = AnyClass
      BY <2>1
    <3>2. \A x \in AnyClass :
            s1[x] = IF x = c THEN materialize_slots(c, d.own_slots, InheritedSlots(d.superclass, slots))
                    ELSE slots[x]
      BY <2>1
    <3> HIDE DEF Table, s1
    <3> QED
      BY <2>1, <2>3, <2>4, <3>1, <3>2
  <2> HIDE DEF s1
  <2>6. Table(InheritedSlots(d.metaclass_superclass, s1))
    BY <1>11, <2>2, <2>5 DEF InheritedSlots
  <2>7. \A x \in AnyClass :
          slots'[x] = IF x = meta(c) THEN InheritedSlots(d.metaclass_superclass, s1) ELSE s1[x]
    BY <1>10, <2>5
  <2> HIDE DEF Table
  <2> QED
    BY <1>10, <2>5, <2>6, <2>7
<1>14. TypeOK'
  BY <1>1, <1>2, <1>12, <1>13 DEF IInv, TypeOK, Frame, Stage
<1>15. CoreReady'
  <2>1. \A x \in CoreClasses : hash'[x] = hash[x]
    <3>1. c \notin CoreClasses /\ meta(c) \notin CoreClasses /\ CoreClasses \subseteq AnyClass
      BY <1>3, MetaFacts
    <3>2. hash \in [AnyClass -> AnyClass \cup {Default, NULL}]
      BY DEF IInv, TypeOK
    <3> QED
      BY <1>10, <3>1, <3>2
  <2> QED
    BY <1>1, <2>1 DEF IInv, CoreReady
<1> QED
  BY <1>3, <1>5, <1>6, <1>8, <1>9, <1>14, <1>15

(* What Fill leaves alone, and what it gives to the class.                 *)
LEMMA FillValues ==
  ASSUME IInv, Fill
  PROVE  LET c == current
             d == descriptor[c]
             h == IF d.own_hash THEN c ELSE InheritedHash(d.superclass, hash)
             s == materialize_slots(c, d.own_slots, InheritedSlots(d.superclass, slots))
         IN  /\ c # meta(c) /\ d \in Descriptor
             /\ hash'[c] = h /\ slots'[c] = s
             /\ hash'[meta(c)] = IF d.metaclass_superclass = NULL THEN Default
                                 ELSE IF d.metaclass_superclass = c THEN h
                                 ELSE hash[d.metaclass_superclass]
             /\ slots'[meta(c)] = IF d.metaclass_superclass = NULL THEN NoSlots
                                  ELSE IF d.metaclass_superclass = c THEN s
                                  ELSE slots[d.metaclass_superclass]
             /\ \A x \in AnyClass \ {c, meta(c)} : hash'[x] = hash[x] /\ slots'[x] = slots[x]
<1> DEFINE c == current
           d == descriptor[c]
           h == IF d.own_hash THEN c ELSE InheritedHash(d.superclass, hash)
           s == materialize_slots(c, d.own_slots, InheritedSlots(d.superclass, slots))
           h1 == [hash EXCEPT ![c] = h]
           s1 == [slots EXCEPT ![c] = s]
<1>1. /\ hash' = [h1 EXCEPT ![meta(c)] = InheritedHash(d.metaclass_superclass, h1)]
      /\ slots' = [s1 EXCEPT ![meta(c)] = InheritedSlots(d.metaclass_superclass, s1)]
  BY DEF Fill
<1>2. c \in Native /\ c \in AnyClass /\ meta(c) \in AnyClass /\ c # meta(c)
  BY FillStack, MetaFacts
<1>3. DOMAIN hash = AnyClass /\ DOMAIN slots = AnyClass /\ d \in Descriptor
  BY <1>2 DEF IInv, TypeOK
<1>4. d.metaclass_superclass \in AnyClass \cup {NULL}
  BY <1>3 DEF Descriptor
<1> HIDE DEF d, h, s
<1>5. /\ DOMAIN h1 = AnyClass /\ DOMAIN s1 = AnyClass
      /\ \A x \in AnyClass : h1[x] = (IF x = c THEN h ELSE hash[x])
                             /\ s1[x] = (IF x = c THEN s ELSE slots[x])
  BY <1>2, <1>3
<1> HIDE DEF h1, s1, c
<1>6. \A x \in AnyClass :
        /\ hash'[x] = (IF x = meta(c) THEN InheritedHash(d.metaclass_superclass, h1) ELSE h1[x])
        /\ slots'[x] = (IF x = meta(c) THEN InheritedSlots(d.metaclass_superclass, s1) ELSE s1[x])
  BY <1>1, <1>5
<1>7. /\ hash'[c] = h /\ slots'[c] = s
      /\ \A x \in AnyClass \ {c, meta(c)} : hash'[x] = hash[x] /\ slots'[x] = slots[x]
  BY <1>2, <1>5, <1>6
<1>8. /\ hash'[meta(c)] = IF d.metaclass_superclass = NULL THEN Default
                          ELSE IF d.metaclass_superclass = c THEN h
                          ELSE hash[d.metaclass_superclass]
      /\ slots'[meta(c)] = IF d.metaclass_superclass = NULL THEN NoSlots
                           ELSE IF d.metaclass_superclass = c THEN s
                           ELSE slots[d.metaclass_superclass]
  <2>1. CASE d.metaclass_superclass = NULL
    BY <1>2, <1>6, <2>1 DEF InheritedHash, InheritedSlots
  <2>2. CASE d.metaclass_superclass # NULL
    BY <1>2, <1>4, <1>5, <1>6, <2>2 DEF InheritedHash, InheritedSlots
  <2> QED
    BY <2>1, <2>2
<1> QED
  BY <1>2, <1>3, <1>7, <1>8 DEF c, d, h, s

(* The classes an ordered class inherits from are core classes or have     *)
(* been initialized, and have a hash function.                             *)
LEMMA ParentsReady ==
  ASSUME IInv, core_class_cycle_finalized, NEW c \in Native, Ordered(c),
         Ancestors(c) \subseteq Initialized,
         NEW x \in {descriptor[c].superclass, descriptor[c].metaclass_superclass} \ {NULL}
  PROVE  /\ x \in AnyClass /\ hash[x] # NULL
         /\ x \in CoreClasses \/ \E y \in Initialized \cap Ancestors(c) : x \in {y, meta(y)}
<1>1. descriptor[c] \in Descriptor
  BY DEF IInv, TypeOK
<1>2. x \in AnyClass /\ (x = descriptor[c].superclass => x \in Base)
  BY <1>1, MetaFacts DEF Descriptor
<1>3. x \in CoreClasses \/ \E y \in Initialized \cap Ancestors(c) : x \in {y, meta(y)}
  <2>1. CASE x \in Native
    <3>1. x \in Ancestors(c)
      BY <2>1, DirectAncestor DEF Direct
    <3> QED
      BY <3>1
  <2>2. CASE x \in Core \/ \E y \in Core : x = meta(y)
    BY <2>2 DEF CoreClasses
  <2>3. CASE \E y \in Native : x = meta(y)
    <3>1. PICK y \in Native : x = meta(y)
      BY <2>3
    <3>2. x \notin Base
      BY <3>1, MetaFacts
    <3>3. descriptor[c].metaclass_superclass = meta(y)
      BY <1>2, <3>1, <3>2
    <3>4. y \in Ancestors(c)
      BY <3>3 DEF Ordered
    <3> QED
      BY <3>1, <3>4
  <2> QED
    BY <1>2, <2>1, <2>2, <2>3 DEF AnyClass, Base
<1>4. hash[x] # NULL
  <2>1. CASE x \in CoreClasses
    BY <2>1 DEF IInv, CoreReady
  <2>2. CASE \E y \in Initialized \cap Ancestors(c) : x \in {y, meta(y)}
    <3>1. PICK y \in Initialized \cap Ancestors(c) : x \in {y, meta(y)}
      BY <2>2
    <3>2. InheritsAll(y)
      BY <3>1, OrderedDown DEF IInv, Inherits
    <3> QED
      BY <3>1, <3>2 DEF InheritsAll
  <2> QED
    BY <1>3, <2>1, <2>2
<1> QED
  BY <1>2, <1>3, <1>4

(* Fill changes no class that has been initialized, nor a core class.      *)
LEMMA FillElsewhere ==
  ASSUME IInv, Fill, NEW y \in Initialized
  PROVE  /\ y # current /\ meta(y) # meta(current) /\ y # meta(current) /\ meta(y) # current
         /\ y \in AnyClass /\ meta(y) \in AnyClass
<1>1. current \in Native /\ current \in InProgress /\ y \in Native /\ y \notin InProgress
  BY FillStack DEF Initialized
<1> QED
  BY <1>1, MetaFacts

LEMMA FillIInv == IInv /\ Fill => IInv'
<1> SUFFICES ASSUME IInv, Fill PROVE IInv'
  OBVIOUS
<1> DEFINE c == current
           d == descriptor[c]
<1>1. /\ TypeOK' /\ Disjoint' /\ Chain' /\ Stages' /\ CoreReady'
      /\ c \in Native /\ Initialized \subseteq Initialized' /\ Initialized' \subseteq Initialized \cup {c}
  BY FillStack
<1>2. descriptor' = descriptor /\ Caller("fill") /\ core_class_cycle_finalized
  BY DEF Fill, IInv, CoreReady, Caller
<1>3. Ordered(c) => Ancestors(c) \subseteq Initialized
  BY <1>2, AncestorsReady
<1>4. AncestorsFirst'
  BY <1>1, <1>2, <1>3, SameAncestors DEF IInv, AncestorsFirst
<1> DEFINE Ready(y) == y \in CoreClasses \/ \E z \in Initialized : y \in {z, meta(z)}
<1>5. ASSUME NEW y, Ready(y)
      PROVE  y \in AnyClass \ {c, meta(c)} /\ hash'[y] = hash[y] /\ slots'[y] = slots[y]
  <2>1. y \in AnyClass \ {c, meta(c)}
    <3>1. CASE y \in CoreClasses
      BY <1>1, <3>1, MetaFacts
    <3>2. CASE \E z \in Initialized : y \in {z, meta(z)}
      BY <3>2, FillElsewhere
    <3> QED
      BY <1>5, <3>1, <3>2
  <2> QED
    BY <2>1, FillValues
<1>6. ASSUME NEW x \in Native, Ordered(x), Ancestors(x) \subseteq Initialized,
             NEW y \in {descriptor[x].superclass, descriptor[x].metaclass_superclass} \ {NULL}
      PROVE  /\ y \in AnyClass /\ hash[y] # NULL /\ y \notin {c, meta(c)}
             /\ hash'[y] = hash[y] /\ slots'[y] = slots[y]
  <2>1. y \in AnyClass /\ hash[y] # NULL /\ Ready(y)
    BY <1>2, <1>6, ParentsReady
  <2> QED
    BY <1>5, <2>1
<1>7. ASSUME NEW x \in Initialized, Ordered(x) PROVE InheritsAll(x)'
  <2>1. InheritsAll(x) /\ Ancestors(x) \subseteq Initialized /\ x \in Native
    BY <1>7 DEF IInv, Inherits, AncestorsFirst, Initialized
  <2>2. /\ hash'[x] = hash[x] /\ slots'[x] = slots[x]
        /\ hash'[meta(x)] = hash[meta(x)] /\ slots'[meta(x)] = slots[meta(x)]
    BY <1>5
  <2>3. \A y \in {descriptor[x].superclass, descriptor[x].metaclass_superclass} \ {NULL} :
          hash'[y] = hash[y] /\ slots'[y] = slots[y]
    BY <1>6, <1>7, <2>1
  <2> QED
    BY <1>2, <2>1, <2>2, <2>3 DEF InheritsAll
<1>8. ASSUME NEW x \in Native, x = c, Ordered(x) PROVE InheritsAll(x)'
  <2> DEFINE super == d.superclass
             metasuper == d.metaclass_superclass
             h == IF d.own_hash THEN c ELSE InheritedHash(super, hash)
             s == materialize_slots(c, d.own_slots, InheritedSlots(super, slots))
  <2>1. \A y \in {super, metasuper} \ {NULL} :
          /\ y \in AnyClass /\ hash[y] # NULL /\ y \notin {c, meta(c)}
          /\ hash'[y] = hash[y] /\ slots'[y] = slots[y]
    BY <1>1, <1>3, <1>6, <1>8
  <2>2. /\ d \in Descriptor /\ hash'[c] = h /\ slots'[c] = s
        /\ hash'[meta(c)] = IF metasuper = NULL THEN Default
                            ELSE IF metasuper = c THEN h ELSE hash[metasuper]
        /\ slots'[meta(c)] = IF metasuper = NULL THEN NoSlots
                             ELSE IF metasuper = c THEN s ELSE slots[metasuper]
    BY FillValues
  <2>3. /\ hash'[meta(c)] = IF metasuper = NULL THEN Default ELSE hash'[metasuper]
        /\ slots'[meta(c)] = IF metasuper = NULL THEN NoSlots ELSE slots'[metasuper]
    BY <2>1, <2>2
  <2>4. /\ d.own_hash => hash'[c] = c
        /\ ~d.own_hash => hash'[c] = IF super = NULL THEN Default ELSE hash'[super]
    BY <2>1, <2>2 DEF InheritedHash
  <2>5. hash'[c] # NULL /\ hash'[meta(c)] # NULL
    <3>1. Default # NULL /\ c # NULL
      BY <1>1, CoreAssumption, MetaFacts
    <3> QED
      BY <2>1, <2>3, <2>4, <3>1
  <2>6. s = [m \in d.own_slots \cup DOMAIN InheritedSlots(super, slots) |->
               IF m \in d.own_slots THEN c ELSE InheritedSlots(super, slots)[m]]
    BY DEF materialize_slots
  <2>7. InheritedSlots(super, slots) = IF super = NULL THEN NoSlots ELSE slots'[super]
    BY <2>1 DEF InheritedSlots
  <2>8. DOMAIN NoSlots = {}
    BY DEF NoSlots
  <2> HIDE DEF s
  <2>9. /\ \A m \in d.own_slots : slots'[c][m] = c
        /\ DOMAIN slots'[c] = d.own_slots \cup (IF super = NULL THEN {} ELSE DOMAIN slots'[super])
        /\ \A m \in DOMAIN slots'[c] \ d.own_slots : slots'[c][m] = slots'[super][m]
    BY <2>2, <2>6, <2>7, <2>8
  <2>10. descriptor'[x] = d /\ x = c
    BY <1>2, <1>8
  <2> HIDE DEF c, d
  <2> QED
    BY <2>3, <2>4, <2>5, <2>9, <2>10 DEF InheritsAll
<1>9. Inherits'
  <2> SUFFICES ASSUME NEW x \in Initialized', Ordered(x)' PROVE InheritsAll(x)'
    BY DEF Inherits
  <2>1. Ordered(x)
    BY <1>2, SameAncestors
  <2> HIDE DEF c
  <2> QED
    BY <1>1, <1>7, <1>8, <2>1
<1> QED
  BY <1>1, <1>4, <1>9 DEF IInv

-------------------------------------------------------------------------------
(* The invariant of the recursion (Class.c:274-357).                       *)
THEOREM Invariance == Spec => []IInv
<1>1. IInv /\ UNCHANGED vars => IInv'
  <2> SUFFICES ASSUME IInv, UNCHANGED vars PROVE IInv'
    OBVIOUS
  <2>1. TypeOK' /\ Disjoint' /\ Stages' /\ CoreReady' /\ Initialized' = Initialized
    BY DEF IInv, vars, TypeOK, Disjoint, InProgress, Stages, CoreReady, Initialized
  <2>2. Chain' /\ AncestorsFirst'
    BY <2>1, SameAncestors DEF IInv, vars, Chain, AncestorsFirst
  <2>3. Inherits'
    BY <2>1, SameAncestors DEF IInv, vars, Inherits, InheritsAll
  <2> QED
    BY <2>1, <2>2, <2>3 DEF IInv
<1>2. IInv /\ [Next]_vars => IInv'
  BY <1>1, StartIInv, SuperclassIInv, MetaclassIInv, FillIInv DEF Next, Initialization
<1> QED
  BY InitIInv, <1>2, PTL DEF Spec

(* Every variable keeps its type (Class.h:27-99).                          *)
THEOREM Types == Spec => []TypeOK
<1>1. IInv => TypeOK
  BY DEF IInv
<1> QED
  BY Invariance, <1>1, PTL

(* An initialized class whose ancestors come before it has all that it     *)
(* inherits, for every family of descriptors, whatever the order of the    *)
(* calls and whatever cycles other classes are in (Class.c:285-345).       *)
THEOREM InheritsAlways == Spec => []Inherits
<1>1. IInv => Inherits
  BY DEF IInv
<1> QED
  BY Invariance, <1>1, PTL

(* Nothing changes a class that has been initialized (design/              *)
(* classes.txt:7-8).                                                       *)
THEOREM NeverAgain == Spec => InitializedOnce
<1> DEFINE Kept ==
      \A c \in Initialized :
        c \in Initialized' /\ \A x \in {c, meta(c)} : hash'[x] = hash[x] /\ slots'[x] = slots[x]
<1>1. IInv /\ [Next]_vars => [Kept]_vars
  <2> SUFFICES ASSUME IInv, Next PROVE Kept
    OBVIOUS
  <2>1. CASE \E k \in AnyClass : LTE_init_native_class(k)
    <3>1. Initialized' = Initialized /\ (Initialized # {} => UNCHANGED <<hash, slots>>)
      BY <2>1, StartIInv
    <3> QED
      BY <3>1
  <2>2. CASE InitSuperclass \/ InitMetaclassSuperclass
    <3>1. Initialized' = Initialized /\ UNCHANGED <<hash, slots>>
      BY <2>2, SuperclassIInv, MetaclassIInv DEF InitSuperclass, InitMetaclassSuperclass
    <3> QED
      BY <3>1
  <2>3. CASE Fill
    <3>1. Initialized \subseteq Initialized'
      BY <2>3, FillStack
    <3>2. ASSUME NEW y \in Initialized, NEW x \in {y, meta(y)}
          PROVE  hash'[x] = hash[x] /\ slots'[x] = slots[x]
      BY <2>3, FillElsewhere, FillValues
    <3> QED
      BY <3>1, <3>2
  <2> QED
    BY <2>1, <2>2, <2>3 DEF Next, Initialization
<1> QED
  BY Invariance, <1>1, PTL DEF Spec, InitializedOnce
===============================================================================
