------------------------------ MODULE NativeClass ------------------------------
(***************************************************************************)
(* LTE_init_native_class of src/Class.c.  A class defined in C is a        *)
(* descriptor and two static structures, the class and its metaclass, that *)
(* are filled in from the descriptor and from the structures of its        *)
(* superclasses.  Those are initialized first, by recursion; a program     *)
(* starts it for its classes in any order, and more than once.             *)
(*                                                                         *)
(* Of a class the model keeps what it inherits: hash, the class whose hash *)
(* function it uses (equal_p is resolved in the same way), and slots, from *)
(* the name of a slot to the class that described it.  The array of slots  *)
(* is kept as this function: nothing depends on how it is sorted.          *)
(***************************************************************************)
EXTENDS Integers, SequencesExt

CONSTANTS
  Native,                 \* the classes a program defines
  Object, Class,          \* LTE_Object_class and LTE_Class_class
  ClassSlots,             \* the names in Class_slots
  SlotName,
  Default, NULL,          \* Class_default_hash, a null pointer
  Hierarchies             \* the families of descriptors a program may have

Core == {Object, Class}
Base == Native \cup Core
meta(c) == <<c, "class">>                      \* LTE_Value_class of a class
AnyClass == Base \cup {meta(c) : c \in Base}

Descriptor ==
  [superclass : Base \cup {NULL}, metaclass_superclass : AnyClass \cup {NULL},
   own_hash : BOOLEAN, own_slots : SUBSET SlotName]

ASSUME CoreAssumption ==
  /\ Core \cap Native = {} /\ Object # Class
  /\ Base \cap {meta(c) : c \in Base} = {}
  /\ NULL \notin AnyClass /\ Default \notin AnyClass \cup {NULL}
  /\ ClassSlots \subseteq SlotName
ASSUME HierarchiesAssumption == Hierarchies \subseteq [Native -> Descriptor]

VARIABLES
  descriptor,
  pending,                \* the classes whose native_descriptor is not NULL
  hash, slots,
  core_class_cycle_finalized,
  stack                   \* the calls of LTE_init_native_class in progress

vars == <<descriptor, pending, hash, slots, core_class_cycle_finalized, stack>>

NoSlots == [n \in {} |-> NULL]

Init ==
  /\ descriptor \in Hierarchies
  /\ pending = Native
  /\ hash = [c \in AnyClass |-> NULL]
  /\ slots = [c \in AnyClass |-> NoSlots]
  /\ core_class_cycle_finalized = FALSE
  /\ stack = <<>>

(***************************************************************************)
(* The core classes are filled in by the first call.                       *)
(***************************************************************************)
CoreClasses == Core \cup {meta(c) : c \in Core}
ClassSlotTable == [n \in ClassSlots |-> Class]

finalize_core_class_cycle_if_ready ==
  /\ core_class_cycle_finalized' = TRUE
  /\ IF core_class_cycle_finalized THEN UNCHANGED <<hash, slots>>
     ELSE /\ hash' = [c \in AnyClass |-> IF c \in CoreClasses THEN Default ELSE hash[c]]
          /\ slots' = [c \in AnyClass |-> IF c \in CoreClasses \ {Object}
                                          THEN ClassSlotTable ELSE slots[c]]

(* A call does nothing for a class that has no descriptor any more.        *)
Called_Again(k, calls) ==             \* mutant: native_descriptor = NULL is missing
  /\ pending' = pending \ {k}
  /\ stack' = IF k \notin Native THEN calls
              ELSE IF Len(calls) < 4 THEN Append(calls, [cls |-> k, stage |-> "super"])
              ELSE stack               \* (no stack is left)
Called(k, calls) ==
  IF k \in pending
  THEN stack' = Append(calls, [cls |-> k, stage |-> "super"]) /\ pending' = pending \ {k}
  ELSE stack' = calls /\ UNCHANGED pending

LTE_init_native_class(k) ==
  /\ stack = <<>>
  /\ finalize_core_class_cycle_if_ready
  /\ Called(k, <<>>)
  /\ UNCHANGED descriptor

(***************************************************************************)
(* The rest of a call: the recursive calls, then the class and its         *)
(* metaclass are filled in.                                                *)
(***************************************************************************)
Caller(stage) == stack # <<>> /\ Last(stack).stage = stage
current == Last(stack).cls
Next_stage(stage) == Append(Front(stack), [cls |-> current, stage |-> stage])

SkipSuperclass ==                     \* mutant: the recursive call is missing
  /\ Caller("super")
  /\ stack' = Next_stage("meta")
  /\ UNCHANGED <<descriptor, pending, hash, slots, core_class_cycle_finalized>>
InitSuperclass ==
  /\ Caller("super")
  /\ Called(descriptor[current].superclass, Next_stage("meta"))
  /\ UNCHANGED <<descriptor, hash, slots, core_class_cycle_finalized>>

InitMetaclassSuperclass ==
  /\ Caller("meta")
  /\ Called(descriptor[current].metaclass_superclass, Next_stage("fill"))
  /\ UNCHANGED <<descriptor, hash, slots, core_class_cycle_finalized>>

(* What class c is given if it inherits from super: the table of slots of  *)
(* super as it is now, with those of the descriptor in place of any that   *)
(* have the same name.                                                     *)
InheritedHash(super, h) == IF super = NULL THEN Default ELSE h[super]
InheritedSlots(super, s) == IF super = NULL THEN NoSlots ELSE s[super]
materialize_slots(c, own, inherited) ==
  [n \in own \cup DOMAIN inherited |-> IF n \in own THEN c ELSE inherited[n]]

Fill ==
  LET c == current
      d == descriptor[c]
      class_hash == [hash EXCEPT ![c] =
        IF d.own_hash THEN c ELSE InheritedHash(d.superclass, hash)]
      class_slots == [slots EXCEPT ![c] =
        materialize_slots(c, d.own_slots, InheritedSlots(d.superclass, slots))]
  IN  /\ Caller("fill")
      /\ hash' = [class_hash EXCEPT ![meta(c)] =
                    InheritedHash(d.metaclass_superclass, class_hash)]
      /\ slots' = [class_slots EXCEPT ![meta(c)] =
                     InheritedSlots(d.metaclass_superclass, class_slots)]
      /\ stack' = Front(stack)
      /\ UNCHANGED <<descriptor, pending, core_class_cycle_finalized>>

Initialization == InitSuperclass \/ InitMetaclassSuperclass \/ Fill

Next == Initialization \/ \E k \in AnyClass : LTE_init_native_class(k)

Spec == Init /\ [][Next]_vars

(* A call that has begun goes on.                                          *)
FairSpec == Spec /\ WF_vars(Initialization)

(***************************************************************************)
(* Properties.                                                             *)
(***************************************************************************)
InProgress == {stack[n].cls : n \in DOMAIN stack}
Initialized == Native \ (pending \cup InProgress)

(* Every variable keeps its type (Class.h:27-99).                          *)
TypeOK ==
  /\ descriptor \in [Native -> Descriptor]
  /\ pending \subseteq Native
  /\ hash \in [AnyClass -> AnyClass \cup {Default, NULL}]
  /\ DOMAIN slots = AnyClass
  /\ \A c \in AnyClass : slots[c] \in [DOMAIN slots[c] -> AnyClass]
                         /\ DOMAIN slots[c] \subseteq SlotName
  /\ core_class_cycle_finalized \in BOOLEAN
  /\ stack \in Seq([cls : Native, stage : {"super", "meta", "fill"}])

(* The classes that are initialized on the way to c's own fields.          *)
Direct(c) == {descriptor[c].superclass, descriptor[c].metaclass_superclass} \cap Native
Ancestors(c) ==
  {x \in Native : \A S \in SUBSET Native :
                    Direct(c) \subseteq S /\ (\A y \in S : Direct(y) \subseteq S) => x \in S}

(* What c needs comes before c: there is no cycle, and no metaclass        *)
(* inherits from that of a class which is not an ancestor.                 *)
Ordered(c) ==
  \A x \in Ancestors(c) \cup {c} :
    /\ x \notin Ancestors(x)
    /\ \A y \in Native : descriptor[x].metaclass_superclass = meta(y) => y \in Ancestors(x)

(* c has a hash function, and c and its metaclass have inherited what      *)
(* their superclasses have now.                                            *)
InheritsAll(c) ==
  LET d == descriptor[c]
      super == d.superclass
      metasuper == d.metaclass_superclass
  IN  /\ hash[c] # NULL /\ hash[meta(c)] # NULL
      /\ d.own_hash => hash[c] = c
      /\ ~d.own_hash => hash[c] = IF super = NULL THEN Default ELSE hash[super]
      /\ \A n \in d.own_slots : slots[c][n] = c
      /\ DOMAIN slots[c] = d.own_slots \cup (IF super = NULL THEN {} ELSE DOMAIN slots[super])
      /\ \A n \in DOMAIN slots[c] \ d.own_slots : slots[c][n] = slots[super][n]
      /\ hash[meta(c)] = IF metasuper = NULL THEN Default ELSE hash[metasuper]
      /\ slots[meta(c)] = IF metasuper = NULL THEN NoSlots ELSE slots[metasuper]

(* An initialized class has all that it inherits, whatever the order of    *)
(* the calls and whatever cycles other classes are in                      *)
(* (Class.c:285-290, 299-312, 322-345).                                    *)
Inherits == \A c \in Initialized : Ordered(c) => InheritsAll(c)

(* design/classes.txt:7-8: batch initialization follows the inheritance    *)
(* dependencies, so after it every class has what it inherits.             *)
FollowsInheritance == stack = <<>> => \A c \in Initialized : InheritsAll(c)

(* Initializing a class again, or its subclasses, leaves it as it is       *)
(* (design/classes.txt:7-8, tests/smoke_test.c:125-126).                   *)
InitializedOnce ==
  [][\A c \in Initialized :
       c \in Initialized' /\ \A x \in {c, meta(c)} : hash'[x] = hash[x] /\ slots'[x] = slots[x]]_vars

(* LTE_init_native_class returns, also if superclasses form a cycle        *)
(* (Class.c:282-283).                                                      *)
InitReturns == stack # <<>> ~> stack = <<>>
===============================================================================
