-------------------------- MODULE ConstructorsProof --------------------------
(***************************************************************************)
(* Constructors are called once each, in order, and LTE_init leaves none   *)
(* out, for every capacity of the registry and any number of registrations.*)
(* Program start, in which the constructors of classes are among them, is  *)
(* shown to implement the registry and the initialization of classes.      *)
(*                                                                         *)
(* Until the registry is drained, what has been called is what the loops   *)
(* have taken from it, and the outermost loop is at the bottom of the      *)
(* stack; afterwards nothing waits, and whoever registers is called.       *)
(***************************************************************************)
EXTENDS Runtime, SequenceTheorems, TLAPS

(* The registry before and after ran is set (utils.c:446-450).             *)
BeforeRan ==
  /\ Len(started) = run_count
  /\ ~aborted => registrations = Len(constructors)
  /\ IF stack = <<>> THEN run_count = 0 ELSE stack[1] = Loop
AfterRan ==
  /\ run_count = Len(constructors) /\ ~running
  /\ ~aborted => Len(started) = registrations

IInv ==
  /\ TypeOK /\ OnceInOrder
  /\ \A n \in DOMAIN constructors : constructors[n] = n
  /\ IF ran THEN AfterRan ELSE BeforeRan
  /\ aborted => ~AtLoop

USE CapacityAssumption DEF CapacityAssumption

(* The initial registry is empty.                                          *)
LEMMA InitIInv == Init => IInv
<1> SUFFICES ASSUME Init PROVE IInv
  OBVIOUS
<1>1. TypeOK /\ OnceInOrder
  <2>1. <<>> \in Seq(1 .. MaxRegistrations) /\ <<>> \in Seq(0 .. MaxRegistrations)
        /\ Len(<<>>) = 0
    BY EmptySeq
  <2>2. constructors = <<>> /\ run_count = 0 /\ registrations = 0 /\ started = <<>> /\ stack = <<>>
    BY DEF Init
  <2>3. running \in BOOLEAN /\ ran \in BOOLEAN /\ aborted \in BOOLEAN
    BY DEF Init
  <2>4. TypeOK
    BY <2>1, <2>2, <2>3 DEF TypeOK
  <2>5. OnceInOrder
    BY <2>2 DEF OnceInOrder
  <2> QED
    BY <2>4, <2>5
<1>2. ~ran /\ BeforeRan
  BY DEF Init, BeforeRan
<1>3. ~aborted /\ DOMAIN constructors = {}
  BY DEF Init
<1> QED
  BY <1>1, <1>2, <1>3 DEF IInv

(* Registering keeps the order, whether the constructor waits or runs.     *)
LEMMA RegisterIInv == IInv /\ LTE_register_constructor => IInv'
<1> SUFFICES ASSUME IInv, LTE_register_constructor PROVE IInv'
  OBVIOUS
<1> DEFINE c == registrations + 1
<1>1. UserCode /\ registrations < MaxRegistrations /\ registrations' = c
  BY DEF LTE_register_constructor
<1>2. /\ registrations \in Nat /\ c \in 1 .. MaxRegistrations
      /\ started \in Seq(1 .. MaxRegistrations) /\ constructors \in Seq(1 .. MaxRegistrations)
      /\ stack \in Seq(0 .. MaxRegistrations)
  BY <1>1 DEF IInv, TypeOK
<1>3. CASE RunsAtOnce /\ Call(c) /\ UNCHANGED <<registry, aborted>>
  <2>1. ran /\ AfterRan /\ Len(started) = registrations
    BY <1>1, <1>3 DEF IInv, RunsAtOnce, AfterRan, UserCode
  <2>2. TypeOK' /\ OnceInOrder'
    BY <1>1, <1>2, <1>3, <2>1 DEF Call, IInv, TypeOK, OnceInOrder, registry
  <2>3. ran' = ran /\ running' = running /\ run_count' = run_count
        /\ constructors' = constructors /\ aborted' = aborted
    BY <1>3 DEF registry
  <2>4. Len(started') = c
    BY <1>2, <1>3, <2>1 DEF Call
  <2>5. AfterRan' /\ ran'
    BY <1>1, <2>1, <2>3, <2>4 DEF AfterRan
  <2>6. (aborted => ~AtLoop)'
    BY <1>1, <1>3 DEF UserCode
  <2> QED
    BY <1>3, <2>2, <2>3, <2>5, <2>6 DEF IInv
<1>4. CASE /\ ~RunsAtOnce /\ Full /\ aborted' = TRUE
           /\ UNCHANGED <<registry, started, stack>>
  <2>1. TypeOK' /\ OnceInOrder'
    BY <1>1, <1>2, <1>4 DEF IInv, TypeOK, OnceInOrder, registry
  <2>2. (IF ran THEN AfterRan ELSE BeforeRan)'
    BY <1>4 DEF IInv, AfterRan, BeforeRan, registry
  <2>3. (aborted => ~AtLoop)'
    BY <1>1, <1>4 DEF UserCode, AtLoop
  <2> QED
    BY <1>4, <2>1, <2>2, <2>3 DEF IInv, registry
<1>5. CASE /\ ~RunsAtOnce /\ ~Full /\ constructors' = Append(constructors, c)
           /\ UNCHANGED <<run_count, running, ran, started, stack, aborted>>
  <2>1. ~ran /\ BeforeRan /\ registrations = Len(constructors)
    BY <1>1, <1>5 DEF IInv, RunsAtOnce, AfterRan, BeforeRan, UserCode
  <2>2. TypeOK' /\ OnceInOrder' /\ \A n \in DOMAIN constructors' : constructors'[n] = n
    BY <1>1, <1>2, <1>5, <2>1 DEF IInv, TypeOK, OnceInOrder, Full
  <2>3. BeforeRan'
    BY <1>1, <1>2, <1>5, <2>1 DEF BeforeRan
  <2>4. (aborted => ~AtLoop)'
    BY <1>1, <1>5 DEF UserCode
  <2> QED
    BY <1>5, <2>1, <2>2, <2>3, <2>4 DEF IInv
<1> QED
  BY <1>3, <1>4, <1>5 DEF LTE_register_constructor

(* Entering the loop: it is at the bottom of the stack, or on top of it.   *)
LEMMA RunIInv == IInv /\ LTE_run_registered_constructors => IInv'
<1> SUFFICES ASSUME IInv, LTE_run_registered_constructors PROVE IInv'
  OBVIOUS
<1>1. UserCode /\ ~ran /\ stack' = Append(stack, Loop) /\ running' = TRUE
      /\ UNCHANGED <<constructors, run_count, ran, registrations, started, aborted>>
  BY DEF LTE_run_registered_constructors
<1>2. stack \in Seq(0 .. MaxRegistrations) /\ Loop \in 0 .. MaxRegistrations
  BY DEF IInv, TypeOK, Loop
<1>3. TypeOK' /\ OnceInOrder'
  BY <1>1, <1>2 DEF IInv, TypeOK, OnceInOrder
<1>4. BeforeRan'
  BY <1>1, <1>2 DEF IInv, BeforeRan
<1>5. (aborted => ~AtLoop)'
  BY <1>1 DEF UserCode
<1> QED
  BY <1>1, <1>3, <1>4, <1>5 DEF IInv

(* The loop takes the next constructor.                                    *)
LEMMA RunNextIInv == IInv /\ RunNext => IInv'
<1> SUFFICES ASSUME IInv, RunNext PROVE IInv'
  OBVIOUS
<1> DEFINE c == constructors[run_count + 1]
<1>1. AtLoop /\ run_count < Len(constructors) /\ run_count' = run_count + 1 /\ Call(c)
      /\ UNCHANGED <<constructors, running, ran, registrations, aborted>>
  BY DEF RunNext
<1>2. /\ run_count \in Nat /\ constructors \in Seq(1 .. MaxRegistrations)
      /\ started \in Seq(1 .. MaxRegistrations) /\ stack \in Seq(0 .. MaxRegistrations)
  BY DEF IInv, TypeOK
<1>3. ~ran /\ BeforeRan /\ ~aborted
  BY <1>1, <1>2 DEF IInv, AfterRan
<1>4. c = run_count + 1 /\ c \in 1 .. MaxRegistrations
  BY <1>1, <1>2 DEF IInv
<1>5. TypeOK'
  BY <1>1, <1>2, <1>4 DEF Call, IInv, TypeOK
<1>6. OnceInOrder'
  BY <1>1, <1>2, <1>3, <1>4 DEF Call, IInv, OnceInOrder, BeforeRan
<1>7. stack # <<>> /\ stack' # <<>> /\ stack'[1] = stack[1] /\ Len(started') = Len(started) + 1
  <2>1. stack # <<>> /\ stack' = Append(stack, c) /\ started' = Append(started, c)
    BY <1>1 DEF Call, AtLoop
  <2>2. Len(stack) \in Nat /\ Len(stack) # 0
    BY <1>2, <2>1, EmptySeq
  <2>3. stack' # <<>> /\ stack'[1] = stack[1]
    <3>1. stack \in Seq(0 .. MaxRegistrations) /\ c \in 0 .. MaxRegistrations
      BY <1>2, <1>4
    <3>2. 1 \in 1 .. Len(stack)
      BY <2>2
    <3> HIDE DEF c
    <3> QED
      BY <2>1, <3>1, <3>2, AppendProperties
  <2>4. Len(started') = Len(started) + 1
    BY <1>2, <1>4, <2>1
  <2> QED
    BY <2>1, <2>3, <2>4
<1>8. BeforeRan'
  BY <1>1, <1>3, <1>7 DEF BeforeRan
<1> QED
  BY <1>1, <1>3, <1>5, <1>6, <1>8 DEF IInv

(* A loop ends when nothing waits: everything has been called by then.     *)
LEMMA EndLoopIInv == IInv /\ EndLoop => IInv'
<1> SUFFICES ASSUME IInv, EndLoop PROVE IInv'
  OBVIOUS
<1>1. AtLoop /\ run_count = Len(constructors) /\ running' = FALSE /\ ran' = TRUE
      /\ stack' = Front(stack)
      /\ UNCHANGED <<constructors, run_count, registrations, started, aborted>>
  BY DEF EndLoop
<1>2. stack \in Seq(0 .. MaxRegistrations) /\ stack # <<>> /\ ~aborted
  BY <1>1 DEF IInv, TypeOK, AtLoop
<1>3. Front(stack) \in Seq(0 .. MaxRegistrations)
  BY <1>2 DEF Front
<1>4. TypeOK' /\ OnceInOrder'
  BY <1>1, <1>3 DEF IInv, TypeOK, OnceInOrder
<1>5. AfterRan'
  BY <1>1, <1>2 DEF IInv, AfterRan, BeforeRan
<1> QED
  BY <1>1, <1>2, <1>4, <1>5 DEF IInv

(* A constructor that returns leaves the loop that called it below it.     *)
LEMMA ReturnsIInv == IInv /\ ConstructorReturns => IInv'
<1> SUFFICES ASSUME IInv, ConstructorReturns PROVE IInv'
  OBVIOUS
<1>1. UserCode /\ stack # <<>> /\ stack' = Front(stack)
      /\ UNCHANGED <<registry, registrations, started, aborted>>
  BY DEF ConstructorReturns
<1>2. stack \in Seq(0 .. MaxRegistrations)
  BY DEF IInv, TypeOK
<1>3. Front(stack) \in Seq(0 .. MaxRegistrations) /\ stack[Len(stack)] # Loop
  BY <1>1, <1>2 DEF Front, Last, UserCode, AtLoop
<1>4. stack[1] = Loop => Front(stack) # <<>> /\ Front(stack)[1] = Loop
  <2> SUFFICES ASSUME stack[1] = Loop
               PROVE  Front(stack) # <<>> /\ Front(stack)[1] = Loop
    OBVIOUS
  <2>1. Len(stack) \in Nat /\ Len(stack) >= 2
    BY <1>1, <1>2, <1>3, EmptySeq, LenProperties
  <2>2. Len(Front(stack)) = Len(stack) - 1 /\ Front(stack)[1] = stack[1]
    BY <1>2, <2>1 DEF Front
  <2> QED
    BY <2>1, <2>2, EmptySeq
<1>5. TypeOK' /\ OnceInOrder'
  BY <1>1, <1>3 DEF IInv, TypeOK, OnceInOrder, registry
<1>6. (IF ran THEN AfterRan ELSE BeforeRan)'
  BY <1>1, <1>3, <1>4 DEF IInv, AfterRan, BeforeRan, registry
<1>7. (aborted => ~AtLoop)'
  BY <1>1 DEF UserCode
<1> QED
  BY <1>1, <1>5, <1>6, <1>7 DEF IInv, registry

(* The invariant of the registry (utils.c:452-482).                        *)
THEOREM Invariance == Spec => []IInv
<1>1. IInv /\ UNCHANGED vars => IInv'
  BY DEF IInv, TypeOK, OnceInOrder, AfterRan, BeforeRan, AtLoop, vars, registry
<1>2. IInv /\ [Next]_vars => IInv'
  BY <1>1, RegisterIInv, RunIInv, RunNextIInv, EndLoopIInv, ReturnsIInv DEF Next
<1> QED
  BY InitIInv, <1>2, PTL DEF Spec

(* The registry never holds more than its capacity, and every variable     *)
(* keeps its type (utils.c:442-466).                                       *)
THEOREM Types == Spec => []TypeOK
<1>1. IInv => TypeOK
  BY DEF IInv
<1> QED
  BY Invariance, <1>1, PTL

(* Every constructor is called once, in the order of registration, however *)
(* registrations and calls of LTE_init nest (utils.c:465, 474-479).        *)
THEOREM CalledOnceInOrder == Spec => []OnceInOrder
<1>1. IInv => OnceInOrder
  BY DEF IInv
<1> QED
  BY Invariance, <1>1, PTL

(* None is called before LTE_init (design/classes.txt:5-7).                *)
THEOREM NoneEarly == Spec => []NoneBeforeInit
<1>1. IInv => NoneBeforeInit
  BY DEF IInv, NoneBeforeInit, BeforeRan, TypeOK
<1> QED
  BY Invariance, <1>1, PTL

(* Whenever LTE_init returns, every registered constructor has been called *)
(* (utils.c:468-482).                                                      *)
THEOREM InitLeavesNoneOut == Spec => []InitComplete
<1>1. IInv => InitComplete
  BY DEF IInv, InitComplete, AfterRan
<1> QED
  BY Invariance, <1>1, PTL

-------------------------------------------------------------------------------
(* A step of the registry at program start is a step of the registry.      *)
LEMMA RegistryStep == [RuntimeNext]_runtimeVars => [Next]_vars
<1> SUFFICES ASSUME [RuntimeNext]_runtimeVars PROVE [Next]_vars
  OBVIOUS
<1>1. CASE \E k \in Native : RegisterClass(k)
  BY <1>1 DEF RegisterClass, Next
<1>2. CASE \E k \in Native : InitializeClass(k)
  BY <1>2 DEF InitializeClass
<1>3. CASE RegisterOther
  BY <1>3 DEF RegisterOther, Next
<1>4. CASE LTE_init
  BY <1>4 DEF LTE_init, Next
<1>5. CASE ClassConstructor \/ Initialize
  BY <1>5 DEF ClassConstructor, Initialize
<1>6. CASE Return \/ RunRegistered
  BY <1>6 DEF Return, RunRegistered, Next
<1>7. CASE UNCHANGED runtimeVars
  BY <1>7 DEF runtimeVars
<1> QED
  BY <1>1, <1>2, <1>3, <1>4, <1>5, <1>6, <1>7 DEF RuntimeNext, Proceed

(* Program start implements the registry: with the constructors of classes *)
(* in it, as Class.h:127-130 registers them, it does nothing else.         *)
THEOREM RegistryImplemented == RuntimeSpec => Spec
<1>1. RuntimeInit => Init
  BY DEF RuntimeInit
<1> QED
  BY <1>1, RegistryStep, PTL DEF RuntimeSpec, Spec

(* At program start the constructors of classes are called once each and   *)
(* in order, none early, and LTE_init leaves none out.                     *)
THEOREM StartInOrder ==
  RuntimeSpec => []TypeOK /\ []OnceInOrder /\ []NoneBeforeInit /\ []InitComplete
  BY RegistryImplemented, Types, CalledOnceInOrder, NoneEarly, InitLeavesNoneOut

-------------------------------------------------------------------------------
(* The initialization of classes, with what is proved of it.               *)
CP == INSTANCE NativeClassProof WITH stack <- init_stack

LEMMA ClassAssumptions == CP!CoreAssumption /\ CP!HierarchiesAssumption
  BY HierarchyAssumption
  DEF CP!CoreAssumption, CP!HierarchiesAssumption,
      CP!Core, CP!Base, CP!meta, CP!AnyClass, CP!Descriptor,
      Classes!Core, Classes!Base, Classes!meta, Classes!AnyClass, Classes!Descriptor

LEMMA SameConstants ==
  /\ Classes!AnyClass = CP!AnyClass /\ Classes!CoreClasses = CP!CoreClasses
  /\ Classes!NoSlots = CP!NoSlots /\ Classes!ClassSlotTable = CP!ClassSlotTable
  /\ Native \subseteq CP!AnyClass
  BY DEF Classes!NoSlots, CP!NoSlots, Classes!CoreClasses, CP!CoreClasses,
         Classes!ClassSlotTable, CP!ClassSlotTable, Classes!AnyClass, CP!AnyClass,
         Classes!Base, CP!Base, Classes!Core, CP!Core, Classes!meta, CP!meta

LEMMA SameClassInit == Classes!Init => CP!Init
  BY SameConstants DEF Classes!Init, CP!Init

LEMMA SameCall ==
  ASSUME NEW k, Classes!LTE_init_native_class(k) PROVE CP!LTE_init_native_class(k)
<1>1. Classes!finalize_core_class_cycle_if_ready => CP!finalize_core_class_cycle_if_ready
  BY SameConstants
  DEF Classes!finalize_core_class_cycle_if_ready, CP!finalize_core_class_cycle_if_ready
<1> QED
  BY <1>1 DEF Classes!LTE_init_native_class, CP!LTE_init_native_class, Classes!Called, CP!Called

LEMMA SameInitialization == Classes!Initialization => CP!Initialization
<1>1. Classes!InitSuperclass => CP!InitSuperclass
  BY DEF Classes!InitSuperclass, CP!InitSuperclass, Classes!Caller, CP!Caller,
         Classes!Called, CP!Called, Classes!Next_stage, CP!Next_stage,
         Classes!current, CP!current, Classes!Last, CP!Last, Classes!Front, CP!Front
<1>2. Classes!InitMetaclassSuperclass => CP!InitMetaclassSuperclass
  BY DEF Classes!InitMetaclassSuperclass, CP!InitMetaclassSuperclass, Classes!Caller, CP!Caller,
         Classes!Called, CP!Called, Classes!Next_stage, CP!Next_stage,
         Classes!current, CP!current, Classes!Last, CP!Last, Classes!Front, CP!Front
<1>3. Classes!Fill => CP!Fill
  BY DEF Classes!Fill, CP!Fill, Classes!Caller, CP!Caller, Classes!current, CP!current,
         Classes!InheritedHash, CP!InheritedHash, Classes!InheritedSlots, CP!InheritedSlots,
         Classes!NoSlots, CP!NoSlots, Classes!meta, CP!meta,
         Classes!materialize_slots, CP!materialize_slots,
         Classes!Last, CP!Last, Classes!Front, CP!Front
<1> QED
  BY <1>1, <1>2, <1>3 DEF Classes!Initialization, CP!Initialization

LEMMA SameProperties ==
  Classes!Initialized = CP!Initialized /\ (CP!Inherits => Classes!Inherits)
  BY DEF Classes!Inherits, CP!Inherits, Classes!Initialized, CP!Initialized,
         Classes!InProgress, CP!InProgress, Classes!Ordered, CP!Ordered,
         Classes!InheritsAll, CP!InheritsAll, Classes!Ancestors, CP!Ancestors,
         Classes!Direct, CP!Direct, Classes!meta, CP!meta, Classes!NoSlots, CP!NoSlots

-------------------------------------------------------------------------------
(* Each constructor of a class has made its call or is running, and then   *)
(* it is at the top of the stack: it calls no other code.                  *)
Numbered ==
  /\ initializes \in Seq(Native \cup {NULL}) /\ Len(initializes) = registrations
  /\ Len(started) <= registrations
  /\ \A i \in DOMAIN stack : stack[i] \in 0 .. Len(started)
OnTop ==
  \A i \in DOMAIN stack : i < Len(stack) /\ stack[i] # Loop => initializes[stack[i]] = NULL
Called ==
  \A n \in DOMAIN started :
    initializes[n] # NULL => n \in entered \/ \E i \in DOMAIN stack : stack[i] = n
Settled == \A n \in entered : n \in DOMAIN started /\ initializes[n] \notin pending
StartInv == IInv /\ Numbered /\ OnTop /\ Called /\ Settled

LEMMA InitStart == RuntimeInit => StartInv
<1> SUFFICES ASSUME RuntimeInit PROVE StartInv
  OBVIOUS
<1>1. IInv
  BY InitIInv DEF RuntimeInit
<1>2. /\ stack = <<>> /\ started = <<>> /\ registrations = 0
      /\ initializes = <<>> /\ entered = {}
  BY DEF RuntimeInit, Init
<1>3. <<>> \in Seq(Native \cup {NULL}) /\ Len(<<>>) = 0
  BY EmptySeq
<1>4. Numbered
  BY <1>2, <1>3 DEF Numbered
<1> QED
  BY <1>1, <1>2, <1>4 DEF StartInv, OnTop, Called, Settled

(* The step of a class takes none off the list of those initialized.       *)
LEMMA PendingShrinks ==
  ASSUME Classes!Initialization \/ \E k \in Native : Classes!LTE_init_native_class(k)
  PROVE  pending' \subseteq pending
  BY DEF Classes!Initialization, Classes!InitSuperclass, Classes!InitMetaclassSuperclass,
         Classes!Fill, Classes!LTE_init_native_class, Classes!Called

LEMMA TopFacts ==
  ASSUME StartInv, stack # <<>>
  PROVE  /\ Len(stack) \in DOMAIN stack /\ Last(stack) = stack[Len(stack)]
         /\ Last(stack) \in 0 .. Len(started) /\ Len(stack) \in Nat \ {0}
         /\ DOMAIN stack = 1 .. Len(stack)
<1>1. stack \in Seq(0 .. MaxRegistrations)
  BY DEF StartInv, IInv, TypeOK
<1>2. Len(stack) \in Nat /\ Len(stack) # 0 /\ DOMAIN stack = 1 .. Len(stack)
  BY <1>1, EmptySeq, LenProperties
<1>3. Len(stack) \in DOMAIN stack /\ Last(stack) = stack[Len(stack)]
  BY <1>2 DEF Last
<1> QED
  BY <1>2, <1>3 DEF StartInv, Numbered

(* Facts about a call and a return.                                        *)
LEMMA PushFacts ==
  ASSUME StartInv, NEW c \in 0 .. MaxRegistrations, stack' = Append(stack, c)
  PROVE  /\ Len(stack) \in Nat /\ DOMAIN stack = 1 .. Len(stack)
         /\ Len(stack') = Len(stack) + 1 /\ DOMAIN stack' = 1 .. Len(stack) + 1
         /\ \A i \in 1 .. Len(stack) : stack'[i] = stack[i]
         /\ stack'[Len(stack) + 1] = c
<1>1. stack \in Seq(0 .. MaxRegistrations)
  BY DEF StartInv, IInv, TypeOK
<1>2. /\ Append(stack, c) \in Seq(0 .. MaxRegistrations)
      /\ Len(Append(stack, c)) = Len(stack) + 1
      /\ \A i \in 1 .. Len(stack) : Append(stack, c)[i] = stack[i]
      /\ Append(stack, c)[Len(stack) + 1] = c
  BY <1>1, AppendProperties
<1> QED
  BY <1>1, <1>2, LenProperties

LEMMA PopFacts ==
  ASSUME StartInv, stack # <<>>, stack' = Front(stack)
  PROVE  /\ Len(stack) \in Nat \ {0} /\ DOMAIN stack = 1 .. Len(stack)
         /\ Len(stack') = Len(stack) - 1 /\ DOMAIN stack' = 1 .. Len(stack) - 1
         /\ \A i \in 1 .. Len(stack) - 1 : stack'[i] = stack[i]
<1>1. stack \in Seq(0 .. MaxRegistrations) /\ Len(stack) \in Nat \ {0}
      /\ DOMAIN stack = 1 .. Len(stack)
  BY TopFacts DEF StartInv, IInv, TypeOK
<1>2. stack' = [i \in 1 .. Len(stack) - 1 |-> stack[i]]
  BY <1>1 DEF Front
<1>3. stack' \in Seq(0 .. MaxRegistrations)
  BY <1>1 DEF Front
<1> QED
  BY <1>1, <1>2, <1>3, LenProperties

(* A call of constructor c, or of the loop, by code that is no constructor *)
(* of a class.                                                             *)
LEMMA PushOnTop ==
  ASSUME StartInv, NEW c \in 0 .. MaxRegistrations, stack' = Append(stack, c),
         stack # <<>> /\ Last(stack) # Loop => initializes[Last(stack)] = NULL,
         \A n \in DOMAIN initializes : initializes'[n] = initializes[n]
  PROVE  OnTop'
<1> SUFFICES ASSUME NEW i \in DOMAIN stack', i < Len(stack'), stack'[i] # Loop
             PROVE  initializes'[stack'[i]] = NULL
  BY DEF OnTop
<1>1. i \in 1 .. Len(stack) /\ stack'[i] = stack[i] /\ i \in DOMAIN stack
  BY PushFacts
<1>2. stack # <<>>
  BY <1>1
<1>3. initializes[stack[i]] = NULL
  <2>1. CASE i = Len(stack)
    BY <1>1, <1>2, <2>1, TopFacts
  <2>2. CASE i # Len(stack)
    BY <1>1, <1>2, <2>2, PushFacts DEF StartInv, OnTop
  <2> QED
    BY <2>1, <2>2
<1>4. stack[i] \in DOMAIN initializes
  <2>1. stack[i] \in 0 .. Len(started) /\ stack[i] # 0
    BY <1>1 DEF StartInv, Numbered, Loop
  <2>2. DOMAIN initializes = 1 .. registrations /\ Len(started) <= registrations
        /\ Len(started) \in Nat /\ registrations \in Nat
    BY LenProperties DEF StartInv, Numbered, IInv, TypeOK
  <2> QED
    BY <2>1, <2>2
<1> QED
  BY <1>1, <1>3, <1>4

(* A registration: the constructor waits, runs at once, or is too many.    *)
LEMMA RegistersStart ==
  ASSUME StartInv, AnyCode, LTE_register_constructor, NEW k \in Native \cup {NULL},
         initializes' = Append(initializes, k), UNCHANGED <<pending, entered>>
  PROVE  StartInv'
<1> DEFINE c == registrations + 1
<1>1. IInv'
  BY RegisterIInv DEF StartInv
<1>2. UserCode /\ registrations < MaxRegistrations /\ registrations' = c
  BY DEF LTE_register_constructor
<1>3. /\ registrations \in Nat /\ c \in 0 .. MaxRegistrations /\ MaxRegistrations \in Nat
      /\ Len(started) \in Nat /\ Len(started) <= registrations
      /\ started \in Seq(1 .. MaxRegistrations) /\ DOMAIN started = 1 .. Len(started)
  BY <1>2, LenProperties DEF StartInv, IInv, TypeOK, Numbered
<1>4. /\ initializes' \in Seq(Native \cup {NULL}) /\ Len(initializes') = c
      /\ DOMAIN initializes = 1 .. registrations
      /\ \A n \in DOMAIN initializes : initializes'[n] = initializes[n]
  <2>1. initializes \in Seq(Native \cup {NULL}) /\ Len(initializes) = registrations
    BY DEF StartInv, Numbered
  <2>2. /\ Append(initializes, k) \in Seq(Native \cup {NULL})
        /\ Len(Append(initializes, k)) = Len(initializes) + 1
        /\ \A n \in 1 .. Len(initializes) : Append(initializes, k)[n] = initializes[n]
    BY <2>1, AppendProperties
  <2> QED
    BY <2>1, <2>2, LenProperties
<1>5. \A n \in DOMAIN started : n \in DOMAIN initializes
  BY <1>3, <1>4
<1> HIDE DEF c
<1>6. CASE RunsAtOnce /\ Call(c) /\ UNCHANGED <<registry, aborted>>
  <2>1. stack' = Append(stack, c) /\ started' = Append(started, c)
    BY <1>6 DEF Call
  <2>2. Len(started) = registrations
    BY <1>2, <1>6 DEF StartInv, IInv, AfterRan, RunsAtOnce, UserCode
  <2>3. Len(started') = c /\ DOMAIN started' = 1 .. c
    <3>1. started' \in Seq(1 .. MaxRegistrations)
      BY <1>1 DEF IInv, TypeOK
    <3>2. Len(started') = Len(started) + 1
      BY <1>3, <2>1
    <3> QED
      BY <2>2, <3>1, <3>2, LenProperties DEF c
  <2>4. Numbered'
    <3>1. \A i \in DOMAIN stack' : stack'[i] \in 0 .. c
      BY <1>3, <2>1, <2>2, PushFacts DEF StartInv, Numbered, c
    <3> QED
      BY <1>2, <1>3, <1>4, <2>3, <3>1 DEF Numbered
  <2>5. OnTop'
    BY <1>3, <1>4, <2>1, PushOnTop DEF AnyCode, Running
  <2>6. Called'
    <3> SUFFICES ASSUME NEW n \in DOMAIN started', initializes'[n] # NULL
                 PROVE  n \in entered' \/ \E i \in DOMAIN stack' : stack'[i] = n
      BY DEF Called
    <3>0. /\ Len(stack) \in Nat /\ DOMAIN stack = 1 .. Len(stack)
          /\ DOMAIN stack' = 1 .. Len(stack) + 1
          /\ \A i \in 1 .. Len(stack) : stack'[i] = stack[i]
          /\ stack'[Len(stack) + 1] = c
      BY <1>3, <2>1, PushFacts
    <3>1. CASE n = c
      BY <3>0, <3>1
    <3>2. CASE n # c
      <4>1. n \in DOMAIN started /\ initializes[n] # NULL
        BY <1>3, <1>4, <1>5, <2>2, <2>3, <3>2 DEF c
      <4>2. n \in entered \/ \E i \in DOMAIN stack : stack[i] = n
        BY <4>1 DEF StartInv, Called
      <4> QED
        BY <1>6, <3>0, <4>2
    <3> QED
      BY <3>1, <3>2
  <2>7. Settled'
    BY <1>3, <1>4, <1>5, <2>2, <2>3 DEF StartInv, Settled, c
  <2> QED
    BY <1>1, <2>4, <2>5, <2>6, <2>7 DEF StartInv
<1>7. CASE UNCHANGED <<started, stack>>
  <2>1. Numbered'
    BY <1>2, <1>3, <1>4, <1>7 DEF StartInv, Numbered, c
  <2>2. OnTop'
    <3>1. \A i \in DOMAIN stack : stack[i] # Loop => stack[i] \in DOMAIN initializes
      BY <1>3, <1>4 DEF StartInv, Numbered, Loop
    <3> QED
      BY <1>4, <1>7, <3>1 DEF StartInv, OnTop
  <2>3. Called' /\ Settled'
    BY <1>4, <1>5, <1>7 DEF StartInv, Called, Settled
  <2> QED
    BY <1>1, <2>1, <2>2, <2>3 DEF StartInv
<1> QED
  BY <1>6, <1>7 DEF LTE_register_constructor, c

(* What the constructors have done stays done when the stack grows.        *)
LEMMA CalledGrows ==
  ASSUME StartInv, NEW c \in 0 .. MaxRegistrations, stack' = Append(stack, c),
         NEW m \in Nat, NEW m2 \in Nat, DOMAIN started = 1 .. m, DOMAIN started' = 1 .. m2,
         \A i \in DOMAIN stack : stack[i] \in 0 .. m,
         (m2 = m /\ c = Loop) \/ (m2 = m + 1 /\ c = m2),
         UNCHANGED <<initializes, entered>>
  PROVE  /\ Called'
         /\ \A i \in DOMAIN stack' : stack'[i] \in 0 .. m2
         /\ \A n \in DOMAIN started : n \in DOMAIN started'
<1> DEFINE l == Len(stack)
<1>1. /\ l \in Nat /\ DOMAIN stack = 1 .. l /\ DOMAIN stack' = 1 .. l + 1
      /\ \A i \in 1 .. l : stack'[i] = stack[i]
      /\ stack'[l + 1] = c
  BY PushFacts
<1> HIDE DEF l
<1>2. ASSUME NEW n \in DOMAIN started', initializes[n] # NULL
      PROVE  n \in entered \/ \E i \in DOMAIN stack' : stack'[i] = n
  <2>1. CASE n \in 1 .. m
    <3>1. n \in entered \/ \E i \in DOMAIN stack : stack[i] = n
      BY <1>2, <2>1 DEF StartInv, Called
    <3> QED
      BY <1>1, <3>1
  <2>2. CASE n \notin 1 .. m
    <3>1. n = c
      BY <2>2
    <3> QED
      BY <1>1, <3>1
  <2> QED
    BY <2>1, <2>2
<1>3. ASSUME NEW i \in DOMAIN stack' PROVE stack'[i] \in 0 .. m2
  <2>1. CASE i \in 1 .. l
    <3>1. stack[i] \in 0 .. m
      BY <1>1, <2>1
    <3> QED
      BY <1>1, <2>1, <3>1
  <2>2. CASE i \notin 1 .. l
    <3>1. stack'[i] = c
      BY <1>1, <2>2
    <3> QED
      BY <3>1 DEF Loop
  <2> QED
    BY <2>1, <2>2
<1>4. Called'
  BY <1>2 DEF Called
<1>5. \A n \in 1 .. m : n \in 1 .. m2
  OBVIOUS
<1> QED
  BY <1>3, <1>4, <1>5

LEMMA LTE_initStart == StartInv /\ LTE_init => StartInv'
<1> SUFFICES ASSUME StartInv, LTE_init PROVE StartInv'
  OBVIOUS
<1>1. /\ AnyCode /\ LTE_run_registered_constructors /\ IInv'
      /\ UNCHANGED <<pending, initializes, entered>>
  BY RunIInv DEF LTE_init, StartInv, classVars
<1>2. stack' = Append(stack, Loop) /\ UNCHANGED <<started, registrations>>
  BY <1>1 DEF LTE_run_registered_constructors
<1>3. Loop \in 0 .. MaxRegistrations
  BY DEF Loop
<1>4. OnTop'
  BY <1>1, <1>2, <1>3, PushOnTop DEF AnyCode, Running
<1>5. Called' /\ \A i \in DOMAIN stack' : stack'[i] \in 0 .. Len(started')
  <2>1. Len(started) \in Nat /\ DOMAIN started = 1 .. Len(started)
    BY LenProperties DEF StartInv, IInv, TypeOK
  <2>2. Len(started') = Len(started) /\ DOMAIN started' = 1 .. Len(started)
    BY <1>2, <2>1
  <2> QED
    BY <1>1, <1>2, <1>3, <2>1, <2>2, CalledGrows DEF StartInv, Numbered
<1>6. Numbered' /\ Settled'
  BY <1>1, <1>2, <1>5 DEF StartInv, Numbered, Settled
<1> QED
  BY <1>1, <1>4, <1>5, <1>6 DEF StartInv

LEMMA RunNextStart ==
  ASSUME StartInv, RunNext, UNCHANGED <<pending, initializes, entered>> PROVE StartInv'
<1>1. IInv' /\ UNCHANGED <<registrations, constructors>>
  BY RunNextIInv DEF StartInv, RunNext
<1> DEFINE c == constructors[run_count + 1]
<1>2. AtLoop /\ stack' = Append(stack, c) /\ started' = Append(started, c)
      /\ run_count < Len(constructors)
  BY DEF RunNext, Call
<1>3. ~ran /\ ~aborted /\ registrations = Len(constructors) /\ Len(started) = run_count
  BY <1>2 DEF StartInv, IInv, AfterRan, BeforeRan, TypeOK
<1>4. c = run_count + 1 /\ c \in 0 .. MaxRegistrations
  <2>1. /\ constructors \in Seq(1 .. MaxRegistrations) /\ run_count \in Nat
        /\ \A n \in DOMAIN constructors : constructors[n] = n
    BY DEF StartInv, IInv, TypeOK
  <2>2. run_count + 1 \in DOMAIN constructors /\ DOMAIN constructors = 1 .. Len(constructors)
    BY <1>2, <2>1, LenProperties
  <2>3. constructors[run_count + 1] \in 1 .. MaxRegistrations
    BY <2>1, <2>2, LenProperties, ElementOfSeq
  <2> QED
    BY <2>1, <2>2, <2>3
<1> HIDE DEF c
<1>5. /\ Len(started) \in Nat /\ Len(started') = Len(started) + 1 /\ c = Len(started')
      /\ Len(started') <= registrations
      /\ DOMAIN started = 1 .. Len(started) /\ DOMAIN started' = 1 .. Len(started')
  <2>1. started \in Seq(1 .. MaxRegistrations) /\ started' \in Seq(1 .. MaxRegistrations)
    BY <1>1 DEF StartInv, IInv, TypeOK
  <2>2. Len(started') = Len(started) + 1 /\ Len(started) \in Nat
    BY <1>2, <2>1
  <2>3. DOMAIN started = 1 .. Len(started) /\ DOMAIN started' = 1 .. Len(started')
    BY <2>1, LenProperties
  <2>4. Len(constructors) \in Nat
    BY LenProperties DEF StartInv, IInv, TypeOK
  <2> QED
    BY <1>2, <1>3, <1>4, <2>2, <2>3, <2>4
<1>6. OnTop'
  <2>1. Last(stack) = Loop
    BY <1>2 DEF AtLoop
  <2> QED
    BY <1>2, <1>4, <2>1, PushOnTop
<1>7. Called' /\ (\A i \in DOMAIN stack' : stack'[i] \in 0 .. Len(started'))
      /\ \A n \in DOMAIN started : n \in DOMAIN started'
  <2>1. Len(started') \in Nat
    BY <1>5
  <2> QED
    BY <1>1, <1>2, <1>4, <1>5, <2>1, CalledGrows DEF StartInv, Numbered
<1>8. Numbered'
  BY <1>1, <1>5, <1>7 DEF StartInv, Numbered
<1>9. Settled'
  BY <1>7 DEF StartInv, Settled
<1> QED
  BY <1>1, <1>6, <1>7, <1>8, <1>9 DEF StartInv

(* A return, of the loop or of a constructor that has made its call.       *)
LEMMA PopStart ==
  ASSUME StartInv, stack # <<>>, stack' = Front(stack), IInv',
         Last(stack) = Loop \/ initializes[Last(stack)] = NULL \/ Last(stack) \in entered,
         UNCHANGED <<pending, initializes, entered, started, registrations>>
  PROVE  StartInv'
<1>1. /\ Len(stack) \in Nat \ {0} /\ DOMAIN stack = 1 .. Len(stack)
      /\ Len(stack') = Len(stack) - 1 /\ DOMAIN stack' = 1 .. Len(stack) - 1
      /\ \A i \in 1 .. Len(stack) - 1 : stack'[i] = stack[i]
  BY PopFacts
<1>2. \A i \in DOMAIN stack' : i \in DOMAIN stack /\ stack'[i] = stack[i]
  BY <1>1
<1>3. Numbered'
  BY <1>2 DEF StartInv, Numbered
<1>4. OnTop'
  <2> SUFFICES ASSUME NEW i \in DOMAIN stack', stack'[i] # Loop
               PROVE  initializes[stack'[i]] = NULL
    BY DEF OnTop
  <2>1. i \in DOMAIN stack /\ i < Len(stack) /\ stack'[i] = stack[i]
    BY <1>1
  <2> QED
    BY <2>1 DEF StartInv, OnTop
<1>5. Called'
  <2> SUFFICES ASSUME NEW n \in DOMAIN started, initializes[n] # NULL, n \notin entered
               PROVE  \E i \in DOMAIN stack' : stack'[i] = n
    BY DEF Called
  <2>1. PICK i \in DOMAIN stack : stack[i] = n
    BY DEF StartInv, Called
  <2>2. n # Loop
    BY LenProperties DEF Loop, StartInv, IInv, TypeOK
  <2>3. i # Len(stack)
    BY <2>1, <2>2, TopFacts
  <2>4. i \in DOMAIN stack' /\ stack'[i] = stack[i]
    BY <1>1, <2>3
  <2> QED
    BY <2>1, <2>4
<1>6. Settled'
  BY DEF StartInv, Settled
<1> QED
  BY <1>3, <1>4, <1>5, <1>6 DEF StartInv

LEMMA EndLoopStart ==
  ASSUME StartInv, EndLoop, UNCHANGED <<pending, initializes, entered>> PROVE StartInv'
<1>1. IInv' /\ stack # <<>> /\ Last(stack) = Loop /\ stack' = Front(stack)
      /\ UNCHANGED <<started, registrations>>
  BY EndLoopIInv DEF StartInv, EndLoop, AtLoop
<1> QED
  BY <1>1, PopStart

LEMMA ReturnStart == StartInv /\ Return => StartInv'
<1> SUFFICES ASSUME StartInv, Return PROVE StartInv'
  OBVIOUS
<1>1. IInv' /\ stack # <<>> /\ stack' = Front(stack)
      /\ UNCHANGED <<pending, initializes, entered, started, registrations>>
  BY ReturnsIInv DEF StartInv, Return, ConstructorReturns, classVars
<1>2. initializes[Last(stack)] = NULL \/ Last(stack) \in entered
  BY <1>1 DEF Return, Running
<1> QED
  BY <1>1, <1>2, PopStart

(* A step of the initialization of a class; the constructor that makes the *)
(* call has its class off the list.                                        *)
LEMMA ClassStart ==
  ASSUME StartInv, UNCHANGED <<vars, initializes>>, pending' \subseteq pending,
         entered' = entered \/ /\ stack # <<>> /\ Last(stack) # Loop
                               /\ entered' = entered \cup {Last(stack)}
                               /\ initializes[Last(stack)] \notin pending'
  PROVE  StartInv'
<1>1. IInv'
  BY DEF StartInv, IInv, TypeOK, OnceInOrder, AfterRan, BeforeRan, AtLoop, vars, registry
<1>2. UNCHANGED <<stack, started, registrations>>
  BY DEF vars
<1>3. Numbered' /\ OnTop'
  BY <1>2 DEF StartInv, Numbered, OnTop
<1>4. entered \subseteq entered'
  OBVIOUS
<1>5. Called'
  BY <1>2, <1>4 DEF StartInv, Called
<1>6. Settled'
  <2>1. CASE entered' = entered
    BY <1>2, <2>1 DEF StartInv, Settled
  <2>2. CASE /\ stack # <<>> /\ Last(stack) # Loop
             /\ entered' = entered \cup {Last(stack)}
             /\ initializes[Last(stack)] \notin pending'
    <3>1. Last(stack) \in DOMAIN started
      BY <2>2, TopFacts, LenProperties DEF Loop, StartInv, IInv, TypeOK
    <3> QED
      BY <1>2, <2>2, <3>1 DEF StartInv, Settled
  <2> QED
    BY <2>1, <2>2
<1> QED
  BY <1>1, <1>3, <1>5, <1>6 DEF StartInv

(* The invariant of program start, and the step of the classes it makes.   *)
LEMMA StartStep == StartInv /\ [RuntimeNext]_runtimeVars => StartInv' /\ [CP!Next]_(CP!vars)
<1> SUFFICES ASSUME StartInv, [RuntimeNext]_runtimeVars
             PROVE  StartInv' /\ (CP!Next \/ UNCHANGED classVars)
  BY DEF classVars, CP!vars
<1> DEFINE Goal == StartInv' /\ (CP!Next \/ UNCHANGED classVars)
<1>1. ASSUME NEW k \in Native, RegisterClass(k) PROVE Goal
  BY <1>1, RegistersStart DEF RegisterClass, classVars
<1>2. CASE RegisterOther
  BY <1>2, RegistersStart DEF RegisterOther, classVars
<1>3. CASE LTE_init
  BY <1>3, LTE_initStart DEF LTE_init
<1>4. ASSUME NEW k \in Native, Classes!LTE_init_native_class(k) PROVE CP!Next
  BY <1>4, SameCall, SameConstants DEF CP!Next
<1>5. ASSUME NEW k \in Native, InitializeClass(k) PROVE Goal
  <2>1. Classes!LTE_init_native_class(k) /\ UNCHANGED <<vars, initializes, entered>>
    BY <1>5 DEF InitializeClass
  <2> QED
    BY <1>4, <2>1, PendingShrinks, ClassStart
<1>6. CASE ClassConstructor
  <2>1. /\ InUserCode /\ Running # NULL /\ Classes!LTE_init_native_class(Running)
        /\ entered' = entered \cup {Last(stack)} /\ UNCHANGED <<vars, initializes>>
    BY <1>6 DEF ClassConstructor
  <2>2. stack # <<>> /\ Running = initializes[Last(stack)] /\ Last(stack) # Loop
    BY <2>1 DEF Running, InUserCode, UserCode, AtLoop
  <2>3. PICK k \in Native : k = Running
    <3>1. Last(stack) \in 0 .. Len(started) /\ Last(stack) # 0
      BY <2>2, TopFacts DEF Loop
    <3>2. /\ initializes \in Seq(Native \cup {NULL}) /\ Len(initializes) = registrations
          /\ Len(started) <= registrations
          /\ Len(started) \in Nat /\ registrations \in Nat
      BY LenProperties DEF StartInv, Numbered, IInv, TypeOK
    <3>3. Last(stack) \in 1 .. Len(initializes)
      BY <3>1, <3>2
    <3>4. initializes[Last(stack)] \in Native \cup {NULL}
      BY <3>2, <3>3, ElementOfSeq
    <3> QED
      BY <2>1, <2>2, <3>4
  <2>4. Classes!LTE_init_native_class(k)
    BY <2>1, <2>3
  <2>5. pending' \subseteq pending /\ k \notin pending'
    BY <2>4, PendingShrinks DEF Classes!LTE_init_native_class, Classes!Called
  <2>6. StartInv'
    BY <2>1, <2>2, <2>3, <2>5, ClassStart
  <2> QED
    BY <1>4, <2>4, <2>6
<1>7. CASE Return
  BY <1>7, ReturnStart DEF Return
<1>8. CASE Initialize
  <2>1. Classes!Initialization /\ UNCHANGED <<vars, initializes, entered>>
    BY <1>8 DEF Initialize
  <2>2. StartInv'
    BY <2>1, PendingShrinks, ClassStart
  <2> QED
    BY <2>1, <2>2, SameInitialization DEF CP!Next
<1>9. CASE RunRegistered
  <2>1. (RunNext \/ EndLoop) /\ UNCHANGED <<classVars, initializes, entered>>
    BY <1>9 DEF RunRegistered
  <2>2. UNCHANGED <<pending, initializes, entered>>
    BY <2>1 DEF classVars
  <2> QED
    BY <2>1, <2>2, RunNextStart, EndLoopStart
<1>10. CASE UNCHANGED runtimeVars
  <2>1. UNCHANGED <<vars, classVars, initializes, entered>>
    BY <1>10 DEF runtimeVars
  <2>2. pending' \subseteq pending
    BY <2>1 DEF classVars
  <2> QED
    BY <2>1, <2>2, ClassStart
<1> QED
  BY <1>1, <1>2, <1>3, <1>5, <1>6, <1>7, <1>8, <1>9, <1>10 DEF RuntimeNext, Proceed

(* Program start implements the initialization of classes: the             *)
(* constructors of Class.h:127-129 are calls like any other.               *)
THEOREM ClassesImplemented == RuntimeSpec => []StartInv /\ CP!Spec
<1>1. RuntimeInit => StartInv /\ CP!Init
  BY InitStart, SameClassInit DEF RuntimeInit
<1> QED
  BY <1>1, StartStep, PTL DEF RuntimeSpec, CP!Spec

(* Whatever the order of the modules, code that may use a class whose      *)
(* constructor was registered before it, and the program after LTE_init,   *)
(* finds it initialized with all that it inherits (Class.h:117-131,        *)
(* design/classes.txt:3-9).                                                *)
THEOREM ReadyInAnyOrder == RuntimeSpec => []ClassesReady
<1>1. CP!Spec => []CP!Inherits
  <2>1. CP!CoreAssumption => (CP!HierarchiesAssumption => (CP!Spec => []CP!Inherits))
    BY CP!InheritsAlways, Zenon
  <2> QED
    BY <2>1, ClassAssumptions
<1>2. StartInv /\ CP!Inherits => ClassesReady
  <2> SUFFICES ASSUME StartInv, CP!Inherits, AnyCode,
                      NEW n \in EarlierOnes, initializes[n] # NULL
               PROVE  /\ initializes[n] \in Classes!Initialized
                      /\ Classes!Ordered(initializes[n]) => Classes!InheritsAll(initializes[n])
    BY DEF ClassesReady
  <2>1. /\ started \in Seq(1 .. MaxRegistrations) /\ Len(started) \in Nat
        /\ DOMAIN started = 1 .. Len(started)
        /\ initializes \in Seq(Native \cup {NULL}) /\ Len(initializes) = registrations
        /\ DOMAIN initializes = 1 .. registrations /\ Len(started) <= registrations
        /\ registrations \in Nat
    BY LenProperties DEF StartInv, Numbered, IInv, TypeOK
  <2>2. ~aborted /\ init_stack = <<>> /\ (stack # <<>> => Last(stack) # Loop /\ initializes[Last(stack)] = NULL)
    BY DEF AnyCode, InUserCode, UserCode, AtLoop, Running
  <2>3. n \in DOMAIN started /\ n # Loop /\ ~\E i \in DOMAIN stack : stack[i] = n
    <3>1. CASE stack # <<>>
      <4>1. n \in 1 .. Last(stack) - 1 /\ Last(stack) \in 0 .. Len(started)
        BY <3>1, TopFacts DEF EarlierOnes
      <4>2. n \in DOMAIN started /\ n # Loop /\ n # Last(stack)
        BY <2>1, <4>1 DEF Loop
      <4>3. ASSUME NEW i \in DOMAIN stack, stack[i] = n PROVE FALSE
        <5>1. i # Len(stack)
          BY <3>1, <4>2, <4>3, TopFacts
        <5>2. i < Len(stack)
          BY <3>1, <5>1, TopFacts
        <5> QED
          BY <4>2, <4>3, <5>2 DEF StartInv, OnTop
      <4> QED
        BY <4>2, <4>3
    <3>2. CASE stack = <<>>
      <4>1. ran /\ n \in DOMAIN initializes
        BY <3>2 DEF EarlierOnes
      <4>2. Len(started) = registrations
        BY <2>2, <4>1 DEF StartInv, IInv, AfterRan
      <4> QED
        BY <2>1, <3>2, <4>1, <4>2 DEF Loop
    <3> QED
      BY <3>1, <3>2
  <2>4. initializes[n] \in Native \ pending
    <3>1. n \in entered
      BY <2>3 DEF StartInv, Called
    <3>2. initializes[n] \in Native \cup {NULL}
      BY <2>1, <2>3, ElementOfSeq
    <3> QED
      BY <3>1, <3>2 DEF StartInv, Settled
  <2>5. Classes!InProgress = {}
    BY <2>2 DEF Classes!InProgress
  <2>6. initializes[n] \in Classes!Initialized
    BY <2>4, <2>5 DEF Classes!Initialized
  <2>7. Classes!Inherits
    BY SameProperties
  <2> QED
    BY <2>6, <2>7 DEF Classes!Inherits
<1> QED
  BY ClassesImplemented, <1>1, <1>2, PTL
===============================================================================
