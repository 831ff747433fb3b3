-------------------------------- MODULE Runtime --------------------------------
(***************************************************************************)
(* Program start: the registry of constructors with the constructors that  *)
(* LTE_DEFINE_CLASS makes (Class.h:117-131), each of which initializes its *)
(* class.  Modules are linked, and their constructors registered, in any   *)
(* order; other constructors, and the program itself, initialize classes   *)
(* they need earlier with a call of LTE_init_native_class.                 *)
(***************************************************************************)
EXTENDS Constructors

CONSTANTS Native, Object, Class, ClassSlots, SlotName, Default, NULL, Hierarchies

VARIABLES
  descriptor, pending, hash, slots, core_class_cycle_finalized,
  init_stack,             \* the calls of LTE_init_native_class in progress
  initializes,            \* the class each constructor is for, NULL for others
  entered                 \* the constructors of classes that have made their call

Classes == INSTANCE NativeClass WITH stack <- init_stack

(* The assumptions of NativeClass.                                         *)
ASSUME HierarchyAssumption ==
  /\ Classes!Core \cap Native = {} /\ Object # Class
  /\ Classes!Base \cap {Classes!meta(c) : c \in Classes!Base} = {}
  /\ NULL \notin Classes!AnyClass /\ Default \notin Classes!AnyClass \cup {NULL}
  /\ ClassSlots \subseteq SlotName
  /\ Hierarchies \subseteq [Native -> Classes!Descriptor]

classVars == <<descriptor, pending, hash, slots, core_class_cycle_finalized, init_stack>>
runtimeVars == <<vars, classVars, initializes, entered>>

RuntimeInit == Init /\ Classes!Init /\ initializes = <<>> /\ entered = {}

(* The code that runs is the program or a constructor, not LTE_init and    *)
(* not LTE_init_native_class; Running is the class it is the constructor   *)
(* of, NULL for code that may do anything.                                 *)
InUserCode == UserCode /\ init_stack = <<>>
Running == IF stack = <<>> THEN NULL ELSE initializes[Last(stack)]
AnyCode == InUserCode /\ Running = NULL

RegisterClass(k) ==
  /\ AnyCode /\ k \notin Range(initializes)
  /\ LTE_register_constructor
  /\ initializes' = Append(initializes, k)
  /\ UNCHANGED <<classVars, entered>>

RegisterOther ==
  /\ AnyCode
  /\ LTE_register_constructor
  /\ initializes' = Append(initializes, NULL)
  /\ UNCHANGED <<classVars, entered>>

LTE_init ==
  /\ AnyCode
  /\ LTE_run_registered_constructors
  /\ UNCHANGED <<classVars, initializes, entered>>

InitializeClass(k) ==
  /\ AnyCode
  /\ Classes!LTE_init_native_class(k)
  /\ UNCHANGED <<vars, initializes, entered>>

(* LTE___init_<class>: one call, then it returns.                          *)
ClassConstructor ==
  /\ InUserCode /\ Running # NULL /\ Last(stack) \notin entered
  /\ Classes!LTE_init_native_class(Running)
  /\ entered' = entered \cup {Last(stack)}
  /\ UNCHANGED <<vars, initializes>>

Return_Early ==                       \* mutant: the constructor makes no call
  /\ InUserCode
  /\ ConstructorReturns
  /\ UNCHANGED <<classVars, initializes, entered>>
Return ==
  /\ InUserCode /\ (Running # NULL => Last(stack) \in entered)
  /\ ConstructorReturns
  /\ UNCHANGED <<classVars, initializes, entered>>

Initialize == Classes!Initialization /\ UNCHANGED <<vars, initializes, entered>>
RunRegistered == (RunNext \/ EndLoop) /\ UNCHANGED <<classVars, initializes, entered>>

Proceed == ClassConstructor \/ Return \/ Initialize \/ RunRegistered

RuntimeNext ==
  \/ \E k \in Native : RegisterClass(k) \/ InitializeClass(k)
  \/ RegisterOther \/ LTE_init
  \/ Proceed

RuntimeSpec == RuntimeInit /\ [][RuntimeNext]_runtimeVars
(* Nothing that has been called waits.                                     *)
FairRuntimeSpec == RuntimeSpec /\ WF_runtimeVars(Proceed)

-------------------------------------------------------------------------------
(* Whatever the order of the modules: a constructor that may run any code  *)
(* finds each class initialized whose constructor was registered before    *)
(* it, and the program, once LTE_init has returned, all of them, those of  *)
(* modules loaded later included; and an initialized class has what its    *)
(* descriptor and its ancestors say, which no order enters                 *)
(* (design/classes.txt:3-9).                                               *)
EarlierOnes ==
  IF stack # <<>> THEN 1 .. Last(stack) - 1 ELSE IF ran THEN DOMAIN initializes ELSE {}
ClassesReady ==
  AnyCode =>
    \A k \in {initializes[n] : n \in EarlierOnes} \ {NULL} :
      /\ k \in Classes!Initialized
      /\ Classes!Ordered(k) => Classes!InheritsAll(k)
===============================================================================
