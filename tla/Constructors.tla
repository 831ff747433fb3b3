----------------------------- MODULE Constructors -----------------------------
(***************************************************************************)
(* The constructor registry of src/utils.c and LTE_init.  Functions that   *)
(* initialize a module are registered before main, by other constructors   *)
(* and by modules loaded later; LTE_init runs those that wait.             *)
(*                                                                         *)
(* A constructor is named by its number in the order of registration: a    *)
(* function that is registered twice is two constructors.  stack is the    *)
(* call stack: the number of a constructor that runs, or Loop for          *)
(* LTE_run_registered_constructors; when it is empty, the program runs.    *)
(***************************************************************************)
EXTENDS Integers, SequencesExt

CONSTANTS
  Capacity,               \* LTE_REGISTERED_CONSTRUCTOR_CAPACITY: 256
  MaxRegistrations        \* bound: calls of LTE_register_constructor

ASSUME CapacityAssumption == Capacity \in Nat /\ MaxRegistrations \in Nat

VARIABLES
  constructors,           \* the registered constructors that had to wait
  run_count,              \* how many of them have been started
  running, ran,           \* the flags of the registry
  registrations,          \* how many there have been
  started,                \* the constructors in the order they were called
  stack,
  aborted

registry == <<constructors, run_count, running, ran>>
vars == <<registry, registrations, started, stack, aborted>>

Loop == 0

Init ==
  /\ constructors = <<>> /\ run_count = 0
  /\ running = FALSE /\ ran = FALSE
  /\ registrations = 0 /\ started = <<>>
  /\ stack = <<>>
  /\ aborted = FALSE

(* The code that runs is the program's or a constructor's own.             *)
AtLoop == stack # <<>> /\ Last(stack) = Loop
UserCode == ~aborted /\ ~AtLoop

Call(c) == started' = Append(started, c) /\ stack' = Append(stack, c)

RunsAtOnce_Eager == ~running          \* mutant: ran is not tested
RunsAtOnce == ran /\ ~running

FullLate == Len(constructors) > Capacity    \* mutant: off by one
Full == Len(constructors) >= Capacity

LTE_register_constructor ==
  LET c == registrations + 1
  IN  /\ UserCode
      /\ registrations < MaxRegistrations
      /\ registrations' = c
      /\ \/ /\ RunsAtOnce
            /\ Call(c)
            /\ UNCHANGED <<registry, aborted>>
         \/ /\ ~RunsAtOnce /\ Full
            /\ aborted' = TRUE
            /\ UNCHANGED <<registry, started, stack>>
         \/ /\ ~RunsAtOnce /\ ~Full
            /\ constructors' = Append(constructors, c)
            /\ UNCHANGED <<run_count, running, ran, started, stack, aborted>>

(* LTE_init, called by the program or by a constructor that needs others   *)
(* to have run; once ran is set it returns at once.                        *)
RunMarksRan ==                        \* mutant: ran = 1 before the loop
  /\ UserCode /\ ~ran
  /\ running' = TRUE /\ ran' = TRUE
  /\ stack' = Append(stack, Loop)
  /\ UNCHANGED <<constructors, run_count, registrations, started, aborted>>
LTE_run_registered_constructors ==
  /\ UserCode /\ ~ran
  /\ running' = TRUE
  /\ stack' = Append(stack, Loop)
  /\ UNCHANGED <<constructors, run_count, ran, registrations, started, aborted>>

RunSameAgain ==                       \* mutant: run_count++ is missing
  /\ AtLoop /\ run_count < Len(constructors)
  /\ Len(started) <= MaxRegistrations
  /\ Call(constructors[run_count + 1])
  /\ UNCHANGED <<registry, registrations, aborted>>
RunNext ==
  /\ AtLoop /\ run_count < Len(constructors)
  /\ run_count' = run_count + 1
  /\ Call(constructors[run_count + 1])
  /\ UNCHANGED <<constructors, running, ran, registrations, aborted>>

EndLoopStays ==                       \* mutant: > for >=
  /\ AtLoop /\ run_count > Len(constructors)
  /\ running' = FALSE /\ ran' = TRUE
  /\ stack' = Front(stack)
  /\ UNCHANGED <<constructors, run_count, registrations, started, aborted>>
EndLoop ==
  /\ AtLoop /\ run_count = Len(constructors)
  /\ running' = FALSE /\ ran' = TRUE
  /\ stack' = Front(stack)
  /\ UNCHANGED <<constructors, run_count, registrations, started, aborted>>

ConstructorReturns ==
  /\ UserCode /\ stack # <<>>
  /\ stack' = Front(stack)
  /\ UNCHANGED <<registry, registrations, started, aborted>>

Next ==
  \/ LTE_register_constructor \/ LTE_run_registered_constructors
  \/ RunNext \/ EndLoop \/ ConstructorReturns

Spec == Init /\ [][Next]_vars

(* The loop goes on, and every constructor returns in the end.             *)
FairSpec == Spec /\ WF_vars(RunNext \/ EndLoop \/ ConstructorReturns)

(***************************************************************************)
(* Properties.                                                             *)
(***************************************************************************)
(* Every variable keeps its type (utils.c:442-450).                        *)
TypeOK ==
  /\ constructors \in Seq(1 .. MaxRegistrations) /\ Len(constructors) <= Capacity
  /\ run_count \in 0 .. Len(constructors)
  /\ running \in BOOLEAN /\ ran \in BOOLEAN /\ aborted \in BOOLEAN
  /\ registrations \in 0 .. MaxRegistrations
  /\ started \in Seq(1 .. MaxRegistrations)
  /\ stack \in Seq(0 .. MaxRegistrations)

(* Constructors are called in the order of their registration and each of  *)
(* them once, also when they register others or call LTE_init themselves   *)
(* (utils.c:453-456, 465, 474-479).                                        *)
OnceInOrder == \A n \in DOMAIN started : started[n] = n

(* None is called before the program has called LTE_init (design/          *)
(* classes.txt:5-7).                                                       *)
NoneBeforeInit == stack = <<>> /\ ~ran => started = <<>>

(* Whenever LTE_init returns, also to a constructor that called it, every  *)
(* constructor registered so far has been called (utils.c:468-482).        *)
InitComplete == ran /\ ~aborted => Len(started) = registrations

(* LTE_init returns to the program.                                        *)
InitReturns == stack # <<>> ~> stack = <<>> \/ aborted
===============================================================================
