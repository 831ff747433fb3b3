----------------------------- MODULE ManagedHeap -----------------------------
(***************************************************************************)
(* What the collector of src/gc.c promises to the program that uses it,    *)
(* with no addresses, free list, mark bits or phases: a set of objects,    *)
(* the objects each one refers to (its class included), and the object     *)
(* each variable of the program refers to.  Either the program runs, or it *)
(* waits in LTE_gc_alloc or LTE_gc_collect.  Only the program that runs    *)
(* changes variables and what objects refer to.  While it waits, objects   *)
(* disappear, but only such as the program cannot reach; and as the last   *)
(* step of LTE_gc_alloc one appears, in the variable that waits for it.    *)
(***************************************************************************)
CONSTANTS
  Id,                           \* what an object can be named by
  Var,                          \* the variables of the program
  Nothing                       \* what a variable holds that holds no object

VARIABLES
  object,                       \* the objects that exist
  ref,                          \* ref[o]: the objects o refers to
  var,                          \* var[v]: the object that v refers to
  running,                      \* whether the program runs
  cls, dst                      \* what LTE_gc_alloc was called with: the class, if
                                \* it is an object, and the variable for the result

absVars == <<object, ref, var, running, cls, dst>>

(* The objects the program can reach: the members of every set of objects  *)
(* that holds the roots and is closed under references.                    *)
Root == Id \cap {var[v] : v \in Var}
ClosedUnderRef(S) == \A o \in S : ref[o] \subseteq S
Reachable ==
  {o \in object : \A S \in SUBSET object :
                    Root \subseteq S /\ ClosedUnderRef(S) => o \in S}

Init ==
  /\ object = {}
  /\ ref = [o \in Id |-> {}]
  /\ var = [v \in Var |-> Nothing]
  /\ running = TRUE /\ cls = {} /\ dst = Nothing

(* The program writes a variable, or a field of an object it reaches.      *)
Assign(v) ==
  /\ running
  /\ \E x \in Reachable \cup {Nothing} : var' = [var EXCEPT ![v] = x]
  /\ UNCHANGED <<object, ref, running, cls, dst>>

Write(o) ==
  /\ running
  /\ o \in Reachable
  /\ \E R \in SUBSET Reachable : ref' = [ref EXCEPT ![o] = R]
  /\ UNCHANGED <<object, var, running, cls, dst>>

(* The program calls, to have an object for v or to collect only.          *)
Allocate(v) ==
  /\ running
  /\ running' = FALSE /\ cls' \in SUBSET Reachable /\ dst' = v
  /\ UNCHANGED <<object, ref, var>>

Collect ==
  /\ running
  /\ running' = FALSE
  /\ UNCHANGED <<object, ref, var, cls, dst>>

(* An object the program cannot reach is reclaimed.                        *)
Reclaim(o) ==
  /\ ~running
  /\ o \in object \ Reachable
  /\ object' = object \ {o}
  /\ ref' = [ref EXCEPT ![o] = {}]
  /\ UNCHANGED <<var, running, cls, dst>>

(* The call returns: with a new object that refers to its class and to     *)
(* nothing else, with no object, or from a collection.                     *)
Return == ~running /\ running' = TRUE /\ cls' = {} /\ dst' = Nothing

New(o) ==
  /\ dst \in Var /\ o \in Id \ object
  /\ object' = object \cup {o}
  /\ ref' = [ref EXCEPT ![o] = cls]
  /\ var' = [var EXCEPT ![dst] = o]
  /\ Return

Fail ==
  /\ dst \in Var
  /\ var' = [var EXCEPT ![dst] = Nothing]
  /\ Return
  /\ UNCHANGED <<object, ref>>

CollectReturns ==
  /\ dst = Nothing
  /\ Return
  /\ UNCHANGED <<object, ref, var>>

Next ==
  \/ \E v \in Var : Assign(v) \/ Allocate(v)
  \/ \E o \in Id : Write(o) \/ Reclaim(o) \/ New(o)
  \/ Collect \/ Fail \/ CollectReturns

Spec == Init /\ [][Next]_absVars
=============================================================================
