---------------------------------- MODULE Gc ----------------------------------
(***************************************************************************)
(* The memory manager of src/gc.c: the block heap and its free list, root  *)
(* registration, LTE_gc_alloc with its collection policy, the mark phase   *)
(* and the sweep, together with the program that uses them.                *)
(*                                                                         *)
(* Memory is counted in words (sizeof(uintptr_t)).  Blocks start at the    *)
(* multiples of LTE_GC_ALIGNMENT_WORDS; the words of a block that the      *)
(* collector or a class reads are functions of the block's address:        *)
(*   hdr     word 0 without its mark bit: Free (zero), or the class        *)
(*   marked  the addresses whose word 0 has LTE_VALUE_MARK_BIT set         *)
(*   fsize   word 1 of a free record, its size                             *)
(*   iwords  word 3 of a class allocated on the heap, its instance_size    *)
(*   slot    the object references that the mark function of its class     *)
(*           passes to LTE_gc_mark_object                                  *)
(* The process is single threaded: while pc is not "run" the program waits *)
(* inside LTE_gc_alloc or LTE_gc_collect.                                  *)
(***************************************************************************)
EXTENDS Integers, SequencesExt

CONSTANTS
  HeapWords,      \* the size of the buffer given to LTE__gc_init
  StaticClass,    \* classes defined in C, outside the heap
  MetaClass,      \* the static class whose instances are classes
  StaticWords,    \* instance_size of each static class
  Tracing,        \* the static classes with a mark function
  ClassWords,     \* the instance sizes a program gives to classes it allocates
  Field,          \* the reference fields of an instance
  Locals,         \* the program's variables in stack frames
  Globals,        \* its other variables, traced only while registered
  Unscanned,      \* the locals mark_stack does not see: in callee-saved registers,
                  \* or in the frames of the callers of who calls LTE_gc_init
  StaleWords,     \* the addresses that words of the stack no longer in use may hold
  MaxRoots,       \* bound: nodes of the root list
  Free, Null      \* the zero header; any word that is not a heap pointer

LTE_GC_ALIGNMENT_WORDS == 4
FreeListNodeWords == 3
ObjectWords == 1

heap_size == (HeapWords \div LTE_GC_ALIGNMENT_WORDS) * LTE_GC_ALIGNMENT_WORDS
Addr == {a \in 0 .. heap_size - 1 : a % LTE_GC_ALIGNMENT_WORDS = 0}
Class == StaticClass \cup Addr
Var == Locals \cup Globals

ASSUME HeapAssumption == HeapWords \in Nat /\ heap_size >= LTE_GC_ALIGNMENT_WORDS
ASSUME ClassAssumption ==
  /\ StaticClass \cap Addr = {}
  /\ MetaClass \in StaticClass
  /\ Tracing \subseteq StaticClass \ {MetaClass}
  /\ StaticWords \in [StaticClass -> Nat \ {0}]
  /\ ClassWords \subseteq Nat \ {0}
ASSUME VarAssumption ==
  Unscanned \subseteq Locals /\ MaxRoots \in Nat /\ StaleWords \subseteq Addr
ASSUME NullAssumption == Null \notin Addr \cup Var /\ Free \notin Class

VARIABLES
  blocks,                    \* the addresses where a block starts
  hdr, marked, fsize, iwords, slot,
  free_list,                 \* the addresses linked from free_list_head
  allocated_since_last_gc,
  root_list,                 \* the registered locations, latest first
  val,                       \* what each variable of the program holds
  pc,                        \* which step of gc.c runs next, or "run"
  ret,                       \* where LTE_gc_collect returns to
  request,                   \* the arguments of the LTE_gc_alloc in progress
  gray,                      \* values mark_object still has to be called with
  current                    \* the sweep's cursor

memory == <<blocks, hdr, fsize, iwords, slot>>
program == <<root_list, val>>
control == <<pc, ret, request>>
collector == <<marked, gray, current>>
vars == <<memory, free_list, allocated_since_last_gc, program, control, collector>>

(***************************************************************************)
(* Objects, their sizes and their references.                              *)
(***************************************************************************)
align_size(w) ==
  ((w + LTE_GC_ALIGNMENT_WORDS - 1) \div LTE_GC_ALIGNMENT_WORDS) * LTE_GC_ALIGNMENT_WORDS

instance_size(c) == IF c \in StaticClass THEN StaticWords[c] ELSE iwords[c]

class_instance_size(c) ==
  LET size == align_size(instance_size(c))
  IN  IF size < FreeListNodeWords THEN align_size(FreeListNodeWords) ELSE size

Size(a) == IF hdr[a] = Free THEN fsize[a] ELSE class_instance_size(hdr[a])

Object == {a \in blocks : hdr[a] # Free}
FreeRecord == {a \in blocks : hdr[a] = Free}

(* A class built on the heap gets its mark function with its size; the     *)
(* class of classes has none (tests/smoke_test.c).                         *)
Traces(c) == c \in Tracing \cup Addr

(* The heap objects that marking o goes on to: its class, then whatever    *)
(* the mark function of its class passes on.                               *)
Refs_NoClass(o) ==                    \* mutant: mark_object(cls) is missing
  Addr \cap (IF Traces(hdr[o]) THEN {slot[o][f] : f \in Field} ELSE {})
Refs(o) ==
  Addr \cap ({hdr[o]} \cup (IF Traces(hdr[o]) THEN {slot[o][f] : f \in Field} ELSE {}))

(* The variables whose value the program may use, and those of them that   *)
(* mark_stack and the root list let the collector see.                     *)
Usable == Locals \cup Range(root_list)
Scanned == (Locals \ Unscanned) \cup Range(root_list)
Roots == Addr \cap {val[v] : v \in Scanned}

HeldClass(c) ==
  \/ c \in StaticClass
  \/ c \in Addr /\ hdr[c] = MetaClass /\ \E v \in Usable : val[v] = c

Emptied == [f \in Field |-> Null]
NoRequest == [cls |-> MetaClass, dst |-> Null]

Init ==                                               \* LTE__gc_init
  /\ blocks = {0}
  /\ hdr = [a \in Addr |-> Free]
  /\ fsize = [a \in Addr |-> IF a = 0 THEN heap_size ELSE 0]
  /\ iwords = [a \in Addr |-> 0]
  /\ slot = [a \in Addr |-> Emptied]
  /\ free_list = <<0>>
  /\ allocated_since_last_gc = 0
  /\ root_list = <<>>
  /\ val = [v \in Var |-> Null]
  /\ pc = "run" /\ ret = "run"
  /\ request = NoRequest
  /\ marked = {} /\ gray = {} /\ current = 0

(***************************************************************************)
(* The program.  It computes with the values its usable variables hold and *)
(* the fields of the objects they refer to.                                *)
(***************************************************************************)
Instances == {o \in Addr : Traces(hdr[o]) /\ \E v \in Usable : val[v] = o}
Readable ==
  {Null} \cup {val[v] : v \in Usable} \cup {slot[o][f] : o \in Instances, f \in Field}

Assign(v) ==
  /\ pc = "run"
  /\ v \in Usable
  /\ \E x \in Readable : val' = [val EXCEPT ![v] = x]
  /\ UNCHANGED <<memory, free_list, allocated_since_last_gc, root_list, control, collector>>

Store(o, f) ==
  /\ pc = "run"
  /\ o \in Instances
  /\ \E x \in Readable : slot' = [slot EXCEPT ![o][f] = x]
  /\ UNCHANGED <<blocks, hdr, fsize, iwords, free_list, allocated_since_last_gc,
                 program, control, collector>>

(* The program completes a class it has allocated: instance_size and mark. *)
(* It does so once, before it makes instances of the class.                *)
DefineClass(c, w) ==
  /\ pc = "run"
  /\ c \in Addr /\ HeldClass(c) /\ iwords[c] = 0
  /\ iwords' = [iwords EXCEPT ![c] = w]
  /\ UNCHANGED <<blocks, hdr, fsize, slot, free_list, allocated_since_last_gc,
                 program, control, collector>>

LTE_gc_register_root(v) ==
  /\ pc = "run"
  /\ Len(root_list) < MaxRoots
  /\ root_list' = <<v>> \o root_list
  /\ UNCHANGED <<memory, free_list, allocated_since_last_gc, val, control, collector>>

(* The first node for v leaves the list.  A program does not use a global  *)
(* it no longer registers: it is Null until it is registered again.        *)
FirstRoot(v, i) == root_list[i] = v /\ \A j \in 1 .. i - 1 : root_list[j] # v
UnregisterRoot(v, rest) ==
  /\ pc = "run"
  /\ root_list' = rest
  /\ val' = IF v \in Locals \cup Range(rest) THEN val ELSE [val EXCEPT ![v] = Null]
  /\ UNCHANGED <<memory, free_list, allocated_since_last_gc, control, collector>>
UnregisterLosesHead(v) ==             \* mutant: prev is not relinked
  \E i \in DOMAIN root_list :
    FirstRoot(v, i) /\ UnregisterRoot(v, SubSeq(root_list, i + 1, Len(root_list)))
LTE_gc_unregister_root(v) ==
  \E i \in DOMAIN root_list : FirstRoot(v, i) /\ UnregisterRoot(v, RemoveAt(root_list, i))

(***************************************************************************)
(* LTE_gc_collect up to its mark phase: mark_object will be called with    *)
(* every root; k says where the collection returns to.  mark_stack takes   *)
(* every word of the stack for a reference: those of frames and variables  *)
(* that are no longer in use hold what they held when they were, perhaps   *)
(* the address of a block that was reclaimed since.  (A word that refers   *)
(* to the inside of a block is left out.)                                  *)
(***************************************************************************)
StartCollect(k) ==
  /\ pc' = "mark" /\ ret' = k
  /\ \E stale \in SUBSET (StaleWords \cap blocks) : gray' = Roots \cup stale
  /\ UNCHANGED <<marked, current>>

LTE_gc_collect ==
  /\ pc = "run"
  /\ StartCollect("run")
  /\ UNCHANGED <<memory, free_list, allocated_since_last_gc, program, request>>

(***************************************************************************)
(* LTE_gc_alloc.  It collects first when more than half the heap has been  *)
(* allocated since the last collection; then AllocateObject runs, once     *)
(* more after a second collection if no record was large enough.           *)
(***************************************************************************)
CollectionDue == allocated_since_last_gc > heap_size \div 2

LTE_gc_alloc(c, v) ==
  /\ pc = "run"
  /\ v \in Usable /\ HeldClass(c)
  /\ request' = [cls |-> c, dst |-> v]
  /\ IF CollectionDue THEN StartCollect("first")
     ELSE pc' = "first" /\ UNCHANGED <<ret, collector>>
  /\ UNCHANGED <<memory, free_list, allocated_since_last_gc, program>>

(* LTE_gc_alloc returns x: the variable that waits for it receives it.     *)
Return(x) ==
  /\ val' = [val EXCEPT ![request.dst] = x]
  /\ pc' = "run" /\ request' = NoRequest
  /\ UNCHANGED <<root_list, ret, collector>>

Fitting(size) == {i \in DOMAIN free_list : fsize[free_list[i]] >= size}
SplitsLate(a, size) == fsize[a] > size + 2 * FreeListNodeWords     \* mutant
Splits(a, size) == fsize[a] > size + FreeListNodeWords

(* memset(a, 0, size), for the word of each address that field describes.  *)
Memset_Over(field, a, size, zero) ==  \* mutant: one word too many
  [b \in Addr |-> IF a <= b /\ b < a + size + 1 THEN zero ELSE field[b]]
Memset(field, a, size, zero) ==
  [b \in Addr |-> IF a <= b /\ b < a + size THEN zero ELSE field[b]]

(* allocate_object unlinks the i-th record, the first that fits, or leaves *)
(* what remains of it in its place; LTE_gc_alloc clears the block, gives   *)
(* it its class and returns it.                                            *)
AllocateObject(i, c, size) ==
  LET a == free_list[i]
      rest == a + size
  IN  /\ IF Splits(a, size)
         THEN /\ blocks' = blocks \cup {rest}
              /\ fsize' = [Memset(fsize, a, size, 0) EXCEPT ![rest] = fsize[a] - size]
              /\ hdr' = [Memset(hdr, a, size, Free) EXCEPT ![rest] = Free, ![a] = c]
              /\ free_list' = [free_list EXCEPT ![i] = rest]
         ELSE /\ free_list' = RemoveAt(free_list, i)
              /\ fsize' = Memset(fsize, a, size, 0)
              /\ hdr' = [Memset(hdr, a, size, Free) EXCEPT ![a] = c]
              /\ UNCHANGED blocks
      /\ slot' = Memset(slot, a, size, Emptied)
      /\ iwords' = Memset(iwords, a, size, 0)
      /\ allocated_since_last_gc' = allocated_since_last_gc + size
      /\ Return(a)

AllocBadClass ==                                (* "Invalid class instance size" *)
  /\ pc = "first"
  /\ instance_size(request.cls) < ObjectWords
  /\ pc' = "error"
  /\ UNCHANGED <<memory, free_list, allocated_since_last_gc, program, ret, request, collector>>

AllocFits ==
  LET size == class_instance_size(request.cls)
  IN  /\ pc \in {"first", "second"}
      /\ instance_size(request.cls) >= ObjectWords
      /\ \E i \in Fitting(size) :
           /\ \A j \in Fitting(size) : i <= j
           /\ AllocateObject(i, request.cls, size)

AllocRetry ==
  /\ pc = "first"
  /\ instance_size(request.cls) >= ObjectWords
  /\ Fitting(class_instance_size(request.cls)) = {}
  /\ StartCollect("second")
  /\ UNCHANGED <<memory, free_list, allocated_since_last_gc, program, request>>

AllocFails ==                                                  (* LTE_INVALID *)
  /\ pc = "second"
  /\ Fitting(class_instance_size(request.cls)) = {}
  /\ Return(Null)
  /\ UNCHANGED <<memory, free_list, allocated_since_last_gc>>

(***************************************************************************)
(* The mark phase.  gray holds the arguments of the calls of mark_object   *)
(* that are still to be made; which of them comes first does not matter    *)
(* to anything below, so the order of roots and recursion is left open.    *)
(***************************************************************************)
MarkAgain(o) ==                       \* mutant: the mark bit is not tested
  /\ pc = "mark"
  /\ o \in gray
  /\ gray' = (gray \ {o}) \cup Refs(o) /\ marked' = marked \cup {o}
  /\ UNCHANGED <<memory, free_list, allocated_since_last_gc, program, control, current>>
mark_object(o) ==
  /\ pc = "mark"
  /\ o \in gray
  /\ IF hdr[o] = Free \/ o \in marked
     THEN gray' = gray \ {o} /\ UNCHANGED marked
     ELSE gray' = (gray \ {o}) \cup Refs(o) /\ marked' = marked \cup {o}
  /\ UNCHANGED <<memory, free_list, allocated_since_last_gc, program, control, current>>

SweepKeepsList ==                     \* mutant: free_list_head = NULL is missing
  /\ pc = "mark"
  /\ gray = {}
  /\ pc' = "sweep" /\ current' = 0
  /\ UNCHANGED <<memory, free_list, allocated_since_last_gc, program, ret, request, marked, gray>>
StartSweep ==
  /\ pc = "mark"
  /\ gray = {}
  /\ pc' = "sweep" /\ current' = 0
  /\ free_list' = <<>>
  /\ UNCHANGED <<memory, allocated_since_last_gc, program, ret, request, marked, gray>>

(***************************************************************************)
(* The sweep, one action for each way through the body of its loops.  A    *)
(* size that does not fit is a corrupt heap: LTE_error aborts the program. *)
(***************************************************************************)
StrictSound(o) ==                     \* mutant: >= heap_end
  instance_size(hdr[o]) >= ObjectWords /\ o + class_instance_size(hdr[o]) < heap_size
SoundObject(o) ==
  instance_size(hdr[o]) >= ObjectWords /\ o + class_instance_size(hdr[o]) <= heap_size
SoundRecord(a) == fsize[a] > 0 /\ a + fsize[a] <= heap_size

SweepLeavesMark ==                    \* mutant: the mark bit stays set
  /\ pc = "sweep" /\ current \in Object \cap marked
  /\ IF SoundObject(current)
     THEN current' = current + class_instance_size(hdr[current]) /\ UNCHANGED pc
     ELSE pc' = "corrupt" /\ UNCHANGED current
  /\ UNCHANGED <<memory, free_list, allocated_since_last_gc, program, ret, request, marked, gray>>
SweepMarked ==
  /\ pc = "sweep" /\ current \in Object \cap marked
  /\ IF SoundObject(current)
     THEN /\ marked' = marked \ {current}
          /\ current' = current + class_instance_size(hdr[current])
          /\ UNCHANGED pc
     ELSE pc' = "corrupt" /\ UNCHANGED <<marked, current>>
  /\ UNCHANGED <<memory, free_list, allocated_since_last_gc, program, ret, request, gray>>

(* The finalizer of the class runs here, then words 0 to 2 of the object   *)
(* become a free record and its fields are lost.  The class may have       *)
(* become one already: its instance_size, in word 3, can still be read.    *)
SweepUnmarked ==
  /\ pc = "sweep" /\ current \in Object \ marked
  /\ IF SoundObject(current)
     THEN /\ hdr' = [hdr EXCEPT ![current] = Free]
          /\ fsize' = [fsize EXCEPT ![current] = class_instance_size(hdr[current])]
          /\ slot' = [slot EXCEPT ![current] = Emptied]
          /\ pc' = "coalesce"
     ELSE pc' = "corrupt" /\ UNCHANGED <<hdr, fsize, slot>>
  /\ UNCHANGED <<blocks, iwords, free_list, allocated_since_last_gc, program,
                 ret, request, collector>>

SweepFree ==
  /\ pc = "sweep" /\ current \in FreeRecord
  /\ pc' = IF SoundRecord(current) THEN "coalesce" ELSE "corrupt"
  /\ UNCHANGED <<memory, free_list, allocated_since_last_gc, program, ret, request, collector>>

next_block == current + fsize[current]
NextIsFree == next_block < heap_size /\ hdr[next_block] = Free

(* The inner loop: a following block whose header is zero by now is merged.*)
CoalesceNext ==
  /\ pc = "coalesce" /\ NextIsFree
  /\ IF SoundRecord(next_block)
     THEN /\ fsize' = [fsize EXCEPT ![current] = fsize[current] + fsize[next_block]]
          /\ blocks' = blocks \ {next_block}
          /\ UNCHANGED pc
     ELSE pc' = "corrupt" /\ UNCHANGED <<fsize, blocks>>
  /\ UNCHANGED <<hdr, iwords, slot, free_list, allocated_since_last_gc, program,
                 ret, request, collector>>

append_free_node ==
  /\ pc = "coalesce" /\ ~NextIsFree
  /\ free_list' = Append(free_list, current)
  /\ current' = next_block
  /\ pc' = "sweep"
  /\ UNCHANGED <<memory, allocated_since_last_gc, program, ret, request, marked, gray>>

CollectKeepsCount ==                  \* mutant: the counter is not reset
  /\ pc = "sweep" /\ current = heap_size
  /\ pc' = ret /\ ret' = "run" /\ current' = 0
  /\ UNCHANGED <<memory, free_list, allocated_since_last_gc, program, request, marked, gray>>
EndCollect ==
  /\ pc = "sweep" /\ current = heap_size
  /\ allocated_since_last_gc' = 0
  /\ pc' = ret /\ ret' = "run" /\ current' = 0
  /\ UNCHANGED <<memory, free_list, program, request, marked, gray>>

Mutator ==
  \/ \E v \in Var : Assign(v) \/ LTE_gc_register_root(v) \/ LTE_gc_unregister_root(v)
  \/ \E o \in Addr, f \in Field : Store(o, f)
  \/ \E c \in Addr, w \in ClassWords : DefineClass(c, w)
  \/ \E c \in Class, v \in Var : LTE_gc_alloc(c, v)
  \/ LTE_gc_collect

MemoryManager ==
  \/ AllocBadClass \/ AllocFits \/ AllocRetry \/ AllocFails
  \/ \E o \in Addr : mark_object(o)
  \/ StartSweep \/ SweepMarked \/ SweepUnmarked \/ SweepFree
  \/ CoalesceNext \/ append_free_node \/ EndCollect

Next == Mutator \/ MemoryManager

Spec == Init /\ [][Next]_vars

(* gc.c runs to completion: a step it can take is eventually taken.        *)
FairSpec == Spec /\ WF_vars(MemoryManager)

(***************************************************************************)
(* Properties.                                                             *)
(***************************************************************************)
(* Every variable keeps its type (gc.c:13-30, 167-171).                    *)
TypeOK ==
  /\ blocks \subseteq Addr
  /\ hdr \in [Addr -> Class \cup {Free}]
  /\ fsize \in [Addr -> 0 .. heap_size]
  /\ iwords \in [Addr -> ClassWords \cup {0}]
  /\ slot \in [Addr -> [Field -> Addr \cup {Null}]]
  /\ free_list \in Seq(Addr)
  /\ allocated_since_last_gc \in Nat
  /\ root_list \in Seq(Var)
  /\ val \in [Var -> Addr \cup {Null}]
  /\ pc \in {"run", "first", "second", "mark", "sweep", "coalesce", "error", "corrupt"}
  /\ ret \in {"run", "first", "second"}
  /\ request \in [cls : Class, dst : Var \cup {Null}]
  /\ marked \subseteq Addr
  /\ gray \subseteq Addr
  /\ current \in Addr \cup {heap_size}

(* The blocks tile the heap: the walk of sweep(), which finds the next     *)
(* header by adding a block's size to its address, meets every block and   *)
(* nothing else (gc.c:111-164), whatever was allocated, split, freed and   *)
(* merged before.                                                          *)
BlocksTileHeap ==
  /\ 0 \in blocks
  /\ \A a \in blocks :
       LET end == a + Size(a)
       IN  /\ Size(a) > 0
           /\ end \in blocks \cup {heap_size}
           /\ \A b \in blocks : b <= a \/ b >= end

(* The free list holds the free records in address order and only those;   *)
(* during the sweep, those the sweep has passed (gc.c:96-104, 218-248).    *)
Listed ==
  IF pc \in {"sweep", "coalesce"} THEN {a \in FreeRecord : a < current} ELSE FreeRecord
FreeListExact ==
  /\ Range(free_list) = Listed
  /\ \A i, j \in DOMAIN free_list : i < j => free_list[i] < free_list[j]

(* The sweep never reports a corrupt block (gc.c:120-122, 129-131, 155).   *)
NeverCorrupt == pc # "corrupt"

(* Outside a sweep every object there is; during one, the objects it has   *)
(* kept or will keep.                                                      *)
Kept ==
  IF pc \in {"sweep", "coalesce"}
  THEN {o \in Object : o < current \/ o \in marked}
  ELSE Object

(* What o refers to: its class and its fields, traced or not.              *)
Holds(o) == Addr \cap ({hdr[o]} \cup Range(slot[o]))

(* No dangling reference: no variable that the program may use refers to   *)
(* an object that is reclaimed, nor does a field or the class of one that  *)
(* survives (gc.c:74-94, 173-192).                                         *)
NoDangling ==
  /\ Addr \cap {val[v] : v \in Usable} \subseteq Kept
  /\ \A o \in Kept : Holds(o) \subseteq Kept

(* The collector implements its promise: an object disappears only when    *)
(* the program cannot reach it, and while the program waits, no variable   *)
(* changes but the one for the result, and nothing that an object refers   *)
(* to (gc.c:74-165, 182-192, 218-268).                                     *)
Promise ==
  INSTANCE ManagedHeap WITH
    Id <- Addr,
    Nothing <- Null,
    object <- Object,
    ref <- [a \in Addr |-> IF a \in Object THEN Holds(a) ELSE {}],
    var <- val,
    running <- pc = "run",
    cls <- Addr \cap {request.cls},
    dst <- request.dst
PromiseKept == Promise!Spec

(* What the program cannot reach is gone when a collection ends, so that   *)
(* LTE_gc_alloc never fails for garbage it could have reclaimed            *)
(* (gc.c:257-262), unless a stale word of the stack leads to it.           *)
LeadTo(S, o) ==
  \A T \in SUBSET Object : Object \cap S \subseteq T /\ Promise!ClosedUnderRef(T) => o \in T
GarbageReclaimed ==
  (pc = "sweep" /\ current = heap_size) \/ pc = "second" =>
    \A o \in Object : LeadTo({val[v] : v \in Usable} \cup StaleWords, o)

(* The counter that decides when to collect counts words of blocks that    *)
(* are still allocated: it cannot outgrow the heap (gc.c:251, 266, 191).   *)
WordsOf(o) == o .. o + Size(o) - 1
AllocatedWords == UNION {WordsOf(o) : o \in Object}
CounterBounded ==
  pc \in {"run", "first", "second"} => allocated_since_last_gc <= Cardinality(AllocatedWords)

(* design/gcd-heap.txt:10-12: the scan that deallocates the non-marked     *)
(* objects also coalesces adjacent free space records.                     *)
SweepCoalesces ==
  pc = "sweep" /\ current = heap_size =>
    \A a \in FreeRecord : a + fsize[a] \notin FreeRecord

(* LTE_gc_alloc and LTE_gc_collect return to the program, or abort it.     *)
GcReturns == pc # "run" ~> pc \in {"run", "error"}
=============================================================================
