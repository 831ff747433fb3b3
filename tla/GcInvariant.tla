------------------------------ MODULE GcInvariant ------------------------------
(***************************************************************************)
(* The inductive invariant of Gc.  The layout of memory cannot be shown    *)
(* alone: an object's size is a word of its class, which must not be       *)
(* reclaimed before it, and that nothing referred to is reclaimed depends  *)
(* on what the mark phase has reached so far.                              *)
(***************************************************************************)
EXTENDS Gc

(* Sizes of free records are aligned; every object has a class with a size.*)
Aligned == \A a \in Addr : fsize[a] % 4 = 0
Sized == \A o \in Object : instance_size(hdr[o]) >= ObjectWords
Layout == Aligned /\ BlocksTileHeap /\ Sized

(* The references in the variables the program may use.                   *)
Held == Addr \cap {val[v] : v \in Usable}
Collecting == pc \in {"mark", "sweep", "coalesce"}

(* The sweep's cursor is at a block or at the end of the heap.             *)
Cursor ==
  /\ pc = "sweep" => current \in blocks \cup {heap_size}
  /\ pc = "coalesce" => current \in FreeRecord

(* Only objects whose class has a mark function hold references.           *)
Untraced ==
  \A o \in Object : hdr[o] \in StaticClass \ Tracing => \A f \in Field : slot[o][f] = Null

(* Everything that is marked is an object, and what waits to be starts a   *)
(* block, although a stale word may refer to a free record; while marking, *)
(* what a marked object refers to is marked or waits to be; the sweep has  *)
(* cleared the marks behind it.                                            *)
Marking ==
  /\ marked \subseteq Object /\ gray \subseteq blocks
  /\ pc # "mark" => gray = {}
  /\ ~Collecting => marked = {}
  /\ pc = "mark" => /\ Held \subseteq marked \cup gray
                    /\ \A o \in marked : Holds(o) \subseteq marked \cup gray
  /\ pc \in {"sweep", "coalesce"} => \A o \in marked : o >= current

(* The class of an allocation in progress is held by the program.          *)
Requested ==
  /\ request.cls \in StaticClass \cup Held
  /\ IF pc = "run" \/ (Collecting /\ ret = "run")
     THEN request = NoRequest
     ELSE request.dst \in Usable

(* A variable the program may not use holds nothing.                       *)
UnusedNull == \A v \in Var \ Usable : val[v] = Null

(* The invariant that every step of Gc preserves, if Unscanned is empty:  *)
(* gc.c:36-268 keeps memory, free list, marks and roots consistent.        *)
IInv ==
  /\ TypeOK /\ Layout /\ FreeListExact /\ Cursor /\ NeverCorrupt
  /\ Untraced /\ NoDangling /\ Marking /\ Requested /\ UnusedNull
================================================================================
