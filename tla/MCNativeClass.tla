----------------------------- MODULE MCNativeClass -----------------------------
EXTENDS NativeClass
CONSTANTS p, q, r

(* Descriptors of a class with superclass s.  The superclass of its        *)
(* metaclass is Class or the metaclass of s; a root has neither.           *)
With(s) ==
  [superclass : {s}, metaclass_superclass : IF s = NULL THEN {NULL} ELSE {Class, meta(s)},
   own_hash : BOOLEAN, own_slots : {{}, {"s"}, {"t"}}]

(* Families in which q may inherit from p, and r from either.              *)
Families ==
  {(p :> dp) @@ (q :> dq) @@ (r :> dr) :
     dp \in With(Object) \cup With(NULL), dq \in With(Object) \cup With(p),
     dr \in With(p) \cup With(q)}

(* Any of p, q and their metaclasses may be the superclass of any other or *)
(* of itself; r inherits from both.                                        *)
Anything ==
  {h @@ (r :> [superclass |-> p, metaclass_superclass |-> q,
               own_hash |-> FALSE, own_slots |-> {"t"}]) :
     h \in [{p, q} ->
              [superclass : {Object, p, q}, metaclass_superclass : {Class, p, q, meta(p), meta(q)},
               own_hash : BOOLEAN, own_slots : {{"s"}}]]}

FamiliesAndAnything == Families \cup Anything

(* Inheritance without cycles, in an order that initialization does not    *)
(* follow: q inherits from p, and the metaclass of p inherits from q, as   *)
(* Behavior and the class of classes do in Smalltalk; or the metaclass of  *)
(* p inherits from that of q.                                              *)
Entangled ==
  LET dp(metasuper) == [superclass |-> Object, metaclass_superclass |-> metasuper,
                        own_hash |-> FALSE, own_slots |-> {"s"}]
      dq(super) == [superclass |-> super, metaclass_superclass |-> Class,
                    own_hash |-> FALSE, own_slots |-> {"t"}]
  IN  {(p :> dp(q)) @@ (q :> dq(p)), (p :> dp(meta(q))) @@ (q :> dq(Object))}
================================================================================
