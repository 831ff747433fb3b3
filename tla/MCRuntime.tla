------------------------------- MODULE MCRuntime -------------------------------
EXTENDS Runtime
CONSTANTS p, q, r

D(super, metasuper, own_hash, own_slots) ==
  [superclass |-> super, metaclass_superclass |-> metasuper,
   own_hash |-> own_hash, own_slots |-> own_slots]

(* A chain that overrides on the way, two subclasses of one class, and a   *)
(* cycle of which r is no part.                                            *)
MCHierarchies ==
  { (p :> D(Object, Class, TRUE, {"s"})) @@ (q :> D(p, <<p, "class">>, FALSE, {"s", "t"}))
      @@ (r :> D(q, <<q, "class">>, FALSE, {})),
    (p :> D(Object, Class, TRUE, {"s"})) @@ (q :> D(p, <<p, "class">>, FALSE, {"t"}))
      @@ (r :> D(p, Class, TRUE, {"s"})),
    (p :> D(q, Class, FALSE, {"s"})) @@ (q :> D(p, Class, TRUE, {"t"}))
      @@ (r :> D(Object, Class, FALSE, {"s"})) }
===============================================================================
