--------------------------------- MODULE MCGc ---------------------------------
EXTENDS GcInvariant
CONSTANTS small, cls, x, y, g
MCStaticWords == (small :> 2) @@ (cls :> 5)
Symmetry == Permutations(Locals)
=============================================================================
