----------------------------- MODULE MCInlineHash -----------------------------
EXTENDS InlineHash
CONSTANTS a, b, c, d, f, v
(* a and b collide altogether, c with them until there are four chains, f  *)
(* until there are eight.                                                  *)
MCHash == (a :> 4) @@ (b :> 4) @@ (c :> 6) @@ (d :> 1) @@ (f :> 8)
===============================================================================
