------------------------------ MODULE MCAsconXof -------------------------------
EXTENDS AsconXof

(* Bytes that differ from each other and from those of the padding.        *)
MCMessage == [i \in 1 .. 7 |-> 200 + i]
===============================================================================
