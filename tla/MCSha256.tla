------------------------------- MODULE MCSha256 --------------------------------
EXTENDS Sha256

(* Bytes that differ from each other and from those of the padding.        *)
MCInput == [i \in 1 .. 13 |-> 200 + i]
===============================================================================
