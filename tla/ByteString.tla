------------------------------ MODULE ByteString ------------------------------
(***************************************************************************)
(* What a string builder promises: it holds the bytes appended to it since *)
(* it was made, in order.  Nothing here has a capacity.                    *)
(***************************************************************************)
EXTENDS Naturals, Sequences

CONSTANTS
  Byte,
  NoBuilder, Lost, None   \* no builder; an unusable one; no append in progress

VARIABLES value, argument

byteStringVars == <<value, argument>>

Init == value = NoBuilder /\ argument = None

Usable == value \notin {NoBuilder, Lost} /\ argument = None

New == value = NoBuilder /\ value' = <<>> /\ UNCHANGED argument
Free == Usable /\ value' = NoBuilder /\ UNCHANGED argument

(* The bytes belong to the program, or are the first of the value itself.  *)
Begin ==
  /\ Usable
  /\ \/ argument' \in [own : {FALSE}, bytes : Seq(Byte)]
     \/ \E k \in 0 .. Len(value) : argument' = [own |-> TRUE, bytes |-> SubSeq(value, 1, k)]
  /\ UNCHANGED value

End ==
  /\ argument # None
  /\ value' = value \o argument.bytes /\ argument' = None

(* The process stops for want of memory.                                   *)
Abort == argument # None /\ value' = Lost /\ argument' = None

(* What appending a value to itself does is not always defined.            *)
Undefined == argument # None /\ argument.own /\ value' = Lost /\ argument' = None

Next == New \/ Free \/ Begin \/ End \/ Abort \/ Undefined

Spec == Init /\ [][Next]_byteStringVars
===============================================================================
