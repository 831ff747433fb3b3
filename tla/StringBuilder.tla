---------------------------- MODULE StringBuilder ----------------------------
(***************************************************************************)
(* LTE_StringBuilder of src/utils.c: a buffer of bytes that grows, on a    *)
(* machine whose size_t wraps.  A call of append_bytes is several steps:   *)
(* computing the sizes, doubling until the new size is enough, realloc,    *)
(* and the copy.                                                           *)
(***************************************************************************)
EXTENDS Integers, SequencesExt

CONSTANTS
  STRING_BUILDER_INIT_SIZE,   \* 64 in the code
  WordValues,                 \* how many values size_t has
  MaxBlock,                   \* the size of the largest object, PTRDIFF_MAX in C
  Byte, NUL,
  Junk,                       \* what a byte holds that was never written
  Source,                     \* the byte strings a program appends
  NoBuilder, Lost, None       \* values of the abstract specification

ASSUME SizeAssumption ==
  /\ MaxBlock \in Nat /\ STRING_BUILDER_INIT_SIZE \in 1 .. MaxBlock
  /\ WordValues \in Nat /\ 2 * MaxBlock < WordValues
ASSUME SourceAssumption ==
  NUL \in Byte /\ \A s \in Source : s \in Seq(Byte) /\ Len(s) <= MaxBlock
(* The values that stand for the lack of a string or of a call are neither. *)
ASSUME AbsenceAssumption ==
  /\ NoBuilder # Lost
  /\ NoBuilder \notin Seq(Byte) /\ Lost \notin Seq(Byte)
  /\ None \notin [own : BOOLEAN, bytes : Seq(Byte)]

VARIABLES
  length, size, buf,          \* the fields of LTE_StringBuilder
  pc,                         \* "none" without a builder, "ready" between calls
  argument,                   \* what is being appended, and whether it lies in buf
  required_size, new_size,
  moved                       \* realloc has returned another address

builder == <<length, size, buf>>
call == <<argument, required_size, new_size, moved>>
vars == <<builder, pc, call>>

LTE_StringBuilder_length == length
LTE_StringBuilder_value == [i \in 1 .. length |-> buf[i - 1]]

NoArgument == [own |-> FALSE, bytes |-> <<>>]
Given(s) == [own |-> FALSE, bytes |-> s]
OwnValue == [own |-> TRUE, bytes |-> LTE_StringBuilder_value]
Arguments == {Given(s) : s \in Source} \cup {OwnValue}

Init ==
  /\ length = 0 /\ size = 0 /\ buf = [i \in {} |-> Junk]
  /\ pc = "none" /\ argument = NoArgument
  /\ required_size = 0 /\ new_size = 0 /\ moved = FALSE

LTE_StringBuilder_new ==
  /\ pc = "none" /\ pc' = "ready"
  /\ length' = 0 /\ size' = STRING_BUILDER_INIT_SIZE
  /\ buf' = [i \in 0 .. size' - 1 |-> IF i = 0 THEN NUL ELSE Junk]
  /\ UNCHANGED call

LTE_StringBuilder_free ==
  /\ pc = "ready" /\ pc' = "none"
  /\ length' = 0 /\ size' = 0 /\ buf' = [i \in {} |-> Junk]
  /\ UNCHANGED call

(***************************************************************************)
(* Appending.                                                              *)
(***************************************************************************)
Doubled_Plain(s) == (s * 2) % WordValues            \* mutant: without + 2
Doubled(s) == (s * 2 + 2) % WordValues

RequiredSize_NoNul(n) == (length + n) % WordValues  \* mutant: no byte for the NUL
RequiredSize(n) == (length + n + 1) % WordValues

LTE_StringBuilder_append_bytes(a) ==
  /\ pc = "ready"
  /\ a.bytes # <<>>
  /\ argument' = a /\ moved' = FALSE
  /\ required_size' = RequiredSize(Len(a.bytes))
  /\ new_size' = Doubled(size)
  /\ pc' = IF size < required_size' THEN "grow" ELSE "copy"
  /\ UNCHANGED builder

(* Of a string of which a NUL follows the last byte: the bytes before the  *)
(* first NUL.                                                              *)
strlen(s) == Cardinality({n \in 1 .. Len(s) : \A i \in 1 .. n : s[i] # NUL})
CString(s) == SubSeq(s, 1, strlen(s))
LTE_StringBuilder_append_str(a) ==
  LTE_StringBuilder_append_bytes([a EXCEPT !.bytes = CString(@)])

LTE_StringBuilder_append_char(ch) == LTE_StringBuilder_append_bytes(Given(<<ch>>))

Double ==
  /\ pc = "grow" /\ new_size < required_size
  /\ new_size' = Doubled(new_size)
  /\ UNCHANGED <<builder, pc, argument, required_size, moved>>

(* realloc keeps the bytes, at the same address or at another one.         *)
Reallocate ==
  /\ pc = "grow" /\ new_size >= required_size /\ new_size <= MaxBlock
  /\ size' = new_size
  /\ buf' = [i \in 0 .. size' - 1 |-> IF i < size THEN buf[i] ELSE Junk]
  /\ moved' \in BOOLEAN
  /\ pc' = "copy"
  /\ UNCHANGED <<length, argument, required_size, new_size>>

OutOfMemory ==
  /\ pc = "grow" /\ new_size >= required_size
  /\ pc' = "aborted"
  /\ UNCHANGED <<builder, call>>

(* memcpy of the argument's bytes, the length and the NUL.                 *)
SourceByte(i) == IF argument.own THEN buf[i] ELSE argument.bytes[i + 1]
CopyTo(at) ==
  LET n == Len(argument.bytes)
  IN  /\ pc = "copy" /\ ~(argument.own /\ moved)
      /\ buf' = [i \in 0 .. size - 1 |->
                   IF i \in at .. at + n - 1 THEN SourceByte(i - at)
                   ELSE IF i = length + n THEN NUL ELSE buf[i]]
      /\ length' = length + n
      /\ pc' = "ready"
      /\ argument' = NoArgument /\ required_size' = 0 /\ new_size' = 0 /\ moved' = FALSE
      /\ UNCHANGED size
Copy_OverLast == CopyTo(IF length > 0 THEN length - 1 ELSE 0)
                                      \* mutant: one byte too early
Copy == CopyTo(length)

(* memcpy reads the freed buffer: whatever C does then is not described.   *)
ReadFreed ==
  /\ pc = "copy" /\ argument.own /\ moved
  /\ pc' = "undefined"
  /\ UNCHANGED <<builder, call>>

Appending == Double \/ Reallocate \/ OutOfMemory \/ Copy \/ ReadFreed

Next ==
  \/ LTE_StringBuilder_new \/ LTE_StringBuilder_free
  \/ \E a \in Arguments :
       LTE_StringBuilder_append_bytes(a) \/ LTE_StringBuilder_append_str(a)
  \/ \E ch \in Byte : LTE_StringBuilder_append_char(ch)
  \/ Appending

Spec == Init /\ [][Next]_vars
(* An append runs on until it is done: nothing in it waits.                *)
FairSpec == Spec /\ WF_vars(Appending)

-------------------------------------------------------------------------------
(* The fields have their types, and a NUL follows the bytes of the value   *)
(* inside of the buffer, so that the value is a C string.                  *)
TypeOK ==
  /\ pc \in {"none", "ready", "grow", "copy", "aborted", "undefined"}
  /\ length \in Nat /\ size \in 0 .. MaxBlock /\ DOMAIN buf = 0 .. size - 1
  /\ argument.bytes \in Seq(Byte) /\ argument.own \in BOOLEAN
  /\ required_size \in 0 .. WordValues - 1 /\ new_size \in 0 .. WordValues - 1
  /\ moved \in BOOLEAN
  /\ pc = "ready" => length < size /\ buf[length] = NUL

(* memcpy and the NUL stay inside of the buffer, whatever the sizes wrap   *)
(* to on the way.                                                          *)
CopyFits == pc = "copy" => length + Len(argument.bytes) + 1 <= size

(* A call of append_bytes returns or stops: the loop that doubles the size *)
(* reaches the required one, also when a doubled size wraps below the      *)
(* required one on the way (utils.c:186-190).                              *)
AppendEnds == pc \in {"grow", "copy"} ~> pc \notin {"grow", "copy"}

held ==
  CASE pc = "none" -> NoBuilder
    [] pc \in {"aborted", "undefined"} -> Lost
    [] OTHER -> LTE_StringBuilder_value
pending == IF pc \in {"grow", "copy"} THEN argument ELSE None
Strings == INSTANCE ByteString WITH value <- held, argument <- pending

(* The builder holds the appended bytes in order, through any growth, and  *)
(* also its own value appended to it as long as the buffer does not move.  *)
HoldsAppended == Strings!Spec
===============================================================================
