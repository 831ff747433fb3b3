------------------------------- MODULE TextProof -------------------------------
(***************************************************************************)
(* A string builder never writes behind its buffer and holds what has been *)
(* appended to it, for every width of size_t and every initial size, as    *)
(* long as an object is smaller than half of the values of size_t.  And    *)
(* the functions of utf8.c read any text of any length right: bounded by   *)
(* its length or by a NUL, well formed or not, from any cursor, and in a   *)
(* walk from its start.                                                    *)
(*                                                                         *)
(* A size may wrap while it is doubled; what the copy relies on is the     *)
(* required size, which never does: the value and the argument are two     *)
(* objects, or one and a part of it.                                       *)
(*                                                                         *)
(* A sequence of bytes is described by numbers, Sequence(m, c, n), which   *)
(* the code's tests, the ranges of the Unicode Standard, and the bits of   *)
(* an encoded code point are each shown to say.  The recursive function of *)
(* Walk is followed backwards from the end of the text: a property of the  *)
(* walks from all cursors holds unless there is a last one where it fails. *)
(*                                                                         *)
(* Last, hex.c and base64.c.  HexDigits and Chars have the character at    *)
(* each place of what the encoders join from groups; the bits, the decoded *)
(* bytes, and the strings that are decoded are compared with them.         *)
(***************************************************************************)
EXTENDS Text, SequenceLemmas, FiniteSetTheorems

(* The bytes of the value, and the NUL behind them (utils.c:144-150, 199). *)
Terminated ==
  pc # "none" =>
    /\ length < size /\ buf[length] = NUL
    /\ \A i \in 0 .. length - 1 : buf[i] \in Byte

(* An argument is the program's, or the first bytes of the value.          *)
ArgumentOK(a) ==
  /\ a \in [own : BOOLEAN, bytes : Seq(Byte)] /\ Len(a.bytes) <= MaxBlock
  /\ a.own => Len(a.bytes) <= length /\ \A i \in 1 .. Len(a.bytes) : a.bytes[i] = buf[i - 1]

(* The sizes while an append is in progress (utils.c:184-193).             *)
Sizes ==
  /\ pc \in {"grow", "copy"} =>
       ArgumentOK(argument) /\ required_size = length + Len(argument.bytes) + 1
  /\ pc = "copy" => required_size <= size

IInv == TypeOK /\ Terminated /\ Sizes

-------------------------------------------------------------------------------
LEMMA ModSmall == ASSUME NEW a \in Nat, NEW w \in Nat, a < w PROVE a % w = a
  OBVIOUS
LEMMA ModRange == ASSUME NEW a \in Nat, NEW w \in Nat, 0 < w PROVE a % w \in 0 .. w - 1
  OBVIOUS

(* A doubled size has the type of a size.                                  *)
LEMMA DoubledType == ASSUME NEW s \in Nat PROVE Doubled(s) \in 0 .. WordValues - 1
  BY SizeAssumption, ModRange DEF Doubled

(* strlen cuts a string off.                                               *)
LEMMA CStringPrefix ==
  ASSUME NEW s \in Seq(Byte)
  PROVE  /\ CString(s) \in Seq(Byte) /\ Len(CString(s)) <= Len(s)
         /\ \A i \in 1 .. Len(CString(s)) : CString(s)[i] = s[i]
<1> DEFINE before == {n \in 1 .. Len(s) : \A i \in 1 .. n : s[i] # NUL}
<1>1. Len(s) \in Nat /\ \A i \in 1 .. Len(s) : s[i] \in Byte
  BY LenProperties, ElementOfSeq
<1>2. IsFiniteSet(1 .. Len(s)) /\ Cardinality(1 .. Len(s)) = Len(s)
  <2>1. \A l \in Nat : IsFiniteSet(1 .. l) /\ Cardinality(1 .. l) = l
    BY FS_Interval
  <2> QED
    BY <1>1, <2>1
<1>3. Cardinality(before) \in Nat /\ Cardinality(before) <= Len(s)
  BY <1>2, FS_Subset, FS_CardinalityType
<1>4. strlen(s) \in Nat /\ strlen(s) <= Len(s)
  BY <1>3 DEF strlen
<1> QED
  BY <1>1, <1>4 DEF CString

(* The value is a byte string shorter than the buffer.                     *)
LEMMA ValueOK ==
  ASSUME IInv, pc = "ready"
  PROVE  LTE_StringBuilder_value \in Seq(Byte) /\ Len(LTE_StringBuilder_value) = length
<1>1. length \in Nat /\ \A i \in 1 .. length : buf[i - 1] \in Byte
  BY DEF IInv, TypeOK, Terminated
<1> QED
  BY <1>1 DEF LTE_StringBuilder_value

(* Whatever a program gives to a call is an argument, and cut off it still is. *)
LEMMA ArgumentsOK ==
  ASSUME IInv, pc = "ready", NEW a \in Arguments
  PROVE  ArgumentOK(a) /\ ArgumentOK([a EXCEPT !.bytes = CString(@)])
<1>1. ArgumentOK(a)
  <2>1. CASE a = OwnValue
    <3>1. length <= MaxBlock
      BY SizeAssumption DEF IInv, TypeOK, Terminated
    <3>2. \A i \in 1 .. length : LTE_StringBuilder_value[i] = buf[i - 1]
      BY DEF LTE_StringBuilder_value
    <3>3. a.own = TRUE /\ a.bytes = LTE_StringBuilder_value
          /\ a \in [own : BOOLEAN, bytes : Seq(Byte)]
      BY <2>1, ValueOK DEF OwnValue
    <3>4. length \in Nat
      BY DEF IInv, TypeOK
    <3> QED
      BY <3>1, <3>2, <3>3, <3>4, ValueOK DEF ArgumentOK
  <2>2. ASSUME NEW s \in Source, a = Given(s) PROVE ArgumentOK(a)
    BY <2>2, SourceAssumption DEF Given, ArgumentOK
  <2> QED
    BY <2>1, <2>2 DEF Arguments
<1>2. a \in [own : BOOLEAN, bytes : Seq(Byte)] /\ Len(a.bytes) \in Nat
  BY <1>1, LenProperties DEF ArgumentOK
<1> DEFINE c == CString(a.bytes)
<1>3. /\ c \in Seq(Byte) /\ Len(c) \in Nat /\ Len(c) <= Len(a.bytes)
      /\ \A i \in 1 .. Len(c) : c[i] = a.bytes[i]
  BY <1>2, CStringPrefix, LenProperties
<1>4. [a EXCEPT !.bytes = CString(@)] = [own |-> a.own, bytes |-> c]
  BY <1>2
<1>5. length \in Nat /\ MaxBlock \in Nat
  BY SizeAssumption DEF IInv, TypeOK
<1> HIDE DEF c
<1>6. ArgumentOK([own |-> a.own, bytes |-> c])
  BY <1>1, <1>2, <1>3, <1>5 DEF ArgumentOK
<1> QED
  BY <1>1, <1>4, <1>6

-------------------------------------------------------------------------------
(* One lemma per action.                                                   *)
LEMMA InitIInv == Init => IInv
<1> SUFFICES ASSUME Init PROVE IInv
  OBVIOUS
<1>1. <<>> \in Seq(Byte) /\ WordValues \in Nat /\ MaxBlock \in Nat /\ 0 < WordValues
  BY SizeAssumption
<1>2. 0 .. 0 - 1 = {}
  OBVIOUS
<1>3. /\ argument.bytes \in Seq(Byte) /\ argument.own \in BOOLEAN
      /\ DOMAIN buf = 0 .. size - 1 /\ size \in 0 .. MaxBlock
      /\ required_size \in 0 .. WordValues - 1 /\ new_size \in 0 .. WordValues - 1
  BY <1>1, <1>2 DEF Init, NoArgument
<1> QED
  BY <1>3 DEF Init, IInv, TypeOK, Terminated, Sizes

LEMMA NewStep == ASSUME IInv, LTE_StringBuilder_new PROVE IInv'
<1>1. /\ length' = 0 /\ size' = STRING_BUILDER_INIT_SIZE /\ pc' = "ready"
      /\ buf' = [i \in 0 .. size' - 1 |-> IF i = 0 THEN NUL ELSE Junk]
      /\ UNCHANGED call
  BY DEF LTE_StringBuilder_new
<1>2. size' \in 1 .. MaxBlock /\ MaxBlock \in Nat
  BY <1>1, SizeAssumption
<1>3. DOMAIN buf' = 0 .. size' - 1 /\ buf'[0] = NUL
  BY <1>1, <1>2
<1> QED
  BY <1>1, <1>2, <1>3 DEF IInv, TypeOK, Terminated, Sizes, call

LEMMA FreeStep == ASSUME IInv, LTE_StringBuilder_free PROVE IInv'
<1>1. 0 .. 0 - 1 = {} /\ MaxBlock \in Nat
  BY SizeAssumption
<1> QED
  BY <1>1 DEF LTE_StringBuilder_free, IInv, TypeOK, Terminated, Sizes, call

(* The required size does not wrap.                                        *)
LEMMA Required ==
  ASSUME IInv, pc = "ready", NEW a, ArgumentOK(a)
  PROVE  RequiredSize(Len(a.bytes)) = length + Len(a.bytes) + 1
<1>1. Len(a.bytes) \in Nat /\ Len(a.bytes) <= MaxBlock
  BY LenProperties DEF ArgumentOK
<1>2. length \in Nat /\ length < MaxBlock /\ MaxBlock \in Nat /\ WordValues \in Nat
      /\ 2 * MaxBlock < WordValues
  BY SizeAssumption DEF IInv, TypeOK, Terminated
<1>3. PICK l \in Nat : Len(a.bytes) = l
  BY <1>1
<1>4. length + l + 1 \in Nat /\ length + l + 1 < WordValues
  BY <1>1, <1>2, <1>3
<1>5. (length + l + 1) % WordValues = length + l + 1
  BY <1>2, <1>4, ModSmall
<1> QED
  BY <1>3, <1>5 DEF RequiredSize

LEMMA AppendStep ==
  ASSUME IInv, NEW a, ArgumentOK(a), LTE_StringBuilder_append_bytes(a)
  PROVE  IInv'
<1>1. /\ pc = "ready" /\ argument' = a /\ moved' = FALSE
      /\ required_size' = RequiredSize(Len(a.bytes))
      /\ new_size' = Doubled(size)
      /\ pc' = IF size < required_size' THEN "grow" ELSE "copy"
      /\ UNCHANGED <<length, size, buf>>
  BY DEF LTE_StringBuilder_append_bytes, builder
<1>2. required_size' = length + Len(a.bytes) + 1
  BY <1>1, Required
<1>3. length \in Nat /\ size \in 0 .. MaxBlock /\ MaxBlock \in Nat /\ Len(a.bytes) \in Nat
      /\ length < size /\ Len(a.bytes) <= MaxBlock /\ 2 * MaxBlock < WordValues
      /\ WordValues \in Nat
  BY <1>1, SizeAssumption, LenProperties DEF IInv, TypeOK, Terminated, ArgumentOK
<1>4. PICK l \in Nat : Len(a.bytes) = l
  BY <1>3
<1>5. required_size' \in 0 .. WordValues - 1 /\ required_size' \in Nat
  BY <1>2, <1>3, <1>4
<1>6. new_size' \in 0 .. WordValues - 1
  BY <1>1, <1>3, DoubledType
<1>7. a.bytes \in Seq(Byte) /\ a.own \in BOOLEAN
  BY DEF ArgumentOK
<1>8. TypeOK'
  BY <1>1, <1>5, <1>6, <1>7 DEF IInv, TypeOK
<1>9. Terminated'
  BY <1>1 DEF IInv, Terminated
<1>10. ArgumentOK(argument)'
  BY <1>1 DEF ArgumentOK
<1>11. pc' = "copy" => required_size' <= size'
  BY <1>1, <1>3, <1>5
<1> QED
  BY <1>1, <1>2, <1>8, <1>9, <1>10, <1>11 DEF IInv, Sizes

LEMMA DoubleStep == ASSUME IInv, Double PROVE IInv'
<1>1. new_size \in Nat
  BY SizeAssumption DEF IInv, TypeOK
<1>2. new_size' \in 0 .. WordValues - 1
  BY <1>1, DoubledType DEF Double
<1> QED
  BY <1>2 DEF Double, builder, IInv, TypeOK, Terminated, Sizes, ArgumentOK

LEMMA ReallocateStep == ASSUME IInv, Reallocate PROVE IInv'
<1>1. /\ pc = "grow" /\ new_size >= required_size /\ new_size <= MaxBlock
      /\ size' = new_size /\ pc' = "copy" /\ moved' \in BOOLEAN
      /\ buf' = [i \in 0 .. size' - 1 |-> IF i < size THEN buf[i] ELSE Junk]
      /\ UNCHANGED <<length, argument, required_size, new_size>>
  BY DEF Reallocate
<1>2. /\ length \in Nat /\ size \in Nat /\ length < size /\ buf[length] = NUL
      /\ \A i \in 0 .. length - 1 : buf[i] \in Byte
      /\ new_size \in Nat /\ WordValues \in Nat /\ MaxBlock \in Nat
  BY <1>1, SizeAssumption DEF IInv, TypeOK, Terminated
<1>3. ArgumentOK(argument) /\ required_size = length + Len(argument.bytes) + 1
  BY <1>1 DEF IInv, Sizes
<1>4. PICK l \in Nat : Len(argument.bytes) = l
  BY <1>3, LenProperties DEF ArgumentOK
<1>5. length < size'
  BY <1>1, <1>2, <1>3, <1>4
<1>6. \A i \in 0 .. length : buf'[i] = buf[i]
  BY <1>1, <1>2, <1>5
<1>7. DOMAIN buf' = 0 .. size' - 1 /\ size' \in 0 .. MaxBlock
  BY <1>1, <1>2
<1>8. TypeOK'
  BY <1>1, <1>7 DEF IInv, TypeOK
<1>9. Terminated'
  BY <1>1, <1>2, <1>5, <1>6 DEF Terminated
<1>10. ArgumentOK(argument)'
  BY <1>1, <1>2, <1>3, <1>4, <1>6 DEF ArgumentOK
<1> QED
  BY <1>1, <1>3, <1>8, <1>9, <1>10 DEF IInv, Sizes

LEMMA OutOfMemoryStep == ASSUME IInv, OutOfMemory PROVE IInv'
  BY DEF OutOfMemory, builder, call, IInv, TypeOK, Terminated, Sizes

(* What the copy leaves in the buffer: the old bytes, those of the argument *)
(* and the NUL.                                                             *)
LEMMA Copied ==
  ASSUME IInv, Copy
  PROVE  /\ Len(argument.bytes) \in Nat /\ length' = length + Len(argument.bytes)
         /\ length' < size /\ DOMAIN buf' = 0 .. size - 1
         /\ \A i \in 0 .. length - 1 : buf'[i] = buf[i]
         /\ \A i \in 1 .. Len(argument.bytes) : buf'[length + i - 1] = argument.bytes[i]
         /\ buf'[length'] = NUL
<1>1. pc = "copy" /\ ~(argument.own /\ moved) /\ length' = length + Len(argument.bytes)
      /\ buf' = [i \in 0 .. size - 1 |->
                   IF i \in length .. length + Len(argument.bytes) - 1
                   THEN SourceByte(i - length)
                   ELSE IF i = length + Len(argument.bytes) THEN NUL ELSE buf[i]]
  BY DEF Copy, CopyTo
<1>2. ArgumentOK(argument) /\ required_size = length + Len(argument.bytes) + 1
      /\ required_size <= size /\ length \in Nat /\ size \in Nat
  BY <1>1, SizeAssumption DEF IInv, Sizes, TypeOK
<1>3. PICK l \in Nat : Len(argument.bytes) = l
  BY <1>2, LenProperties DEF ArgumentOK
<1>4. length + l < size
  BY <1>2, <1>3
<1>5. \A i \in 0 .. length - 1 : buf'[i] = buf[i]
  BY <1>1, <1>2, <1>3, <1>4
<1>6. ASSUME NEW i \in 1 .. l PROVE buf'[length + i - 1] = argument.bytes[i]
  <2>1. SourceByte(i - 1) = argument.bytes[i]
    <3>1. CASE argument.own
      BY <1>2, <1>3, <3>1 DEF SourceByte, ArgumentOK
    <3>2. CASE ~argument.own
      BY <3>2 DEF SourceByte
    <3> QED
      BY <3>1, <3>2
  <2>2. length + i - 1 \in length .. length + l - 1 /\ length + i - 1 \in 0 .. size - 1
        /\ (length + i - 1) - length = i - 1
    BY <1>2, <1>4
  <2>3. buf'[length + i - 1] = SourceByte((length + i - 1) - length)
    BY <1>1, <1>3, <2>2
  <2> QED
    BY <2>1, <2>2, <2>3
<1>7. buf'[length + l] = NUL
  BY <1>1, <1>2, <1>3, <1>4
<1> QED
  BY <1>1, <1>3, <1>4, <1>5, <1>6, <1>7

LEMMA CopyStep == ASSUME IInv, Copy PROVE IInv'
<1>1. pc = "copy" /\ pc' = "ready" /\ argument' = NoArgument /\ required_size' = 0
      /\ new_size' = 0 /\ moved' = FALSE /\ UNCHANGED size
  BY DEF Copy, CopyTo
<1>2. length \in Nat /\ size \in 0 .. MaxBlock /\ MaxBlock \in Nat
      /\ WordValues \in Nat /\ 0 < WordValues
  BY SizeAssumption DEF IInv, TypeOK
<1>3. PICK l \in Nat : Len(argument.bytes) = l
  BY Copied
<1>4. argument.bytes \in Seq(Byte) /\ \A i \in 1 .. l : argument.bytes[i] \in Byte
  BY <1>1, <1>3, ElementOfSeq DEF IInv, TypeOK
<1>5. ASSUME NEW i \in 0 .. length' - 1 PROVE buf'[i] \in Byte
  <2>1. CASE i < length
    BY <1>1, <1>2, <2>1, Copied DEF IInv, Terminated
  <2>2. CASE i >= length
    <3>1. i - length + 1 \in 1 .. l /\ length + (i - length + 1) - 1 = i
      BY <1>2, <1>3, <2>2, Copied
    <3> QED
      BY <1>3, <1>4, <3>1, Copied
  <2> QED
    BY <1>2, <1>3, <2>1, <2>2, Copied
<1>6. TypeOK'
  <2>1. NoArgument.bytes \in Seq(Byte) /\ NoArgument.own \in BOOLEAN
    BY DEF NoArgument
  <2>2. length' \in Nat /\ length' < size /\ buf'[length'] = NUL
        /\ DOMAIN buf' = 0 .. size - 1
    BY <1>2, <1>3, Copied
  <2>3. 0 \in 0 .. WordValues - 1
    BY <1>2
  <2> QED
    BY <1>1, <1>2, <2>1, <2>2, <2>3 DEF TypeOK
<1>7. Terminated'
  BY <1>1, <1>5, Copied DEF Terminated
<1> QED
  BY <1>1, <1>6, <1>7 DEF IInv, Sizes

LEMMA ReadFreedStep == ASSUME IInv, ReadFreed PROVE IInv'
  BY DEF ReadFreed, builder, call, IInv, TypeOK, Terminated, Sizes

LEMMA CharOK == ASSUME NEW ch \in Byte PROVE ArgumentOK(Given(<<ch>>))
  BY SizeAssumption DEF Given, ArgumentOK

LEMMA NextStep == ASSUME IInv, [Next]_vars PROVE IInv'
<1>1. CASE LTE_StringBuilder_new
  BY <1>1, NewStep
<1>2. CASE LTE_StringBuilder_free
  BY <1>2, FreeStep
<1>3. ASSUME NEW a \in Arguments, LTE_StringBuilder_append_bytes(a) PROVE IInv'
  BY <1>3, ArgumentsOK, AppendStep DEF LTE_StringBuilder_append_bytes
<1>4. ASSUME NEW a \in Arguments, LTE_StringBuilder_append_str(a) PROVE IInv'
  <2> DEFINE c == [a EXCEPT !.bytes = CString(@)]
  <2>1. LTE_StringBuilder_append_bytes(c) /\ pc = "ready"
    BY <1>4 DEF LTE_StringBuilder_append_str, LTE_StringBuilder_append_bytes
  <2>2. ArgumentOK(c)
    BY <2>1, ArgumentsOK
  <2> HIDE DEF c
  <2> QED
    BY <2>1, <2>2, AppendStep
<1>5. ASSUME NEW ch \in Byte, LTE_StringBuilder_append_char(ch) PROVE IInv'
  BY <1>5, CharOK, AppendStep DEF LTE_StringBuilder_append_char
<1>6. CASE Appending
  BY <1>6, DoubleStep, ReallocateStep, OutOfMemoryStep, CopyStep, ReadFreedStep
     DEF Appending
<1>7. CASE UNCHANGED vars
  BY <1>7 DEF vars, builder, call, IInv, TypeOK, Terminated, Sizes, ArgumentOK
<1> QED
  BY <1>1, <1>2, <1>3, <1>4, <1>5, <1>6, <1>7 DEF Next

(* The invariant holds in every state of a builder.                        *)
THEOREM Invariance == Spec => []IInv
<1>1. Init => IInv
  BY InitIInv
<1>2. IInv /\ [Next]_vars => IInv'
  BY NextStep
<1> QED
  BY <1>1, <1>2, PTL DEF Spec

(* The fields of a builder keep their types, and a NUL follows its value   *)
(* inside of the buffer (utils.c:144-150, 199).                            *)
THEOREM Types == Spec => []TypeOK
<1>1. IInv => TypeOK
  BY DEF IInv
<1> QED
  BY <1>1, Invariance, PTL

(* memcpy and the NUL stay inside of the buffer (utils.c:184-199).         *)
THEOREM CopyInBounds == Spec => []CopyFits
<1>1. IInv => CopyFits
  BY DEF IInv, Sizes, CopyFits
<1> QED
  BY <1>1, Invariance, PTL

-------------------------------------------------------------------------------
(* The builder as its promise sees it.                                     *)
HeldShape ==
  /\ pc = "none" => held = NoBuilder
  /\ pc \in {"aborted", "undefined"} => held = Lost
  /\ pc \in {"ready", "grow", "copy"} =>
       held = LTE_StringBuilder_value /\ held \in Seq(Byte) /\ Len(held) = length
       /\ \A i \in 1 .. length : held[i] = buf[i - 1]
  /\ pc = "ready" => Strings!Usable
  /\ pc \in {"grow", "copy"} => pending = argument /\ pending # None
  /\ pc \notin {"grow", "copy"} => pending = None

LEMMA HeldType == IInv => HeldShape
<1> SUFFICES ASSUME IInv PROVE HeldShape
  OBVIOUS
<1>1. pc = "none" => held = NoBuilder
  BY DEF held
<1>2. pc \in {"aborted", "undefined"} => held = Lost
  BY DEF held
<1>3. ASSUME pc \in {"ready", "grow", "copy"}
      PROVE  held = LTE_StringBuilder_value /\ held \in Seq(Byte) /\ Len(held) = length
             /\ \A i \in 1 .. length : held[i] = buf[i - 1]
  <2>1. held = LTE_StringBuilder_value
    BY <1>3 DEF held
  <2>2. length \in Nat /\ \A i \in 1 .. length : buf[i - 1] \in Byte
    BY <1>3 DEF IInv, TypeOK, Terminated
  <2> QED
    BY <2>1, <2>2 DEF LTE_StringBuilder_value
<1>4. pc \in {"grow", "copy"} => pending = argument /\ pending # None
  BY AbsenceAssumption DEF pending, IInv, Sizes, ArgumentOK
<1>5. pc \notin {"grow", "copy"} => pending = None
  BY DEF pending
<1>6. pc = "ready" => Strings!Usable
  BY <1>3, <1>5, AbsenceAssumption DEF Strings!Usable
<1> QED
  BY <1>1, <1>2, <1>3, <1>4, <1>5, <1>6 DEF HeldShape

LEMMA HeldTypeNext == IInv' => HeldShape'
  BY HeldType, PTL

(* The same buffer, or one with the same bytes, holds the same value.      *)
LEMMA SameHeld ==
  ASSUME IInv, IInv', pc \in {"ready", "grow", "copy"}, pc' \in {"ready", "grow", "copy"},
         length' = length, \A i \in 0 .. length - 1 : buf'[i] = buf[i]
  PROVE  held' = held
<1>1. held \in Seq(Byte) /\ Len(held) = length /\ \A i \in 1 .. length : held[i] = buf[i - 1]
  BY HeldType, HeldTypeNext DEF HeldShape
<1>2. held' \in Seq(Byte) /\ Len(held') = length'
      /\ \A i \in 1 .. length' : held'[i] = buf'[i - 1]
  BY HeldType, HeldTypeNext DEF HeldShape
<1>3. length \in Nat /\ \A i \in 1 .. length : i - 1 \in 0 .. length - 1
  BY DEF IInv, TypeOK
<1>4. \A i \in 1 .. Len(held) : held'[i] = held[i]
  BY <1>1, <1>2, <1>3
<1> QED
  BY <1>1, <1>2, <1>4, SeqEqual

LEMMA InitPromised == Init => Strings!Init
  BY DEF Init, held, pending, Strings!Init

LEMMA NewPromised == ASSUME IInv, IInv', LTE_StringBuilder_new PROVE Strings!New
<1>1. held = NoBuilder /\ pending = None /\ pending' = None
  BY HeldType, HeldTypeNext DEF HeldShape, LTE_StringBuilder_new
<1>2. held' \in Seq(Byte) /\ Len(held') = 0
  BY HeldType, HeldTypeNext DEF HeldShape, LTE_StringBuilder_new
<1>3. held' = <<>>
  BY <1>2, EmptySeq
<1> QED
  BY <1>1, <1>3 DEF Strings!New

LEMMA FreePromised == ASSUME IInv, IInv', LTE_StringBuilder_free PROVE Strings!Free
  BY HeldType, HeldTypeNext DEF HeldShape, LTE_StringBuilder_free, Strings!Free

LEMMA AppendPromised ==
  ASSUME IInv, IInv', NEW a, ArgumentOK(a), LTE_StringBuilder_append_bytes(a)
  PROVE  Strings!Begin
<1>1. pc = "ready" /\ pc' \in {"grow", "copy"} /\ argument' = a /\ UNCHANGED <<length, buf>>
  BY DEF LTE_StringBuilder_append_bytes, builder
<1>2. Strings!Usable /\ held' = held /\ pending' = a
  BY <1>1, HeldType, HeldTypeNext, SameHeld DEF HeldShape
<1>3. a \in [own : BOOLEAN, bytes : Seq(Byte)]
  BY DEF ArgumentOK
<1>4. CASE ~a.own
  <2>1. a \in [own : {FALSE}, bytes : Seq(Byte)]
    BY <1>3, <1>4
  <2> QED
    BY <1>2, <2>1 DEF Strings!Begin
<1>5. CASE a.own
  <2>1. PICK k \in Nat : Len(a.bytes) = k
    BY <1>3, LenProperties
  <2>2. k <= length /\ \A i \in 1 .. k : a.bytes[i] = buf[i - 1]
    BY <1>5, <2>1 DEF ArgumentOK
  <2>3. held \in Seq(Byte) /\ Len(held) = length /\ length \in Nat
        /\ \A i \in 1 .. length : held[i] = buf[i - 1]
    BY <1>1, HeldType, HeldTypeNext DEF HeldShape, IInv, TypeOK
  <2>4. k \in 0 .. Len(held)
    BY <2>2, <2>3
  <2>5. SubSeq(held, 1, k) \in Seq(Byte) /\ Len(SubSeq(held, 1, k)) = k
        /\ \A i \in 1 .. k : SubSeq(held, 1, k)[i] = held[i]
    BY <2>3, <2>4
  <2>6. a.bytes = SubSeq(held, 1, k)
    BY <1>3, <2>1, <2>2, <2>3, <2>5, SeqEqual
  <2>7. a = [own |-> TRUE, bytes |-> SubSeq(held, 1, k)]
    BY <1>3, <1>5, <2>6
  <2> QED
    BY <1>2, <2>4, <2>7 DEF Strings!Begin
<1> QED
  BY <1>4, <1>5

LEMMA CopyPromised == ASSUME IInv, IInv', Copy PROVE Strings!End
<1>1. pc = "copy" /\ pc' = "ready"
  BY DEF Copy, CopyTo
<1>2. pending = argument /\ pending # None /\ pending' = None
  BY <1>1, HeldType, HeldTypeNext DEF HeldShape
<1>3. held \in Seq(Byte) /\ Len(held) = length /\ length \in Nat
      /\ \A i \in 1 .. length : held[i] = buf[i - 1]
  BY <1>1, HeldType, HeldTypeNext DEF HeldShape, IInv, TypeOK
<1>4. held' \in Seq(Byte) /\ Len(held') = length'
      /\ \A i \in 1 .. length' : held'[i] = buf'[i - 1]
  BY <1>1, HeldType, HeldTypeNext DEF HeldShape
<1>5. argument.bytes \in Seq(Byte)
  BY DEF IInv, TypeOK
<1>6. PICK l \in Nat : Len(argument.bytes) = l
  BY Copied
<1>7. length' = length + l
  BY <1>6, Copied
<1> DEFINE both == held \o argument.bytes
<1>8. both \in Seq(Byte) /\ Len(both) = length + l
      /\ \A i \in 1 .. length + l :
           both[i] = IF i <= length THEN held[i] ELSE argument.bytes[i - length]
  BY <1>3, <1>5, <1>6, ConcatProperties
<1> HIDE DEF both
<1>9. ASSUME NEW i \in 1 .. length + l PROVE held'[i] = both[i]
  <2>1. CASE i <= length
    <3>1. i \in 1 .. length /\ i \in 1 .. length + l /\ i - 1 \in 0 .. length - 1
      BY <1>3, <2>1
    <3>2. buf'[i - 1] = buf[i - 1]
      BY <3>1, Copied
    <3>3. held'[i] = buf'[i - 1] /\ held[i] = buf[i - 1] /\ both[i] = held[i]
      BY <1>3, <1>4, <1>7, <1>8, <2>1, <3>1
    <3> QED
      BY <3>2, <3>3
  <2>2. CASE i > length
    <3>1. i - length \in 1 .. l /\ length + (i - length) - 1 = i - 1
      BY <1>3, <2>2
    <3>2. buf'[i - 1] = argument.bytes[i - length]
      BY <1>6, <3>1, Copied
    <3>3. held'[i] = buf'[i - 1]
      BY <1>4, <1>7
    <3>4. both[i] = argument.bytes[i - length]
      BY <1>3, <1>8, <2>2
    <3> QED
      BY <3>2, <3>3, <3>4
  <2> QED
    BY <1>3, <2>1, <2>2
<1>10. held' = both
  BY <1>4, <1>7, <1>8, <1>9, SeqEqual
<1> QED
  BY <1>2, <1>10 DEF both, Strings!End

LEMMA AppendingPromised ==
  ASSUME IInv, IInv', Appending
  PROVE  Strings!Next \/ UNCHANGED <<held, pending>>
<1>1. CASE Double
  <2>1. pc = "grow" /\ pc' = "grow" /\ UNCHANGED <<length, buf, argument>>
    BY <1>1 DEF Double, builder
  <2> QED
    BY <2>1, HeldType, HeldTypeNext, SameHeld DEF HeldShape
<1>2. CASE Reallocate
  <2>1. /\ pc = "grow" /\ pc' = "copy" /\ UNCHANGED <<length, argument>>
        /\ buf' = [i \in 0 .. size' - 1 |-> IF i < size THEN buf[i] ELSE Junk]
    BY <1>2 DEF Reallocate
  <2>2. length \in Nat /\ size \in Nat /\ size' \in Nat /\ length < size /\ length < size'
    BY <2>1, SizeAssumption DEF IInv, TypeOK, Terminated
  <2>3. \A i \in 0 .. length - 1 : i \in 0 .. size' - 1 /\ i < size
    <3>1. ASSUME NEW n, n = size' PROVE \A i \in 0 .. length - 1 : i \in 0 .. n - 1 /\ i < size
      <4>1. n \in Nat /\ length < n
        BY <2>2, <3>1
      <4> HIDE <3>1
      <4> QED
        BY <2>2, <4>1, SMTT(30)
    <3> QED
      BY <3>1
  <2>4. \A i \in 0 .. size' - 1 : buf'[i] = IF i < size THEN buf[i] ELSE Junk
    BY <2>1, Zenon
  <2>5. \A i \in 0 .. length - 1 : buf'[i] = buf[i]
    BY <2>3, <2>4
  <2> QED
    BY <2>1, <2>5, HeldType, HeldTypeNext, SameHeld DEF HeldShape
<1>3. CASE OutOfMemory
  BY <1>3, HeldType, HeldTypeNext DEF HeldShape, OutOfMemory, Strings!Abort, Strings!Next
<1>4. CASE Copy
  BY <1>4, CopyPromised DEF Strings!Next
<1>5. CASE ReadFreed
  BY <1>5, HeldType, HeldTypeNext DEF HeldShape, ReadFreed, Strings!Undefined, Strings!Next
<1> QED
  BY <1>1, <1>2, <1>3, <1>4, <1>5 DEF Appending

LEMMA NextPromised ==
  ASSUME IInv, IInv', [Next]_vars
  PROVE  [Strings!Next]_(Strings!byteStringVars)
<1>1. CASE LTE_StringBuilder_new
  BY <1>1, NewPromised DEF Strings!Next
<1>2. CASE LTE_StringBuilder_free
  BY <1>2, FreePromised DEF Strings!Next
<1>3. ASSUME NEW a \in Arguments, LTE_StringBuilder_append_bytes(a) PROVE Strings!Next
  BY <1>3, ArgumentsOK, AppendPromised DEF LTE_StringBuilder_append_bytes, Strings!Next
<1>4. ASSUME NEW a \in Arguments, LTE_StringBuilder_append_str(a) PROVE Strings!Next
  <2> DEFINE c == [a EXCEPT !.bytes = CString(@)]
  <2>1. LTE_StringBuilder_append_bytes(c) /\ pc = "ready"
    BY <1>4 DEF LTE_StringBuilder_append_str, LTE_StringBuilder_append_bytes
  <2>2. ArgumentOK(c)
    BY <2>1, ArgumentsOK
  <2> HIDE DEF c
  <2> QED
    BY <2>1, <2>2, AppendPromised DEF Strings!Next
<1>5. ASSUME NEW ch \in Byte, LTE_StringBuilder_append_char(ch) PROVE Strings!Next
  BY <1>5, CharOK, AppendPromised DEF LTE_StringBuilder_append_char, Strings!Next
<1>6. CASE Appending
  BY <1>6, AppendingPromised DEF Strings!byteStringVars
<1>7. CASE UNCHANGED vars
  BY <1>7 DEF vars, builder, call, held, pending, LTE_StringBuilder_value,
     Strings!byteStringVars
<1> QED
  BY <1>1, <1>2, <1>3, <1>4, <1>5, <1>6, <1>7 DEF Next

(* The builder holds the bytes appended to it, in order, however it grew   *)
(* and wherever realloc put it (utils.c:177-201).                          *)
THEOREM PromiseKept == Spec => HoldsAppended
<1>1. Init => Strings!Init
  BY InitPromised
<1>2. IInv /\ IInv' /\ [Next]_vars => [Strings!Next]_(Strings!byteStringVars)
  BY NextPromised
<1> QED
  BY <1>1, <1>2, Invariance, PTL DEF Spec, HoldsAppended, Strings!Spec

-------------------------------------------------------------------------------
(* The program's own steps: what it appends as a code point are at most    *)
(* four bytes, and none where the code point is refused (utf8.c:182-206).  *)
Valid(cp) == cp \in Nat /\ cp <= \h10ffff /\ ~(\hd800 <= cp /\ cp <= \hdfff)

LEMMA ValidCode ==
  ASSUME NEW cp \in Nat PROVE utf8_codepoint_valid(cp) <=> Valid(cp)
<1>1. PICK a \in Nat : a = \hd800
  BY SMT
<1>2. PICK b \in Nat : b = \hdfff
  BY SMT
<1>3. cp \in a .. b <=> (a <= cp /\ cp <= b)
  OBVIOUS
<1>4. cp \in \hd800 .. \hdfff <=> \hd800 <= cp /\ cp <= \hdfff
  BY <1>1, <1>2, <1>3, SMT
<1> QED
  BY <1>4, SMT DEF utf8_codepoint_valid, Valid

LEMMA Encoded ==
  ASSUME NEW cp \in Nat
  PROVE  /\ LTE_utf8_encode(cp) \in Seq(0 .. 255) /\ Len(LTE_utf8_encode(cp)) \in 0 .. 4
         /\ LTE_utf8_encode(cp) # <<>> => Valid(cp) /\ Len(LTE_utf8_encode(cp)) \in 1 .. 4
<1> DEFINE tail(s) == \h80 + ((cp \div s) % \h40)
<1>1. tail(1) \in 0 .. 255 /\ tail(\h40) \in 0 .. 255 /\ tail(\h1000) \in 0 .. 255
  OBVIOUS
<1>2. cp <= \h7f => cp \in 0 .. 255
  OBVIOUS
<1>3. cp <= \h7ff => \hc0 + cp \div \h40 \in 0 .. 255
  OBVIOUS
<1>4. cp <= \hffff => \he0 + cp \div \h1000 \in 0 .. 255
  OBVIOUS
<1>5. cp <= \h10ffff => \hf0 + cp \div \h40000 \in 0 .. 255
  OBVIOUS
<1>6. utf8_codepoint_valid(cp) <=> Valid(cp)
  BY ValidCode
<1>7. LTE_utf8_encode(cp) =
        IF ~utf8_codepoint_valid(cp) THEN <<>>
        ELSE IF cp <= \h7f THEN <<cp>>
        ELSE IF cp <= \h7ff THEN <<\hc0 + cp \div \h40, tail(1)>>
        ELSE IF cp <= \hffff THEN <<\he0 + cp \div \h1000, tail(\h40), tail(1)>>
        ELSE <<\hf0 + cp \div \h40000, tail(\h1000), tail(\h40), tail(1)>>
  BY DEF LTE_utf8_encode
<1> DEFINE t1 == tail(1)
           t2 == tail(\h40)
           t3 == tail(\h1000)
           b2 == \hc0 + cp \div \h40
           b3 == \he0 + cp \div \h1000
           b4 == \hf0 + cp \div \h40000
<1>8. CASE ~Valid(cp)
  BY <1>6, <1>7, <1>8
<1>9. CASE Valid(cp) /\ cp <= \h7f
  BY <1>2, <1>6, <1>7, <1>9
<1>10. CASE Valid(cp) /\ ~(cp <= \h7f) /\ cp <= \h7ff
  <2>1. LTE_utf8_encode(cp) = <<b2, t1>>
    BY <1>6, <1>7, <1>10
  <2>2. b2 \in 0 .. 255 /\ t1 \in 0 .. 255
    BY <1>1, <1>3, <1>10
  <2> HIDE DEF b2, t1
  <2> QED
    BY <1>10, <2>1, <2>2
<1>11. CASE Valid(cp) /\ ~(cp <= \h7f) /\ ~(cp <= \h7ff) /\ cp <= \hffff
  <2>1. LTE_utf8_encode(cp) = <<b3, t2, t1>>
    BY <1>6, <1>7, <1>11
  <2>2. b3 \in 0 .. 255 /\ t2 \in 0 .. 255 /\ t1 \in 0 .. 255
    BY <1>1, <1>4, <1>11
  <2> HIDE DEF b3, t2, t1
  <2> QED
    BY <1>11, <2>1, <2>2
<1>12. CASE Valid(cp) /\ ~(cp <= \h7f) /\ ~(cp <= \h7ff) /\ ~(cp <= \hffff)
  <2>1. LTE_utf8_encode(cp) = <<b4, t3, t2, t1>>
    BY <1>6, <1>7, <1>12
  <2>2. b4 \in 0 .. 255 /\ t3 \in 0 .. 255 /\ t2 \in 0 .. 255 /\ t1 \in 0 .. 255
    BY <1>1, <1>5, <1>12 DEF Valid
  <2> HIDE DEF b4, t3, t2, t1
  <2> QED
    BY <1>12, <2>1, <2>2
<1> QED
  BY <1>8, <1>9, <1>10, <1>11, <1>12

LEMMA EncodedOK == ASSUME NEW cp \in Codepoints PROVE ArgumentOK(Given(LTE_utf8_encode(cp)))
<1>1. cp \in Nat /\ Byte = 0 .. 255 /\ MaxBlock \in Nat /\ MaxBlock >= 4
  BY TextAssumption, SizeAssumption
<1> DEFINE s == LTE_utf8_encode(cp)
<1>2. s \in Seq(0 .. 255) /\ Len(s) \in 0 .. 4
  BY <1>1, Encoded, Zenon
<1> HIDE DEF s
<1>6. s \in Seq(Byte) /\ Len(s) \in Nat /\ Len(s) <= 4
  <2>1. s \in Seq(Byte)
    BY <1>1, <1>2, Zenon
  <2>2. \A n \in 0 .. 4 : n \in Nat /\ n <= 4
    OBVIOUS
  <2>3. Len(s) \in Nat /\ Len(s) <= 4
    BY <1>2, <2>2, Zenon
  <2> QED
    BY <2>1, <2>3
<1>3. Given(s).bytes = s /\ Given(s) \in [own : BOOLEAN, bytes : Seq(Byte)] /\ ~Given(s).own
  BY <1>6 DEF Given
<1>4. Len(s) <= MaxBlock
  BY <1>1, <1>6
<1>5. ArgumentOK(Given(s))
  BY <1>3, <1>4 DEF ArgumentOK
<1> QED
  BY <1>5 DEF s

(* Every step of a program is one of the builder, or appends the encoding  *)
(* of a code point.                                                        *)
LEMMA TextStep ==
  ASSUME TextNext
  PROVE  \/ [Next]_vars
         \/ \E cp \in Codepoints : LTE_StringBuilder_append_bytes(Given(LTE_utf8_encode(cp)))
<1>1. ASSUME NEW k \in Kind, Start(k) PROVE Next
  BY <1>1 DEF Start, Next
<1>2. ASSUME Discard PROVE Next
  BY <1>2 DEF Discard, Next
<1>3. ASSUME NEW k \in DOMAIN Alphabet, NEW ch \in Alphabet[k], AppendByte(ch) PROVE Next
  <2>1. ch \in Byte
    BY TextAssumption
  <2> QED
    BY <1>3, <2>1 DEF AppendByte, Next
<1>4. ASSUME NEW a \in Arguments, AppendString(a) PROVE Next
  BY <1>4 DEF AppendString, Next
<1>5. ASSUME NEW cp \in Codepoints, AppendCodepoint(cp)
      PROVE  LTE_StringBuilder_append_bytes(Given(LTE_utf8_encode(cp)))
  BY <1>5 DEF AppendCodepoint
<1>6. ASSUME Appending PROVE Next
  BY <1>6 DEF Next
<1> QED
  BY <1>1, <1>2, <1>3, <1>4, <1>5, <1>6 DEF TextNext

LEMMA TextNextStep == ASSUME IInv, [TextNext]_textVars PROVE IInv'
<1>1. CASE [Next]_vars
  BY <1>1, NextStep
<1>2. ASSUME NEW cp \in Codepoints, LTE_StringBuilder_append_bytes(Given(LTE_utf8_encode(cp)))
      PROVE  IInv'
  BY <1>2, EncodedOK, AppendStep
<1>3. UNCHANGED textVars => UNCHANGED vars
  BY DEF textVars
<1> QED
  BY <1>1, <1>2, <1>3, TextStep

LEMMA TextInvariance == TextSpec => []IInv
<1>1. TextInit => IInv
  BY InitIInv DEF TextInit
<1>2. IInv /\ [TextNext]_textVars => IInv'
  BY TextNextStep
<1> QED
  BY <1>1, <1>2, PTL DEF TextSpec

(* Whatever the program appends, the copy stays inside of the buffer and   *)
(* the builder holds it (utils.c:177-201).                                 *)
THEOREM TextHeld == TextSpec => []CopyFits /\ HoldsAppended
<1>1. IInv => CopyFits
  BY DEF IInv, Sizes, CopyFits
<1>2. TextInit => Strings!Init
  BY InitPromised DEF TextInit
<1>3. ASSUME IInv, IInv', [TextNext]_textVars PROVE [Strings!Next]_(Strings!byteStringVars)
  <2>1. CASE [Next]_vars
    BY <1>3, <2>1, NextPromised
  <2>2. ASSUME NEW cp \in Codepoints, LTE_StringBuilder_append_bytes(Given(LTE_utf8_encode(cp)))
        PROVE  Strings!Next
    BY <1>3, <2>2, EncodedOK, AppendPromised DEF Strings!Next
  <2>3. UNCHANGED textVars => UNCHANGED vars
    BY DEF textVars
  <2> QED
    BY <1>3, <2>1, <2>2, <2>3, TextStep
<1>4. IInv /\ IInv' /\ [TextNext]_textVars => [Strings!Next]_(Strings!byteStringVars)
  BY <1>3
<1> QED
  BY <1>1, <1>2, <1>4, TextInvariance, PTL DEF TextSpec, HoldsAppended, Strings!Spec

-------------------------------------------------------------------------------
(* UTF-8.  The first byte tells the length of a sequence (utf8.c:19-33).   *)
LEMMA SequenceLength ==
  ASSUME NEW b \in 0 .. 255
  PROVE  /\ LTE_utf8_sequence_length(b) \in 0 .. 4
         /\ \A n \in 1 .. 4 : b \in FirstByte[n] <=> LTE_utf8_sequence_length(b) = n
         /\ LTE_utf8_is_continuation(b) => LTE_utf8_sequence_length(b) = 0
<1>1. \A n \in 1 .. 4 : n = 1 \/ n = 2 \/ n = 3 \/ n = 4
  OBVIOUS
<1>2. /\ b \in FirstByte[1] <=> b <= \h7f
      /\ b \in FirstByte[2] <=> \hc2 <= b /\ b <= \hdf
      /\ b \in FirstByte[3] <=> \he0 <= b /\ b <= \hef
      /\ b \in FirstByte[4] <=> \hf0 <= b /\ b <= \hf4
  BY DEF FirstByte
<1>3. \A n \in 1 .. 4 : \A k \in 1 .. 4 : b \in FirstByte[n] /\ b \in FirstByte[k] => n = k
  BY <1>1, <1>2
<1>4. CASE \E n \in 1 .. 4 : b \in FirstByte[n]
  <2>1. PICK n \in 1 .. 4 : b \in FirstByte[n]
    BY <1>4
  <2>2. LTE_utf8_sequence_length(b) = n
    BY <1>3, <2>1 DEF LTE_utf8_sequence_length
  <2>3. LTE_utf8_is_continuation(b) => \h80 <= b /\ b < \hc0
    BY DEF LTE_utf8_is_continuation
  <2>4. ~LTE_utf8_is_continuation(b)
    BY <1>1, <1>2, <2>1, <2>3
  <2> QED
    BY <1>3, <2>1, <2>2, <2>4
<1>5. CASE ~\E n \in 1 .. 4 : b \in FirstByte[n]
  <2>1. LTE_utf8_sequence_length(b) = 0
    BY <1>5 DEF LTE_utf8_sequence_length
  <2> QED
    BY <1>5, <2>1
<1> QED
  BY <1>4, <1>5

(* A valid sequence by its bytes, and the code point it is decoded to.     *)
Cont(b) == \h80 <= b /\ b <= \hbf
Two(f, b) == \hc2 <= f /\ f <= \hdf /\ Cont(b)
Three(f, b, d) ==
  /\ \he0 <= f /\ f <= \hef /\ Cont(b) /\ Cont(d)
  /\ (f = \he0 => b >= \ha0) /\ (f = \hed => b <= \h9f)
Four(f, b, d, e) ==
  /\ \hf0 <= f /\ f <= \hf4 /\ Cont(b) /\ Cont(d) /\ Cont(e)
  /\ (f = \hf0 => b >= \h90) /\ (f = \hf4 => b <= \h8f)
Sequence(m, c, n) ==
  \/ n = 1 /\ m[c] <= \h7f
  \/ n = 2 /\ Two(m[c], m[c + 1])
  \/ n = 3 /\ Three(m[c], m[c + 1], m[c + 2])
  \/ n = 4 /\ Four(m[c], m[c + 1], m[c + 2], m[c + 3])

LEMMA ContByte ==
  ASSUME NEW b \in 0 .. 255 PROVE LTE_utf8_is_continuation(b) <=> Cont(b)
  BY DEF LTE_utf8_is_continuation, Cont

LEMMA SequenceBytes ==
  ASSUME NEW m, NEW c \in Nat, NEW n \in 1 .. 4, \A i \in 0 .. n - 1 : m[c + i] \in 0 .. 255
  PROVE  LTE_utf8_sequence_valid(m, c, n) <=> Sequence(m, c, n)
<1>1. m[c] \in 0 .. 255
  <2>1. 0 \in 0 .. n - 1 /\ c + 0 = c
    OBVIOUS
  <2> QED
    BY <2>1
<1> DEFINE rest == \A i \in 1 .. n - 1 : LTE_utf8_is_continuation(m[c + i])
<1>2. LTE_utf8_sequence_valid(m, c, n) <=>
        /\ m[c] \in FirstByte[n] /\ rest
        /\ (m[c] = \he0 => m[c + 1] >= \ha0) /\ (m[c] = \hed => m[c + 1] <= \h9f)
        /\ (m[c] = \hf0 => m[c + 1] >= \h90) /\ (m[c] = \hf4 => m[c + 1] <= \h8f)
  BY DEF LTE_utf8_sequence_valid
<1>3. rest <=> \A i \in 1 .. n - 1 : Cont(m[c + i])
  <2>1. \A i \in 1 .. n - 1 : i \in 0 .. n - 1
    OBVIOUS
  <2> QED
    BY <2>1, ContByte
<1> HIDE DEF rest
<1>4. /\ m[c] \in FirstByte[1] <=> m[c] <= \h7f
      /\ m[c] \in FirstByte[2] <=> \hc2 <= m[c] /\ m[c] <= \hdf
      /\ m[c] \in FirstByte[3] <=> \he0 <= m[c] /\ m[c] <= \hef
      /\ m[c] \in FirstByte[4] <=> \hf0 <= m[c] /\ m[c] <= \hf4
  BY <1>1 DEF FirstByte
<1>5. CASE n = 1
  <2>1. rest
    BY <1>3, <1>5
  <2> QED
    BY <1>1, <1>2, <1>4, <1>5, <2>1 DEF Sequence
<1>6. CASE n = 2
  <2>1. rest <=> Cont(m[c + 1])
    <3>1. \A i \in 1 .. n - 1 : i = 1
      BY <1>6
    <3>2. 1 \in 1 .. n - 1
      BY <1>6
    <3> QED
      BY <1>3, <3>1, <3>2
  <2> QED
    BY <1>1, <1>2, <1>4, <1>6, <2>1 DEF Sequence, Two
<1>7. CASE n = 3
  <2>1. rest <=> Cont(m[c + 1]) /\ Cont(m[c + 2])
    <3>1. \A i \in 1 .. n - 1 : i = 1 \/ i = 2
      BY <1>7
    <3>2. 1 \in 1 .. n - 1 /\ 2 \in 1 .. n - 1
      BY <1>7
    <3> QED
      BY <1>3, <3>1, <3>2
  <2> QED
    BY <1>1, <1>2, <1>4, <1>7, <2>1 DEF Sequence, Three
<1>8. CASE n = 4
  <2>1. rest <=> Cont(m[c + 1]) /\ Cont(m[c + 2]) /\ Cont(m[c + 3])
    <3>1. \A i \in 1 .. n - 1 : i = 1 \/ i = 2 \/ i = 3
      BY <1>8
    <3>2. 1 \in 1 .. n - 1 /\ 2 \in 1 .. n - 1 /\ 3 \in 1 .. n - 1
      BY <1>8
    <3> QED
      BY <1>3, <3>1, <3>2
  <2> QED
    BY <1>1, <1>2, <1>4, <1>8, <2>1 DEF Sequence, Four
<1> QED
  BY <1>5, <1>6, <1>7, <1>8

(* What follows the first byte of a valid sequence continues it.           *)
LEMMA ValidRest ==
  ASSUME NEW m, NEW c \in Nat, NEW n, LTE_utf8_sequence_valid(m, c, n), m[c] \in 0 .. 255
  PROVE  /\ n \in 1 .. 4 /\ n = LTE_utf8_sequence_length(m[c])
         /\ ~LTE_utf8_is_continuation(m[c])
         /\ \A i \in 1 .. n - 1 : LTE_utf8_is_continuation(m[c + i])
<1>1. n \in 1 .. 4 /\ m[c] \in FirstByte[n]
      /\ \A i \in 1 .. n - 1 : LTE_utf8_is_continuation(m[c + i])
  BY DEF LTE_utf8_sequence_valid
<1>2. n = LTE_utf8_sequence_length(m[c]) /\ n # 0
  BY <1>1, SequenceLength, SMTT(30)
<1> QED
  BY <1>1, <1>2, SequenceLength

(* A text of a bytes from c on, and a NUL behind it in a copy of it.       *)
Bytes(m, c, a) == \A i \in 0 .. a - 1 : m[c + i] \in 0 .. 255
CutOff(m, t, c, a) == (\A i \in 0 .. a - 1 : t[c + i] = m[c + i]) /\ t[c + a] = 0

SameDecoded(t, m, c, a, n) ==
  n <= a => LTE_utf8_decode_valid(t, c, n) = LTE_utf8_decode_valid(m, c, n)

(* The NUL keeps a sequence from reaching over the end (utf8.c:91-98).     *)
LEMMA BoundedValid ==
  ASSUME NEW m, NEW t, NEW c \in Nat, NEW a \in Nat \ {0}, Bytes(m, c, a), CutOff(m, t, c, a),
         NEW n \in 1 .. 4
  PROVE  /\ LTE_utf8_sequence_valid(t, c, n) <=> LTE_utf8_sequence_valid_bounded(m, c, a, n)
         /\ SameDecoded(t, m, c, a, n)
<1>1. CASE n <= a
  <2>1. \A i \in 0 .. n - 1 : i \in 0 .. a - 1
    BY <1>1
  <2>2. \A i \in 0 .. n - 1 : t[c + i] = m[c + i] /\ m[c + i] \in 0 .. 255
    BY <2>1, SMTT(30) DEF Bytes, CutOff
  <2>3. n >= 1 /\ t[c] = m[c]
    <3>1. 0 \in 0 .. n - 1 /\ c + 0 = c
      OBVIOUS
    <3> QED
      BY <2>2, <3>1
  <2>4. /\ n >= 2 => t[c + 1] = m[c + 1]
        /\ n >= 3 => t[c + 2] = m[c + 2]
        /\ n >= 4 => t[c + 3] = m[c + 3]
    BY <2>2
  <2>5. Sequence(t, c, n) <=> Sequence(m, c, n)
    BY <2>3, <2>4 DEF Sequence
  <2>6. LTE_utf8_sequence_valid(t, c, n) <=> LTE_utf8_sequence_valid(m, c, n)
    BY <2>2, <2>5, SequenceBytes
  <2>7. LTE_utf8_decode_valid(t, c, n) = LTE_utf8_decode_valid(m, c, n)
    BY <2>3, <2>4 DEF LTE_utf8_decode_valid
  <2> QED
    BY <1>1, <2>6, <2>7 DEF LTE_utf8_sequence_valid_bounded, SameDecoded
<1>2. CASE n > a
  <2>1. a \in 1 .. n - 1 /\ ~LTE_utf8_is_continuation(t[c + a])
    BY <1>2 DEF CutOff, LTE_utf8_is_continuation
  <2>2. ~LTE_utf8_sequence_valid(t, c, n)
    BY <2>1 DEF LTE_utf8_sequence_valid
  <2> QED
    BY <1>2, <2>2 DEF LTE_utf8_sequence_valid_bounded, SameDecoded
<1> QED
  BY <1>1, <1>2

LEMMA MinLeast ==
  ASSUME NEW S \in SUBSET Nat, NEW x \in S, \A y \in S : x <= y
  PROVE  Min(S) = x
<1> DEFINE y == Min(S)
<1>1. y \in S /\ \A z \in S : y <= z
  BY DEF Min
<1> HIDE DEF y
<1>2. x \in Nat /\ y \in Nat /\ x <= y /\ y <= x
  BY <1>1
<1>3. x = y
  BY <1>2
<1> QED
  BY <1>3 DEF y

(* The end of a run of continuation bytes, found by its length or by the   *)
(* NUL behind it (utf8.c:139-147, 169-175).                                *)
Run(m, c, a) == {o \in 1 .. a : o = a \/ ~LTE_utf8_is_continuation(m[c + o])}
Behind(t, c, D) == {d \in D : d > c /\ ~LTE_utf8_is_continuation(t[d])}

LEMMA RunOver ==
  ASSUME NEW m, NEW c \in Nat, NEW a \in Nat \ {0}
  PROVE  \E o \in Run(m, c, a) :
           /\ o \in 1 .. a /\ Min(Run(m, c, a)) = o
           /\ (o = a \/ ~LTE_utf8_is_continuation(m[c + o]))
           /\ \A i \in 1 .. o - 1 : LTE_utf8_is_continuation(m[c + i])
<1>1. a \in Run(m, c, a) /\ Run(m, c, a) \subseteq 1 .. a
  BY DEF Run
<1>2. Run(m, c, a) \in SUBSET Nat /\ Run(m, c, a) # {}
  BY <1>1
<1>3. PICK o \in Run(m, c, a) : \A y \in Run(m, c, a) : o <= y
  BY <1>2, LeastNat
<1>4. Min(Run(m, c, a)) = o
  BY <1>2, <1>3, MinLeast
<1>5. o \in 1 .. a /\ (o = a \/ ~LTE_utf8_is_continuation(m[c + o]))
  BY DEF Run
<1>6. \A i \in 1 .. o - 1 : LTE_utf8_is_continuation(m[c + i])
  <2> SUFFICES ASSUME NEW i \in 1 .. o - 1, ~LTE_utf8_is_continuation(m[c + i]) PROVE FALSE
    OBVIOUS
  <2>1. i \in Run(m, c, a)
    BY <1>5 DEF Run
  <2> QED
    BY <1>3, <1>5, <2>1
<1> QED
  BY <1>4, <1>5, <1>6

(* A NUL behind the text ends a run where its length does.                 *)
LEMMA RunEnd ==
  ASSUME NEW m, NEW t, NEW c \in Nat, NEW a \in Nat \ {0}, CutOff(m, t, c, a),
         NEW D \in SUBSET Nat, \A i \in 0 .. a : c + i \in D
  PROVE  Min(Behind(t, c, D)) = c + Min(Run(m, c, a))
<1> DEFINE run == Run(m, c, a)
           behind == Behind(t, c, D)
<1>1. PICK o \in run : /\ o \in 1 .. a /\ Min(run) = o
                       /\ (o = a \/ ~LTE_utf8_is_continuation(m[c + o]))
                       /\ \A i \in 1 .. o - 1 : LTE_utf8_is_continuation(m[c + i])
  BY RunOver
<1>6. ~LTE_utf8_is_continuation(t[c + o])
  <2>1. CASE o = a
    BY <2>1 DEF CutOff, LTE_utf8_is_continuation
  <2>2. CASE o # a
    <3>1. o \in 0 .. a - 1
      BY <1>1, <2>2
    <3> QED
      BY <1>1, <2>2, <3>1 DEF CutOff
  <2> QED
    BY <2>1, <2>2
<1>7. c + o \in behind
  BY <1>1, <1>6 DEF Behind
<1>8. ASSUME NEW d \in behind PROVE c + o <= d
  <2>1. d \in Nat /\ d > c /\ ~LTE_utf8_is_continuation(t[d])
    BY DEF Behind
  <2>2. SUFFICES ASSUME d < c + o PROVE FALSE
    BY <1>1, <2>1
  <2>3. d - c \in 1 .. o - 1 /\ d - c \in 0 .. a - 1 /\ c + (d - c) = d
    BY <1>1, <2>1, <2>2
  <2> QED
    BY <1>1, <2>1, <2>3 DEF CutOff
<1>9. behind \in SUBSET Nat
  BY DEF Behind
<1>10. Min(behind) = c + o
  BY <1>7, <1>8, <1>9, MinLeast
<1> QED
  BY <1>1, <1>10

(* The functions with and without a length agree on a text and its copy.   *)
LEMMA CutOffAgrees ==
  ASSUME NEW m, NEW t, NEW c \in Nat, NEW a \in Nat \ {0}, Bytes(m, c, a), CutOff(m, t, c, a),
         DOMAIN t \in SUBSET Nat, \A i \in 0 .. a : c + i \in DOMAIN t
  PROVE  /\ LTE_utf8_next(t, c) = LTE_utf8_next_bounded(m, c, a)
         /\ LTE_utf8_codepoint_at(t, c) = LTE_utf8_codepoint_at_bounded(m, c, a)
<1>1. t[c] = m[c] /\ m[c] \in 0 .. 255
  <2>1. 0 \in 0 .. a - 1 /\ c + 0 = c
    OBVIOUS
  <2> QED
    BY <2>1, SMTT(30) DEF Bytes, CutOff
<1> DEFINE n == LTE_utf8_sequence_length(m[c])
           valid == n > 0 /\ LTE_utf8_sequence_valid(t, c, n)
<1>2. n \in 0 .. 4
  BY <1>1, SequenceLength
<1> HIDE DEF n
<1>3. /\ valid <=> n > 0 /\ LTE_utf8_sequence_valid_bounded(m, c, a, n)
      /\ valid => LTE_utf8_decode_valid(t, c, n) = LTE_utf8_decode_valid(m, c, n)
  <2>1. CASE n = 0
    BY <2>1
  <2>2. CASE n \in 1 .. 4
    <3>1. n > 0
      BY <2>2
    <3>2. LTE_utf8_sequence_valid(t, c, n) <=> LTE_utf8_sequence_valid_bounded(m, c, a, n)
      BY <2>2, BoundedValid
    <3>3. SameDecoded(t, m, c, a, n)
      BY <2>2, BoundedValid
    <3> QED
      BY <3>1, <3>2, <3>3 DEF SameDecoded, LTE_utf8_sequence_valid_bounded
  <2> QED
    BY <1>2, <2>1, <2>2
<1>5. LTE_utf8_codepoint_at(t, c) = LTE_utf8_codepoint_at_bounded(m, c, a)
  BY <1>1, <1>3 DEF LTE_utf8_codepoint_at, LTE_utf8_codepoint_at_bounded, n
<1> DEFINE run == Run(m, c, a)
           behind == Behind(t, c, DOMAIN t)
<1>6. Min(behind) = c + Min(run)
  BY RunEnd
<1>7. LTE_utf8_next(t, c) =
        IF LTE_utf8_is_continuation(m[c]) THEN Min(behind)
        ELSE IF valid THEN c + n ELSE c + 1
  BY <1>1 DEF LTE_utf8_next, Behind, n
<1>8. LTE_utf8_next_bounded(m, c, a) =
        IF LTE_utf8_is_continuation(m[c]) THEN c + Min(run)
        ELSE IF n > 0 /\ LTE_utf8_sequence_valid_bounded(m, c, a, n) THEN c + n ELSE c + 1
  BY DEF LTE_utf8_next_bounded, Run, n
<1> HIDE DEF run, behind, valid
<1>9. LTE_utf8_next(t, c) = LTE_utf8_next_bounded(m, c, a)
  BY <1>3, <1>6, <1>7, <1>8
<1> QED
  BY <1>5, <1>9

(* What a reader of a text finds in memory.                                *)
LEMMA TextBytes ==
  ASSUME IInv, Reading
  PROVE  /\ length \in Nat /\ size \in Nat /\ length < size /\ DOMAIN buf = 0 .. size - 1
         /\ \A i \in 0 .. length - 1 : buf[i] \in 0 .. 255
  BY TextAssumption, SizeAssumption DEF IInv, TypeOK, Terminated, Reading

LEMMA Agrees == IInv => BoundedAgrees
<1> SUFFICES ASSUME IInv, Reading, NEW end \in 0 .. length, NEW c \in 0 .. end - 1
             PROVE  LET copy == [buf EXCEPT ![end] = NUL]
                    IN  /\ LTE_utf8_next(copy, c) = LTE_utf8_next_bounded(buf, c, end - c)
                        /\ LTE_utf8_codepoint_at(copy, c)
                             = LTE_utf8_codepoint_at_bounded(buf, c, end - c)
  BY Zenon DEF BoundedAgrees
<1> DEFINE copy == [buf EXCEPT ![end] = NUL]
<1>1. length \in Nat /\ size \in Nat /\ length < size /\ DOMAIN buf = 0 .. size - 1
      /\ \A i \in 0 .. length - 1 : buf[i] \in 0 .. 255
  BY TextBytes
<1>2. DOMAIN copy = 0 .. size - 1 /\ copy[end] = 0
      /\ \A i \in 0 .. size - 1 : i # end => copy[i] = buf[i]
  BY <1>1, TextAssumption
<1> HIDE DEF copy
<1>3. PICK a \in Nat : a = end - c /\ a # 0 /\ c + a = end
  BY <1>1
<1>4. c \in Nat /\ DOMAIN copy \in SUBSET Nat
  BY <1>1, <1>2
<1>5. Bytes(buf, c, a)
  BY <1>1, <1>3, <1>4, SMTT(30) DEF Bytes
<1>6. CutOff(buf, copy, c, a)
  BY <1>1, <1>2, <1>3, <1>4 DEF CutOff
<1>7. \A i \in 0 .. a : c + i \in DOMAIN copy
  BY <1>1, <1>2, <1>3, <1>4
<1>8. /\ LTE_utf8_next(copy, c) = LTE_utf8_next_bounded(buf, c, a)
      /\ LTE_utf8_codepoint_at(copy, c) = LTE_utf8_codepoint_at_bounded(buf, c, a)
  BY <1>3, <1>4, <1>5, <1>6, <1>7, CutOffAgrees
<1> QED
  BY <1>3, <1>8 DEF copy

(* A reader that is told the length of a text finds in it what one without *)
(* finds in a copy with a NUL behind it (utf8.c:108-180).                  *)
THEOREM BoundedReaders == TextSpec => []BoundedAgrees
  BY Agrees, TextInvariance, PTL

-------------------------------------------------------------------------------
(* The sequences the code takes for valid are the well-formed ones.        *)
Fits(s, r) == DOMAIN r = DOMAIN s /\ \A i \in DOMAIN s : s[i] \in r[i]
FitsUpto(s, r, n, k) ==
  /\ n = k /\ s[1] \in r[1] /\ (k >= 2 => s[2] \in r[2])
  /\ (k >= 3 => s[3] \in r[3]) /\ (k >= 4 => s[4] \in r[4])
LEMMA FitsIs ==
  ASSUME NEW s, NEW r, NEW n \in 1 .. 4, DOMAIN s = 1 .. n, NEW k \in 1 .. 4, DOMAIN r = 1 .. k
  PROVE  Fits(s, r) <=> FitsUpto(s, r, n, k)
<1>1. 1 .. k = 1 .. n <=> k = n
  <2>1. k \in 1 .. k /\ n \in 1 .. n
    OBVIOUS
  <2>2. k \in 1 .. n /\ n \in 1 .. k => k = n
    OBVIOUS
  <2> QED
    BY <2>1, <2>2
<1>2. Fits(s, r) <=> n = k /\ \A i \in 1 .. k : s[i] \in r[i]
  BY <1>1 DEF Fits
<1>3. (\A i \in 1 .. k : s[i] \in r[i]) <=>
        /\ s[1] \in r[1] /\ (k >= 2 => s[2] \in r[2])
        /\ (k >= 3 => s[3] \in r[3]) /\ (k >= 4 => s[4] \in r[4])
  <2>1. \A i \in 1 .. k : i = 1 \/ (i = 2 /\ k >= 2) \/ (i = 3 /\ k >= 3)
                            \/ (i = 4 /\ k >= 4)
    OBVIOUS
  <2>2. 1 \in 1 .. k /\ (k >= 2 => 2 \in 1 .. k) /\ (k >= 3 => 3 \in 1 .. k)
        /\ (k >= 4 => 4 \in 1 .. k)
    OBVIOUS
  <2> QED
    BY <2>1, <2>2
<1> QED
  BY <1>2, <1>3 DEF FitsUpto

LEMMA WellFormedIs ==
  ASSUME NEW m, NEW c \in Nat, NEW n \in 1 .. 4, NEW s, DOMAIN s = 1 .. n,
         \A i \in 1 .. n : s[i] = m[c + i - 1] /\ s[i] \in 0 .. 255
  PROVE  WellFormed(s) <=> Sequence(m, c, n)
<1> DEFINE A1 == << 0 .. \h7f >>
           B1 == << \hc2 .. \hdf, Rest >>
           C1 == << {\he0}, \ha0 .. \hbf, Rest >>
           C2 == << \he1 .. \hec, Rest, Rest >>
           C3 == << {\hed}, \h80 .. \h9f, Rest >>
           C4 == << \hee .. \hef, Rest, Rest >>
           D1 == << {\hf0}, \h90 .. \hbf, Rest, Rest >>
           D2 == << \hf1 .. \hf3, Rest, Rest, Rest >>
           D3 == << {\hf4}, \h80 .. \h8f, Rest, Rest >>
<1>1. WellFormed(s) <=> \/ Fits(s, A1) \/ Fits(s, B1)
                        \/ Fits(s, C1) \/ Fits(s, C2) \/ Fits(s, C3) \/ Fits(s, C4)
                        \/ Fits(s, D1) \/ Fits(s, D2) \/ Fits(s, D3)
  <2>1. WellFormedRanges = {A1, B1, C1, C2, C3, C4, D1, D2, D3}
    BY DEF WellFormedRanges
  <2>2. WellFormed(s) <=> \E r \in WellFormedRanges : Fits(s, r)
    BY DEF WellFormed, Fits
  <2> HIDE DEF A1, B1, C1, C2, C3, C4, D1, D2, D3
  <2> QED
    BY <2>1, <2>2
<1>2. Fits(s, A1) <=> n = 1 /\ s[1] \in 0 .. \h7f
  <2>1. DOMAIN A1 = 1 .. 1 /\ A1[1] = 0 .. \h7f
    OBVIOUS
  <2> HIDE DEF A1
  <2>2. Fits(s, A1) <=> FitsUpto(s, A1, n, 1)
    <3>1. 1 \in 1 .. 4
      OBVIOUS
    <3> QED
      BY <2>1, <3>1, FitsIs, Zenon
  <2> QED
    BY <2>1, <2>2 DEF FitsUpto
<1>3. Fits(s, B1) <=> n = 2 /\ s[1] \in \hc2 .. \hdf /\ s[2] \in Rest
  <2>1. DOMAIN B1 = 1 .. 2 /\ B1[1] = \hc2 .. \hdf /\ B1[2] = Rest
    OBVIOUS
  <2> HIDE DEF B1
  <2>2. Fits(s, B1) <=> FitsUpto(s, B1, n, 2)
    <3>1. 2 \in 1 .. 4
      OBVIOUS
    <3> QED
      BY <2>1, <3>1, FitsIs, ZenonT(60)
  <2> QED
    BY <2>1, <2>2 DEF FitsUpto
<1>4. ASSUME NEW f, NEW b
      PROVE  Fits(s, << f, b, Rest >>) <=> n = 3 /\ s[1] \in f /\ s[2] \in b /\ s[3] \in Rest
  <2> DEFINE r == << f, b, Rest >>
  <2>1. DOMAIN r = 1 .. 3 /\ r[1] = f /\ r[2] = b /\ r[3] = Rest
    OBVIOUS
  <2> HIDE DEF r
  <2>2. Fits(s, r) <=> FitsUpto(s, r, n, 3)
    <3>1. 3 \in 1 .. 4
      OBVIOUS
    <3> QED
      BY <2>1, <3>1, FitsIs, Zenon
  <2>3. Fits(s, r) <=> n = 3 /\ s[1] \in f /\ s[2] \in b /\ s[3] \in Rest
    BY <2>1, <2>2 DEF FitsUpto
  <2> QED
    BY <2>3 DEF r
<1>5. ASSUME NEW f, NEW b
      PROVE  Fits(s, << f, b, Rest, Rest >>) <=> n = 4 /\ s[1] \in f /\ s[2] \in b /\ s[3] \in Rest /\ s[4] \in Rest
  <2> DEFINE r == << f, b, Rest, Rest >>
  <2>1. DOMAIN r = 1 .. 4 /\ r[1] = f /\ r[2] = b /\ r[3] = Rest /\ r[4] = Rest
    OBVIOUS
  <2> HIDE DEF r
  <2>2. Fits(s, r) <=> FitsUpto(s, r, n, 4)
    <3>1. 4 \in 1 .. 4
      OBVIOUS
    <3> QED
      BY <2>1, <3>1, FitsIs, Zenon
  <2>3. Fits(s, r) <=> n = 4 /\ s[1] \in f /\ s[2] \in b /\ s[3] \in Rest /\ s[4] \in Rest
    BY <2>1, <2>2 DEF FitsUpto
  <2> QED
    BY <2>3 DEF r
<1>6. /\ Fits(s, C1) <=> n = 3 /\ s[1] \in {\he0} /\ s[2] \in \ha0 .. \hbf /\ s[3] \in Rest
      /\ Fits(s, C2) <=> n = 3 /\ s[1] \in \he1 .. \hec /\ s[2] \in Rest /\ s[3] \in Rest
      /\ Fits(s, C3) <=> n = 3 /\ s[1] \in {\hed} /\ s[2] \in \h80 .. \h9f /\ s[3] \in Rest
      /\ Fits(s, C4) <=> n = 3 /\ s[1] \in \hee .. \hef /\ s[2] \in Rest /\ s[3] \in Rest
  <2>1. Fits(s, C1) <=> n = 3 /\ s[1] \in {\he0} /\ s[2] \in \ha0 .. \hbf /\ s[3] \in Rest
    BY <1>4, ZenonT(60)
  <2>2. Fits(s, C2) <=> n = 3 /\ s[1] \in \he1 .. \hec /\ s[2] \in Rest /\ s[3] \in Rest
    BY <1>4, ZenonT(60)
  <2>3. Fits(s, C3) <=> n = 3 /\ s[1] \in {\hed} /\ s[2] \in \h80 .. \h9f /\ s[3] \in Rest
    BY <1>4, ZenonT(60)
  <2>4. Fits(s, C4) <=> n = 3 /\ s[1] \in \hee .. \hef /\ s[2] \in Rest /\ s[3] \in Rest
    BY <1>4, ZenonT(60)
  <2> HIDE DEF C1, C2, C3, C4
  <2> QED
    BY <2>1, <2>2, <2>3, <2>4, ZenonT(60)
<1>7. /\ Fits(s, D1) <=> n = 4 /\ s[1] \in {\hf0} /\ s[2] \in \h90 .. \hbf
                         /\ s[3] \in Rest /\ s[4] \in Rest
      /\ Fits(s, D2) <=> n = 4 /\ s[1] \in \hf1 .. \hf3 /\ s[2] \in Rest
                         /\ s[3] \in Rest /\ s[4] \in Rest
      /\ Fits(s, D3) <=> n = 4 /\ s[1] \in {\hf4} /\ s[2] \in \h80 .. \h8f
                         /\ s[3] \in Rest /\ s[4] \in Rest
  <2>1. Fits(s, D1) <=> n = 4 /\ s[1] \in {\hf0} /\ s[2] \in \h90 .. \hbf
                         /\ s[3] \in Rest /\ s[4] \in Rest
    BY <1>5, ZenonT(60)
  <2>2. Fits(s, D2) <=> n = 4 /\ s[1] \in \hf1 .. \hf3 /\ s[2] \in Rest
                         /\ s[3] \in Rest /\ s[4] \in Rest
    BY <1>5, ZenonT(60)
  <2>3. Fits(s, D3) <=> n = 4 /\ s[1] \in {\hf4} /\ s[2] \in \h80 .. \h8f
                         /\ s[3] \in Rest /\ s[4] \in Rest
    BY <1>5, ZenonT(60)
  <2> HIDE DEF D1, D2, D3
  <2> QED
    BY <2>1, <2>2, <2>3, ZenonT(60)
<1> HIDE DEF A1, B1, C1, C2, C3, C4, D1, D2, D3
<1>8. /\ s[1] = m[c] /\ s[1] \in 0 .. 255
      /\ n >= 2 => s[2] = m[c + 1] /\ s[2] \in 0 .. 255
      /\ n >= 3 => s[3] = m[c + 2] /\ s[3] \in 0 .. 255
      /\ n >= 4 => s[4] = m[c + 3] /\ s[4] \in 0 .. 255
  BY SMTT(30)
<1>9. CASE n = 1
  BY <1>1, <1>2, <1>3, <1>6, <1>7, <1>8, <1>9 DEF Sequence
<1>10. CASE n = 2
  BY <1>1, <1>2, <1>3, <1>6, <1>7, <1>8, <1>10, SMTT(30) DEF Sequence, Two, Cont, Rest
<1>11. CASE n = 3
  BY <1>1, <1>2, <1>3, <1>6, <1>7, <1>8, <1>11, SMTT(30) DEF Sequence, Three, Cont, Rest
<1>12. CASE n = 4
  BY <1>1, <1>2, <1>3, <1>6, <1>7, <1>8, <1>12, SMTT(30) DEF Sequence, Four, Cont, Rest
<1> QED
  BY <1>9, <1>10, <1>11, <1>12, SMTT(30)

(* The bits of a number in groups of six.                                  *)
Two6(a, x, y) == a = x * \h40 + y /\ y < \h40
Three6(a, x, y, z) == a = x * \h1000 + y * \h40 + z /\ y < \h40 /\ z < \h40
Four6(a, x, y, z, w) ==
  a = x * \h40000 + y * \h1000 + z * \h40 + w /\ y < \h40 /\ z < \h40 /\ w < \h40
Is6(a, x, y) == a \in Nat /\ a \div \h40 = x /\ (a \div 1) % \h40 = y /\ a % \h40 = y

Cut6(a, v, u, x, y, z, w) ==
  /\ Is6(a, v, w) /\ Is6(v, u, z) /\ Is6(u, x, y)
  /\ a \div \h1000 = u /\ a \div \h40000 = x

LEMMA TwoSixes ==
  ASSUME NEW x \in Nat, NEW y \in Nat, NEW a, Two6(a, x, y)
  PROVE  Is6(a, x, y)
<1>1. a = x * \h40 + y /\ y < \h40
  BY DEF Two6
<1>2. a \in Nat /\ a \div \h40 = x /\ a % \h40 = y
  BY <1>1, SMT
<1>3. a \div 1 = a
  BY <1>2, SMT
<1> QED
  BY <1>2, <1>3, SMT DEF Is6

LEMMA ThreeSixes ==
  ASSUME NEW x \in Nat, NEW y \in Nat, NEW z \in Nat, NEW a, Three6(a, x, y, z)
  PROVE  \E u \in Nat : Is6(a, u, z) /\ Is6(u, x, y) /\ a \div \h1000 = x
<1>1. a = x * \h1000 + y * \h40 + z /\ y < \h40 /\ z < \h40
  BY DEF Three6
<1>2. PICK u \in Nat : u = x * \h40 + y
  BY SMT
<1>3. Two6(a, u, z) /\ Two6(u, x, y)
  BY <1>1, <1>2, SMT DEF Two6
<1>4. Is6(a, u, z) /\ Is6(u, x, y)
  BY <1>3, TwoSixes
<1>5. a \div \h1000 = x
  BY <1>1, SMT
<1> QED
  BY <1>4, <1>5

LEMMA FourSixes ==
  ASSUME NEW x \in Nat, NEW y \in Nat, NEW z \in Nat, NEW w \in Nat, NEW a,
         Four6(a, x, y, z, w)
  PROVE  \E v \in Nat : \E u \in Nat : Cut6(a, v, u, x, y, z, w)
<1>1. a = x * \h40000 + y * \h1000 + z * \h40 + w /\ y < \h40 /\ z < \h40 /\ w < \h40
  BY DEF Four6
<1>2. PICK u \in Nat : u = x * \h40 + y
  BY SMT
<1>3. PICK v \in Nat : v = u * \h40 + z
  BY SMT
<1>4. a = v * \h40 + w /\ a = u * \h1000 + z * \h40 + w
  BY <1>1, <1>2, <1>3, SMT
<1>5. Two6(a, v, w) /\ Two6(v, u, z) /\ Two6(u, x, y) /\ Three6(a, u, z, w)
  BY <1>1, <1>2, <1>3, <1>4, SMT DEF Two6, Three6
<1>6. Is6(a, v, w) /\ Is6(v, u, z) /\ Is6(u, x, y)
  BY <1>5, TwoSixes
<1>7. a \div \h1000 = u
  BY <1>5, ThreeSixes
<1>8. a \div \h40000 = x
  BY <1>1, SMT
<1> QED
  BY <1>6, <1>7, <1>8 DEF Cut6

(* Encoding and decoding in numbers (utf8.c:100-123, 182-206).             *)
EncodesTo(cp, s) == Valid(cp) /\ LTE_utf8_encode(cp) = s
TwoCode(f, b) == (f % \h20) * \h40 + (b % \h40)
ThreeCode(f, b, d) == (f % \h10) * \h1000 + (b % \h40) * \h40 + (d % \h40)
FourCode(f, b, d, e) ==
  (f % 8) * \h40000 + (b % \h40) * \h1000 + (d % \h40) * \h40 + (e % \h40)

LEMMA CodeTwo ==
  ASSUME NEW f \in 0 .. 255, NEW b \in 0 .. 255, Two(f, b)
  PROVE  EncodesTo(TwoCode(f, b), <<f, b>>)
<1> DEFINE cp == TwoCode(f, b)
<1>1. \hc2 <= f /\ f <= \hdf /\ \h80 <= b /\ b <= \hbf
  BY DEF Two, Cont
<1>2. PICK x \in Nat : x = f - \hc0 /\ 2 <= x /\ x <= 31 /\ f % \h20 = x
  BY <1>1, SMT
<1>3. PICK y \in Nat : y = b - \h80 /\ y <= 63 /\ b % \h40 = y
  BY <1>1, SMT
<1>4. Two6(cp, x, y)
  BY <1>2, <1>3, SMT DEF Two6, TwoCode
<1> HIDE DEF cp
<1>5. cp \in Nat /\ cp \div \h40 = x /\ (cp \div 1) % \h40 = y
  BY <1>4, TwoSixes, SMT DEF Is6
<1>6. \h7f < cp /\ cp <= \h7ff
  BY <1>2, <1>3, <1>4, <1>5, SMT DEF Two6
<1>7. Valid(cp) /\ utf8_codepoint_valid(cp) /\ ~(cp <= \h7f)
  BY <1>5, <1>6, ValidCode, SMT DEF Valid
<1>8. LTE_utf8_encode(cp) = <<\hc0 + x, \h80 + y>>
  BY <1>5, <1>6, <1>7, SMT DEF LTE_utf8_encode
<1>9. \hc0 + x = f /\ \h80 + y = b
  BY <1>2, <1>3, SMT
<1> QED
  BY <1>7, <1>8, <1>9, SMT DEF EncodesTo, cp

LEMMA CodeThree ==
  ASSUME NEW f \in 0 .. 255, NEW b \in 0 .. 255, NEW d \in 0 .. 255, Three(f, b, d)
  PROVE  EncodesTo(ThreeCode(f, b, d), <<f, b, d>>)
<1> DEFINE cp == ThreeCode(f, b, d)
<1>1. \he0 <= f /\ f <= \hef /\ \h80 <= b /\ b <= \hbf /\ \h80 <= d /\ d <= \hbf
      /\ (f = \he0 => b >= \ha0) /\ (f = \hed => b <= \h9f)
  BY SMT DEF Three, Cont
<1>2. PICK x \in Nat : x = f - \he0 /\ x <= 15 /\ f % \h10 = x
  BY <1>1, SMT
<1>3. PICK y \in Nat : y = b - \h80 /\ y <= 63 /\ b % \h40 = y
  BY <1>1, SMT
<1>4. PICK z \in Nat : z = d - \h80 /\ z <= 63 /\ d % \h40 = z
  BY <1>1, SMT
<1>5. Three6(cp, x, y, z)
  BY <1>2, <1>3, <1>4, SMT DEF Three6, ThreeCode
<1> HIDE DEF cp
<1>6. PICK u \in Nat : Is6(cp, u, z) /\ Is6(u, x, y) /\ cp \div \h1000 = x
  BY <1>5, ThreeSixes, SMT
<1>7. cp \in Nat /\ (cp \div \h40) % \h40 = y /\ (cp \div 1) % \h40 = z
  BY <1>6, SMT DEF Is6
<1>8. (x = 0 => y >= 32) /\ (x = 13 => y <= 31)
  BY <1>1, <1>2, <1>3, SMT
<1>9. \h7ff < cp /\ cp <= \hffff /\ ~(\hd800 <= cp /\ cp <= \hdfff)
  BY <1>2, <1>3, <1>4, <1>5, <1>8, SMT DEF Three6
<1>10. Valid(cp) /\ utf8_codepoint_valid(cp) /\ ~(cp <= \h7f) /\ ~(cp <= \h7ff)
  BY <1>7, <1>9, ValidCode, SMT DEF Valid
<1>11. LTE_utf8_encode(cp) = <<\he0 + x, \h80 + y, \h80 + z>>
  BY <1>6, <1>7, <1>9, <1>10, SMT DEF LTE_utf8_encode
<1>12. \he0 + x = f /\ \h80 + y = b /\ \h80 + z = d
  BY <1>2, <1>3, <1>4, SMT
<1> QED
  BY <1>10, <1>11, <1>12, SMT DEF EncodesTo, cp

LEMMA CodeFour ==
  ASSUME NEW f \in 0 .. 255, NEW b \in 0 .. 255, NEW d \in 0 .. 255, NEW e \in 0 .. 255,
         Four(f, b, d, e)
  PROVE  EncodesTo(FourCode(f, b, d, e), <<f, b, d, e>>)
<1> DEFINE cp == FourCode(f, b, d, e)
<1>1. \hf0 <= f /\ f <= \hf4 /\ \h80 <= b /\ b <= \hbf /\ \h80 <= d /\ d <= \hbf
      /\ \h80 <= e /\ e <= \hbf /\ (f = \hf0 => b >= \h90) /\ (f = \hf4 => b <= \h8f)
  BY SMT DEF Four, Cont
<1>2. PICK x \in Nat : x = f - \hf0 /\ x <= 4 /\ f % 8 = x
  BY <1>1, SMT
<1>3. PICK y \in Nat : y = b - \h80 /\ y <= 63 /\ b % \h40 = y
  BY <1>1, SMT
<1>4. PICK z \in Nat : z = d - \h80 /\ z <= 63 /\ d % \h40 = z
  BY <1>1, SMT
<1>5. PICK w \in Nat : w = e - \h80 /\ w <= 63 /\ e % \h40 = w
  BY <1>1, SMT
<1>6. Four6(cp, x, y, z, w)
  BY <1>2, <1>3, <1>4, <1>5, SMT DEF Four6, FourCode
<1> HIDE DEF cp
<1>7. PICK v \in Nat : \E u \in Nat : Cut6(cp, v, u, x, y, z, w)
  BY <1>6, FourSixes, SMT
<1>8. /\ cp \in Nat /\ cp \div \h40000 = x /\ (cp \div \h1000) % \h40 = y
      /\ (cp \div \h40) % \h40 = z /\ (cp \div 1) % \h40 = w
  BY <1>7, SMT DEF Cut6, Is6
<1>9. (x = 0 => y >= 16) /\ (x = 4 => y <= 15)
  BY <1>1, <1>2, <1>3, SMT
<1>10. \hffff < cp /\ cp <= \h10ffff
  BY <1>2, <1>3, <1>4, <1>5, <1>6, <1>9, SMT DEF Four6
<1>11. /\ Valid(cp) /\ utf8_codepoint_valid(cp)
       /\ ~(cp <= \h7f) /\ ~(cp <= \h7ff) /\ ~(cp <= \hffff)
  BY <1>8, <1>10, ValidCode, SMT DEF Valid
<1>12. LTE_utf8_encode(cp) = <<\hf0 + x, \h80 + y, \h80 + z, \h80 + w>>
  BY <1>8, <1>11, SMT DEF LTE_utf8_encode
<1>13. \hf0 + x = f /\ \h80 + y = b /\ \h80 + z = d /\ \h80 + w = e
  BY <1>2, <1>3, <1>4, <1>5, SMT
<1> QED
  BY <1>11, <1>12, <1>13, SMT DEF EncodesTo, cp

LEMMA DecodedIs ==
  ASSUME NEW m, NEW c
  PROVE  /\ LTE_utf8_decode_valid(m, c, 1) = m[c]
         /\ LTE_utf8_decode_valid(m, c, 2) = TwoCode(m[c], m[c + 1])
         /\ LTE_utf8_decode_valid(m, c, 3) = ThreeCode(m[c], m[c + 1], m[c + 2])
         /\ LTE_utf8_decode_valid(m, c, 4) = FourCode(m[c], m[c + 1], m[c + 2], m[c + 3])
<1>1. LTE_utf8_decode_valid(m, c, 1) = m[c]
  BY SMT DEF LTE_utf8_decode_valid
<1>2. LTE_utf8_decode_valid(m, c, 2) = TwoCode(m[c], m[c + 1])
  BY SMT DEF LTE_utf8_decode_valid, TwoCode
<1>3. LTE_utf8_decode_valid(m, c, 3) = ThreeCode(m[c], m[c + 1], m[c + 2])
  BY SMT DEF LTE_utf8_decode_valid, ThreeCode
<1>4. LTE_utf8_decode_valid(m, c, 4) = FourCode(m[c], m[c + 1], m[c + 2], m[c + 3])
  BY SMT DEF LTE_utf8_decode_valid, FourCode
<1> QED
  BY <1>1, <1>2, <1>3, <1>4

One(f) == f \in 0 .. 255 /\ f <= \h7f
LEMMA CodeOne ==
  ASSUME NEW f, One(f)
  PROVE  EncodesTo(f, <<f>>)
<1>1. f \in Nat /\ f <= \h7f
  BY SMT DEF One
<1>2. Valid(f) /\ utf8_codepoint_valid(f)
  BY <1>1, ValidCode, SMT DEF Valid
<1> QED
  BY <1>1, <1>2, SMT DEF LTE_utf8_encode, EncodesTo

(* A valid sequence is the encoding of what it is decoded to.              *)
SameBytes(s, m, c, n) == \A i \in 1 .. n : s[i] = m[c + i - 1]
FirstBytes(s, m, c, n) ==
  /\ m[c] \in 0 .. 255 /\ s[1] = m[c]
  /\ n >= 2 => m[c + 1] \in 0 .. 255 /\ s[2] = m[c + 1]
  /\ n >= 3 => m[c + 2] \in 0 .. 255 /\ s[3] = m[c + 2]
  /\ n >= 4 => m[c + 3] \in 0 .. 255 /\ s[4] = m[c + 3]
LEMMA BytesOf ==
  ASSUME NEW m, NEW c \in Nat, NEW n \in 1 .. 4, Bytes(m, c, n), NEW s, SameBytes(s, m, c, n)
  PROVE  FirstBytes(s, m, c, n)
<1>1. 0 \in 0 .. n - 1 /\ (n >= 2 => 1 \in 0 .. n - 1) /\ (n >= 3 => 2 \in 0 .. n - 1)
      /\ (n >= 4 => 3 \in 0 .. n - 1) /\ c + 0 = c
  BY SMT
<1>2. 1 \in 1 .. n /\ (n >= 2 => 2 \in 1 .. n) /\ (n >= 3 => 3 \in 1 .. n)
      /\ (n >= 4 => 4 \in 1 .. n) /\ c + 1 - 1 = c /\ c + 2 - 1 = c + 1
      /\ c + 3 - 1 = c + 2 /\ c + 4 - 1 = c + 3
  BY SMT
<1> QED
  BY <1>1, <1>2, SMTT(30) DEF Bytes, SameBytes, FirstBytes

LEMMA TupleIs ==
  ASSUME NEW s, OfLength(s, 0 .. 255, Len(s))
  PROVE  /\ Len(s) = 1 => s = <<s[1]>>
         /\ Len(s) = 2 => s = <<s[1], s[2]>>
         /\ Len(s) = 3 => s = <<s[1], s[2], s[3]>>
         /\ Len(s) = 4 => s = <<s[1], s[2], s[3], s[4]>>
  BY DEF OfLength

LEMMA DecodeEncode ==
  ASSUME NEW m, NEW c \in Nat, NEW n \in 1 .. 4, Bytes(m, c, n), Sequence(m, c, n),
         NEW s, OfLength(s, 0 .. 255, n), SameBytes(s, m, c, n)
  PROVE  EncodesTo(LTE_utf8_decode_valid(m, c, n), s)
<1>1. FirstBytes(s, m, c, n)
  BY BytesOf
<1>2. Len(s) = n /\ OfLength(s, 0 .. 255, Len(s))
  BY DEF OfLength
<1>3. CASE n = 1
  <2>1. One(m[c]) /\ s[1] = m[c]
    BY <1>1, <1>3, SMT DEF FirstBytes, Sequence, One
  <2>2. s = <<m[c]>>
    BY <1>2, <1>3, <2>1, TupleIs, Zenon
  <2>3. EncodesTo(m[c], <<m[c]>>)
    BY <2>1, CodeOne, Zenon
  <2>4. EncodesTo(m[c], s)
    BY <2>2, <2>3
  <2> QED
    BY <1>3, <2>4, DecodedIs, Zenon
<1>4. CASE n = 2
  <2>1. m[c] \in 0 .. 255 /\ m[c + 1] \in 0 .. 255 /\ Two(m[c], m[c + 1])
        /\ s[1] = m[c] /\ s[2] = m[c + 1]
    BY <1>1, <1>4, SMT DEF FirstBytes, Sequence
  <2>2. s = <<m[c], m[c + 1]>>
    BY <1>2, <1>4, <2>1, TupleIs, Zenon
  <2>3. EncodesTo(TwoCode(m[c], m[c + 1]), s)
    BY <2>1, <2>2, CodeTwo, Zenon
  <2> QED
    BY <1>4, <2>3, DecodedIs, Zenon
<1>5. CASE n = 3
  <2>1. /\ m[c] \in 0 .. 255 /\ m[c + 1] \in 0 .. 255 /\ m[c + 2] \in 0 .. 255
        /\ Three(m[c], m[c + 1], m[c + 2])
        /\ s[1] = m[c] /\ s[2] = m[c + 1] /\ s[3] = m[c + 2]
    BY <1>1, <1>5, SMT DEF FirstBytes, Sequence
  <2>2. s = <<m[c], m[c + 1], m[c + 2]>>
    BY <1>2, <1>5, <2>1, TupleIs, Zenon
  <2>3. EncodesTo(ThreeCode(m[c], m[c + 1], m[c + 2]), s)
    BY <2>1, <2>2, CodeThree, Zenon
  <2> QED
    BY <1>5, <2>3, DecodedIs, Zenon
<1>6. CASE n = 4
  <2>1. /\ m[c] \in 0 .. 255 /\ m[c + 1] \in 0 .. 255
        /\ m[c + 2] \in 0 .. 255 /\ m[c + 3] \in 0 .. 255
        /\ Four(m[c], m[c + 1], m[c + 2], m[c + 3])
        /\ s[1] = m[c] /\ s[2] = m[c + 1] /\ s[3] = m[c + 2] /\ s[4] = m[c + 3]
    <3>1. Four(m[c], m[c + 1], m[c + 2], m[c + 3])
      BY <1>1, <1>6, SMTT(30) DEF Sequence
    <3>2. n >= 2 /\ n >= 3 /\ n >= 4
      BY <1>6
    <3> QED
      BY <1>1, <3>1, <3>2 DEF FirstBytes
  <2>2. s = <<m[c], m[c + 1], m[c + 2], m[c + 3]>>
    BY <1>2, <1>6, <2>1, TupleIs, Zenon
  <2>3. EncodesTo(FourCode(m[c], m[c + 1], m[c + 2], m[c + 3]), s)
    BY <2>1, <2>2, CodeFour, Zenon
  <2> QED
    BY <1>6, <2>3, DecodedIs, Zenon
<1> QED
  BY <1>3, <1>4, <1>5, <1>6
(* At a cursor of a text that starts a valid sequence inside of it, or not *)
(* (utf8.c:125-147).                                                       *)
StartsValid(m, c, a, n) == n \in 1 .. 4 /\ n <= a /\ LTE_utf8_sequence_valid(m, c, n)

LEMMA ReadsValid ==
  ASSUME NEW m, NEW c \in Nat, NEW a \in Nat \ {0}, m[c] \in 0 .. 255,
         NEW n, StartsValid(m, c, a, n)
  PROVE  /\ LTE_utf8_next_bounded(m, c, a) = c + n
         /\ LTE_utf8_codepoint_at_bounded(m, c, a) = LTE_utf8_decode_valid(m, c, n)
<1>1. n \in 1 .. 4 /\ n <= a /\ LTE_utf8_sequence_valid(m, c, n)
  BY DEF StartsValid
<1>2. n = LTE_utf8_sequence_length(m[c]) /\ ~LTE_utf8_is_continuation(m[c])
  BY <1>1, ValidRest
<1>3. LTE_utf8_sequence_valid_bounded(m, c, a, n) /\ n > 0 /\ a > 0 /\ a # 0
  BY <1>1 DEF LTE_utf8_sequence_valid_bounded
<1> QED
  BY <1>2, <1>3, Zenon DEF LTE_utf8_next_bounded, LTE_utf8_codepoint_at_bounded

LEMMA ReadsInvalid ==
  ASSUME NEW m, NEW c \in Nat, NEW a \in Nat \ {0}, m[c] \in 0 .. 255,
         \A n \in 1 .. 4 : ~StartsValid(m, c, a, n)
  PROVE  LTE_utf8_codepoint_at_bounded(m, c, a) = LTE_UTF8_REPLACEMENT_CODEPOINT
<1> DEFINE n == LTE_utf8_sequence_length(m[c])
<1>1. n \in 0 .. 4
  BY SequenceLength
<1>2. LTE_utf8_codepoint_at_bounded(m, c, a) =
        IF a > 0 /\ n > 0 /\ LTE_utf8_sequence_valid_bounded(m, c, a, n)
        THEN LTE_utf8_decode_valid(m, c, n) ELSE LTE_UTF8_REPLACEMENT_CODEPOINT
  BY DEF LTE_utf8_codepoint_at_bounded
<1> HIDE DEF n
<1>3. ~(n > 0 /\ LTE_utf8_sequence_valid_bounded(m, c, a, n))
  <2> SUFFICES ASSUME n > 0, LTE_utf8_sequence_valid_bounded(m, c, a, n) PROVE FALSE
    OBVIOUS
  <2>1. n \in 1 .. 4
    BY <1>1
  <2>2. StartsValid(m, c, a, n)
    BY <2>1 DEF StartsValid, LTE_utf8_sequence_valid_bounded
  <2> QED
    BY <2>1, <2>2
<1> QED
  BY <1>2, <1>3, Zenon

LEMMA MinOfTwo ==
  ASSUME NEW k \in Nat, NEW a \in Nat PROVE Min({k, a}) \in Nat /\ Min({k, a}) <= k /\ Min({k, a}) <= a
<1>1. CASE k <= a
  <2>1. Min({k, a}) = k
    BY <1>1, MinLeast
  <2> QED
    BY <1>1, <2>1
<1>2. CASE ~(k <= a)
  <2>1. Min({k, a}) = a
    BY <1>2, MinLeast
  <2> QED
    BY <1>2, <2>1
<1> QED
  BY <1>1, <1>2

LEMMA DecodesValid ==
  ASSUME IInv, Reading, NEW c \in 0 .. length - 1, NEW n \in 1 .. 4, n <= Available(c)
  PROVE  /\ WellFormed(SubSeq(Value, c + 1, c + n)) <=> StartsValid(buf, c, Available(c), n)
         /\ StartsValid(buf, c, Available(c), n) =>
              EncodesTo(LTE_utf8_decode_valid(buf, c, n), SubSeq(Value, c + 1, c + n))
<1>1. length \in Nat /\ \A i \in 0 .. length - 1 : buf[i] \in 0 .. 255
  BY TextBytes
<1>2. c \in Nat /\ n \in Nat /\ c + n <= length /\ n \in 0 .. length - c
  BY <1>1 DEF Available
<1>3. OfLength(Value, 0 .. 255, length)
  BY <1>1 DEF OfLength, Value, LTE_StringBuilder_value
<1>4. \A i \in 1 .. length : Value[i] = buf[i - 1]
  BY <1>1 DEF Value, LTE_StringBuilder_value
<1> DEFINE v == Value
           s == SubSeq(v, c + 1, c + n)
<1> HIDE DEF v
<1>5. OfLength(s, 0 .. 255, n) /\ PieceOf(s, v, c, n)
  BY <1>2, <1>3, PieceAt DEF v
<1> HIDE DEF s
<1>6. SameBytes(s, buf, c, n)
  <2>1. \A i \in 1 .. n : c + i \in 1 .. length /\ s[i] = v[c + i]
    BY <1>1, <1>2, <1>5 DEF PieceOf
  <2>2. \A i \in 1 .. n : v[c + i] = buf[c + i - 1]
    BY <1>4, <2>1 DEF v
  <2> QED
    BY <2>1, <2>2 DEF SameBytes
<1>7. Bytes(buf, c, n)
  BY <1>1, <1>2 DEF Bytes
<1>8. DOMAIN s = 1 .. n /\ \A i \in 1 .. n : s[i] = buf[c + i - 1] /\ s[i] \in 0 .. 255
  <2>1. s \in Seq(0 .. 255) /\ Len(s) = n
    BY <1>5 DEF OfLength
  <2>2. DOMAIN s = 1 .. n /\ \A i \in 1 .. n : s[i] \in 0 .. 255
    BY <1>2, <2>1, LenProperties, ElementOfSeq, ZenonT(60)
  <2> QED
    BY <1>6, <2>2 DEF SameBytes
<1>9. WellFormed(s) <=> Sequence(buf, c, n)
  BY <1>2, <1>8, WellFormedIs, Zenon
<1>10. LTE_utf8_sequence_valid(buf, c, n) <=> Sequence(buf, c, n)
  BY <1>2, <1>7, SequenceBytes DEF Bytes
<1>11. StartsValid(buf, c, Available(c), n) <=> LTE_utf8_sequence_valid(buf, c, n)
  BY DEF StartsValid
<1>12. Sequence(buf, c, n) => EncodesTo(LTE_utf8_decode_valid(buf, c, n), s)
  BY <1>2, <1>5, <1>6, <1>7, DecodeEncode, Zenon
<1>13. /\ WellFormed(s) <=> StartsValid(buf, c, Available(c), n)
       /\ StartsValid(buf, c, Available(c), n) => EncodesTo(LTE_utf8_decode_valid(buf, c, n), s)
  BY <1>9, <1>10, <1>11, <1>12
<1> QED
  BY <1>13 DEF s, v

LEMMA DecodesAt ==
  ASSUME IInv, Reading, NEW c \in 0 .. length - 1
  PROVE  LET formed == {n \in 1 .. Min({4, Available(c)}) : WellFormed(SubSeq(Value, c + 1, c + n))}
         IN  IF formed = {} THEN Codepoint(c) = LTE_UTF8_REPLACEMENT_CODEPOINT
             ELSE \A n \in formed :
                    /\ Next_(c) = c + n
                    /\ LTE_utf8_encode(Codepoint(c)) = SubSeq(Value, c + 1, c + n)
<1> DEFINE a == Available(c)
           k == Min({4, a})
           s(n) == SubSeq(Value, c + 1, c + n)
           formed == {n \in 1 .. k : WellFormed(s(n))}
<1>1. /\ c \in Nat /\ a \in Nat \ {0}
      /\ \A i \in 0 .. a - 1 : buf[c + i] \in 0 .. 255
      /\ buf[c] \in 0 .. 255
  <2>1. length \in Nat /\ \A i \in 0 .. length - 1 : buf[i] \in 0 .. 255
    BY TextBytes
  <2> QED
    BY <2>1 DEF Available
<1>2. \A n \in 1 .. 4 : n <= a => n \in 1 .. k
  <2>1. k = 4 \/ k = a
    <3>1. {4, a} \in SUBSET Nat
      BY <1>1
    <3>2. PICK x \in {4, a} : \A y \in {4, a} : x <= y
      BY <3>1, LeastNat
    <3>3. k = x
      BY <3>1, <3>2, MinLeast
    <3> QED
      BY <3>3
  <2> HIDE DEF k, a
  <2> QED
    BY <1>1, <2>1
<1>3. \A n \in 1 .. k : n \in 1 .. 4 /\ n <= a
  <2>1. k \in Nat /\ k <= 4 /\ k <= a
    BY <1>1, MinOfTwo
  <2> HIDE DEF k, a
  <2> QED
    BY <1>1, <2>1
<1>4. \A n \in 1 .. 4 : n <= a =>
        /\ WellFormed(s(n)) <=> StartsValid(buf, c, a, n)
        /\ StartsValid(buf, c, a, n) => EncodesTo(LTE_utf8_decode_valid(buf, c, n), s(n))
  BY DecodesValid
<1> HIDE DEF k, s, a
<1>5. CASE formed = {}
  <2>1. \A n \in 1 .. 4 : ~StartsValid(buf, c, a, n)
    BY <1>2, <1>4, <1>5 DEF StartsValid
  <2>2. LTE_utf8_codepoint_at_bounded(buf, c, a) = LTE_UTF8_REPLACEMENT_CODEPOINT
    BY <1>1, <2>1, ReadsInvalid
  <2> QED
    BY <1>5, <2>2 DEF k, s, a, Codepoint
<1>6. ASSUME NEW n \in formed PROVE Next_(c) = c + n /\ LTE_utf8_encode(Codepoint(c)) = s(n)
  <2>1. n \in 1 .. 4 /\ n <= a /\ WellFormed(s(n))
    BY <1>3
  <2>2. StartsValid(buf, c, a, n) /\ EncodesTo(LTE_utf8_decode_valid(buf, c, n), s(n))
    BY <1>4, <2>1
  <2>3. /\ LTE_utf8_next_bounded(buf, c, a) = c + n
        /\ LTE_utf8_codepoint_at_bounded(buf, c, a) = LTE_utf8_decode_valid(buf, c, n)
    BY <1>1, <2>2, ReadsValid
  <2> QED
    BY <2>2, <2>3 DEF EncodesTo, a, Codepoint, Next_
<1> QED
  BY <1>5, <1>6 DEF k, s, a

(* A sequence the Unicode Standard calls well formed is decoded to the     *)
(* code point that is encoded that way and stepped over as a whole, and    *)
(* anything else gives the replacement (utf8.c:45-147, 182-206).           *)
THEOREM WellFormedDecoded == TextSpec => []DecodesWellFormed
<1>1. IInv => DecodesWellFormed
  BY DecodesAt, Zenon DEF DecodesWellFormed
<1> QED
  BY <1>1, TextInvariance, PTL
-------------------------------------------------------------------------------
(* Walks.  Every step leads forward, over continuation bytes at most       *)
(* (utf8.c:125-147).                                                       *)
OverRest(m, c, n) == \A d \in c + 1 .. n - 1 : LTE_utf8_is_continuation(m[d])

LEMMA NextForward ==
  ASSUME NEW m, NEW c \in Nat, NEW a \in Nat \ {0}, m[c] \in 0 .. 255
  PROVE  /\ LTE_utf8_next_bounded(m, c, a) \in c + 1 .. c + a
         /\ OverRest(m, c, LTE_utf8_next_bounded(m, c, a))
<1> DEFINE n == LTE_utf8_sequence_length(m[c])
           next == LTE_utf8_next_bounded(m, c, a)
           step(k) == next = c + k /\ k \in 1 .. a
                      /\ \A i \in 1 .. k - 1 : LTE_utf8_is_continuation(m[c + i])
<1>1. next =
        IF LTE_utf8_is_continuation(m[c]) THEN c + Min(Run(m, c, a))
        ELSE IF n > 0 /\ LTE_utf8_sequence_valid_bounded(m, c, a, n) THEN c + n ELSE c + 1
  BY DEF LTE_utf8_next_bounded, Run
<1>2. n \in Nat
  BY SequenceLength, SMTT(30)
<1> HIDE DEF n, next
<1>3. \E k \in Nat : step(k)
  <2>1. CASE LTE_utf8_is_continuation(m[c])
    <3>1. PICK o \in Run(m, c, a) :
            /\ o \in 1 .. a /\ Min(Run(m, c, a)) = o
            /\ \A i \in 1 .. o - 1 : LTE_utf8_is_continuation(m[c + i])
      BY RunOver
    <3>2. o \in Nat /\ step(o)
      BY <1>1, <2>1, <3>1
    <3> QED
      BY <3>2
  <2>2. CASE ~LTE_utf8_is_continuation(m[c]) /\ n > 0
             /\ LTE_utf8_sequence_valid_bounded(m, c, a, n)
    <3>1. n <= a /\ LTE_utf8_sequence_valid(m, c, n)
      BY <2>2 DEF LTE_utf8_sequence_valid_bounded
    <3>2. \A i \in 1 .. n - 1 : LTE_utf8_is_continuation(m[c + i])
      BY <3>1, ValidRest
    <3>3. step(n)
      BY <1>1, <1>2, <2>2, <3>1, <3>2
    <3> QED
      BY <1>2, <3>3
  <2>3. CASE ~LTE_utf8_is_continuation(m[c])
             /\ ~(n > 0 /\ LTE_utf8_sequence_valid_bounded(m, c, a, n))
    <3>1. step(1)
      BY <1>1, <2>3
    <3> QED
      BY <3>1
  <2> QED
    BY <2>1, <2>2, <2>3
<1>4. PICK k \in Nat : step(k)
  BY <1>3
<1>5. next \in c + 1 .. c + a
  BY <1>4
<1>6. OverRest(m, c, next)
  <2> SUFFICES ASSUME NEW d \in c + 1 .. next - 1 PROVE LTE_utf8_is_continuation(m[d])
    BY DEF OverRest
  <2>1. d - c \in 1 .. k - 1 /\ c + (d - c) = d
    BY <1>4
  <2> QED
    BY <1>4, <2>1
<1> QED
  BY <1>5, <1>6 DEF next

(* N leads forward from each of the l cursors, and f has the cursors of    *)
(* the walks from those from a on.                                         *)
Forward(N, l) == \A c \in 0 .. l - 1 : N[c] \in c + 1 .. l
Walks(f, N, l, a) ==
  /\ f \in [0 .. l -> Seq(Nat)] /\ f[l] = <<>>
  /\ \A c \in a .. l - 1 : f[c] = <<c>> \o f[N[c]]

LEMMA ConsPlaces ==
  ASSUME NEW c \in Nat, NEW s \in Seq(Nat), NEW k \in Nat, Len(s) = k
  PROVE  /\ <<c>> \o s \in Seq(Nat) /\ Len(<<c>> \o s) = k + 1 /\ (<<c>> \o s)[1] = c
         /\ \A i \in 1 .. k : (<<c>> \o s)[i + 1] = s[i]
<1>1. <<c>> \in Seq(Nat) /\ Len(<<c>>) = 1 /\ <<c>>[1] = c
  OBVIOUS
<1> QED
  BY <1>1, ConcatProperties

LEMMA WalksExist ==
  ASSUME NEW l \in Nat, NEW N, Forward(N, l)
  PROVE  \E f : Walks(f, N, l, 0)
<1> DEFINE S == {a \in 0 .. l : \E f : Walks(f, N, l, a)}
<1>1. l \in S
  <2> DEFINE f == [c \in 0 .. l |-> <<>>]
  <2>1. f \in [0 .. l -> Seq(Nat)] /\ f[l] = <<>> /\ \A c \in l .. l - 1 : FALSE
    OBVIOUS
  <2> HIDE DEF f
  <2>2. Walks(f, N, l, l)
    BY <2>1 DEF Walks
  <2> QED
    BY <2>2
<1>2. PICK a \in S : \A b \in S : a <= b
  <2>1. S \in SUBSET Nat /\ S # {}
    BY <1>1
  <2> HIDE DEF S
  <2> QED
    BY <2>1, LeastNat
<1>3. PICK f : Walks(f, N, l, a)
  OBVIOUS
<1>6. a \in 0 .. l /\ f \in [0 .. l -> Seq(Nat)]
  BY <1>3 DEF Walks
<1> HIDE DEF S
<1>4. CASE a = 0
  BY <1>3, <1>4
<1>5. CASE a # 0
  <2>1. PICK c \in Nat : c = a - 1 /\ c \in 0 .. l - 1
    BY <1>5, <1>6
  <2>2. N[c] \in c + 1 .. l
    BY <2>1 DEF Forward
  <2>3. f[N[c]] \in Seq(Nat)
    BY <1>6, <2>1, <2>2
  <2>4. <<c>> \o f[N[c]] \in Seq(Nat)
    BY <2>3, ConsPlaces, LenProperties
  <2> DEFINE s == <<c>> \o f[N[c]]
  <2> HIDE DEF s
  <2> DEFINE g == [d \in 0 .. l |-> IF d = c THEN s ELSE f[d]]
  <2>5. g \in [0 .. l -> Seq(Nat)] /\ g[c] = s /\ \A d \in 0 .. l : d # c => g[d] = f[d]
    <3>1. s \in Seq(Nat)
      BY <2>4 DEF s
    <3> QED
      BY <1>6, <2>1, <3>1
  <2> HIDE DEF g
  <2>6. g[l] = <<>>
    BY <1>3, <2>1, <2>5 DEF Walks
  <2>7. ASSUME NEW d \in c .. l - 1 PROVE g[d] = <<d>> \o g[N[d]]
    <3>1. d \in 0 .. l - 1 /\ N[d] \in d + 1 .. l
      BY <2>1 DEF Forward
    <3>2. g[N[d]] = f[N[d]]
      BY <2>1, <2>5, <3>1, SMTT(30)
    <3>3. CASE d = c
      BY <2>5, <3>2, <3>3 DEF s
    <3>4. CASE d # c
      <4>1. d \in a .. l - 1 /\ d \in 0 .. l
        BY <1>6, <2>1, <3>1, <3>4
      <4>2. f[d] = <<d>> \o f[N[d]]
        BY <1>3, <4>1 DEF Walks
      <4> QED
        BY <2>5, <3>2, <3>4, <4>1, <4>2
    <3> QED
      BY <3>3, <3>4
  <2>8. Walks(g, N, l, c)
    BY <2>5, <2>6, <2>7 DEF Walks
  <2>9. c \in S
    BY <2>1, <2>8 DEF S
  <2> QED
    BY <1>2, <1>6, <2>1, <2>9
<1> QED
  BY <1>4, <1>5
(* Walk is the walk from the start of the text.                            *)
NextOf == [c \in 0 .. length - 1 |-> Next_(c)]

LEMMA NextOfForward ==
  ASSUME IInv, Reading
  PROVE  /\ Forward(NextOf, length)
         /\ \A c \in 0 .. length - 1 : NextOf[c] = Next_(c) /\ OverRest(buf, c, Next_(c))
<1>1. length \in Nat /\ \A i \in 0 .. length - 1 : buf[i] \in 0 .. 255
  BY TextBytes
<1>2. ASSUME NEW c \in 0 .. length - 1
      PROVE  Next_(c) \in c + 1 .. length /\ OverRest(buf, c, Next_(c))
  <2>1. PICK a \in Nat \ {0} : a = length - c /\ c + a = length
    BY <1>1
  <2>2. c \in Nat /\ buf[c] \in 0 .. 255
    BY <1>1
  <2>3. Next_(c) = LTE_utf8_next_bounded(buf, c, a)
    BY <2>1 DEF Next_, Available
  <2> QED
    BY <2>1, <2>2, <2>3, NextForward
<1> QED
  BY <1>2 DEF Forward, NextOf

LEMMA WalkIs ==
  ASSUME IInv, Reading
  PROVE  \E f : Walks(f, NextOf, length, 0) /\ Walk = f[0]
<1> DEFINE l == length
           N == NextOf
           Def(f) == f = [c \in 0 .. l |-> IF c = l THEN <<>> ELSE <<c>> \o f[Next_(c)]]
           g == CHOOSE f : Def(f)
<1>1. l \in Nat
  BY TextBytes
<1>2. Forward(N, l) /\ \A c \in 0 .. l - 1 : N[c] = Next_(c)
  BY NextOfForward
<1>3. Walk = g[0]
  BY Zenon DEF Walk
<1> HIDE DEF l, N
<1>4. PICK f : Walks(f, N, l, 0)
  BY <1>1, <1>2, WalksExist
<1>5. Def(f)
  <2>1. f \in [0 .. l -> Seq(Nat)] /\ f[l] = <<>>
    BY <1>4 DEF Walks
  <2>2. ASSUME NEW c \in 0 .. l PROVE f[c] = IF c = l THEN <<>> ELSE <<c>> \o f[Next_(c)]
    <3>1. CASE c = l
      BY <2>1, <3>1
    <3>2. CASE c # l
      <4>1. c \in 0 .. l - 1
        BY <1>1, <3>2
      <4>2. f[c] = <<c>> \o f[N[c]] /\ N[c] = Next_(c)
        BY <1>2, <1>4, <4>1 DEF Walks
      <4> QED
        BY <3>2, <4>2
    <3> QED
      BY <3>1, <3>2
  <2>3. f = [c \in 0 .. l |-> f[c]]
    BY <2>1
  <2> QED
    BY <2>2, <2>3
<1>6. Def(g)
  BY <1>5, Zenon
<1> HIDE DEF g
<1>7. \A c \in 0 .. l : g[c] = IF c = l THEN <<>> ELSE <<c>> \o g[Next_(c)]
  BY <1>6
<1> DEFINE S == {c \in 0 .. l : g[c] # f[c]}
<1>8. CASE S # {}
  <2>1. PICK c \in S : \A d \in S : d <= c
    <3>1. S \in SUBSET Nat /\ \A d \in S : d <= l
      BY <1>1
    <3> HIDE DEF S
    <3> QED
      BY <1>1, <1>8, <3>1, GreatestNat
  <2>2. c # l
    BY <1>1, <1>4, <1>7 DEF Walks
  <2>3. c \in 0 .. l - 1
    BY <1>1, <2>2
  <2>4. N[c] \in c + 1 .. l /\ N[c] = Next_(c)
    BY <1>2, <2>3 DEF Forward
  <2>5. g[N[c]] = f[N[c]]
    BY <1>1, <2>1, <2>3, <2>4
  <2>6. g[c] = <<c>> \o g[N[c]] /\ f[c] = <<c>> \o f[N[c]]
    BY <1>4, <1>7, <2>2, <2>3, <2>4 DEF Walks
  <2> QED
    BY <2>5, <2>6
<1>9. CASE S = {}
  <2>1. 0 \in 0 .. l
    BY <1>1
  <2>2. g[0] = f[0]
    BY <1>9, <2>1
  <2> QED
    BY <1>3, <1>4, <2>2 DEF l, N
<1> QED
  BY <1>8, <1>9

(* A walk visits every cursor from its start on that no step leads over.   *)
LEMMA WalksVisit ==
  ASSUME NEW l \in Nat, NEW N, Forward(N, l), NEW f, Walks(f, N, l, 0), NEW m,
         \A c \in 0 .. l - 1 : OverRest(m, c, N[c]),
         NEW d \in 0 .. l - 1, ~LTE_utf8_is_continuation(m[d])
  PROVE  \E i \in DOMAIN f[0] : f[0][i] = d
<1> DEFINE Visits(c) == \E i \in DOMAIN f[c] : f[c][i] = d
           S == {c \in 0 .. d : ~Visits(c)}
<1> SUFFICES ASSUME S # {} PROVE FALSE
  <2>1. 0 \in 0 .. d
    OBVIOUS
  <2> QED
    BY <2>1
<1>1. PICK c \in S : \A b \in S : b <= c
  <2>1. S \in SUBSET Nat /\ d \in Nat /\ \A b \in S : b <= d
    OBVIOUS
  <2> HIDE DEF S
  <2> QED
    BY <2>1, GreatestNat
<1>2. c \in 0 .. l - 1 /\ c \in Nat /\ c <= d /\ ~Visits(c) /\ \A b \in 0 .. d : b <= c \/ Visits(b)
  BY <1>1
<1> HIDE DEF S, Visits
<1>3. N[c] \in c + 1 .. l /\ OverRest(m, c, N[c])
  BY <1>2 DEF Forward
<1>4. f[c] = <<c>> \o f[N[c]] /\ f[N[c]] \in Seq(Nat)
  <2>1. f \in [0 .. l -> Seq(Nat)] /\ \A b \in 0 .. l - 1 : f[b] = <<b>> \o f[N[b]]
    BY DEF Walks
  <2>2. N[c] \in 0 .. l
    BY <1>2, <1>3
  <2> QED
    BY <1>2, <2>1, <2>2
<1>5. PICK k \in Nat : Len(f[N[c]]) = k
  BY <1>4, LenProperties
<1>6. /\ f[c] \in Seq(Nat) /\ Len(f[c]) = k + 1 /\ f[c][1] = c
      /\ \A i \in 1 .. k : f[c][i + 1] = f[N[c]][i]
  BY <1>2, <1>4, <1>5, ConsPlaces
<1>7. DOMAIN f[c] = 1 .. k + 1 /\ DOMAIN f[N[c]] = 1 .. k
  BY <1>4, <1>5, <1>6, LenProperties
<1>8. CASE c = d
  <2>1. 1 \in DOMAIN f[c] /\ f[c][1] = d
    BY <1>6, <1>7, <1>8
  <2> QED
    BY <1>2, <2>1 DEF Visits
<1>9. CASE c # d
  <2>1. N[c] <= d
    <3> SUFFICES ASSUME d < N[c] PROVE FALSE
      BY <1>2, <1>3
    <3>1. d \in c + 1 .. N[c] - 1
      BY <1>2, <1>3, <1>9
    <3> QED
      BY <1>3, <3>1 DEF OverRest
  <2>2. N[c] \in 0 .. d /\ ~(N[c] <= c)
    BY <1>2, <1>3, <2>1
  <2>3. Visits(N[c])
    BY <1>2, <2>2
  <2>4. PICK i \in 1 .. k : f[N[c]][i] = d
    BY <1>7, <2>3 DEF Visits
  <2>5. f[c][i + 1] = d
    BY <1>6, <2>4
  <2>6. i + 1 \in DOMAIN f[c]
    BY <1>7
  <2> QED
    BY <1>2, <2>5, <2>6 DEF Visits
<1> QED
  BY <1>8, <1>9

(* A walk over any text visits every byte that is not a continuation byte: *)
(* malformed bytes never hide the start of what follows (utf8.c:125-147).  *)
THEOREM WalkVisitsStarts == TextSpec => []StartsVisited
<1>1. ASSUME IInv, Reading, NEW d \in 0 .. length - 1, ~LTE_utf8_is_continuation(buf[d])
      PROVE  d \in Range(Walk)
  <2>1. PICK f : Walks(f, NextOf, length, 0) /\ Walk = f[0]
    BY <1>1, WalkIs
  <2>2. length \in Nat /\ Forward(NextOf, length)
        /\ \A c \in 0 .. length - 1 : OverRest(buf, c, NextOf[c])
    BY <1>1, TextBytes, NextOfForward
  <2>3. \E i \in DOMAIN f[0] : f[0][i] = d
    BY <1>1, <2>1, <2>2, WalksVisit
  <2> QED
    BY <2>1, <2>3 DEF Range
<1>2. IInv => StartsVisited
  BY <1>1 DEF StartsVisited
<1> QED
  BY <1>2, TextInvariance, PTL
-------------------------------------------------------------------------------
(* What a code point is encoded to is a valid sequence, decoded to it      *)
(* (utf8.c:100-123, 182-206).                                              *)
Octet == 0 .. 255
OneOf(cp, s) == s = <<cp>> /\ One(cp)
TwoOf(cp, s, f, b) == s = <<f, b>> /\ Two(f, b) /\ TwoCode(f, b) = cp
ThreeOf(cp, s, f, b, d) == s = <<f, b, d>> /\ Three(f, b, d) /\ ThreeCode(f, b, d) = cp
FourOf(cp, s, f, b, d, e) ==
  s = <<f, b, d, e>> /\ Four(f, b, d, e) /\ FourCode(f, b, d, e) = cp

LEMMA SplitSix == ASSUME NEW a \in Nat PROVE \E x \in Nat : \E y \in Nat : Two6(a, x, y)
<1>1. PICK x \in Nat : x = a \div \h40
  BY SMT
<1>2. PICK y \in Nat : y = a % \h40
  BY SMT
<1>3. Two6(a, x, y)
  BY <1>1, <1>2, SMT DEF Two6
<1> QED
  BY <1>3

LEMMA EncodesOne ==
  ASSUME NEW cp \in Nat, Valid(cp), cp <= \h7f
  PROVE  OneOf(cp, LTE_utf8_encode(cp))
<1>1. utf8_codepoint_valid(cp)
  BY ValidCode
<1> QED
  BY <1>1, SMT DEF LTE_utf8_encode, OneOf, One

LEMMA EncodesTwo ==
  ASSUME NEW cp \in Nat, Valid(cp), ~(cp <= \h7f), cp <= \h7ff
  PROVE  \E f \in Octet : \E b \in Octet : TwoOf(cp, LTE_utf8_encode(cp), f, b)
<1>1. utf8_codepoint_valid(cp)
  BY ValidCode
<1>2. PICK x \in Nat, y \in Nat : Two6(cp, x, y)
  BY SplitSix
<1>3. cp \div \h40 = x /\ (cp \div 1) % \h40 = y
  BY <1>2, TwoSixes, SMT DEF Is6
<1>4. y <= 63 /\ 2 <= x /\ x <= 31
  BY <1>2, SMT DEF Two6
<1>5. PICK f \in Octet : f = \hc0 + x
  BY <1>4, SMT DEF Octet
<1>6. PICK b \in Octet : b = \h80 + y
  BY <1>4, SMT DEF Octet
<1>7. LTE_utf8_encode(cp) = <<f, b>>
  BY <1>1, <1>3, <1>5, <1>6, SMT DEF LTE_utf8_encode
<1>8. f % \h20 = x /\ b % \h40 = y
  BY <1>4, <1>5, <1>6, SMT
<1>9. TwoCode(f, b) = cp
  BY <1>2, <1>8, SMT DEF Two6, TwoCode
<1>10. Two(f, b)
  BY <1>4, <1>5, <1>6, SMT DEF Two, Cont
<1>11. TwoOf(cp, LTE_utf8_encode(cp), f, b)
  BY <1>7, <1>9, <1>10, SMT DEF TwoOf
<1> QED
  BY <1>11, SMT

LEMMA EncodesThree ==
  ASSUME NEW cp \in Nat, Valid(cp), ~(cp <= \h7f), ~(cp <= \h7ff), cp <= \hffff
  PROVE  \E f \in Octet : \E b \in Octet : \E d \in Octet :
           ThreeOf(cp, LTE_utf8_encode(cp), f, b, d)
<1>1. utf8_codepoint_valid(cp)
  BY ValidCode
<1>2. PICK u \in Nat, z \in Nat : Two6(cp, u, z)
  BY SplitSix
<1>3. PICK x \in Nat, y \in Nat : Two6(u, x, y)
  BY SplitSix
<1>4. Three6(cp, x, y, z)
  BY <1>2, <1>3, SMT DEF Two6, Three6
<1>5. PICK v \in Nat : Is6(cp, v, z) /\ Is6(v, x, y) /\ cp \div \h1000 = x
  BY <1>4, ThreeSixes, SMT
<1>6. (cp \div \h40) % \h40 = y /\ (cp \div 1) % \h40 = z
  BY <1>5, SMT DEF Is6
<1>7. y <= 63 /\ z <= 63 /\ x <= 15 /\ (x = 0 => y >= 32) /\ (x = 13 => y <= 31)
  BY <1>4, SMT DEF Three6, Valid
<1>8. PICK f \in Octet : f = \he0 + x
  BY <1>7, SMT DEF Octet
<1>9. PICK b \in Octet : b = \h80 + y
  BY <1>7, SMT DEF Octet
<1>10. PICK d \in Octet : d = \h80 + z
  BY <1>7, SMT DEF Octet
<1>11. LTE_utf8_encode(cp) = <<f, b, d>>
  BY <1>1, <1>5, <1>6, <1>8, <1>9, <1>10, SMT DEF LTE_utf8_encode
<1>12. f % \h10 = x /\ b % \h40 = y /\ d % \h40 = z
  BY <1>7, <1>8, <1>9, <1>10, SMT
<1>13. ThreeCode(f, b, d) = cp
  BY <1>4, <1>12, SMT DEF Three6, ThreeCode
<1>14. Three(f, b, d)
  BY <1>7, <1>8, <1>9, <1>10, SMT DEF Three, Cont
<1>15. ThreeOf(cp, LTE_utf8_encode(cp), f, b, d)
  BY <1>11, <1>13, <1>14, SMT DEF ThreeOf
<1> QED
  BY <1>15, SMT

LEMMA EncodesFour ==
  ASSUME NEW cp \in Nat, Valid(cp), ~(cp <= \h7f), ~(cp <= \h7ff), ~(cp <= \hffff)
  PROVE  \E f \in Octet : \E b \in Octet : \E d \in Octet : \E e \in Octet :
           FourOf(cp, LTE_utf8_encode(cp), f, b, d, e)
<1>1. utf8_codepoint_valid(cp)
  BY ValidCode
<1>2. PICK q \in Nat, w \in Nat : Two6(cp, q, w)
  BY SplitSix
<1>3. PICK r \in Nat, z \in Nat : Two6(q, r, z)
  BY SplitSix
<1>4. PICK x \in Nat, y \in Nat : Two6(r, x, y)
  BY SplitSix
<1>5. Four6(cp, x, y, z, w)
  BY <1>2, <1>3, <1>4, SMT DEF Two6, Four6
<1>6. PICK v \in Nat : \E u \in Nat : Cut6(cp, v, u, x, y, z, w)
  BY <1>5, FourSixes, SMT
<1>7. /\ cp \div \h40000 = x /\ (cp \div \h1000) % \h40 = y
      /\ (cp \div \h40) % \h40 = z /\ (cp \div 1) % \h40 = w
  BY <1>6, SMT DEF Cut6, Is6
<1>8. y <= 63 /\ z <= 63 /\ w <= 63 /\ x <= 4 /\ (x = 0 => y >= 16) /\ (x = 4 => y <= 15)
  BY <1>5, SMT DEF Four6, Valid
<1>9. PICK f \in Octet : f = \hf0 + x
  BY <1>8, SMT DEF Octet
<1>10. PICK b \in Octet : b = \h80 + y
  BY <1>8, SMT DEF Octet
<1>11. PICK d \in Octet : d = \h80 + z
  BY <1>8, SMT DEF Octet
<1>12. PICK e \in Octet : e = \h80 + w
  BY <1>8, SMT DEF Octet
<1>13. LTE_utf8_encode(cp) = <<f, b, d, e>>
  BY <1>1, <1>7, <1>9, <1>10, <1>11, <1>12, SMT DEF LTE_utf8_encode
<1>14. f % 8 = x /\ b % \h40 = y /\ d % \h40 = z /\ e % \h40 = w
  BY <1>8, <1>9, <1>10, <1>11, <1>12, SMT
<1>15. FourCode(f, b, d, e) = cp
  BY <1>5, <1>14, SMT DEF Four6, FourCode
<1>16. Four(f, b, d, e)
  BY <1>8, <1>9, <1>10, <1>11, <1>12, SMT DEF Four, Cont
<1>17. FourOf(cp, LTE_utf8_encode(cp), f, b, d, e)
  BY <1>13, <1>15, <1>16, SMT DEF FourOf
<1> QED
  BY <1>17, SMT
HasEncoding(m, c, s, n) == n = Len(s) /\ \A i \in 1 .. n : m[c + i - 1] = s[i]
DecodesTo(m, c, n, cp) ==
  n \in 1 .. 4 /\ LTE_utf8_sequence_valid(m, c, n) /\ LTE_utf8_decode_valid(m, c, n) = cp

LEMMA EncodeDecode ==
  ASSUME NEW cp \in Nat, LTE_utf8_encode(cp) # <<>>, NEW m, NEW c \in Nat, NEW n,
         HasEncoding(m, c, LTE_utf8_encode(cp), n)
  PROVE  DecodesTo(m, c, n, cp)
<1> DEFINE s == LTE_utf8_encode(cp)
<1>1. s \in Seq(0 .. 255) /\ Valid(cp) /\ Len(s) \in 1 .. 4
  BY Encoded, Zenon
<1>2. (cp <= \h7f => OneOf(cp, s))
      /\ (~(cp <= \h7f) /\ cp <= \h7ff => \E f \in Octet : \E b \in Octet : TwoOf(cp, s, f, b))
      /\ (~(cp <= \h7f) /\ ~(cp <= \h7ff) /\ cp <= \hffff =>
            \E f \in Octet : \E b \in Octet : \E d \in Octet : ThreeOf(cp, s, f, b, d))
      /\ (~(cp <= \h7f) /\ ~(cp <= \h7ff) /\ ~(cp <= \hffff) =>
            \E f \in Octet : \E b \in Octet : \E d \in Octet : \E e \in Octet :
              FourOf(cp, s, f, b, d, e))
  BY <1>1, EncodesOne, EncodesTwo, EncodesThree, EncodesFour, SMT
<1>3. \/ OneOf(cp, s) \/ \E f \in Octet : \E b \in Octet : TwoOf(cp, s, f, b)
      \/ \E f \in Octet : \E b \in Octet : \E d \in Octet : ThreeOf(cp, s, f, b, d)
      \/ \E f \in Octet : \E b \in Octet : \E d \in Octet : \E e \in Octet :
           FourOf(cp, s, f, b, d, e)
  BY <1>2, SMT
<1> HIDE DEF s
<1>4. n = Len(s) /\ \A i \in 1 .. n : m[c + i - 1] = s[i]
  BY DEF HasEncoding, s
<1>5. n \in 1 .. 4 /\ n \in Nat
  <2>1. Len(s) \in 1 .. 4 /\ n = Len(s)
    BY <1>1, <1>4, Zenon
  <2>2. n \in 1 .. 4
    BY <2>1, Zenon
  <2> QED
    BY <2>2
<1>6. SameBytes(s, m, c, n)
  BY <1>4 DEF SameBytes
<1>7. Bytes(m, c, n)
  <2>1. \A i \in 1 .. n : s[i] \in 0 .. 255
    BY <1>1, <1>4, ElementOfSeq
  <2> SUFFICES ASSUME NEW i \in 0 .. n - 1 PROVE m[c + i] \in 0 .. 255
    BY DEF Bytes
  <2>2. i + 1 \in 1 .. n /\ c + (i + 1) - 1 = c + i
    BY <1>5
  <2> QED
    BY <1>4, <2>1, <2>2, SMTT(30)
<1>8. FirstBytes(s, m, c, n)
  BY <1>5, <1>6, <1>7, BytesOf
<1>9. LTE_utf8_sequence_valid(m, c, n) <=> Sequence(m, c, n)
  BY <1>5, <1>7, SequenceBytes DEF Bytes
<1>10. CASE OneOf(cp, s)
  <2>1. s = <<cp>> /\ One(cp)
    BY <1>10 DEF OneOf
  <2>2. n = 1 /\ s[1] = cp
    BY <1>4, <2>1, SMT
  <2>3. m[c] = cp
    BY <1>8, <2>2 DEF FirstBytes
  <2>4. Sequence(m, c, 1)
    BY <2>1, <2>3, SMT DEF Sequence, One
  <2>5. LTE_utf8_decode_valid(m, c, 1) = cp
    BY <2>3, DecodedIs, Zenon
  <2> QED
    BY <1>5, <1>9, <2>2, <2>4, <2>5 DEF DecodesTo
<1>11. ASSUME NEW f, NEW b, TwoOf(cp, s, f, b) PROVE DecodesTo(m, c, n, cp)
  <2>1. s = <<f, b>> /\ Two(f, b) /\ TwoCode(f, b) = cp
    BY <1>11, Zenon DEF TwoOf
  <2>2. n = 2 /\ s[1] = f /\ s[2] = b
    BY <1>4, <2>1, SMT
  <2>3. m[c] = f /\ m[c + 1] = b
    BY <1>8, <2>2, SMT DEF FirstBytes
  <2>4. Sequence(m, c, 2)
    BY <2>1, <2>3, SMT DEF Sequence
  <2>5. LTE_utf8_decode_valid(m, c, 2) = cp
    BY <2>1, <2>3, DecodedIs, Zenon
  <2> QED
    BY <1>5, <1>9, <2>2, <2>4, <2>5 DEF DecodesTo
<1>12. ASSUME NEW f, NEW b, NEW d, ThreeOf(cp, s, f, b, d) PROVE DecodesTo(m, c, n, cp)
  <2>1. s = <<f, b, d>> /\ Three(f, b, d) /\ ThreeCode(f, b, d) = cp
    BY <1>12, Zenon DEF ThreeOf
  <2>2. n = 3 /\ s[1] = f /\ s[2] = b /\ s[3] = d
    BY <1>4, <2>1, SMT
  <2>3. m[c] = f /\ m[c + 1] = b /\ m[c + 2] = d
    BY <1>8, <2>2, SMT DEF FirstBytes
  <2>4. Sequence(m, c, 3)
    BY <2>1, <2>3, SMT DEF Sequence
  <2>5. LTE_utf8_decode_valid(m, c, 3) = cp
    BY <2>1, <2>3, DecodedIs, Zenon
  <2> QED
    BY <1>5, <1>9, <2>2, <2>4, <2>5 DEF DecodesTo
<1>13. ASSUME NEW f, NEW b, NEW d, NEW e, FourOf(cp, s, f, b, d, e) PROVE DecodesTo(m, c, n, cp)
  <2>1. s = <<f, b, d, e>> /\ Four(f, b, d, e) /\ FourCode(f, b, d, e) = cp
    BY <1>13, Zenon DEF FourOf
  <2>2. n = 4 /\ s[1] = f /\ s[2] = b /\ s[3] = d /\ s[4] = e
    BY <1>4, <2>1, SMT
  <2>3. m[c] = f /\ m[c + 1] = b /\ m[c + 2] = d /\ m[c + 3] = e
    BY <1>8, <2>2, SMT DEF FirstBytes
  <2>4. Sequence(m, c, 4)
    BY <2>1, <2>3, SMT DEF Sequence
  <2>5. LTE_utf8_decode_valid(m, c, 4) = cp
    BY <2>1, <2>3, DecodedIs, Zenon
  <2> QED
    BY <1>5, <1>9, <2>2, <2>4, <2>5 DEF DecodesTo
<1> QED
  BY <1>3, <1>10, <1>11, <1>12, <1>13, Zenon
-------------------------------------------------------------------------------
(* The code points the program has typed, one behind the other from the    *)
(* start of a text m of l bytes on, the i-th of them before p[i].          *)
TypedPlace(ty, m, p, i) ==
  /\ ty[i] \in Nat /\ LTE_utf8_encode(ty[i]) # <<>>
  /\ HasEncoding(m, p[i - 1], LTE_utf8_encode(ty[i]), p[i] - p[i - 1])
TypedAt(ty, k, m, l, p) ==
  /\ Len(ty) = k /\ p \in [0 .. k -> 0 .. l] /\ p[0] = 0 /\ p[k] = l
  /\ \A i \in 1 .. k : TypedPlace(ty, m, p, i)

(* The bytes of the value and, during an append, those that are to come.   *)
WholeLength == length + Len(argument.bytes)
Whole == [i \in 0 .. WholeLength - 1 |->
            IF i < length THEN buf[i] ELSE argument.bytes[i - length + 1]]

TypedHeld ==
  /\ typed \in Seq(Nat)
  /\ pc \in {"none", "ready"} => argument = NoArgument
  /\ kind = "codepoints" /\ pc \in {"ready", "grow", "copy"} =>
       \E k \in Nat : \E p : TypedAt(typed, k, Whole, WholeLength, p)

LEMMA InBytes ==
  ASSUME NEW cp \in Nat, LTE_utf8_encode(cp) # <<>>, NEW m, NEW c \in Nat, NEW d \in Nat,
         HasEncoding(m, c, LTE_utf8_encode(cp), d - c)
  PROVE  c < d /\ d - c \in 1 .. 4
<1> DEFINE n == Len(LTE_utf8_encode(cp))
<1>1. n \in 1 .. 4
  BY Encoded
<1> HIDE DEF n
<1>2. d - c = n
  BY DEF HasEncoding, n
<1> QED
  BY <1>1, <1>2

(* What matters of a text are its bytes.                                   *)
LEMMA SameTyped ==
  ASSUME NEW ty, NEW k \in Nat, NEW m, NEW t, NEW l \in Nat, NEW p, TypedAt(ty, k, m, l, p),
         \A i \in 0 .. l - 1 : t[i] = m[i], NEW j \in 1 .. k
  PROVE  TypedPlace(ty, t, p, j)
<1>1. p[j - 1] \in Nat /\ p[j] \in Nat /\ p[j] <= l
  BY DEF TypedAt
<1>2. PICK c \in Nat : c = p[j - 1]
  BY <1>1
<1>3. PICK d \in Nat : d = p[j] /\ d <= l
  BY <1>1
<1>4. ty[j] \in Nat /\ LTE_utf8_encode(ty[j]) # <<>>
      /\ HasEncoding(m, c, LTE_utf8_encode(ty[j]), d - c)
  BY <1>2, <1>3 DEF TypedAt, TypedPlace
<1>5. PICK n \in 1 .. 4 : n = d - c
  BY <1>4, InBytes
<1>6. HasEncoding(t, c, LTE_utf8_encode(ty[j]), n)
  <2> DEFINE s == LTE_utf8_encode(ty[j])
  <2> HIDE DEF s
  <2>1. HasEncoding(m, c, s, n)
    BY <1>4, <1>5 DEF s
  <2>2. \A i \in 1 .. n : c + i - 1 \in 0 .. l - 1
    BY <1>3, <1>5
  <2>3. \A i \in 1 .. n : t[c + i - 1] = s[i]
    BY <2>1, <2>2 DEF HasEncoding
  <2>4. HasEncoding(t, c, s, n)
    BY <2>1, <2>3 DEF HasEncoding
  <2> QED
    BY <2>4 DEF s
<1> QED
  BY <1>2, <1>3, <1>4, <1>5, <1>6 DEF TypedPlace

(* One more code point goes behind the others.                             *)
LEMMA OneMore ==
  ASSUME NEW ty \in Seq(Nat), NEW k \in Nat, NEW m, NEW t, NEW l \in Nat, NEW p,
         TypedAt(ty, k, m, l, p), \A i \in 0 .. l - 1 : t[i] = m[i],
         NEW cp \in Nat, LTE_utf8_encode(cp) # <<>>, NEW n \in Nat,
         HasEncoding(t, l, LTE_utf8_encode(cp), n)
  PROVE  \E q : TypedAt(Append(ty, cp), k + 1, t, l + n, q)
<1> DEFINE q == [i \in 0 .. k + 1 |-> IF i = k + 1 THEN l + n ELSE p[i]]
           u == Append(ty, cp)
<1>1. Len(ty) = k /\ p \in [0 .. k -> 0 .. l] /\ p[0] = 0 /\ p[k] = l
  BY DEF TypedAt
<1>2. Len(u) = k + 1 /\ u[k + 1] = cp /\ \A i \in 1 .. k : u[i] = ty[i]
  BY <1>1, AppendPlaces
<1>3. q \in [0 .. k + 1 -> 0 .. l + n] /\ q[0] = 0 /\ q[k + 1] = l + n /\ q[k] = l
      /\ \A i \in 0 .. k : q[i] = p[i]
  BY <1>1
<1> HIDE DEF q, u
<1>4. ASSUME NEW i \in 1 .. k + 1 PROVE TypedPlace(u, t, q, i)
  <2>1. CASE i = k + 1
    <3>1. i - 1 = k /\ q[i] - q[i - 1] = n
      BY <1>3, <2>1
    <3>2. HasEncoding(t, q[i - 1], LTE_utf8_encode(u[i]), q[i] - q[i - 1])
      BY <1>2, <1>3, <2>1, <3>1
    <3> QED
      BY <1>2, <2>1, <3>2 DEF TypedPlace
  <2>2. CASE i # k + 1
    <3>3. i \in 1 .. k /\ i \in 0 .. k /\ i - 1 \in 0 .. k
      BY <2>2
    <3>1. i \in 1 .. k /\ q[i] = p[i] /\ q[i - 1] = p[i - 1] /\ u[i] = ty[i]
      BY <1>2, <1>3, <3>3
    <3>2. TypedPlace(ty, t, p, i)
      BY <3>1, SameTyped
    <3> QED
      BY <3>1, <3>2 DEF TypedPlace
  <2> QED
    BY <2>1, <2>2
<1>5. TypedAt(u, k + 1, t, l + n, q)
  BY <1>2, <1>3, <1>4 DEF TypedAt
<1> QED
  BY <1>5 DEF u
LEMMA InitTyped == TextInit => TypedHeld
  BY DEF TextInit, Init, TypedHeld

LEMMA StartTyped == ASSUME TypedHeld, NEW k \in Kind, Start(k) PROVE TypedHeld'
<1>1. /\ argument = NoArgument /\ argument' = NoArgument /\ length' = 0 /\ typed' = <<>>
      /\ pc' = "ready"
  BY DEF TypedHeld, Start, LTE_StringBuilder_new, call
<1>2. WholeLength' = 0
  BY <1>1 DEF WholeLength, NoArgument
<1> DEFINE p == [i \in 0 .. 0 |-> 0]
<1>3. TypedAt(<<>>, 0, Whole', 0, p)
  BY DEF TypedAt
<1> HIDE DEF p
<1>4. <<>> \in Seq(Nat) /\ 0 \in Nat
  OBVIOUS
<1> QED
  BY <1>1, <1>2, <1>3, <1>4 DEF TypedHeld

LEMMA DiscardTyped == ASSUME TypedHeld, Discard PROVE TypedHeld'
<1>1. argument = NoArgument /\ argument' = NoArgument /\ kind' = "none" /\ typed' = <<>>
  BY DEF TypedHeld, Discard, LTE_StringBuilder_free, call
<1> QED
  BY <1>1 DEF TypedHeld

(* Only code points are appended to a text of code points.                 *)
LEMMA OthersTyped ==
  ASSUME TypedHeld, \/ \E ch : kind \in DOMAIN Alphabet /\ AppendByte(ch)
                    \/ \E a : AppendString(a)
  PROVE  TypedHeld'
<1>1. kind # "codepoints" /\ UNCHANGED <<kind, typed>>
  BY TextAssumption DEF AppendByte, AppendString
<1>2. pc' \in {"grow", "copy"}
  BY DEF AppendByte, AppendString, LTE_StringBuilder_append_char, LTE_StringBuilder_append_str,
         LTE_StringBuilder_append_bytes
<1> QED
  BY <1>1, <1>2 DEF TypedHeld

LEMMA CodepointTyped ==
  ASSUME IInv, TypedHeld, NEW cp \in Codepoints, AppendCodepoint(cp) PROVE TypedHeld'
<1> DEFINE s == LTE_utf8_encode(cp)
<1>1. cp \in Nat
  BY TextAssumption
<1>2. s \in Seq(0 .. 255) /\ Len(s) \in Nat
  BY <1>1, Encoded, LenProperties
<1>3. /\ kind = "codepoints" /\ pc = "ready" /\ s # <<>> /\ argument' = Given(s)
      /\ pc' \in {"grow", "copy"} /\ UNCHANGED builder /\ typed' = Append(typed, cp)
  BY DEF AppendCodepoint, LTE_StringBuilder_append_bytes, Given
<1> HIDE DEF s
<1>4. argument = NoArgument /\ typed \in Seq(Nat)
  BY <1>3 DEF TypedHeld
<1>5. length \in Nat /\ WholeLength = length
  BY <1>4 DEF IInv, TypeOK, WholeLength, NoArgument
<1>6. PICK k \in Nat : \E p : TypedAt(typed, k, Whole, length, p)
  BY <1>3, <1>5 DEF TypedHeld
<1>7. PICK p : TypedAt(typed, k, Whole, length, p)
  BY <1>6
<1>8. PICK n \in Nat : n = Len(s)
  BY <1>2
<1>9. length' = length /\ buf' = buf /\ argument'.bytes = s /\ WholeLength' = length + n
  BY <1>3, <1>8 DEF builder, Given, WholeLength
<1>15. \A i \in 0 .. length + n - 1 : Whole'[i] = IF i < length THEN buf[i] ELSE s[i - length + 1]
  <2>1. Whole' = [i \in 0 .. WholeLength' - 1 |->
                    IF i < length' THEN buf'[i] ELSE argument'.bytes[i - length' + 1]]
    BY DEF Whole
  <2>2. ASSUME NEW i \in 0 .. length + n - 1
        PROVE  Whole'[i] = IF i < length' THEN buf'[i] ELSE argument'.bytes[i - length' + 1]
    <3>1. i \in 0 .. WholeLength' - 1
      BY <1>5, <1>9
    <3> QED
      BY <2>1, <3>1
  <2> QED
    BY <1>9, <2>2
<1>10. ASSUME NEW i \in 0 .. length - 1 PROVE Whole'[i] = Whole[i]
  <2>1. i \in 0 .. length + n - 1 /\ i < length
    BY <1>5
  <2>2. Whole[i] = buf[i]
    BY <1>5, <2>1 DEF Whole
  <2>3. Whole'[i] = buf[i]
    BY <1>15, <2>1
  <2> QED
    BY <2>2, <2>3
<1>11. HasEncoding(Whole', length, s, n)
  <2> SUFFICES ASSUME NEW i \in 1 .. n PROVE Whole'[length + i - 1] = s[i]
    BY <1>8 DEF HasEncoding
  <2>1. length + i - 1 \in 0 .. length + n - 1 /\ ~(length + i - 1 < length)
        /\ (length + i - 1) - length + 1 = i
    BY <1>5
  <2> QED
    BY <1>15, <2>1
<1> DEFINE t == Whole'
           ty == typed
           m == Whole
           l == length
<1> HIDE DEF t, ty, m, l
<1>12. ty \in Seq(Nat) /\ l \in Nat /\ TypedAt(ty, k, m, l, p)
       /\ (\A i \in 0 .. l - 1 : t[i] = m[i]) /\ HasEncoding(t, l, s, n)
  BY <1>4, <1>5, <1>7, <1>10, <1>11 DEF ty, m, l, t
<1>13. \E q : TypedAt(Append(ty, cp), k + 1, t, l + n, q)
  BY <1>1, <1>3, <1>12, OneMore DEF s
<1>14. Append(ty, cp) \in Seq(Nat) /\ k + 1 \in Nat
  BY <1>1, <1>12, AppendProperties
<1> QED
  BY <1>3, <1>9, <1>13, <1>14 DEF TypedHeld, ty, t, l

(* The rest of an append leaves the whole text as it is.                   *)
LEMMA SameWhole ==
  ASSUME TypedHeld, WholeLength' = WholeLength, \A i \in 0 .. WholeLength - 1 : Whole'[i] = Whole[i],
         pc \in {"grow", "copy"}, pc' = "ready" => argument' = NoArgument, pc' # "none",
         UNCHANGED <<kind, typed>>
  PROVE  TypedHeld'
<1>1. Whole' = Whole
  <2>1. Whole = [i \in 0 .. WholeLength - 1 |-> Whole[i]]
    BY DEF Whole
  <2>2. Whole' = [i \in 0 .. WholeLength - 1 |-> Whole'[i]]
    BY DEF Whole
  <2> DEFINE m == Whole
             t == Whole'
             D == 0 .. WholeLength - 1
  <2>3. m = [i \in D |-> m[i]] /\ t = [i \in D |-> t[i]] /\ \A i \in D : t[i] = m[i]
    BY <2>1, <2>2
  <2> HIDE DEF m, t, D
  <2>4. t = m
    BY <2>3
  <2> QED
    BY <2>4 DEF m, t
<1>2. kind = "codepoints" =>
        \E k \in Nat : \E p : TypedAt(typed, k, Whole, WholeLength, p)
  BY DEF TypedHeld
<1>3. kind = "codepoints" =>
        \E k \in Nat : \E p : TypedAt(typed', k, Whole', WholeLength', p)
  BY <1>1, <1>2
<1> QED
  BY <1>3 DEF TypedHeld

LEMMA AppendingTyped ==
  ASSUME IInv, TypedHeld, Appending, UNCHANGED <<kind, typed>> PROVE TypedHeld'
<1>1. CASE Double
  <2>1. UNCHANGED <<length, buf, argument, pc>> /\ pc = "grow"
    BY <1>1 DEF Double, builder
  <2>2. WholeLength' = WholeLength /\ \A i \in 0 .. WholeLength - 1 : Whole'[i] = Whole[i]
    BY <2>1 DEF WholeLength, Whole
  <2> QED
    BY <2>1, <2>2, SameWhole
<1>2. CASE Reallocate
  <2>1. /\ UNCHANGED <<length, argument>> /\ pc = "grow" /\ pc' = "copy"
        /\ buf' = [i \in 0 .. size' - 1 |-> IF i < size THEN buf[i] ELSE Junk]
        /\ size' = new_size /\ new_size >= required_size
    BY <1>2 DEF Reallocate
  <2>2. length \in Nat /\ size \in Nat /\ length < size /\ argument.bytes \in Seq(Byte)
        /\ new_size \in Nat /\ required_size = length + Len(argument.bytes) + 1
    BY <2>1, SizeAssumption DEF IInv, TypeOK, Terminated, Sizes
  <2>3. PICK n \in Nat : n = Len(argument.bytes)
    BY <2>2, LenProperties
  <2>4. WholeLength' = WholeLength /\ WholeLength = length + n
    BY <2>1, <2>3 DEF WholeLength
  <2>5. ASSUME NEW i \in 0 .. WholeLength - 1 PROVE Whole'[i] = Whole[i]
    <3>1. i \in Nat /\ i < length + n
      BY <2>2, <2>4
    <3>2. i < length => buf'[i] = buf[i]
      <4>1. i < length => i \in 0 .. new_size - 1 /\ i < size
        BY <2>1, <2>2, <2>3, <3>1
      <4> QED
        BY <2>1, <4>1
    <3> QED
      BY <2>1, <2>4, <3>2 DEF Whole
  <2> QED
    BY <2>1, <2>4, <2>5, SameWhole
<1>3. CASE OutOfMemory
  BY <1>3 DEF OutOfMemory, TypedHeld
<1>4. CASE Copy
  <2>1. pc = "copy" /\ pc' = "ready" /\ argument' = NoArgument
    BY <1>4 DEF Copy, CopyTo
  <2>2. length \in Nat /\ length' = length + Len(argument.bytes)
    BY <1>4, Copied DEF IInv, TypeOK
  <2>3. PICK n \in Nat : n = Len(argument.bytes)
    BY <1>4, Copied
  <2>4. WholeLength' = WholeLength /\ WholeLength = length + n /\ length' = length + n
    BY <2>1, <2>2, <2>3 DEF WholeLength, NoArgument
  <2>5. ASSUME NEW i \in 0 .. WholeLength - 1 PROVE Whole'[i] = Whole[i]
    <3>1. i \in Nat /\ i < length + n
      BY <2>2, <2>4
    <3>2. Whole'[i] = buf'[i]
      BY <2>4, <3>1 DEF Whole
    <3>3. CASE i < length
      <4>1. i \in 0 .. length - 1
        BY <2>2, <3>1, <3>3
      <4>2. buf'[i] = buf[i]
        BY <1>4, <4>1, Copied
      <4> QED
        BY <3>2, <3>3, <4>2 DEF Whole
    <3>4. CASE ~(i < length)
      <4>1. i - length + 1 \in 1 .. n /\ length + (i - length + 1) - 1 = i
        BY <2>2, <3>1, <3>4
      <4>2. buf'[i] = argument.bytes[i - length + 1]
        <5>1. \A j \in 1 .. n : buf'[length + j - 1] = argument.bytes[j]
          BY <1>4, <2>3, Copied
        <5> QED
          BY <4>1, <5>1
      <4> QED
        BY <3>2, <3>4, <4>2 DEF Whole
    <3> QED
      BY <3>3, <3>4
  <2> QED
    BY <2>1, <2>4, <2>5, SameWhole
<1>5. CASE ReadFreed
  BY <1>5 DEF ReadFreed, TypedHeld
<1> QED
  BY <1>1, <1>2, <1>3, <1>4, <1>5 DEF Appending

LEMMA TypedInvariance == TextSpec => [](IInv /\ TypedHeld)
<1>1. TextInit => TypedHeld
  BY InitTyped
<1>2. ASSUME IInv, TypedHeld, [TextNext]_textVars PROVE TypedHeld'
  <2>1. ASSUME NEW k \in Kind, Start(k) PROVE TypedHeld'
    BY <1>2, <2>1, StartTyped
  <2>2. CASE Discard
    BY <1>2, <2>2, DiscardTyped
  <2>3. CASE kind \in DOMAIN Alphabet /\ \E ch \in Alphabet[kind] : AppendByte(ch)
    BY <1>2, <2>3, OthersTyped
  <2>4. CASE \E a \in Arguments : AppendString(a)
    BY <1>2, <2>4, OthersTyped
  <2>5. ASSUME NEW cp \in Codepoints, AppendCodepoint(cp) PROVE TypedHeld'
    BY <1>2, <2>5, CodepointTyped
  <2>6. CASE Appending /\ UNCHANGED <<kind, typed>>
    BY <1>2, <2>6, AppendingTyped
  <2>7. CASE UNCHANGED textVars
    <3>1. UNCHANGED <<length, buf, argument, pc, kind, typed>>
      BY <2>7 DEF textVars, vars, builder, call
    <3>2. WholeLength' = WholeLength /\ Whole' = Whole
      BY <3>1 DEF WholeLength, Whole
    <3> QED
      BY <1>2, <3>1, <3>2 DEF TypedHeld
  <2> QED
    BY <1>2, <2>1, <2>2, <2>3, <2>4, <2>5, <2>6, <2>7 DEF TextNext
<1>3. TypedHeld /\ IInv /\ [TextNext]_textVars => TypedHeld'
  BY <1>2
<1> QED
  BY <1>1, <1>3, TextInvariance, PTL DEF TextSpec
(* A walk whose steps lead from each place p[i] to the next is at these.   *)
Along(p, N, l, k) ==
  /\ p \in [0 .. k -> 0 .. l] /\ p[k] = l
  /\ \A i \in 1 .. k : p[i - 1] < l /\ N[p[i - 1]] = p[i]
At(s, p, i, k) == Len(s) = k - i /\ \A j \in 1 .. k - i : s[j] = p[i + j - 1]

LEMMA WalksAlong ==
  ASSUME NEW l \in Nat, NEW N, NEW f, Walks(f, N, l, 0), NEW k \in Nat, NEW p, Along(p, N, l, k)
  PROVE  At(f[p[0]], p, 0, k)
<1> DEFINE S == {i \in 0 .. k : ~At(f[p[i]], p, i, k)}
<1> SUFFICES ASSUME S # {} PROVE FALSE
  <2>1. 0 \in 0 .. k
    OBVIOUS
  <2> QED
    BY <2>1
<1>1. PICK i \in S : \A b \in S : b <= i
  <2>1. S \in SUBSET Nat /\ \A b \in S : b <= k
    OBVIOUS
  <2> HIDE DEF S
  <2> QED
    BY <2>1, GreatestNat
<1>2. i \in 0 .. k /\ ~At(f[p[i]], p, i, k)
      /\ \A b \in 0 .. k : b <= i \/ At(f[p[b]], p, b, k)
  BY <1>1
<1> HIDE DEF S
<1>3. CASE i = k
  <2>1. f[p[i]] = <<>>
    BY <1>3 DEF Along, Walks
  <2>2. At(<<>>, p, k, k)
    BY DEF At
  <2> QED
    BY <1>2, <1>3, <2>1, <2>2
<1>4. CASE i # k
  <2>1. i + 1 \in 1 .. k /\ i + 1 \in 0 .. k /\ (i + 1) - 1 = i /\ ~(i + 1 <= i) /\ k - i \in Nat
        /\ k - (i + 1) \in Nat /\ (k - (i + 1)) + 1 = k - i
    BY <1>2, <1>4
  <2>2. p[i] \in 0 .. l - 1 /\ N[p[i]] = p[i + 1] /\ p[i + 1] \in 0 .. l
    <3>1. p[i] \in 0 .. l /\ p[i] < l /\ p[i + 1] \in 0 .. l /\ N[p[i]] = p[i + 1]
      BY <1>2, <2>1 DEF Along
    <3>2. p[i] \in 0 .. l - 1
      BY <3>1
    <3> QED
      BY <3>1, <3>2
  <2>3. f[p[i]] = <<p[i]>> \o f[p[i + 1]] /\ f[p[i + 1]] \in Seq(Nat)
    BY <2>2 DEF Walks
  <2>4. At(f[p[i + 1]], p, i + 1, k)
    BY <1>2, <2>1
  <2>5. Len(f[p[i + 1]]) = k - (i + 1)
        /\ \A j \in 1 .. k - (i + 1) : f[p[i + 1]][j] = p[(i + 1) + j - 1]
    BY <2>4 DEF At
  <2>6. PICK n \in Nat : n = k - (i + 1) /\ k - i = n + 1
    BY <2>1
  <2>7. /\ Len(f[p[i]]) = n + 1 /\ f[p[i]][1] = p[i]
        /\ \A j \in 1 .. n : f[p[i]][j + 1] = f[p[i + 1]][j]
    BY <2>2, <2>3, <2>5, <2>6, ConsPlaces
  <2>8. ASSUME NEW j \in 1 .. n + 1 PROVE f[p[i]][j] = p[i + j - 1]
    <3>1. CASE j = 1
      <4>1. i + j - 1 = i
        BY <1>2, <3>1
      <4> QED
        BY <2>7, <3>1, <4>1
    <3>2. CASE j # 1
      <4>1. PICK h \in 1 .. n : j = h + 1
        BY <3>2
      <4>2. f[p[i]][j] = p[(i + 1) + h - 1]
        BY <2>5, <2>6, <2>7, <4>1
      <4>3. (i + 1) + h - 1 = i + j - 1
        BY <1>2, <4>1
      <4> QED
        BY <4>2, <4>3
    <3> QED
      BY <3>1, <3>2
  <2>9. At(f[p[i]], p, i, k)
    BY <2>6, <2>7, <2>8 DEF At
  <2> QED
    BY <1>2, <2>9
<1> QED
  BY <1>3, <1>4

(* At the place of each code point the reader finds it and the next place. *)
LEMMA ReadsTyped ==
  ASSUME IInv, TypedHeld, Reading, kind = "codepoints"
  PROVE  \E k \in Nat : \E p : /\ Len(typed) = k /\ p[0] = 0 /\ Along(p, NextOf, length, k)
                               /\ \A i \in 1 .. k : Codepoint(p[i - 1]) = typed[i]
<1>1. length \in Nat /\ \A i \in 0 .. length - 1 : buf[i] \in 0 .. 255
  BY TextBytes
<1>2. argument = NoArgument
  BY DEF TypedHeld, Reading
<1>3. WholeLength = length
  BY <1>1, <1>2 DEF WholeLength, NoArgument
<1>4. PICK k \in Nat : \E p : TypedAt(typed, k, Whole, length, p)
  BY <1>3 DEF TypedHeld, Reading
<1>5. PICK p : TypedAt(typed, k, Whole, length, p)
  BY <1>4
<1>6. \A i \in 0 .. length - 1 : buf[i] = Whole[i]
  BY <1>1, <1>3 DEF Whole
<1>7. \A i \in 1 .. k : TypedPlace(typed, buf, p, i)
  BY <1>1, <1>5, <1>6, SameTyped
<1>8. Len(typed) = k /\ p \in [0 .. k -> 0 .. length] /\ p[0] = 0 /\ p[k] = length
  BY <1>5 DEF TypedAt
<1>9. ASSUME NEW i \in 1 .. k
      PROVE  p[i - 1] < length /\ NextOf[p[i - 1]] = p[i] /\ Codepoint(p[i - 1]) = typed[i]
  <2>1. i - 1 \in 0 .. k /\ i \in 0 .. k
    OBVIOUS
  <2>2. PICK c \in Nat : c = p[i - 1]
    BY <1>8, <2>1
  <2>3. PICK d \in Nat : d = p[i] /\ d <= length
    BY <1>1, <1>8, <2>1
  <2>4. typed[i] \in Nat /\ LTE_utf8_encode(typed[i]) # <<>>
        /\ HasEncoding(buf, c, LTE_utf8_encode(typed[i]), d - c)
    BY <1>7, <2>2, <2>3 DEF TypedPlace
  <2>5. c < d /\ d - c \in 1 .. 4
    BY <2>4, InBytes
  <2>6. DecodesTo(buf, c, d - c, typed[i])
    BY <2>4, EncodeDecode
  <2>7. PICK a \in Nat \ {0} : a = length - c
    BY <1>1, <2>3, <2>5
  <2>8. StartsValid(buf, c, a, d - c) /\ LTE_utf8_decode_valid(buf, c, d - c) = typed[i]
    <3>1. d - c <= a
      BY <1>1, <2>3, <2>7
    <3> QED
      BY <2>6, <3>1 DEF DecodesTo, StartsValid
  <2>9. c \in 0 .. length - 1 /\ buf[c] \in 0 .. 255 /\ c + (d - c) = d /\ c < length
    BY <1>1, <2>3, <2>5
  <2>10. /\ LTE_utf8_next_bounded(buf, c, a) = d
         /\ LTE_utf8_codepoint_at_bounded(buf, c, a) = typed[i]
    BY <2>8, <2>9, ReadsValid
  <2>11. Next_(c) = d /\ Codepoint(c) = typed[i] /\ NextOf[c] = Next_(c)
    BY <2>7, <2>9, <2>10 DEF Next_, Codepoint, Available, NextOf
  <2> QED
    BY <2>2, <2>3, <2>9, <2>11
<1>10. Along(p, NextOf, length, k)
  BY <1>8, <1>9 DEF Along
<1> QED
  BY <1>8, <1>9, <1>10

(* A walk over a text made of encoded code points reads these code points  *)
(* (utf8.c:100-147, 182-206, utils.c:177-201).                             *)
THEOREM ReadsBackTyped == TextSpec => []TypedReadBack
<1>1. ASSUME IInv, TypedHeld, Reading, kind = "codepoints"
      PROVE  [i \in DOMAIN Walk |-> Codepoint(Walk[i])] = typed
  <2>1. PICK f : Walks(f, NextOf, length, 0) /\ Walk = f[0]
    BY <1>1, WalkIs
  <2>2. PICK k \in Nat : \E p : /\ Len(typed) = k /\ p[0] = 0 /\ Along(p, NextOf, length, k)
                               /\ \A i \in 1 .. k : Codepoint(p[i - 1]) = typed[i]
    BY <1>1, ReadsTyped
  <2>3. PICK p : /\ Len(typed) = k /\ p[0] = 0 /\ Along(p, NextOf, length, k)
                 /\ \A i \in 1 .. k : Codepoint(p[i - 1]) = typed[i]
    BY <2>2
  <2>4. length \in Nat
    BY <1>1, TextBytes
  <2>5. At(f[p[0]], p, 0, k)
    BY <2>1, <2>3, <2>4, WalksAlong
  <2>6. At(Walk, p, 0, k) /\ Walk \in Seq(Nat)
    BY <2>1, <2>3, <2>4, <2>5 DEF Walks
  <2>7. DOMAIN Walk = 1 .. k /\ \A j \in 1 .. k : Walk[j] = p[j - 1]
    <3>1. Len(Walk) = k - 0 /\ \A j \in 1 .. k - 0 : Walk[j] = p[0 + j - 1]
      BY <2>6 DEF At
    <3>2. Len(Walk) = k /\ \A j \in 1 .. k : 0 + j - 1 = j - 1 /\ j \in 1 .. k - 0
      BY <3>1
    <3> QED
      BY <2>6, <3>1, <3>2, LenProperties
  <2>8. \A j \in 1 .. k : Codepoint(Walk[j]) = typed[j]
    BY <2>3, <2>7
  <2>9. typed = [j \in 1 .. k |-> typed[j]]
    BY <1>1, <2>3 DEF TypedHeld
  <2> QED
    BY <2>7, <2>8, <2>9, Zenon
<1>2. IInv /\ TypedHeld => TypedReadBack
  BY <1>1 DEF TypedReadBack
<1> QED
  BY <1>2, TypedInvariance, PTL

-------------------------------------------------------------------------------
(* What decoding leaves of a string (hex.c:70-76, base64.c:130-138).       *)
Ink == (0 .. 255) \ Whitespace
Kept(s) == [i \in DOMAIN s |-> IF s[i] \in Whitespace THEN <<>> ELSE <<s[i]>>]

LEMMA FlattenNone == FlattenSeq(<<>>) = <<>>
  BY DEF FlattenSeq

LEMMA FlattenFew ==
  ASSUME NEW T, NEW s \in Seq(Seq(T)), \A i \in 1 .. Len(s) : Len(s[i]) <= 1
  PROVE  FlattenSeq(s) \in Seq(T) /\ Len(FlattenSeq(s)) <= Len(s)
<1>1. Len(s) \in Nat /\ \A i \in 1 .. Len(s) : s[i] \in Seq(T)
  BY LenProperties, ElementOfSeq
<1>2. CASE Len(s) = 0
  <2>1. s = <<>>
    BY <1>2, EmptySeq
  <2>2. <<>> \in Seq(T) /\ Len(<<>>) <= 0
    OBVIOUS
  <2> QED
    BY <1>2, <2>1, <2>2, FlattenNone
<1>3. CASE Len(s) > 0
  <2>1. PICK f \in [1 .. Len(s) -> Seq(T)] : Flattening(s, f, Len(s)) /\ FlattenSeq(s) = f[Len(s)]
    BY <1>3, FlattenSteps
  <2> DEFINE S == {i \in 1 .. Len(s) : Len(f[i]) <= i}
  <2>2. 1 \in S
    <3>1. 1 \in 1 .. Len(s)
      BY <1>1, <1>3
    <3>2. f[1] = s[1]
      BY <2>1, <3>1 DEF Flattening
    <3> QED
      BY <3>1, <3>2
  <2>3. ASSUME NEW k \in 1 .. Len(s) - 1, k \in S PROVE k + 1 \in S
    <3>1. k + 1 \in 1 .. Len(s) /\ k \in 1 .. Len(s) /\ k + 1 # 1 /\ (k + 1) - 1 = k
      BY <1>1
    <3>2. f[k + 1] = f[k] \o s[k + 1] /\ f[k] \in Seq(T) /\ s[k + 1] \in Seq(T)
      BY <1>1, <2>1, <3>1 DEF Flattening
    <3>3. Len(f[k + 1]) = Len(f[k]) + Len(s[k + 1])
      BY <3>2, ConcatProperties
    <3>4. Len(f[k]) \in Nat /\ Len(s[k + 1]) \in Nat /\ Len(f[k]) <= k /\ Len(s[k + 1]) <= 1
      BY <2>3, <3>1, <3>2, LenProperties
    <3> QED
      BY <3>1, <3>3, <3>4
  <2>4. 1 .. Len(s) \subseteq S
    <3> HIDE DEF S
    <3> QED
      BY <1>1, <2>2, <2>3, UptoInduction
  <2>5. Len(s) \in 1 .. Len(s)
    BY <1>1, <1>3
  <2>6. Len(f[Len(s)]) <= Len(s)
    BY <2>4, <2>5
  <2> QED
    BY <2>1, <2>5, <2>6
<1> QED
  BY <1>1, <1>2, <1>3

LEMMA CompactedIs ==
  ASSUME NEW s \in Seq(0 .. 255)
  PROVE  compacted(s) \in Seq(Ink) /\ Len(compacted(s)) <= Len(s)
<1>1. Len(s) \in Nat /\ DOMAIN s = 1 .. Len(s) /\ \A i \in 1 .. Len(s) : s[i] \in 0 .. 255
  BY LenProperties, ElementOfSeq, SMTT(30)
<1>2. \A i \in 1 .. Len(s) : Kept(s)[i] \in Seq(Ink) /\ Len(Kept(s)[i]) <= 1
  <2> SUFFICES ASSUME NEW i \in 1 .. Len(s) PROVE Kept(s)[i] \in Seq(Ink) /\ Len(Kept(s)[i]) <= 1
    OBVIOUS
  <2>1. CASE s[i] \in Whitespace
    BY <1>1, <2>1 DEF Kept
  <2>2. CASE s[i] \notin Whitespace
    <3>1. s[i] \in Ink
      BY <1>1, <2>2 DEF Ink
    <3>2. <<s[i]>> \in Seq(Ink) /\ Len(<<s[i]>>) = 1
      BY <3>1
    <3> QED
      BY <1>1, <2>2, <3>2 DEF Kept
  <2> QED
    BY <2>1, <2>2
<1>3. Kept(s) \in Seq(Seq(Ink)) /\ Len(Kept(s)) = Len(s)
  <2>1. Kept(s) = [i \in 1 .. Len(s) |-> Kept(s)[i]]
    BY <1>1 DEF Kept
  <2> DEFINE k == Kept(s)
  <2> HIDE DEF k
  <2>2. k = [i \in 1 .. Len(s) |-> k[i]] /\ \A i \in 1 .. Len(s) : k[i] \in Seq(Ink)
    BY <1>2, <2>1 DEF k
  <2>3. k \in Seq(Seq(Ink)) /\ Len(k) = Len(s)
    BY <1>1, <2>2
  <2> QED
    BY <2>3 DEF k
<1>4. compacted(s) = FlattenSeq(Kept(s))
  BY DEF compacted, Kept
<1> QED
  BY <1>1, <1>2, <1>3, <1>4, FlattenFew, ZenonT(60)

LEMMA CompactedSame ==
  ASSUME NEW s \in Seq(Ink) PROVE compacted(s) = s
<1>1. Len(s) \in Nat /\ DOMAIN s = 1 .. Len(s) /\ \A i \in 1 .. Len(s) : s[i] \in Ink
  BY LenProperties, ElementOfSeq
<1> DEFINE k == [i \in 1 .. Len(s) |-> <<s[i]>>]
<1>2. Kept(s) = k
  <2>1. \A i \in 1 .. Len(s) : s[i] \notin Whitespace
    BY <1>1 DEF Ink
  <2> QED
    BY <1>1, <2>1 DEF Kept
<1>3. k \in Seq(Seq(Ink)) /\ Len(k) = Len(s) /\ \A i \in 1 .. Len(s) : k[i] = <<s[i]>>
  BY <1>1
<1>4. compacted(s) = FlattenSeq(k)
  BY <1>2 DEF compacted, Kept
<1> HIDE DEF k
<1>5. CASE Len(s) = 0
  <2>1. s = <<>> /\ k = <<>>
    BY <1>3, <1>5, EmptySeq
  <2> QED
    BY <1>4, <2>1, FlattenNone
<1>6. CASE Len(s) > 0
  <2>1. PICK n \in Nat : n = Len(s)
    BY <1>1
  <2>7. n > 0 /\ (\A i \in 1 .. n : k[i] = <<s[i]>>) /\ Len(k) = n
    BY <1>3, <1>6, <2>1
  <2>8. n \in 1 .. n
    BY <2>7
  <2>2. ASSUME NEW i \in 1 .. n PROVE Len(k[i]) = 1 /\ k[i][1] = s[i]
    <3>1. k[i] = <<s[i]>>
      BY <2>7
    <3> QED
      BY <3>1
  <2>3. Parts(k, 1, n)
    BY <2>2, <2>7 DEF Parts
  <2>4. Joins(s, k, 1, n)
    <3>1. Len(s) = (n - 1) * 1 + Len(k[n])
      <4>1. Len(k[n]) = 1
        BY <2>2, <2>8
      <4>2. (n - 1) * 1 + 1 = n
        OBVIOUS
      <4> QED
        BY <2>1, <4>1, <4>2
    <3>2. ASSUME NEW i \in 1 .. n, NEW r \in 1 .. Len(k[i]) PROVE s[(i - 1) * 1 + r] = k[i][r]
      <4>1. Len(k[i]) = 1
        BY <2>2
      <4>2. r = 1 /\ (i - 1) * 1 + r = i
        BY <4>1
      <4> QED
        BY <2>2, <4>2
    <3> QED
      BY <3>1, <3>2 DEF Joins
  <2>9. Len(k[n]) = 1
    BY <2>2, <2>8
  <2>5. Len(k[n]) <= 1 /\ 1 \in Nat \ {0}
    BY <2>9
  <2>6. FlattenSeq(k) = s
    BY <1>3, <2>1, <2>3, <2>4, <2>5, FlattenIs
  <2> QED
    BY <1>4, <2>6
<1> QED
  BY <1>1, <1>5, <1>6

-------------------------------------------------------------------------------
(* Hexadecimal: a digit for each half of a byte (hex.c:8-33).              *)
LowerByte(ch) == IF ch \in 65 .. 90 THEN ch + 32 ELSE ch

LEMMA HexDigit ==
  ASSUME NEW v \in 0 .. 15, NEW u \in BOOLEAN
  PROVE  hex_alphabet(v, u) \in Ink /\ hex_decode_char_value(hex_alphabet(v, u)) = v
<1>1. hex_alphabet(v, u) \in 48 .. 57 \/ hex_alphabet(v, u) \in 65 .. 70
      \/ hex_alphabet(v, u) \in 97 .. 102
  BY DEF hex_alphabet
<1>2. hex_alphabet(v, u) \in Ink
  BY <1>1 DEF Ink, Whitespace
<1>3. hex_decode_char_value(hex_alphabet(v, u)) = v
  BY DEF hex_alphabet, hex_decode_char_value
<1> QED
  BY <1>2, <1>3

LEMMA HexValue ==
  ASSUME NEW ch \in 0 .. 255, ~(hex_decode_char_value(ch) < 0)
  PROVE  /\ hex_decode_char_value(ch) \in 0 .. 15
         /\ hex_alphabet(hex_decode_char_value(ch), FALSE) = LowerByte(ch)
<1>1. CASE ch \in 48 .. 57
  <2>1. hex_decode_char_value(ch) = ch - 48
    BY <1>1 DEF hex_decode_char_value
  <2> QED
    BY <1>1, <2>1 DEF hex_alphabet, LowerByte
<1>2. CASE ch \in 97 .. 102
  <2>1. hex_decode_char_value(ch) = ch - 97 + 10
    BY <1>2 DEF hex_decode_char_value
  <2> QED
    BY <1>2, <2>1 DEF hex_alphabet, LowerByte
<1>3. CASE ch \in 65 .. 70
  <2>1. hex_decode_char_value(ch) = ch - 65 + 10
    BY <1>3 DEF hex_decode_char_value
  <2> QED
    BY <1>3, <2>1 DEF hex_alphabet, LowerByte
<1>4. ch \in 48 .. 57 \/ ch \in 97 .. 102 \/ ch \in 65 .. 70
  BY DEF hex_decode_char_value
<1> QED
  BY <1>1, <1>2, <1>3, <1>4

Nibble(v, j) == IF j % 2 = 1 THEN v[(j + 1) \div 2] \div 16 ELSE v[j \div 2] % 16
HexDigits(v, n, u) == [j \in 1 .. 2 * n |-> hex_alphabet(Nibble(v, j), u)]

LEMMA Halves ==
  ASSUME NEW n \in Nat, NEW j \in 1 .. 2 * n
  PROVE  \E i \in 1 .. n : j = 2 * i - 1 \/ j = 2 * i
<1>1. (j + 1) \div 2 \in 1 .. n
  OBVIOUS
<1> QED
  BY <1>1

LEMMA HalfOf ==
  ASSUME NEW i \in Nat \ {0}, NEW v
  PROVE  Nibble(v, 2 * i - 1) = v[i] \div 16 /\ Nibble(v, 2 * i) = v[i] % 16
<1>1. (2 * i - 1) % 2 = 1 /\ ((2 * i - 1) + 1) \div 2 = i /\ (2 * i) % 2 = 0 /\ (2 * i) \div 2 = i
  OBVIOUS
<1> QED
  BY <1>1 DEF Nibble

LEMMA NibbleType ==
  ASSUME NEW n \in Nat, NEW v, OfLength(v, 0 .. 255, n), NEW j \in 1 .. 2 * n
  PROVE  Nibble(v, j) \in 0 .. 15
<1>1. PICK i \in 1 .. n : j = 2 * i - 1 \/ j = 2 * i
  BY Halves
<1>2. v[i] \in 0 .. 255
  BY ElementOfSeq DEF OfLength
<1>3. Nibble(v, 2 * i - 1) = v[i] \div 16 /\ Nibble(v, 2 * i) = v[i] % 16
  BY HalfOf
<1> QED
  BY <1>1, <1>2, <1>3

LEMMA HexDigitsType ==
  ASSUME NEW n \in Nat, NEW v, OfLength(v, 0 .. 255, n), NEW u \in BOOLEAN
  PROVE  OfLength(HexDigits(v, n, u), Ink, 2 * n)
<1>1. \A j \in 1 .. 2 * n : hex_alphabet(Nibble(v, j), u) \in Ink
  BY NibbleType, HexDigit
<1>2. 2 * n \in Nat
  OBVIOUS
<1> QED
  BY <1>1, <1>2 DEF HexDigits, OfLength

LEMMA HexEncoded ==
  ASSUME NEW n \in Nat, NEW v, OfLength(v, 0 .. 255, n), HexFits(n), NEW u \in BOOLEAN
  PROVE  LTE_hex_encode(v, u) = {HexDigits(v, n, u)}
<1> DEFINE h(i) == hex_alphabet(v[i] \div 16, u)
           l(i) == hex_alphabet(v[i] % 16, u)
           k == [i \in 1 .. n |-> <<h(i), l(i)>>]
           t == HexDigits(v, n, u)
<1>1. v \in Seq(0 .. 255) /\ Len(v) = n /\ DOMAIN v = 1 .. n /\ \A i \in 1 .. n : v[i] \in 0 .. 255
  BY LenProperties, ElementOfSeq DEF OfLength
<1>2. LTE_hex_encode(v, u) = {FlattenSeq(k)}
  BY <1>1 DEF LTE_hex_encode
<1>3. \A i \in 1 .. n : h(i) \in Ink /\ l(i) \in Ink
  <2>2. \A b \in 0 .. 255 : b \div 16 \in 0 .. 15 /\ b % 16 \in 0 .. 15
    OBVIOUS
  <2>1. \A i \in 1 .. n : v[i] \div 16 \in 0 .. 15 /\ v[i] % 16 \in 0 .. 15
    BY <1>1, <2>2
  <2> QED
    BY <2>1, HexDigit
<1>4. ASSUME NEW i \in 1 .. n PROVE t[2 * i - 1] = h(i) /\ t[2 * i] = l(i)
  <2>1. 2 * i - 1 \in 1 .. 2 * n /\ 2 * i \in 1 .. 2 * n /\ i \in Nat \ {0}
    OBVIOUS
  <2>2. Nibble(v, 2 * i - 1) = v[i] \div 16 /\ Nibble(v, 2 * i) = v[i] % 16
    BY <2>1, HalfOf
  <2> QED
    BY <2>1, <2>2 DEF HexDigits
<1>5. t \in Seq(Ink) /\ Len(t) = 2 * n
  BY HexDigitsType DEF OfLength
<1> HIDE DEF h, l, t
<1>6. \A i \in 1 .. n : k[i] = <<h(i), l(i)>>
  OBVIOUS
<1>7. k \in Seq(Seq(Ink)) /\ Len(k) = n
  BY <1>3
<1> HIDE DEF k
<1>8. ASSUME NEW i \in 1 .. n PROVE Len(k[i]) = 2 /\ k[i][1] = h(i) /\ k[i][2] = l(i)
  <2>1. k[i] = <<h(i), l(i)>>
    BY <1>6
  <2> QED
    BY <2>1
<1>9. CASE n = 0
  <2>1. k = <<>> /\ t = <<>>
    BY <1>5, <1>7, <1>9, EmptySeq
  <2> QED
    BY <1>2, <2>1, FlattenNone DEF t
<1>10. CASE n > 0
  <2>1. n \in 1 .. n /\ 2 \in Nat \ {0}
    BY <1>10
  <2>2. Len(k[n]) = 2
    BY <1>8, <2>1
  <2>3. Parts(k, 2, n)
    BY <1>7, <1>8, <1>10 DEF Parts
  <2>4. Len(t) = (n - 1) * 2 + Len(k[n])
    BY <1>5, <2>2
  <2>5. ASSUME NEW i \in 1 .. n, NEW r \in 1 .. Len(k[i]) PROVE t[(i - 1) * 2 + r] = k[i][r]
    <3>1. Len(k[i]) = 2 /\ k[i][1] = h(i) /\ k[i][2] = l(i)
      BY <1>8
    <3>2. r = 1 \/ r = 2
      BY <3>1
    <3>3. (i - 1) * 2 + 1 = 2 * i - 1 /\ (i - 1) * 2 + 2 = 2 * i
      OBVIOUS
    <3> QED
      BY <1>4, <3>1, <3>2, <3>3
  <2>6. Joins(t, k, 2, n)
    BY <2>4, <2>5 DEF Joins
  <2>7. Len(k[n]) <= 2
    BY <2>2
  <2>8. FlattenSeq(k) = t
    BY <1>5, <1>7, <2>1, <2>3, <2>6, <2>7, FlattenIs
  <2> QED
    BY <1>2, <2>8 DEF t
<1> QED
  BY <1>9, <1>10

HexBytes(s, n) ==
  [i \in 1 .. n |-> hex_decode_char_value(s[2 * i - 1]) * 16 + hex_decode_char_value(s[2 * i])]
AllHex(s) == \A i \in DOMAIN s : ~(hex_decode_char_value(s[i]) < 0)

LEMMA HexDecodedIs ==
  ASSUME NEW string, NEW s, compacted(string) = s
  PROVE  LTE_hex_decode(string) =
           IF Len(s) % 2 = 0 /\ AllHex(s) THEN {HexBytes(s, Len(s) \div 2)} ELSE {}
  BY DEF LTE_hex_decode, HexBytes, AllHex

LEMMA HexDecoded ==
  ASSUME NEW n \in Nat, NEW v, OfLength(v, 0 .. 255, n), NEW u \in BOOLEAN
  PROVE  LTE_hex_decode(HexDigits(v, n, u)) = {v}
<1> DEFINE s == HexDigits(v, n, u)
<1>1. s \in Seq(Ink) /\ Len(s) = 2 * n
  BY HexDigitsType DEF OfLength
<1>2. DOMAIN s = 1 .. 2 * n
  BY <1>1, LenProperties
<1>3. \A j \in 1 .. 2 * n : hex_decode_char_value(s[j]) = Nibble(v, j) /\ Nibble(v, j) \in 0 .. 15
  <2> SUFFICES ASSUME NEW j \in 1 .. 2 * n
               PROVE  hex_decode_char_value(s[j]) = Nibble(v, j) /\ Nibble(v, j) \in 0 .. 15
    OBVIOUS
  <2>1. Nibble(v, j) \in 0 .. 15
    BY NibbleType
  <2>2. s[j] = hex_alphabet(Nibble(v, j), u)
    BY DEF HexDigits
  <2> HIDE DEF s
  <2> QED
    BY <2>1, <2>2, HexDigit
<1> HIDE DEF s
<1>4. compacted(s) = s
  BY <1>1, CompactedSame
<1>5. (2 * n) % 2 = 0 /\ (2 * n) \div 2 = n
  OBVIOUS
<1>6. AllHex(s)
  <2>1. \A x \in 0 .. 15 : ~(x < 0)
    OBVIOUS
  <2> QED
    BY <1>2, <1>3, <2>1 DEF AllHex
<1>7. LTE_hex_decode(s) = {HexBytes(s, n)}
  BY <1>1, <1>4, <1>5, <1>6, HexDecodedIs
<1>8. v \in Seq(0 .. 255) /\ Len(v) = n /\ \A i \in 1 .. n : v[i] \in 0 .. 255
  BY ElementOfSeq DEF OfLength
<1>9. ASSUME NEW i \in 1 .. n
      PROVE  hex_decode_char_value(s[2 * i - 1]) * 16 + hex_decode_char_value(s[2 * i]) = v[i]
  <2>1. 2 * i - 1 \in 1 .. 2 * n /\ 2 * i \in 1 .. 2 * n /\ i \in Nat \ {0}
    OBVIOUS
  <2>2. hex_decode_char_value(s[2 * i - 1]) = v[i] \div 16
        /\ hex_decode_char_value(s[2 * i]) = v[i] % 16
    BY <1>3, <2>1, HalfOf
  <2>3. \A b \in 0 .. 255 : (b \div 16) * 16 + (b % 16) = b
    OBVIOUS
  <2> QED
    BY <1>8, <2>2, <2>3
<1>10. HexBytes(s, n) = v
  <2>1. v = [i \in 1 .. n |-> v[i]]
    BY <1>8
  <2> QED
    BY <1>9, <2>1 DEF HexBytes
<1> QED
  BY <1>7, <1>10 DEF s

LEMMA FewerFit ==
  ASSUME NEW n \in Nat, NEW m \in Nat, m <= n, SizeValues \in Nat
  PROVE  (HexFits(n) => HexFits(m)) /\ (Base64Fits(n) => Base64Fits(m))
<1>1. SIZE_MAX \in Int
  BY DEF SIZE_MAX
<1> QED
  BY <1>1 DEF HexFits, Base64Fits

LEMMA TwoNibbles ==
  ASSUME NEW x \in Nat, NEW y \in Nat, x < 16, y < 16
  PROVE  x * 16 + y \in 0 .. 255 /\ (x * 16 + y) \div 16 = x /\ (x * 16 + y) % 16 = y
  OBVIOUS

LEMMA HexReencoded ==
  ASSUME NEW string \in Seq(0 .. 255), NEW s, compacted(string) = s, HexFits(Len(string)),
         SizeValues \in Nat, NEW bytes \in LTE_hex_decode(string)
  PROVE  LTE_hex_encode(bytes, FALSE) = {[i \in DOMAIN s |-> LowerByte(s[i])]}
<1>1. s \in Seq(Ink) /\ Len(s) \in Nat /\ Len(s) <= Len(string) /\ Len(string) \in Nat
  BY CompactedIs, LenProperties
<1>2. Len(s) % 2 = 0 /\ AllHex(s) /\ bytes = HexBytes(s, Len(s) \div 2)
  BY HexDecodedIs
<1>3. PICK n \in Nat : n = Len(s) \div 2 /\ Len(s) = 2 * n /\ n <= Len(string)
  BY <1>1, <1>2
<1>4. DOMAIN s = 1 .. 2 * n /\ \A i \in 1 .. 2 * n : s[i] \in 0 .. 255
  <2>1. DOMAIN s = 1 .. 2 * n
    BY <1>1, <1>3, LenProperties
  <2>2. \A i \in 1 .. 2 * n : s[i] \in Ink
    BY <1>1, <1>3, ElementOfSeq
  <2> QED
    BY <2>1, <2>2 DEF Ink
<1> DEFINE d(i) == hex_decode_char_value(s[i])
<1>5. \A i \in 1 .. 2 * n : d(i) \in 0 .. 15 /\ hex_alphabet(d(i), FALSE) = LowerByte(s[i])
  BY <1>2, <1>4, HexValue DEF AllHex
<1>6. bytes = [i \in 1 .. n |-> d(2 * i - 1) * 16 + d(2 * i)]
  BY <1>2, <1>3 DEF HexBytes
<1> HIDE DEF d
<1>7. ASSUME NEW i \in 1 .. n
      PROVE  /\ bytes[i] \in 0 .. 255
             /\ bytes[i] \div 16 = d(2 * i - 1) /\ bytes[i] % 16 = d(2 * i)
  <2>1. 2 * i - 1 \in 1 .. 2 * n /\ 2 * i \in 1 .. 2 * n
    OBVIOUS
  <2>2. d(2 * i - 1) \in 0 .. 15 /\ d(2 * i) \in 0 .. 15
    BY <1>5, <2>1
  <2>3. PICK x \in Nat : x = d(2 * i - 1) /\ x < 16
    BY <2>2
  <2>4. PICK y \in Nat : y = d(2 * i) /\ y < 16
    BY <2>2
  <2>5. bytes[i] = x * 16 + y
    BY <1>6, <2>3, <2>4
  <2>6. x * 16 + y \in 0 .. 255 /\ (x * 16 + y) \div 16 = x /\ (x * 16 + y) % 16 = y
    BY <2>3, <2>4, TwoNibbles, Zenon
  <2> QED
    BY <2>3, <2>4, <2>5, <2>6
<1>8. OfLength(bytes, 0 .. 255, n)
  BY <1>6, <1>7 DEF OfLength, Zenon
<1>9. HexFits(n)
  BY <1>1, <1>3, FewerFit
<1>10. LTE_hex_encode(bytes, FALSE) = {HexDigits(bytes, n, FALSE)}
  BY <1>8, <1>9, HexEncoded
<1>11. ASSUME NEW j \in 1 .. 2 * n
       PROVE  hex_alphabet(Nibble(bytes, j), FALSE) = LowerByte(s[j])
  <2>1. PICK i \in 1 .. n : j = 2 * i - 1 \/ j = 2 * i
    BY Halves
  <2>2. i \in Nat \ {0}
    OBVIOUS
  <2>3. Nibble(bytes, 2 * i - 1) = d(2 * i - 1) /\ Nibble(bytes, 2 * i) = d(2 * i)
    BY <1>7, <2>2, HalfOf
  <2>4. Nibble(bytes, j) = d(j)
    BY <2>1, <2>3
  <2> QED
    BY <1>5, <2>4
<1>12. HexDigits(bytes, n, FALSE) = [i \in DOMAIN s |-> LowerByte(s[i])]
  BY <1>4, <1>11 DEF HexDigits
<1> QED
  BY <1>10, <1>12

(* Base64: a character for every six of the bits of three bytes            *)
(* (base64.c:18-106).                                                      *)
First6(b0) == b0 \div 4
Second6(b0, b1) == (b0 % 4) * 16 + (b1 \div 16)
Third6(b1, b2) == (b1 % 16) * 4 + (b2 \div 64)
Fourth6(b2) == b2 % 64

Three8(w, b0, b1, b2) == w = b0 * 65536 + b1 * 256 + b2
Cut64(w, b0, b1, b2) ==
  /\ (w \div 262144) % 64 = First6(b0) /\ (w \div 4096) % 64 = Second6(b0, b1)
  /\ (w \div 64) % 64 = Third6(b1, b2) /\ (w \div 1) % 64 = Fourth6(b2)

LEMMA SplitBytes ==
  ASSUME NEW b0 \in Nat, NEW b1 \in Nat, NEW b2 \in Nat, b0 < 256, b1 < 256, b2 < 256,
         NEW w, Three8(w, b0, b1, b2)
  PROVE  Cut64(w, b0, b1, b2)
<1> USE DEF Three8
<1>1. PICK x1 \in Nat : x1 = First6(b0) /\ x1 < 64 /\ b0 = x1 * 4 + (b0 % 4)
  BY SMT DEF First6
<1>2. PICK x2 \in Nat : x2 = Second6(b0, b1) /\ x2 < 64
  BY SMT DEF Second6
<1>3. PICK x3 \in Nat : x3 = Third6(b1, b2) /\ x3 < 64
  BY SMT DEF Third6
<1>4. PICK x4 \in Nat : x4 = Fourth6(b2) /\ x4 < 64
  BY SMT DEF Fourth6
<1>5. Four6(w, x1, x2, x3, x4)
  BY <1>1, <1>2, <1>3, <1>4, SMT DEF First6, Second6, Third6, Fourth6, Four6
<1>6. PICK v \in Nat : \E u \in Nat : Cut6(w, v, u, x1, x2, x3, x4)
  BY <1>5, FourSixes, SMT
<1>7. /\ w \in Nat /\ w \div 262144 = x1 /\ (w \div 4096) % 64 = x2
      /\ (w \div 64) % 64 = x3 /\ (w \div 1) % 64 = x4
  BY <1>6, SMT DEF Cut6, Is6
<1>8. x1 % 64 = x1
  BY <1>1, SMT
<1> QED
  BY <1>1, <1>2, <1>3, <1>4, <1>7, <1>8, SMT DEF Cut64

FirstByte8(x1, x2) == x1 * 4 + (x2 \div 16)
SecondByte8(x2, x3) == (x2 % 16) * 16 + (x3 \div 4)
ThirdByte8(x3, x4) == (x3 % 4) * 64 + x4

Cut8(w, b0, b1, b2) == (w \div 65536) % 256 = b0 /\ (w \div 256) % 256 = b1 /\ (w \div 1) % 256 = b2

LEMMA ThreeBytes ==
  ASSUME NEW b0 \in Nat, NEW b1 \in Nat, NEW b2 \in Nat, b0 < 256, b1 < 256, b2 < 256,
         NEW w, Three8(w, b0, b1, b2)
  PROVE  Cut8(w, b0, b1, b2)
<1> USE DEF Three8
<1>1. PICK u \in Nat : u = b0 * 256 + b1
  BY SMT
<1>2. w = u * 256 + b2 /\ w \in Nat
  BY <1>1, SMT
<1>3. w \div 256 = u /\ w % 256 = b2
  BY <1>2, SMT
<1>4. u % 256 = b1
  BY <1>1, SMT
<1>5. w \div 65536 = b0
  BY SMT
<1>6. w \div 1 = w /\ b0 % 256 = b0
  BY <1>2, SMT
<1> QED
  BY <1>3, <1>4, <1>5, <1>6, SMT DEF Cut8

SextetBits(w, x1, x2, x3, x4) == w = x1 * 262144 + x2 * 4096 + x3 * 64 + x4
SextetBytes(w, x1, x2, x3, x4) ==
  Cut8(w, FirstByte8(x1, x2), SecondByte8(x2, x3), ThirdByte8(x3, x4))

LEMMA JoinSextets ==
  ASSUME NEW x1 \in Nat, NEW x2 \in Nat, NEW x3 \in Nat, NEW x4 \in Nat,
         x1 < 64, x2 < 64, x3 < 64, x4 < 64, NEW w, SextetBits(w, x1, x2, x3, x4)
  PROVE  SextetBytes(w, x1, x2, x3, x4)
<1> USE DEF SextetBits
<1>1. PICK b0 \in Nat : b0 = FirstByte8(x1, x2) /\ b0 < 256
  BY SMT DEF FirstByte8
<1>2. PICK b1 \in Nat : b1 = SecondByte8(x2, x3) /\ b1 < 256
  BY SMT DEF SecondByte8
<1>3. PICK b2 \in Nat : b2 = ThirdByte8(x3, x4) /\ b2 < 256
  BY SMT DEF ThirdByte8
<1>4. Three8(w, b0, b1, b2)
  BY <1>1, <1>2, <1>3, SMT DEF FirstByte8, SecondByte8, ThirdByte8, Three8
<1>5. Cut8(w, b0, b1, b2)
  BY <1>1, <1>2, <1>3, <1>4, ThreeBytes, SMT
<1> QED
  BY <1>1, <1>2, <1>3, <1>5, SMT DEF SextetBytes

(* The bytes and the sextets they are made of determine each other.        *)
LEMMA BytesBack ==
  ASSUME NEW b0 \in Nat, NEW b1 \in Nat, NEW b2 \in Nat, b0 < 256, b1 < 256, b2 < 256
  PROVE  /\ FirstByte8(First6(b0), Second6(b0, b1)) = b0
         /\ SecondByte8(Second6(b0, b1), Third6(b1, b2)) = b1
         /\ ThirdByte8(Third6(b1, b2), Fourth6(b2)) = b2
<1>1. FirstByte8(First6(b0), Second6(b0, b1)) = b0
  BY SMT DEF FirstByte8, First6, Second6
<1>2. SecondByte8(Second6(b0, b1), Third6(b1, b2)) = b1
  BY SMT DEF SecondByte8, Second6, Third6
<1>3. ThirdByte8(Third6(b1, b2), Fourth6(b2)) = b2
  BY SMT DEF ThirdByte8, Third6, Fourth6
<1> QED
  BY <1>1, <1>2, <1>3

LEMMA SextetsBack ==
  ASSUME NEW x1 \in Nat, NEW x2 \in Nat, NEW x3 \in Nat, NEW x4 \in Nat,
         x1 < 64, x2 < 64, x3 < 64, x4 < 64
  PROVE  /\ First6(FirstByte8(x1, x2)) = x1
         /\ Second6(FirstByte8(x1, x2), SecondByte8(x2, x3)) = x2
         /\ Third6(SecondByte8(x2, x3), ThirdByte8(x3, x4)) = x3
         /\ Fourth6(ThirdByte8(x3, x4)) = x4
         /\ x2 % 16 = 0 => Second6(FirstByte8(x1, x2), 0) = x2
         /\ x3 % 4 = 0 => Third6(SecondByte8(x2, x3), 0) = x3
<1>1. First6(FirstByte8(x1, x2)) = x1
  BY SMT DEF FirstByte8, First6
<1>2. Second6(FirstByte8(x1, x2), SecondByte8(x2, x3)) = x2
  BY SMT DEF FirstByte8, SecondByte8, Second6
<1>3. Third6(SecondByte8(x2, x3), ThirdByte8(x3, x4)) = x3
  BY SMT DEF SecondByte8, ThirdByte8, Third6
<1>4. Fourth6(ThirdByte8(x3, x4)) = x4
  BY SMT DEF ThirdByte8, Fourth6
<1>5. x2 % 16 = 0 => Second6(FirstByte8(x1, x2), 0) = x2
  BY SMT DEF FirstByte8, Second6
<1>6. x3 % 4 = 0 => Third6(SecondByte8(x2, x3), 0) = x3
  BY SMT DEF SecondByte8, Third6
<1> QED
  BY <1>1, <1>2, <1>3, <1>4, <1>5, <1>6

LEMMA Base64Digit ==
  ASSUME NEW v \in 0 .. 63, NEW u \in BOOLEAN
  PROVE  /\ base64_alphabet(v, u) \in Ink /\ base64_alphabet(v, u) # Equals
         /\ base64_decode_char_value(base64_alphabet(v, u), u) = v
<1> DEFINE ch == base64_alphabet(v, u)
<1>1. CASE v < 26
  <2>1. ch = 65 + v
    BY <1>1 DEF base64_alphabet
  <2>2. ch \in 65 .. 90
    BY <1>1, <2>1
  <2>3. base64_decode_char_value(ch, u) = ch - 65
    BY <2>2 DEF base64_decode_char_value
  <2> QED
    BY <2>1, <2>2, <2>3 DEF Ink, Whitespace, Equals
<1>2. CASE v \in 26 .. 51
  <2>1. ch = 97 + v - 26
    BY <1>2 DEF base64_alphabet
  <2>2. ch \in 97 .. 122
    BY <1>2, <2>1
  <2>3. base64_decode_char_value(ch, u) = ch - 97 + 26
    BY <2>2 DEF base64_decode_char_value
  <2> QED
    BY <2>1, <2>2, <2>3 DEF Ink, Whitespace, Equals
<1>3. CASE v \in 52 .. 61
  <2>1. ch = 48 + v - 52
    BY <1>3 DEF base64_alphabet
  <2>2. ch \in 48 .. 57
    BY <1>3, <2>1
  <2>3. base64_decode_char_value(ch, u) = ch - 48 + 52
    BY <2>2 DEF base64_decode_char_value
  <2> QED
    BY <2>1, <2>2, <2>3 DEF Ink, Whitespace, Equals
<1>4. CASE v = 62
  <2>1. ch = IF u THEN 45 ELSE 43
    BY <1>4 DEF base64_alphabet
  <2> QED
    BY <1>4, <2>1 DEF Ink, Whitespace, Equals, base64_decode_char_value
<1>5. CASE v = 63
  <2>1. ch = IF u THEN 95 ELSE 47
    BY <1>5 DEF base64_alphabet
  <2> QED
    BY <1>5, <2>1 DEF Ink, Whitespace, Equals, base64_decode_char_value
<1> QED
  BY <1>1, <1>2, <1>3, <1>4, <1>5

LEMMA Base64Value ==
  ASSUME NEW ch \in 0 .. 255, NEW u \in BOOLEAN, ~(base64_decode_char_value(ch, u) < 0)
  PROVE  /\ base64_decode_char_value(ch, u) \in 0 .. 63
         /\ base64_alphabet(base64_decode_char_value(ch, u), u) = ch
<1> DEFINE v == base64_decode_char_value(ch, u)
<1>1. CASE ch \in 65 .. 90
  <2>1. v = ch - 65
    BY <1>1 DEF base64_decode_char_value
  <2> QED
    BY <1>1, <2>1 DEF base64_alphabet
<1>2. CASE ch \in 97 .. 122
  <2>1. v = ch - 97 + 26
    BY <1>2 DEF base64_decode_char_value
  <2> QED
    BY <1>2, <2>1 DEF base64_alphabet
<1>3. CASE ch \in 48 .. 57
  <2>1. v = ch - 48 + 52
    BY <1>3 DEF base64_decode_char_value
  <2> QED
    BY <1>3, <2>1 DEF base64_alphabet
<1>4. CASE ch \in {43, 47}
  <2>1. ~u /\ v = IF ch = 43 THEN 62 ELSE 63
    BY <1>4 DEF base64_decode_char_value
  <2> QED
    BY <1>4, <2>1 DEF base64_alphabet
<1>5. CASE ch \in {45, 95}
  <2>1. u = TRUE /\ v = IF ch = 45 THEN 62 ELSE 63
    BY <1>5 DEF base64_decode_char_value
  <2>2. CASE ch = 45
    <3>1. v = 62 /\ base64_alphabet(62, u) = 45
      BY <2>1, <2>2 DEF base64_alphabet
    <3> QED
      BY <2>2, <3>1
  <2>3. CASE ch = 95
    <3>1. v = 63 /\ base64_alphabet(63, u) = 95
      BY <2>1, <2>3 DEF base64_alphabet
    <3> QED
      BY <2>3, <3>1
  <2> QED
    BY <1>5, <2>2, <2>3
<1>6. \/ ch \in 65 .. 90 \/ ch \in 97 .. 122 \/ ch \in 48 .. 57
      \/ ch \in {43, 47} \/ ch \in {45, 95}
  BY DEF base64_decode_char_value
<1> QED
  BY <1>1, <1>2, <1>3, <1>4, <1>5, <1>6

Base64Of(ch, u) ==
  /\ base64_decode_char_value(ch, u) \in 0 .. 63
  /\ base64_alphabet(base64_decode_char_value(ch, u), u) = ch
LEMMA Base64ValueOf ==
  ASSUME NEW ch \in 0 .. 255, NEW u \in BOOLEAN, ~(base64_decode_char_value(ch, u) < 0)
  PROVE  Base64Of(ch, u)
  BY Base64Value DEF Base64Of

LEMMA EqualsIs ==
  ASSUME NEW u \in BOOLEAN
  PROVE  Equals \in Ink /\ base64_decode_char_value(Equals, u) < 0
  BY DEF Equals, Ink, Whitespace, base64_decode_char_value

(* The bytes are filled up with zeros; the sextets of three bytes follow   *)
(* those of the three before (base64.c:81-106).                            *)
ByteAt(v, n, i) == IF i <= n THEN v[i] ELSE 0
GroupSextet(b0, b1, b2, r) ==
  IF r = 0 THEN First6(b0) ELSE IF r = 1 THEN Second6(b0, b1)
  ELSE IF r = 2 THEN Third6(b1, b2) ELSE Fourth6(b2)
Sextet(v, n, j) ==
  LET q == (j - 1) \div 4
  IN  GroupSextet(ByteAt(v, n, 3 * q + 1), ByteAt(v, n, 3 * q + 2), ByteAt(v, n, 3 * q + 3),
                  (j - 1) % 4)
Sextets(n) == (4 * n + 2) \div 3
Chars(v, n, u, pad) ==
  [j \in 1 .. encoded_length(n, pad) |->
     IF j <= Sextets(n) THEN base64_alphabet(Sextet(v, n, j), u) ELSE Equals]

LEMMA SextetAt ==
  ASSUME NEW v, NEW n \in Nat, NEW q \in Nat,
         NEW b0, b0 = ByteAt(v, n, 3 * q + 1), NEW b1, b1 = ByteAt(v, n, 3 * q + 2),
         NEW b2, b2 = ByteAt(v, n, 3 * q + 3)
  PROVE  /\ Sextet(v, n, 4 * q + 1) = First6(b0)
         /\ Sextet(v, n, 4 * q + 2) = Second6(b0, b1)
         /\ Sextet(v, n, 4 * q + 3) = Third6(b1, b2)
         /\ Sextet(v, n, 4 * q + 4) = Fourth6(b2)
<1>1. \A r \in 0 .. 3 : ((4 * q + (r + 1)) - 1) \div 4 = q /\ ((4 * q + (r + 1)) - 1) % 4 = r
  OBVIOUS
<1>2. \A r \in 0 .. 3 : Sextet(v, n, 4 * q + (r + 1)) = GroupSextet(b0, b1, b2, r)
  BY <1>1 DEF Sextet
<1>3. Sextet(v, n, 4 * q + (0 + 1)) = GroupSextet(b0, b1, b2, 0)
      /\ Sextet(v, n, 4 * q + (1 + 1)) = GroupSextet(b0, b1, b2, 1)
      /\ Sextet(v, n, 4 * q + (2 + 1)) = GroupSextet(b0, b1, b2, 2)
      /\ Sextet(v, n, 4 * q + (3 + 1)) = GroupSextet(b0, b1, b2, 3)
  BY <1>2
<1>4. 0 + 1 = 1 /\ 1 + 1 = 2 /\ 2 + 1 = 3 /\ 3 + 1 = 4
  OBVIOUS
<1> QED
  BY <1>3, <1>4 DEF GroupSextet

LEMMA ByteAtType ==
  ASSUME NEW n \in Nat, NEW v, OfLength(v, 0 .. 255, n), NEW i \in Nat \ {0}
  PROVE  ByteAt(v, n, i) \in 0 .. 255
<1>1. v \in Seq(0 .. 255) /\ Len(v) = n /\ (i <= n => i \in 1 .. n)
  BY DEF OfLength
<1>2. i <= n => v[i] \in 0 .. 255
  BY <1>1, ElementOfSeq
<1> QED
  BY <1>2 DEF ByteAt

Grouped(v, n, q, b0, b1, b2) ==
  /\ b0 = ByteAt(v, n, 3 * q + 1) /\ b1 = ByteAt(v, n, 3 * q + 2)
  /\ b2 = ByteAt(v, n, 3 * q + 3) /\ b0 < 256 /\ b1 < 256 /\ b2 < 256

LEMMA ThreeAt ==
  ASSUME NEW n \in Nat, NEW v, OfLength(v, 0 .. 255, n), NEW q \in Nat
  PROVE  \E b0 \in Nat : \E b1 \in Nat : \E b2 \in Nat : Grouped(v, n, q, b0, b1, b2)
<1>1. 3 * q + 1 \in Nat \ {0} /\ 3 * q + 2 \in Nat \ {0} /\ 3 * q + 3 \in Nat \ {0}
  OBVIOUS
<1>2. /\ ByteAt(v, n, 3 * q + 1) \in 0 .. 255 /\ ByteAt(v, n, 3 * q + 2) \in 0 .. 255
      /\ ByteAt(v, n, 3 * q + 3) \in 0 .. 255
  BY <1>1, ByteAtType
<1>3. \A x \in 0 .. 255 : x \in Nat /\ x < 256
  OBVIOUS
<1>4. /\ ByteAt(v, n, 3 * q + 1) \in Nat /\ ByteAt(v, n, 3 * q + 1) < 256
      /\ ByteAt(v, n, 3 * q + 2) \in Nat /\ ByteAt(v, n, 3 * q + 2) < 256
      /\ ByteAt(v, n, 3 * q + 3) \in Nat /\ ByteAt(v, n, 3 * q + 3) < 256
  BY <1>2, <1>3, Zenon
<1> QED
  BY <1>4, Zenon DEF Grouped

LEMMA SextetRange ==
  ASSUME NEW b0 \in Nat, NEW b1 \in Nat, NEW b2 \in Nat, b0 < 256, b1 < 256, b2 < 256
  PROVE  /\ First6(b0) \in 0 .. 63 /\ Second6(b0, b1) \in 0 .. 63
         /\ Third6(b1, b2) \in 0 .. 63 /\ Fourth6(b2) \in 0 .. 63
<1>1. First6(b0) \in 0 .. 63
  BY SMT DEF First6
<1>2. Second6(b0, b1) \in 0 .. 63
  BY SMT DEF Second6
<1>3. Third6(b1, b2) \in 0 .. 63
  BY SMT DEF Third6
<1>4. Fourth6(b2) \in 0 .. 63
  BY SMT DEF Fourth6
<1> QED
  BY <1>1, <1>2, <1>3, <1>4

LEMMA Quarter ==
  ASSUME NEW j \in Nat \ {0}
  PROVE  \E q \in Nat : j = 4 * q + 1 \/ j = 4 * q + 2 \/ j = 4 * q + 3 \/ j = 4 * q + 4
<1>1. (j - 1) \div 4 \in Nat
      /\ (j = 4 * ((j - 1) \div 4) + 1 \/ j = 4 * ((j - 1) \div 4) + 2
          \/ j = 4 * ((j - 1) \div 4) + 3 \/ j = 4 * ((j - 1) \div 4) + 4)
  OBVIOUS
<1> QED
  BY <1>1

LEMMA SextetType ==
  ASSUME NEW n \in Nat, NEW v, OfLength(v, 0 .. 255, n), NEW j \in Nat \ {0}
  PROVE  Sextet(v, n, j) \in 0 .. 63
<1>1. PICK q \in Nat : j = 4 * q + 1 \/ j = 4 * q + 2 \/ j = 4 * q + 3 \/ j = 4 * q + 4
  BY Quarter
<1>2. PICK b0 \in Nat : \E b1 \in Nat : \E b2 \in Nat : Grouped(v, n, q, b0, b1, b2)
  BY ThreeAt
<1>3. PICK b1 \in Nat : \E b2 \in Nat : Grouped(v, n, q, b0, b1, b2)
  BY <1>2
<1>4. PICK b2 \in Nat : Grouped(v, n, q, b0, b1, b2)
  BY <1>3
<1>5. /\ Sextet(v, n, 4 * q + 1) = First6(b0)
      /\ Sextet(v, n, 4 * q + 2) = Second6(b0, b1)
      /\ Sextet(v, n, 4 * q + 3) = Third6(b1, b2)
      /\ Sextet(v, n, 4 * q + 4) = Fourth6(b2)
  BY <1>4, SextetAt DEF Grouped
<1>6. /\ First6(b0) \in 0 .. 63 /\ Second6(b0, b1) \in 0 .. 63
      /\ Third6(b1, b2) \in 0 .. 63 /\ Fourth6(b2) \in 0 .. 63
  BY <1>4, SextetRange DEF Grouped
<1> QED
  BY <1>1, <1>5, <1>6

(* The lengths of an encoding of n = 3 * m + r bytes (base64.c:74-78).     *)
Lengths(n, m, r) ==
  /\ n = 3 * m + r /\ n % 3 = r
  /\ Sextets(n) = 4 * m + (IF r = 0 THEN 0 ELSE r + 1)
  /\ (n + 2) \div 3 = m + (IF r = 0 THEN 0 ELSE 1)
  /\ encoded_length(n, TRUE) = 4 * m + (IF r = 0 THEN 0 ELSE 4)
  /\ encoded_length(n, FALSE) = 4 * m + (IF r = 0 THEN 0 ELSE r + 1)

LEMMA LengthsAre ==
  ASSUME NEW m \in Nat, NEW r \in 0 .. 2, NEW n, n = 3 * m + r
  PROVE  n \in Nat /\ Lengths(n, m, r)
<1>1. n \in Nat /\ n % 3 = r
  OBVIOUS
<1>2. (4 * n + 2) \div 3 = 4 * m + (IF r = 0 THEN 0 ELSE r + 1)
  OBVIOUS
<1>3. (n + 2) \div 3 = m + (IF r = 0 THEN 0 ELSE 1)
  OBVIOUS
<1>4. encoded_length(n, TRUE) = 4 * m + (IF r = 0 THEN 0 ELSE 4)
  BY <1>3 DEF encoded_length
<1>5. encoded_length(n, FALSE) = 4 * m + (IF r = 0 THEN 0 ELSE r + 1)
  BY <1>1, <1>3 DEF encoded_length
<1> QED
  BY <1>1, <1>2, <1>3, <1>4, <1>5 DEF Lengths, Sextets

LEMMA Thirds ==
  ASSUME NEW n \in Nat PROVE \E m \in Nat : \E r \in 0 .. 2 : n = 3 * m + r
<1>1. n \div 3 \in Nat /\ n % 3 \in 0 .. 2 /\ n = 3 * (n \div 3) + (n % 3)
  OBVIOUS
<1> QED
  BY <1>1

LEMMA LengthOf ==
  ASSUME NEW n \in Nat PROVE \E m \in Nat : \E r \in 0 .. 2 : Lengths(n, m, r)
  BY Thirds, LengthsAre

LEMMA CharsType ==
  ASSUME NEW n \in Nat, NEW v, OfLength(v, 0 .. 255, n), NEW u \in BOOLEAN, NEW pad \in BOOLEAN
  PROVE  OfLength(Chars(v, n, u, pad), Ink, encoded_length(n, pad))
<1>1. encoded_length(n, pad) \in Nat
  <2>1. PICK m \in Nat : \E r \in 0 .. 2 : Lengths(n, m, r)
    BY LengthOf
  <2>4. PICK r \in 0 .. 2 : Lengths(n, m, r)
    BY <2>1
  <2>5. 4 * m + (IF r = 0 THEN 0 ELSE 4) \in Nat /\ 4 * m + (IF r = 0 THEN 0 ELSE r + 1) \in Nat
    OBVIOUS
  <2>2. encoded_length(n, TRUE) \in Nat /\ encoded_length(n, FALSE) \in Nat
    BY <2>4, <2>5, Zenon DEF Lengths
  <2>3. pad = TRUE \/ pad = FALSE
    OBVIOUS
  <2> QED
    BY <2>2, <2>3, Zenon
<1> DEFINE l == encoded_length(n, pad)
<1>2. ASSUME NEW j \in 1 .. l
      PROVE  (IF j <= Sextets(n) THEN base64_alphabet(Sextet(v, n, j), u) ELSE Equals) \in Ink
  <2>1. j \in Nat \ {0}
    BY <1>1
  <2>2. base64_alphabet(Sextet(v, n, j), u) \in Ink /\ Equals \in Ink
    BY <2>1, SextetType, Base64Digit, EqualsIs
  <2> QED
    BY <2>2
<1> HIDE DEF l
<1>3. OfLength([j \in 1 .. l |->
     IF j <= Sextets(n) THEN base64_alphabet(Sextet(v, n, j), u) ELSE Equals], Ink, l)
  <2>1. l \in Nat
    BY <1>1 DEF l
  <2> QED
    BY <1>2, <2>1 DEF OfLength
<1> QED
  BY <1>3 DEF Chars, l

(* A group is two characters and behind them at most two more.             *)
LEMMA GroupOf ==
  ASSUME NEW a \in Ink, NEW b \in Ink, NEW x \in Seq(Ink), NEW y \in Seq(Ink),
         NEW k \in 0 .. 1, NEW l \in 0 .. 1, Len(x) = k, Len(y) = l, NEW p,
         p = <<a, b>> \o x \o y
  PROVE  /\ p \in Seq(Ink) /\ Len(p) = 2 + k + l /\ p[1] = a /\ p[2] = b
         /\ k = 1 => p[3] = x[1]
         /\ k = 1 /\ l = 1 => p[4] = y[1]
<1>1. PICK z : z = <<a, b>>
  OBVIOUS
<1>2. z[1] = a /\ z[2] = b /\ Len(z) = 2 /\ z \in Seq(Ink)
  BY <1>1
<1>3. OfLength(z, Ink, 2) /\ OfLength(x, Ink, k) /\ OfLength(y, Ink, l)
  BY <1>2 DEF OfLength
<1>4. PICK c : c = z \o x
  OBVIOUS
<1>5. OfLength(c, Ink, 2 + k) /\ Joined(c, z, 2, x, k)
  BY <1>3, <1>4, ConcatAt
<1>6. p = c \o y
  BY <1>1, <1>4
<1>7. OfLength(p, Ink, (2 + k) + l) /\ Joined(p, c, 2 + k, y, l)
  BY <1>3, <1>5, <1>6, ConcatAt
<1>8. p \in Seq(Ink) /\ Len(p) = 2 + k + l
  BY <1>7 DEF OfLength
<1>9. p[1] = c[1] /\ p[2] = c[2] /\ c[1] = z[1] /\ c[2] = z[2]
  <2>1. 1 \in 1 .. 2 + k /\ 2 \in 1 .. 2 + k /\ 1 \in 1 .. 2 /\ 2 \in 1 .. 2
    OBVIOUS
  <2> QED
    BY <1>5, <1>7, <2>1 DEF Joined
<1>10. ASSUME k = 1 PROVE p[3] = x[1] /\ (l = 1 => p[4] = y[1])
  <2>1. 3 \in 1 .. 2 + k /\ 1 \in 1 .. k /\ (2 + k) + 1 = 4 /\ 2 + 1 = 3
    BY <1>10
  <2>2. p[3] = c[3] /\ c[2 + 1] = x[1]
    BY <1>5, <1>7, <2>1 DEF Joined
  <2>3. ASSUME l = 1 PROVE p[4] = y[1]
    <3>1. 1 \in 1 .. l
      BY <2>3
    <3>2. p[(2 + k) + 1] = y[1]
      BY <1>7, <3>1 DEF Joined
    <3> QED
      BY <2>1, <3>2
  <2> QED
    BY <2>1, <2>2, <2>3
<1> QED
  BY <1>2, <1>8, <1>9, <1>10

GroupIs(p, t, g, G, L) ==
  /\ p \in Seq(Ink) /\ Len(p) = (IF g = G THEN L - 4 * (G - 1) ELSE 4) /\ Len(p) <= 4
  /\ \A k \in 1 .. Len(p) : t[(g - 1) * 4 + k] = p[k]

(* Which characters of a group stand for bits, and which are there at all. *)
GroupCounts(n, q, G, L, k, l, rem) ==
  /\ 4 * q + 2 <= Sextets(n)
  /\ rem > 1 <=> 4 * q + 3 <= Sextets(n)
  /\ rem > 2 <=> 4 * q + 4 <= Sextets(n)
  /\ IF q + 1 = G THEN L = 4 * q + 2 + k + l ELSE k = 1 /\ l = 1 /\ L >= 4 * q + 4

LEMMA GroupCountsAre ==
  ASSUME NEW n \in Nat, NEW pad \in BOOLEAN, NEW G, G = (n + 2) \div 3, NEW g \in 1 .. G,
         NEW q, q = g - 1, NEW rem, rem = n - (3 * g - 2) + 1,
         NEW k \in 0 .. 1, k = (IF rem > 1 \/ pad THEN 1 ELSE 0),
         NEW l \in 0 .. 1, l = (IF rem > 2 \/ pad THEN 1 ELSE 0)
  PROVE  q \in Nat /\ GroupCounts(n, q, G, encoded_length(n, pad), k, l, rem)
<1>1. PICK m \in Nat : \E r \in 0 .. 2 : Lengths(n, m, r)
  BY LengthOf
<1>2. PICK r \in 0 .. 2 : Lengths(n, m, r)
  BY <1>1
<1>3. /\ n = 3 * m + r /\ Sextets(n) = 4 * m + (IF r = 0 THEN 0 ELSE r + 1)
      /\ G = m + (IF r = 0 THEN 0 ELSE 1)
  BY <1>2 DEF Lengths
<1>4. q \in Nat /\ q + 1 <= G /\ rem = 3 * m + r - 3 * q
  BY <1>3
<1>5. /\ 4 * q + 2 <= Sextets(n)
      /\ rem > 1 <=> 4 * q + 3 <= Sextets(n)
      /\ rem > 2 <=> 4 * q + 4 <= Sextets(n)
  BY <1>3, <1>4
<1>6. CASE pad = TRUE
  <2>1. encoded_length(n, pad) = 4 * m + (IF r = 0 THEN 0 ELSE 4)
    BY <1>2, <1>6 DEF Lengths
  <2>2. k = 1 /\ l = 1
    BY <1>6
  <2> QED
    BY <1>3, <1>4, <1>5, <2>1, <2>2 DEF GroupCounts
<1>7. CASE pad = FALSE
  <2>1. encoded_length(n, pad) = 4 * m + (IF r = 0 THEN 0 ELSE r + 1)
    BY <1>2, <1>7 DEF Lengths
  <2>2. k = (IF rem > 1 THEN 1 ELSE 0) /\ l = (IF rem > 2 THEN 1 ELSE 0)
    BY <1>7
  <2>3. CASE q + 1 = G
    BY <1>3, <1>4, <1>5, <2>1, <2>2, <2>3 DEF GroupCounts
  <2>4. CASE q + 1 # G
    BY <1>3, <1>4, <1>5, <2>1, <2>2, <2>4 DEF GroupCounts
  <2> QED
    BY <2>3, <2>4
<1> QED
  BY <1>6, <1>7

(* The characters of a group (base64.c:82-103).                            *)
Filled(ch, rem, k, pad) == IF rem > k THEN <<ch>> ELSE IF pad THEN <<Equals>> ELSE <<>>
FilledOK(f, ch, rem, k, pad) ==
  /\ f \in Seq(Ink) /\ Len(f) = (IF rem > k \/ pad THEN 1 ELSE 0)
  /\ rem > k => f[1] = ch
  /\ pad /\ ~(rem > k) => f[1] = Equals

GroupPlace(n, g, q, rem) == q = g - 1 /\ rem = n - (3 * g - 2) + 1
GroupText(c1, c2, c3, c4, rem, pad) ==
  <<c1, c2>> \o Filled(c3, rem, 1, pad) \o Filled(c4, rem, 2, pad)
GroupIn(u, b0, b1, b2, rem, pad) ==
  GroupText(base64_alphabet(First6(b0), u), base64_alphabet(Second6(b0, b1), u),
            base64_alphabet(Third6(b1, b2), u), base64_alphabet(Fourth6(b2), u), rem, pad)

LEMMA EncodedGroupIs ==
  ASSUME NEW n \in Nat, NEW v, OfLength(v, 0 .. 255, n), NEW u \in BOOLEAN, NEW pad \in BOOLEAN,
         NEW g \in Nat \ {0}, NEW q, NEW rem, GroupPlace(n, g, q, rem),
         NEW b0 \in Nat, NEW b1 \in Nat, NEW b2 \in Nat, Grouped(v, n, q, b0, b1, b2)
  PROVE  EncodedGroup(v, 3 * g - 2, u, pad) = GroupIn(u, b0, b1, b2, rem, pad)
<1>0. Len(v) = n /\ q = g - 1 /\ rem = n - (3 * g - 2) + 1
  BY DEF OfLength, GroupPlace
<1> DEFINE at == 3 * g - 2
           byte(k) == IF k < rem THEN v[at + k] ELSE 0
           w == byte(0) * 65536 + byte(1) * 256 + byte(2)
           char(s) == base64_alphabet((w \div s) % 64, u)
<1>1. EncodedGroup(v, at, u, pad) =
        GroupText(char(262144), char(4096), char(64), char(1), rem, pad)
  BY <1>0, SMT DEF EncodedGroup, Filled, GroupText
<1>2. at + 0 = 3 * q + 1 /\ at + 1 = 3 * q + 2 /\ at + 2 = 3 * q + 3
  BY <1>0
<1>3. (0 < rem <=> 3 * q + 1 <= n) /\ (1 < rem <=> 3 * q + 2 <= n) /\ (2 < rem <=> 3 * q + 3 <= n)
  BY <1>0
<1>4. byte(0) = b0 /\ byte(1) = b1 /\ byte(2) = b2
  BY <1>2, <1>3 DEF ByteAt, Grouped
<1> HIDE DEF byte
<1>5. Three8(w, b0, b1, b2)
  BY <1>4, SMT DEF Three8
<1> HIDE DEF w
<1>8. Cut64(w, b0, b1, b2)
  BY <1>5, SplitBytes, SMT DEF Grouped
<1>6. /\ (w \div 262144) % 64 = First6(b0) /\ (w \div 4096) % 64 = Second6(b0, b1)
      /\ (w \div 64) % 64 = Third6(b1, b2) /\ (w \div 1) % 64 = Fourth6(b2)
  BY <1>8, SMT DEF Cut64
<1>7. /\ char(262144) = base64_alphabet(First6(b0), u)
      /\ char(4096) = base64_alphabet(Second6(b0, b1), u)
      /\ char(64) = base64_alphabet(Third6(b1, b2), u)
      /\ char(1) = base64_alphabet(Fourth6(b2), u)
  BY <1>6, SMT
<1>9. PICK c1, c2, c3, c4 :
        c1 = char(262144) /\ c2 = char(4096) /\ c3 = char(64) /\ c4 = char(1)
  BY SMT
<1>10. EncodedGroup(v, at, u, pad) = GroupText(c1, c2, c3, c4, rem, pad)
  BY <1>1, <1>9, SMT
<1>11. /\ c1 = base64_alphabet(First6(b0), u) /\ c2 = base64_alphabet(Second6(b0, b1), u)
       /\ c3 = base64_alphabet(Third6(b1, b2), u) /\ c4 = base64_alphabet(Fourth6(b2), u)
  BY <1>7, <1>9, SMT
<1> QED
  BY <1>10, <1>11, Zenon DEF GroupIn

LEMMA FilledIs ==
  ASSUME NEW ch \in Ink, NEW rem \in Int, NEW k \in Int, NEW pad \in BOOLEAN, NEW f,
         f = Filled(ch, rem, k, pad)
  PROVE  FilledOK(f, ch, rem, k, pad)
<1>0. \A x \in Ink : <<x>> \in Seq(Ink) /\ Len(<<x>>) = 1 /\ <<x>>[1] = x
  OBVIOUS
<1>1. CASE rem > k
  <2>1. f = <<ch>>
    BY <1>1 DEF Filled
  <2> QED
    BY <1>0, <1>1, <2>1 DEF FilledOK
<1>2. CASE ~(rem > k) /\ pad
  <2>1. f = <<Equals>> /\ Equals \in Ink
    BY <1>2, EqualsIs DEF Filled
  <2> QED
    BY <1>0, <1>2, <2>1 DEF FilledOK
<1>3. CASE ~(rem > k) /\ ~pad
  <2>1. f = <<>>
    BY <1>3 DEF Filled
  <2> QED
    BY <1>3, <2>1 DEF FilledOK
<1> QED
  BY <1>1, <1>2, <1>3

LEMMA GroupAt ==
  ASSUME NEW n \in Nat, NEW v, OfLength(v, 0 .. 255, n), NEW u \in BOOLEAN, NEW pad \in BOOLEAN,
         NEW G, G = (n + 2) \div 3, NEW g \in 1 .. G
  PROVE  GroupIs(EncodedGroup(v, 3 * g - 2, u, pad), Chars(v, n, u, pad), g, G,
                 encoded_length(n, pad))
<1>1. PICK q \in Nat : q = g - 1
  OBVIOUS
<1>2. PICK rem \in Int : rem = n - (3 * g - 2) + 1
  OBVIOUS
<1>3. PICK k \in 0 .. 1 : k = IF rem > 1 \/ pad THEN 1 ELSE 0
  OBVIOUS
<1>4. PICK l \in 0 .. 1 : l = IF rem > 2 \/ pad THEN 1 ELSE 0
  OBVIOUS
<1>5. GroupCounts(n, q, G, encoded_length(n, pad), k, l, rem)
  BY <1>1, <1>2, <1>3, <1>4, GroupCountsAre
<1>6. PICK b0 \in Nat : \E b1 \in Nat : \E b2 \in Nat : Grouped(v, n, q, b0, b1, b2)
  BY ThreeAt
<1>7. PICK b1 \in Nat : \E b2 \in Nat : Grouped(v, n, q, b0, b1, b2)
  BY <1>6
<1>8. PICK b2 \in Nat : Grouped(v, n, q, b0, b1, b2)
  BY <1>7
<1> DEFINE p == EncodedGroup(v, 3 * g - 2, u, pad)
           c(x) == base64_alphabet(x, u)
           x1 == First6(b0)
           x2 == Second6(b0, b1)
           x3 == Third6(b1, b2)
           x4 == Fourth6(b2)
           y == Filled(c(x3), rem, 1, pad)
           z == Filled(c(x4), rem, 2, pad)
           t == Chars(v, n, u, pad)
           L == encoded_length(n, pad)
<1>9. p = <<c(x1), c(x2)>> \o y \o z
  <2>1. g \in Nat \ {0} /\ GroupPlace(n, g, q, rem)
    BY <1>1, <1>2 DEF GroupPlace
  <2>2. p = GroupIn(u, b0, b1, b2, rem, pad)
    BY <1>8, <2>1, EncodedGroupIs
  <2> QED
    BY <2>2, Zenon DEF GroupIn, GroupText
<1>10. x1 \in 0 .. 63 /\ x2 \in 0 .. 63 /\ x3 \in 0 .. 63 /\ x4 \in 0 .. 63
  BY <1>8, SextetRange DEF Grouped
<1>11. /\ Sextet(v, n, 4 * q + 1) = x1 /\ Sextet(v, n, 4 * q + 2) = x2
       /\ Sextet(v, n, 4 * q + 3) = x3 /\ Sextet(v, n, 4 * q + 4) = x4
  BY <1>8, SextetAt DEF Grouped
<1>12. OfLength(t, Ink, L)
  BY CharsType
<1>13. \A j \in 1 .. L : t[j] = IF j <= Sextets(n) THEN c(Sextet(v, n, j)) ELSE Equals
  BY DEF Chars
<1> HIDE DEF p, x1, x2, x3, x4, t, L
<1>14. c(x1) \in Ink /\ c(x2) \in Ink /\ c(x3) \in Ink /\ c(x4) \in Ink
  BY <1>10, Base64Digit
<1> HIDE DEF c
<1>15. /\ y \in Seq(Ink) /\ Len(y) = k /\ (rem > 1 => y[1] = c(x3))
       /\ (pad /\ ~(rem > 1) => y[1] = Equals)
  <2>1. FilledOK(y, c(x3), rem, 1, pad)
    BY <1>14, FilledIs
  <2> HIDE DEF y
  <2> QED
    BY <1>3, <2>1 DEF FilledOK
<1>16. /\ z \in Seq(Ink) /\ Len(z) = l /\ (rem > 2 => z[1] = c(x4))
       /\ (pad /\ ~(rem > 2) => z[1] = Equals)
  <2>1. FilledOK(z, c(x4), rem, 2, pad)
    BY <1>14, FilledIs
  <2> HIDE DEF z
  <2> QED
    BY <1>4, <2>1 DEF FilledOK
<1> HIDE DEF y, z
<1>17. /\ p \in Seq(Ink) /\ Len(p) = 2 + k + l /\ p[1] = c(x1) /\ p[2] = c(x2)
       /\ (k = 1 => p[3] = y[1]) /\ (k = 1 /\ l = 1 => p[4] = z[1])
  BY <1>9, <1>14, <1>15, <1>16, GroupOf, SMTT(30)
<1>18. L \in Nat
  BY <1>12 DEF OfLength
<1>19. Len(p) = (IF g = G THEN L - 4 * (G - 1) ELSE 4) /\ Len(p) <= 4 /\ 4 * q + Len(p) <= L
  BY <1>1, <1>5, <1>17, <1>18 DEF GroupCounts, L
<1>20. l = 1 => k = 1
  BY <1>3, <1>4
<1>21. ASSUME NEW i \in 1 .. Len(p) PROVE t[(g - 1) * 4 + i] = p[i]
  <2>1. (g - 1) * 4 + i = 4 * q + i /\ 4 * q + i \in 1 .. L
    BY <1>1, <1>17, <1>18, <1>19
  <2>2. t[4 * q + i] = IF 4 * q + i <= Sextets(n) THEN c(Sextet(v, n, 4 * q + i)) ELSE Equals
    BY <1>13, <2>1
  <2>3. /\ 4 * q + 2 <= Sextets(n) /\ Sextets(n) \in Int
        /\ (rem > 1 <=> 4 * q + 3 <= Sextets(n)) /\ (rem > 2 <=> 4 * q + 4 <= Sextets(n))
    BY <1>5 DEF GroupCounts, Sextets
  <2>4. CASE i = 1
    <3>1. 4 * q + 1 <= Sextets(n)
      BY <2>3
    <3> QED
      BY <1>11, <1>17, <2>1, <2>2, <2>4, <3>1
  <2>5. CASE i = 2
    BY <1>11, <1>17, <2>1, <2>2, <2>3, <2>5
  <2>6. CASE i = 3
    <3>1. k = 1 /\ p[3] = y[1]
      BY <1>17, <1>20, <2>6
    <3>2. rem > 1 \/ pad
      BY <1>3, <3>1
    <3> QED
      BY <1>11, <1>15, <2>1, <2>2, <2>3, <2>6, <3>1, <3>2
  <2>7. CASE i = 4
    <3>1. k = 1 /\ l = 1 /\ p[4] = z[1]
      BY <1>17, <1>20, <2>7
    <3>2. rem > 2 \/ pad
      BY <1>4, <3>1
    <3> QED
      BY <1>11, <1>16, <2>1, <2>2, <2>3, <2>7, <3>1, <3>2
  <2>8. i = 1 \/ i = 2 \/ i = 3 \/ i = 4
    BY <1>17
  <2> QED
    BY <2>4, <2>5, <2>6, <2>7, <2>8
<1> QED
  BY <1>17, <1>19, <1>21 DEF GroupIs, p, t, L

LEMMA Base64Encoded ==
  ASSUME NEW n \in Nat, NEW v, OfLength(v, 0 .. 255, n), Base64Fits(n), NEW u \in BOOLEAN,
         NEW pad \in BOOLEAN
  PROVE  LTE_base64_encode(v, u, pad) = {Chars(v, n, u, pad)}
<1> DEFINE t == Chars(v, n, u, pad)
           L == encoded_length(n, pad)
           e(g) == EncodedGroup(v, 3 * g - 2, u, pad)
<1>1. PICK G \in Nat : G = (n + 2) \div 3
  OBVIOUS
<1> DEFINE k == [g \in 1 .. G |-> e(g)]
<1>2. LTE_base64_encode(v, u, pad) = {FlattenSeq(k)}
  <2>1. Len(v) = n
    BY DEF OfLength
  <2> QED
    BY <1>1, <2>1 DEF LTE_base64_encode
<1>3. OfLength(t, Ink, L)
  BY CharsType
<1>4. \A g \in 1 .. G : GroupIs(e(g), t, g, G, L)
  BY <1>1, GroupAt
<1> HIDE DEF t, e
<1>5. k \in Seq(Seq(Ink)) /\ Len(k) = G /\ \A g \in 1 .. G : k[g] = e(g)
  <2>1. \A g \in 1 .. G : e(g) \in Seq(Ink)
    BY <1>4 DEF GroupIs
  <2> QED
    BY <2>1
<1> HIDE DEF k
<1>6. L \in Nat /\ t \in Seq(Ink) /\ Len(t) = L
  BY <1>3 DEF OfLength
<1> HIDE DEF L
<1>7. CASE n = 0
  <2>1. G = 0
    BY <1>1, <1>7
  <2>2. L = 0
    BY <1>7 DEF L, encoded_length
  <2>3. k = <<>> /\ t = <<>>
    BY <1>5, <1>6, <2>1, <2>2, EmptySeq
  <2> QED
    BY <1>2, <2>3, FlattenNone DEF t
<1>8. CASE n > 0
  <2>1. G > 0 /\ G \in 1 .. G /\ 4 \in Nat \ {0}
    BY <1>1, <1>8
  <2>2. ASSUME NEW g \in 1 .. G
        PROVE  /\ Len(k[g]) = (IF g = G THEN L - 4 * (G - 1) ELSE 4) /\ Len(k[g]) <= 4
               /\ \A i \in 1 .. Len(k[g]) : t[(g - 1) * 4 + i] = k[g][i]
    <3>1. k[g] = e(g) /\ GroupIs(k[g], t, g, G, L)
      BY <1>4, <1>5
    <3> QED
      BY <3>1 DEF GroupIs
  <2>3. Parts(k, 4, G)
    <3>1. \A g \in 1 .. G - 1 : g \in 1 .. G /\ g # G
      OBVIOUS
    <3>2. \A g \in 1 .. G - 1 : Len(k[g]) = 4
      BY <2>2, <3>1
    <3> QED
      BY <1>5, <2>1, <3>2 DEF Parts
  <2>4. Len(t) = (G - 1) * 4 + Len(k[G])
    <3>1. Len(k[G]) = L - 4 * (G - 1)
      BY <2>1, <2>2
    <3> QED
      BY <1>6, <3>1
  <2>5. Joins(t, k, 4, G)
    BY <2>2, <2>4 DEF Joins
  <2>6. Len(k[G]) <= 4
    BY <2>1, <2>2
  <2>7. FlattenSeq(k) = t
    BY <1>1, <1>5, <1>6, <2>1, <2>3, <2>5, <2>6, FlattenIs
  <2> QED
    BY <1>2, <2>7 DEF t
<1> QED
  BY <1>7, <1>8

(* What LTE_base64_decode makes of a string without whitespace             *)
(* (base64.c:140-210).                                                     *)
Body(s) == Len(s) - PaddingOf(s)
ValueAt(s, u, j) == IF j > Body(s) THEN 0 ELSE base64_decode_char_value(s[j], u)
BitsAt(s, u, g) ==
  ValueAt(s, u, 4 * g - 4 + 1) * 262144 + ValueAt(s, u, 4 * g - 4 + 2) * 4096
    + ValueAt(s, u, 4 * g - 4 + 3) * 64 + ValueAt(s, u, 4 * g - 4 + 4)
DecodedLength(s) ==
  (Body(s) \div 4) * 3 + (IF Body(s) % 4 > 0 THEN (Body(s) % 4) - 1 ELSE 0)
Omitted(s) == IF Body(s) % 4 = 0 THEN PaddingOf(s) ELSE 4 - (Body(s) % 4)
GroupsOf(s) == (Body(s) + 3) \div 4
LastStray(s, u) ==
  \/ Omitted(s) = 1 /\ ValueAt(s, u, 4 * GroupsOf(s) - 4 + 3) % 4 # 0
  \/ Omitted(s) = 2 /\ ValueAt(s, u, 4 * GroupsOf(s) - 4 + 2) % 16 # 0
OctetAt(s, u, i) ==
  (BitsAt(s, u, (i + 2) \div 3) \div <<65536, 256, 1>>[((i - 1) % 3) + 1]) % 256
AllBase64(s, u) == \A j \in 1 .. Body(s) : ~(ValueAt(s, u, j) < 0)
Accepted(s, u, required) ==
  ~RefusedLength(s, required) /\ AllBase64(s, u) /\ ~(GroupsOf(s) > 0 /\ LastStray(s, u))
Octets(s, u) == [i \in 1 .. DecodedLength(s) |-> OctetAt(s, u, i)]

Base64Decodes(string, s, u, required) ==
  LTE_base64_decode(string, u, required) = IF Accepted(s, u, required) THEN {Octets(s, u)} ELSE {}

LEMMA Base64DecodedIs ==
  ASSUME NEW string, NEW s, compacted(string) = s, NEW u \in BOOLEAN, NEW required \in BOOLEAN
  PROVE  Base64Decodes(string, s, u, required)
<1> DEFINE body == Len(s) - PaddingOf(s)
           value(i) == IF i > body THEN 0 ELSE base64_decode_char_value(s[i], u)
           sextets(g) == [k \in 1 .. 4 |-> value(4 * g - 4 + k)]
           bits(g) == LET x == sextets(g)
                      IN  x[1] * 262144 + x[2] * 4096 + x[3] * 64 + x[4]
           groups == (body + 3) \div 4
           remainder == body % 4
           omitted == IF remainder = 0 THEN PaddingOf(s) ELSE 4 - remainder
           long == (body \div 4) * 3 + (IF remainder > 0 THEN remainder - 1 ELSE 0)
           bad == \/ RefusedLength(s, required)
                  \/ \E i \in 1 .. body : value(i) < 0
                  \/ groups > 0 /\ StrayBits(omitted, sextets(groups))
           octets == [i \in 1 .. long |->
               (bits((i + 2) \div 3) \div <<65536, 256, 1>>[((i - 1) % 3) + 1]) % 256]
<1>1. LTE_base64_decode(string, u, required) = IF bad THEN {} ELSE {octets}
  BY SMT DEF LTE_base64_decode
<1>2. body = Body(s)
  BY DEF Body
<1>3. \A i : value(i) = ValueAt(s, u, i)
  BY <1>2 DEF ValueAt
<1>4. groups = GroupsOf(s) /\ omitted = Omitted(s) /\ long = DecodedLength(s)
  BY <1>2 DEF GroupsOf, Omitted, DecodedLength
<1> HIDE DEF body, value, omitted, long
<1>5. ASSUME NEW g
      PROVE  /\ sextets(g)[1] = ValueAt(s, u, 4 * g - 4 + 1)
             /\ sextets(g)[2] = ValueAt(s, u, 4 * g - 4 + 2)
             /\ sextets(g)[3] = ValueAt(s, u, 4 * g - 4 + 3)
             /\ sextets(g)[4] = ValueAt(s, u, 4 * g - 4 + 4)
  BY <1>3
<1> HIDE DEF sextets
<1>6. \A g : bits(g) = BitsAt(s, u, g)
  BY <1>5, SMT DEF BitsAt
<1> HIDE DEF bits
<1>7. octets = Octets(s, u)
  BY <1>4, <1>6, SMT DEF Octets, OctetAt
<1>8. StrayBits(omitted, sextets(groups)) <=> LastStray(s, u)
  BY <1>4, <1>5 DEF StrayBits, LastStray
<1> HIDE DEF octets, groups
<1>9. bad <=> ~Accepted(s, u, required)
  BY <1>2, <1>3, <1>4, <1>8 DEF Accepted, AllBase64
<1> HIDE DEF bad
<1> QED
  BY <1>1, <1>7, <1>9 DEF Base64Decodes

FourValues(s, u, q, x1, x2, x3, x4) ==
  /\ ValueAt(s, u, 4 * q + 1) = x1 /\ ValueAt(s, u, 4 * q + 2) = x2
  /\ ValueAt(s, u, 4 * q + 3) = x3 /\ ValueAt(s, u, 4 * q + 4) = x4
  /\ x1 < 64 /\ x2 < 64 /\ x3 < 64 /\ x4 < 64

LEMMA OctetsAt ==
  ASSUME NEW s, NEW u, NEW q \in Nat, NEW x1 \in Nat, NEW x2 \in Nat, NEW x3 \in Nat, NEW x4 \in Nat,
         FourValues(s, u, q, x1, x2, x3, x4)
  PROVE  /\ OctetAt(s, u, 3 * q + 1) = FirstByte8(x1, x2)
         /\ OctetAt(s, u, 3 * q + 2) = SecondByte8(x2, x3)
         /\ OctetAt(s, u, 3 * q + 3) = ThirdByte8(x3, x4)
<1>1. /\ 4 * (q + 1) - 4 + 1 = 4 * q + 1 /\ 4 * (q + 1) - 4 + 2 = 4 * q + 2
      /\ 4 * (q + 1) - 4 + 3 = 4 * q + 3 /\ 4 * (q + 1) - 4 + 4 = 4 * q + 4
  OBVIOUS
<1>2. BitsAt(s, u, q + 1) = x1 * 262144 + x2 * 4096 + x3 * 64 + x4
  <2>1. BitsAt(s, u, q + 1) =
          ValueAt(s, u, 4 * q + 1) * 262144 + ValueAt(s, u, 4 * q + 2) * 4096
            + ValueAt(s, u, 4 * q + 3) * 64 + ValueAt(s, u, 4 * q + 4)
    BY <1>1, SMT DEF BitsAt
  <2> QED
    BY <2>1, SMT DEF FourValues
<1>3. /\ (3 * q + 1 + 2) \div 3 = q + 1 /\ (3 * q + 2 + 2) \div 3 = q + 1
      /\ (3 * q + 3 + 2) \div 3 = q + 1
  OBVIOUS
<1>4. /\ ((3 * q + 1 - 1) % 3) + 1 = 1 /\ ((3 * q + 2 - 1) % 3) + 1 = 2
      /\ ((3 * q + 3 - 1) % 3) + 1 = 3
  OBVIOUS
<1> DEFINE w == BitsAt(s, u, q + 1)
<1> DEFINE z(i) == <<65536, 256, 1>>[i]
<1>6. z(1) = 65536 /\ z(2) = 256 /\ z(3) = 1
  BY SMT
<1>7. \A i : OctetAt(s, u, i) =
        (BitsAt(s, u, (i + 2) \div 3) \div z(((i - 1) % 3) + 1)) % 256
  BY SMT DEF OctetAt
<1> HIDE DEF z
<1>8. /\ OctetAt(s, u, 3 * q + 1) = (w \div z(1)) % 256
      /\ OctetAt(s, u, 3 * q + 2) = (w \div z(2)) % 256
      /\ OctetAt(s, u, 3 * q + 3) = (w \div z(3)) % 256
  BY <1>3, <1>4, <1>7, SMT
<1> HIDE DEF w
<1>9. SextetBits(w, x1, x2, x3, x4)
  BY <1>2, SMT DEF w, SextetBits
<1>10. x1 < 64 /\ x2 < 64 /\ x3 < 64 /\ x4 < 64
  BY SMT DEF FourValues
<1>11. SextetBytes(w, x1, x2, x3, x4)
  BY <1>9, <1>10, JoinSextets
<1>12. /\ (w \div 65536) % 256 = FirstByte8(x1, x2) /\ (w \div 256) % 256 = SecondByte8(x2, x3)
       /\ (w \div 1) % 256 = ThirdByte8(x3, x4)
  BY <1>11, SMT DEF SextetBytes, Cut8
<1> QED
  BY <1>6, <1>8, <1>12, SMT

LEMMA CharsAt ==
  ASSUME NEW n \in Nat, NEW v, OfLength(v, 0 .. 255, n), NEW u \in BOOLEAN, NEW pad \in BOOLEAN,
         NEW j \in 1 .. encoded_length(n, pad), encoded_length(n, pad) \in Nat
  PROVE  /\ (Chars(v, n, u, pad)[j] = Equals) <=> j > Sextets(n)
         /\ j <= Sextets(n) =>
              base64_decode_char_value(Chars(v, n, u, pad)[j], u) = Sextet(v, n, j)
<1>1. Chars(v, n, u, pad)[j] =
        IF j <= Sextets(n) THEN base64_alphabet(Sextet(v, n, j), u) ELSE Equals
  BY DEF Chars
<1>2. j \in Nat \ {0} /\ Sextets(n) \in Int
  BY DEF Sextets
<1>3. Sextet(v, n, j) \in 0 .. 63
  BY <1>2, SextetType
<1>4. /\ base64_alphabet(Sextet(v, n, j), u) # Equals
      /\ base64_decode_char_value(base64_alphabet(Sextet(v, n, j), u), u) = Sextet(v, n, j)
  BY <1>3, Base64Digit
<1> QED
  BY <1>1, <1>2, <1>4

CharsOf(s, v, n, u, pad, m, r) ==
  OfLength(v, 0 .. 255, n) /\ Lengths(n, m, r) /\ s = Chars(v, n, u, pad)
PaddedLengths(s, pad, m, r) ==
  /\ Len(s) = 4 * m + (IF r = 0 THEN 0 ELSE IF pad THEN 4 ELSE r + 1)
  /\ PaddingOf(s) = (IF pad /\ r # 0 THEN 3 - r ELSE 0)
  /\ Body(s) = 4 * m + (IF r = 0 THEN 0 ELSE r + 1)

LEMMA CharsPadding ==
  ASSUME NEW n \in Nat, NEW v, NEW u \in BOOLEAN, NEW pad \in BOOLEAN, NEW m \in Nat,
         NEW r \in 0 .. 2, NEW s, CharsOf(s, v, n, u, pad, m, r)
  PROVE  PaddedLengths(s, pad, m, r)
<1>0. OfLength(v, 0 .. 255, n) /\ Lengths(n, m, r) /\ s = Chars(v, n, u, pad)
  BY DEF CharsOf
<1> DEFINE L == encoded_length(n, pad)
<1>1. L \in Nat /\ Len(s) = L
  BY <1>0, CharsType DEF OfLength
<1>2. L = 4 * m + (IF r = 0 THEN 0 ELSE IF pad THEN 4 ELSE r + 1)
  <2>1. CASE pad = TRUE
    BY <1>0, <2>1 DEF Lengths
  <2>2. CASE pad = FALSE
    BY <1>0, <2>2 DEF Lengths
  <2> QED
    BY <2>1, <2>2
<1>3. \A j \in 1 .. L : s[j] = Equals <=> j > Sextets(n)
  BY <1>0, <1>1, CharsAt
<1> HIDE DEF L
<1>4. Sextets(n) = 4 * m + (IF r = 0 THEN 0 ELSE r + 1)
  BY <1>0 DEF Lengths
<1>5. Len(s) >= 1 /\ s[Len(s)] = Equals <=> pad /\ r # 0
  <2>1. Len(s) >= 1 => (s[Len(s)] = Equals <=> Len(s) > Sextets(n))
    BY <1>1, <1>3
  <2>2. Len(s) >= 1 /\ Len(s) > Sextets(n) <=> pad /\ r # 0
    BY <1>1, <1>2, <1>4
  <2> QED
    BY <2>1, <2>2
<1>6. Len(s) >= 2 /\ s[Len(s) - 1] = Equals <=> pad /\ r = 1
  <2>1. Len(s) >= 2 => (s[Len(s) - 1] = Equals <=> Len(s) - 1 > Sextets(n))
    BY <1>1, <1>3
  <2>2. Len(s) >= 2 /\ Len(s) - 1 > Sextets(n) <=> pad /\ r = 1
    BY <1>1, <1>2, <1>4
  <2> QED
    BY <2>1, <2>2
<1>7. PaddingOf(s) = (IF pad /\ r # 0 THEN 1 ELSE 0) + (IF pad /\ r = 1 THEN 1 ELSE 0)
  BY <1>5, <1>6 DEF PaddingOf
<1>8. PaddingOf(s) = IF pad /\ r # 0 THEN 3 - r ELSE 0
  BY <1>7
<1> QED
  BY <1>1, <1>2, <1>8 DEF Body, PaddedLengths

ValuesAre(s, u, v, n, m, r) ==
  \A j \in 1 .. 4 * m + (IF r = 0 THEN 0 ELSE 4) : ValueAt(s, u, j) = Sextet(v, n, j)

LEMMA CharsValues ==
  ASSUME NEW n \in Nat, NEW v, NEW u \in BOOLEAN, NEW pad \in BOOLEAN, NEW m \in Nat,
         NEW r \in 0 .. 2, NEW s, CharsOf(s, v, n, u, pad, m, r)
  PROVE  ValuesAre(s, u, v, n, m, r)
<1> SUFFICES ASSUME NEW j \in 1 .. 4 * m + (IF r = 0 THEN 0 ELSE 4)
             PROVE  ValueAt(s, u, j) = Sextet(v, n, j)
  BY DEF ValuesAre
<1>0. OfLength(v, 0 .. 255, n) /\ Lengths(n, m, r) /\ s = Chars(v, n, u, pad)
  BY DEF CharsOf
<1>5. PaddedLengths(s, pad, m, r)
  BY CharsPadding
<1>1. /\ Len(s) = 4 * m + (IF r = 0 THEN 0 ELSE IF pad THEN 4 ELSE r + 1)
      /\ Body(s) = 4 * m + (IF r = 0 THEN 0 ELSE r + 1)
  BY <1>5 DEF PaddedLengths
<1>2. Sextets(n) = Body(s) /\ Len(s) = encoded_length(n, pad) /\ n = 3 * m + r
  BY <1>0, <1>1, CharsType DEF Lengths, OfLength
<1>3. CASE j <= Body(s)
  <2>1. j \in 1 .. encoded_length(n, pad) /\ encoded_length(n, pad) \in Nat
    BY <1>1, <1>2, <1>3
  <2>2. base64_decode_char_value(s[j], u) = Sextet(v, n, j)
    BY <1>0, <1>2, <1>3, <2>1, CharsAt
  <2> QED
    BY <1>1, <1>3, <2>2 DEF ValueAt
<1>4. CASE ~(j <= Body(s))
  <2>1. ValueAt(s, u, j) = 0
    BY <1>1, <1>4 DEF ValueAt
  <2>2. r # 0 /\ (j = 4 * m + 4 \/ (j = 4 * m + 3 /\ r = 1))
    BY <1>1, <1>4
  <2>3. ByteAt(v, n, 3 * m + 3) = 0 /\ (r = 1 => ByteAt(v, n, 3 * m + 2) = 0)
    BY <1>2, <2>2 DEF ByteAt
  <2>4. Sextet(v, n, 4 * m + 4) = Fourth6(0)
    BY <2>3, SextetAt
  <2>5. r = 1 => Sextet(v, n, 4 * m + 3) = Third6(0, 0)
    BY <2>3, SextetAt
  <2>6. Fourth6(0) = 0 /\ Third6(0, 0) = 0
    BY DEF Fourth6, Third6
  <2> QED
    BY <2>1, <2>2, <2>4, <2>5, <2>6
<1> QED
  BY <1>3, <1>4

LEMMA NoStrayBits ==
  ASSUME NEW b0 \in Nat, NEW b1 \in Nat, NEW b2 \in Nat
  PROVE  Second6(b0, 0) % 16 = 0 /\ Third6(b1, 0) % 4 = 0
<1>1. ((b0 % 4) * 16 + (0 \div 16)) % 16 = 0
  OBVIOUS
<1>2. ((b1 % 16) * 4 + (0 \div 64)) % 4 = 0
  OBVIOUS
<1> QED
  BY <1>1, <1>2 DEF Second6, Third6

AcceptedIs(s, u, required, pad, r) == Accepted(s, u, required) <=> ~(required /\ ~pad /\ r # 0)

LEMMA CharsAccepted ==
  ASSUME NEW n \in Nat, NEW v, NEW u \in BOOLEAN, NEW pad \in BOOLEAN, NEW m \in Nat,
         NEW r \in 0 .. 2, NEW s, CharsOf(s, v, n, u, pad, m, r), NEW required \in BOOLEAN
  PROVE  AcceptedIs(s, u, required, pad, r)
<1>0. OfLength(v, 0 .. 255, n) /\ n = 3 * m + r
  BY DEF CharsOf, Lengths
<1>5. PaddedLengths(s, pad, m, r)
  BY CharsPadding
<1>6. ValuesAre(s, u, v, n, m, r)
  BY CharsValues
<1>1. /\ Len(s) = 4 * m + (IF r = 0 THEN 0 ELSE IF pad THEN 4 ELSE r + 1)
      /\ PaddingOf(s) = (IF pad /\ r # 0 THEN 3 - r ELSE 0)
      /\ Body(s) = 4 * m + (IF r = 0 THEN 0 ELSE r + 1)
  BY <1>5 DEF PaddedLengths
<1>2. RefusedLength(s, required) <=> required /\ ~pad /\ r # 0
  <2>1. Len(s) % 4 = (IF r = 0 \/ pad THEN 0 ELSE r + 1)
    BY <1>1
  <2> QED
    BY <1>1, <2>1 DEF RefusedLength
<1>3. AllBase64(s, u)
  <2> SUFFICES ASSUME NEW j \in 1 .. Body(s) PROVE ~(ValueAt(s, u, j) < 0)
    BY DEF AllBase64
  <2>1. j \in 1 .. 4 * m + (IF r = 0 THEN 0 ELSE 4) /\ j \in Nat \ {0}
    BY <1>1
  <2>2. ValueAt(s, u, j) = Sextet(v, n, j)
    BY <1>6, <2>1 DEF ValuesAre
  <2>3. Sextet(v, n, j) \in 0 .. 63
    BY <1>0, <2>1, SextetType
  <2> QED
    BY <2>2, <2>3
<1>4. ~(GroupsOf(s) > 0 /\ LastStray(s, u))
  <2> DEFINE omitted == IF r = 0 THEN 0 ELSE 3 - r
  <2>1. Omitted(s) = omitted
    <3>1. Body(s) % 4 = IF r = 0 THEN 0 ELSE r + 1
      BY <1>1
    <3> QED
      BY <1>1, <3>1 DEF Omitted
  <2>2. ASSUME r # 0
        PROVE  /\ 4 * GroupsOf(s) - 4 + 2 = 4 * m + 2 /\ 4 * GroupsOf(s) - 4 + 3 = 4 * m + 3
               /\ 4 * m + 2 \in 1 .. 4 * m + (IF r = 0 THEN 0 ELSE 4)
               /\ 4 * m + 3 \in 1 .. 4 * m + (IF r = 0 THEN 0 ELSE 4)
    <3>1. GroupsOf(s) = m + 1
      BY <1>1, <2>2 DEF GroupsOf
    <3> QED
      BY <2>2, <3>1
  <2>3. PICK b0 \in Nat : \E b1 \in Nat : \E b2 \in Nat : Grouped(v, n, m, b0, b1, b2)
    BY <1>0, ThreeAt
  <2>4. PICK b1 \in Nat : \E b2 \in Nat : Grouped(v, n, m, b0, b1, b2)
    BY <2>3
  <2>5. PICK b2 \in Nat : Grouped(v, n, m, b0, b1, b2)
    BY <2>4
  <2>6. Sextet(v, n, 4 * m + 2) = Second6(b0, b1) /\ Sextet(v, n, 4 * m + 3) = Third6(b1, b2)
    BY <2>5, SextetAt DEF Grouped
  <2>7. (r = 1 => b1 = 0) /\ (r # 0 => b2 = 0)
    BY <1>0, <2>5 DEF Grouped, ByteAt
  <2>8. Second6(b0, 0) % 16 = 0 /\ Third6(b1, 0) % 4 = 0
    BY NoStrayBits
  <2>9. CASE r = 0
    BY <2>1, <2>9 DEF LastStray
  <2>10. CASE r = 1
    <3>1. ValueAt(s, u, 4 * GroupsOf(s) - 4 + 2) = Second6(b0, 0)
      BY <1>6, <2>2, <2>6, <2>7, <2>10 DEF ValuesAre
    <3> QED
      BY <2>1, <2>8, <2>10, <3>1 DEF LastStray
  <2>11. CASE r = 2
    <3>1. ValueAt(s, u, 4 * GroupsOf(s) - 4 + 3) = Third6(b1, 0)
      BY <1>6, <2>2, <2>6, <2>7, <2>11 DEF ValuesAre
    <3> QED
      BY <2>1, <2>8, <2>11, <3>1 DEF LastStray
  <2> QED
    BY <2>9, <2>10, <2>11
<1> QED
  BY <1>2, <1>3, <1>4 DEF Accepted, AcceptedIs

OctetsThird(s, u, v, n, q) ==
  /\ OctetAt(s, u, 3 * q + 1) = ByteAt(v, n, 3 * q + 1)
  /\ OctetAt(s, u, 3 * q + 2) = ByteAt(v, n, 3 * q + 2)
  /\ OctetAt(s, u, 3 * q + 3) = ByteAt(v, n, 3 * q + 3)

LEMMA OctetThird ==
  ASSUME NEW n \in Nat, NEW v, NEW u \in BOOLEAN, NEW pad \in BOOLEAN, NEW m \in Nat,
         NEW r \in 0 .. 2, NEW s, CharsOf(s, v, n, u, pad, m, r),
         NEW q \in Nat, 3 * q + 1 <= n
  PROVE  OctetsThird(s, u, v, n, q)
<1>0. OfLength(v, 0 .. 255, n) /\ n = 3 * m + r
  BY DEF CharsOf, Lengths
<1>1. PICK b0 \in Nat : \E b1 \in Nat : \E b2 \in Nat : Grouped(v, n, q, b0, b1, b2)
  BY <1>0, ThreeAt
<1>2. PICK b1 \in Nat : \E b2 \in Nat : Grouped(v, n, q, b0, b1, b2)
  BY <1>1
<1>3. PICK b2 \in Nat : Grouped(v, n, q, b0, b1, b2)
  BY <1>2
<1> DEFINE x1 == First6(b0)
           x2 == Second6(b0, b1)
           x3 == Third6(b1, b2)
           x4 == Fourth6(b2)
           top == 4 * m + (IF r = 0 THEN 0 ELSE 4)
<1>4. x1 \in 0 .. 63 /\ x2 \in 0 .. 63 /\ x3 \in 0 .. 63 /\ x4 \in 0 .. 63
  BY <1>3, SextetRange DEF Grouped
<1>5. /\ Sextet(v, n, 4 * q + 1) = x1 /\ Sextet(v, n, 4 * q + 2) = x2
      /\ Sextet(v, n, 4 * q + 3) = x3 /\ Sextet(v, n, 4 * q + 4) = x4
  BY <1>3, SextetAt DEF Grouped
<1>6. /\ 4 * q + 1 \in 1 .. top /\ 4 * q + 2 \in 1 .. top
      /\ 4 * q + 3 \in 1 .. top /\ 4 * q + 4 \in 1 .. top
  BY <1>0
<1>7. \A j \in 1 .. top : ValueAt(s, u, j) = Sextet(v, n, j)
  <2>1. ValuesAre(s, u, v, n, m, r)
    BY CharsValues
  <2> QED
    BY <2>1 DEF ValuesAre
<1>8. /\ FirstByte8(x1, x2) = b0 /\ SecondByte8(x2, x3) = b1 /\ ThirdByte8(x3, x4) = b2
  BY <1>3, BytesBack DEF Grouped
<1> HIDE DEF x1, x2, x3, x4, top
<1>9. FourValues(s, u, q, x1, x2, x3, x4)
  BY <1>4, <1>5, <1>6, <1>7 DEF FourValues
<1>10. x1 \in Nat /\ x2 \in Nat /\ x3 \in Nat /\ x4 \in Nat
  BY <1>4
<1>11. /\ OctetAt(s, u, 3 * q + 1) = FirstByte8(x1, x2)
       /\ OctetAt(s, u, 3 * q + 2) = SecondByte8(x2, x3)
       /\ OctetAt(s, u, 3 * q + 3) = ThirdByte8(x3, x4)
  BY <1>9, <1>10, OctetsAt
<1> QED
  BY <1>3, <1>8, <1>11 DEF Grouped, OctetsThird

LEMMA ThirdsOf ==
  ASSUME NEW i \in Nat \ {0}
  PROVE  \E q \in Nat : i = 3 * q + 1 \/ i = 3 * q + 2 \/ i = 3 * q + 3
<1>1. (i - 1) \div 3 \in Nat
      /\ (i = 3 * ((i - 1) \div 3) + 1 \/ i = 3 * ((i - 1) \div 3) + 2
          \/ i = 3 * ((i - 1) \div 3) + 3)
  OBVIOUS
<1> QED
  BY <1>1

OctetsAre(s, u, v) == Octets(s, u) = v

LEMMA CharsOctets ==
  ASSUME NEW n \in Nat, NEW v, NEW u \in BOOLEAN, NEW pad \in BOOLEAN, NEW m \in Nat,
         NEW r \in 0 .. 2, NEW s, CharsOf(s, v, n, u, pad, m, r)
  PROVE  OctetsAre(s, u, v)
<1>0. OfLength(v, 0 .. 255, n) /\ n = 3 * m + r
  BY DEF CharsOf, Lengths
<1>1. Body(s) = 4 * m + (IF r = 0 THEN 0 ELSE r + 1)
  <2>1. PaddedLengths(s, pad, m, r)
    BY CharsPadding
  <2> QED
    BY <2>1 DEF PaddedLengths
<1>2. DecodedLength(s) = n
  <2>1. Body(s) \div 4 = m /\ Body(s) % 4 = IF r = 0 THEN 0 ELSE r + 1
    BY <1>1
  <2> QED
    BY <1>0, <2>1 DEF DecodedLength
<1>3. ASSUME NEW i \in 1 .. n PROVE OctetAt(s, u, i) = v[i]
  <2>1. PICK q \in Nat : i = 3 * q + 1 \/ i = 3 * q + 2 \/ i = 3 * q + 3
    <3>1. i \in Nat \ {0}
      BY <1>0
    <3> QED
      BY <3>1, ThirdsOf
  <2>2. 3 * q + 1 <= n
    BY <2>1
  <2>3. /\ OctetAt(s, u, 3 * q + 1) = ByteAt(v, n, 3 * q + 1)
        /\ OctetAt(s, u, 3 * q + 2) = ByteAt(v, n, 3 * q + 2)
        /\ OctetAt(s, u, 3 * q + 3) = ByteAt(v, n, 3 * q + 3)
    <3>1. OctetsThird(s, u, v, n, q)
      BY <2>2, OctetThird
    <3> QED
      BY <3>1 DEF OctetsThird
  <2>4. OctetAt(s, u, i) = ByteAt(v, n, i)
    BY <2>1, <2>3
  <2> QED
    BY <2>4 DEF ByteAt
<1>4. v = [i \in 1 .. n |-> v[i]]
  BY <1>0 DEF OfLength
<1> QED
  BY <1>2, <1>3, <1>4 DEF Octets, OctetsAre

LEMMA Base64Decoded ==
  ASSUME NEW n \in Nat, NEW v, OfLength(v, 0 .. 255, n), NEW u \in BOOLEAN, NEW pad \in BOOLEAN,
         NEW required \in BOOLEAN
  PROVE  LTE_base64_decode(Chars(v, n, u, pad), u, required) =
           IF required /\ ~pad /\ n % 3 # 0 THEN {} ELSE {v}
<1>1. PICK m \in Nat : \E r \in 0 .. 2 : Lengths(n, m, r)
  BY LengthOf
<1>2. PICK r \in 0 .. 2 : Lengths(n, m, r)
  BY <1>1
<1>3. PICK s : s = Chars(v, n, u, pad)
  OBVIOUS
<1>4. CharsOf(s, v, n, u, pad, m, r)
  BY <1>2, <1>3 DEF CharsOf
<1>5. s \in Seq(Ink)
  BY <1>3, CharsType DEF OfLength
<1>6. compacted(s) = s
  BY <1>5, CompactedSame
<1>7. LTE_base64_decode(s, u, required) = IF Accepted(s, u, required) THEN {Octets(s, u)} ELSE {}
  <2>1. Base64Decodes(s, s, u, required)
    BY <1>6, Base64DecodedIs
  <2> QED
    BY <2>1 DEF Base64Decodes
<1>8. Accepted(s, u, required) <=> ~(required /\ ~pad /\ r # 0)
  <2>1. AcceptedIs(s, u, required, pad, r)
    BY <1>4, CharsAccepted, ZenonT(60)
  <2> QED
    BY <2>1 DEF AcceptedIs
<1>9. Octets(s, u) = v
  <2>1. OctetsAre(s, u, v)
    BY <1>4, CharsOctets
  <2> QED
    BY <2>1 DEF OctetsAre
<1>10. r = n % 3
  BY <1>2 DEF Lengths
<1> QED
  BY <1>3, <1>7, <1>8, <1>9, <1>10

(* The lengths of a string that is decoded, b of its characters in the     *)
(* body, and that what follows the body is padding (base64.c:140-160).     *)
Ends(s, b, m, r, n, pad, required) ==
  /\ b = 4 * m + (IF r = 0 THEN 0 ELSE r + 1) /\ n = 3 * m + r
  /\ b = Body(s) /\ b <= Len(s) /\ n <= Len(s) /\ DecodedLength(s) = n
  /\ \A j \in b + 1 .. Len(s) : s[j] = Equals
  /\ Len(s) = encoded_length(n, pad)
  /\ required => pad
  /\ r # 0 => Omitted(s) = 3 - r /\ GroupsOf(s) = m + 1

LEMMA PaddingFollows ==
  ASSUME NEW s \in Seq(Ink), NEW u \in BOOLEAN, AllBase64(s, u)
  PROVE  /\ PaddingOf(s) \in 0 .. 2 /\ PaddingOf(s) <= Len(s)
         /\ \A j \in Body(s) + 1 .. Len(s) : s[j] = Equals
<1> DEFINE L == Len(s)
           A == L >= 1 /\ s[L] = Equals
           B == L >= 2 /\ s[L - 1] = Equals
<1>1. L \in Nat
  BY LenProperties
<1>2. PaddingOf(s) = (IF A THEN 1 ELSE 0) + (IF B THEN 1 ELSE 0)
  BY DEF PaddingOf
<1>3. B => A
  <2> SUFFICES ASSUME B, ~A PROVE FALSE
    OBVIOUS
  <2>1. Body(s) = L - 1
    BY <1>1, <1>2 DEF Body
  <2>2. L - 1 \in 1 .. Body(s) /\ ~(L - 1 > Body(s))
    BY <1>1, <2>1
  <2>3. ValueAt(s, u, L - 1) = base64_decode_char_value(Equals, u)
    BY <2>2 DEF ValueAt
  <2> QED
    BY <2>2, <2>3, EqualsIs DEF AllBase64
<1>4. CASE A /\ B
  <2>1. PaddingOf(s) = 2
    BY <1>2, <1>4
  <2>2. Body(s) = L - 2 /\ L >= 2
    BY <1>1, <1>4, <2>1 DEF Body
  <2>3. \A j \in L - 2 + 1 .. L : j = L \/ j = L - 1
    BY <1>1
  <2> QED
    BY <1>1, <1>4, <2>1, <2>2, <2>3
<1>5. CASE A /\ ~B
  <2>1. PaddingOf(s) = 1
    BY <1>2, <1>5
  <2>2. Body(s) = L - 1 /\ L >= 1
    BY <1>1, <1>5, <2>1 DEF Body
  <2>3. \A j \in L - 1 + 1 .. L : j = L
    BY <1>1
  <2> QED
    BY <1>1, <1>5, <2>1, <2>2, <2>3
<1>6. CASE ~A
  <2>1. PaddingOf(s) = 0
    BY <1>2, <1>3, <1>6
  <2>2. Body(s) = L
    BY <1>1, <2>1 DEF Body
  <2>3. \A j \in L + 1 .. L : FALSE
    BY <1>1
  <2> QED
    BY <1>1, <2>1, <2>2, <2>3
<1> QED
  BY <1>4, <1>5, <1>6

LEMMA EndsOf ==
  ASSUME NEW s \in Seq(Ink), NEW u \in BOOLEAN, NEW required \in BOOLEAN, AllBase64(s, u),
         ~RefusedLength(s, required)
  PROVE  \E b \in Nat : \E m \in Nat : \E r \in 0 .. 2 : \E n \in Nat : \E pad \in BOOLEAN :
           Ends(s, b, m, r, n, pad, required)
<1>1. Len(s) \in Nat
  BY LenProperties
<1>2. PICK P \in 0 .. 2 : P = PaddingOf(s) /\ P <= Len(s)
  BY PaddingFollows
<1>3. \A j \in Body(s) + 1 .. Len(s) : s[j] = Equals
  BY PaddingFollows
<1>4. PICK b \in Nat : b = Body(s) /\ Len(s) = b + P
  BY <1>1, <1>2 DEF Body
<1>5. PICK m \in Nat : m = b \div 4
  OBVIOUS
<1>6. PICK R \in 0 .. 3 : R = b % 4
  OBVIOUS
<1>7. b = 4 * m + R
  BY <1>5, <1>6
<1>8. /\ (P > 0 => (b + P) % 4 = 0) /\ (required => (b + P) % 4 = 0)
      /\ (P = 0 => (b + P) % 4 # 1)
  BY <1>2, <1>4 DEF RefusedLength
<1>9. /\ R # 1 /\ (P > 0 => R + P = 4) /\ (required /\ P = 0 => R = 0)
  <2>1. P = 0 => R # 1 /\ (required => R = 0)
    BY <1>6, <1>8
  <2>2. P = 1 => R = 3
    BY <1>7, <1>8
  <2>3. P = 2 => R = 2
    BY <1>7, <1>8
  <2> QED
    BY <2>1, <2>2, <2>3
<1>10. PICK r \in 0 .. 2 : r = IF R = 0 THEN 0 ELSE R - 1
  BY <1>9
<1>11. PICK n \in Nat : n = 3 * m + r
  OBVIOUS
<1>12. b = 4 * m + (IF r = 0 THEN 0 ELSE r + 1)
  BY <1>7, <1>9, <1>10
<1>13. DecodedLength(s) = n
  <2>1. DecodedLength(s) = m * 3 + (IF R > 0 THEN R - 1 ELSE 0)
    BY <1>4, <1>5, <1>6, Zenon DEF DecodedLength
  <2>2. m * 3 + (IF R > 0 THEN R - 1 ELSE 0) = n
    BY <1>9, <1>10, <1>11
  <2> QED
    BY <2>1, <2>2
<1>14. r # 0 => Omitted(s) = 3 - r /\ GroupsOf(s) = m + 1
  <2>1. r # 0 => Omitted(s) = 3 - r
    BY <1>4, <1>6, <1>9, <1>10 DEF Omitted
  <2>2. r # 0 => GroupsOf(s) = m + 1
    BY <1>4, <1>12 DEF GroupsOf
  <2> QED
    BY <2>1, <2>2
<1>15. Lengths(n, m, r)
  BY <1>11, LengthsAre
<1>16. PICK pad \in BOOLEAN : pad <=> P > 0 \/ R = 0
  OBVIOUS
<1>17. Len(s) = encoded_length(n, pad)
  <2>1. CASE P > 0 \/ R = 0
    <3>1. pad = TRUE
      BY <1>16, <2>1
    <3>2. encoded_length(n, TRUE) = 4 * m + (IF r = 0 THEN 0 ELSE 4)
      BY <1>15 DEF Lengths
    <3>3. Len(s) = 4 * m + (IF r = 0 THEN 0 ELSE 4)
      BY <1>4, <1>7, <1>9, <1>10, <2>1
    <3> QED
      BY <3>1, <3>2, <3>3, Zenon
  <2>2. CASE ~(P > 0 \/ R = 0)
    <3>1. pad = FALSE
      BY <1>16, <2>2
    <3>2. encoded_length(n, FALSE) = 4 * m + (IF r = 0 THEN 0 ELSE r + 1)
      BY <1>15 DEF Lengths
    <3>3. Len(s) = 4 * m + (IF r = 0 THEN 0 ELSE r + 1)
      BY <1>4, <1>12, <2>2
    <3> QED
      BY <3>1, <3>2, <3>3, Zenon
  <2> QED
    BY <2>1, <2>2
<1>18. required => pad
  BY <1>9, <1>16
<1>19. b <= Len(s) /\ n <= Len(s)
  BY <1>4, <1>11, <1>12
<1>20. \A j \in b + 1 .. Len(s) : s[j] = Equals
  BY <1>3, <1>4
<1>21. Ends(s, b, m, r, n, pad, required)
  BY <1>4, <1>11, <1>12, <1>13, <1>14, <1>17, <1>18, <1>19, <1>20, Zenon DEF Ends
<1> QED
  BY <1>21

ValuesOK(s, u) == \A j \in Nat \ {0} : ValueAt(s, u, j) \in 0 .. 63

LEMMA ValuesInRange ==
  ASSUME NEW s \in Seq(Ink), NEW u \in BOOLEAN, AllBase64(s, u), NEW b \in Nat, b = Body(s),
         b <= Len(s)
  PROVE  /\ ValuesOK(s, u)
         /\ \A j \in 1 .. b : base64_alphabet(ValueAt(s, u, j), u) = s[j]
<1>0. Len(s) \in Nat
  BY LenProperties
<1>1. ASSUME NEW j \in 1 .. b
      PROVE  ValueAt(s, u, j) \in 0 .. 63 /\ base64_alphabet(ValueAt(s, u, j), u) = s[j]
  <2>1. j \in 1 .. Len(s) /\ ~(j > Body(s))
    BY <1>0
  <2>2. s[j] \in 0 .. 255
    BY <2>1, ElementOfSeq DEF Ink
  <2>3. ValueAt(s, u, j) = base64_decode_char_value(s[j], u)
    BY <2>1 DEF ValueAt
  <2>4. ~(base64_decode_char_value(s[j], u) < 0)
    BY <2>3 DEF AllBase64
  <2> QED
    <3>1. Base64Of(s[j], u)
      BY <2>2, <2>4, Base64ValueOf
    <3> QED
      BY <2>3, <3>1 DEF Base64Of
<1>2. ASSUME NEW j \in Nat \ {0}, ~(j \in 1 .. b) PROVE ValueAt(s, u, j) \in 0 .. 63
  <2>1. j > Body(s)
    BY <1>2
  <2> QED
    BY <2>1 DEF ValueAt
<1> QED
  BY <1>1, <1>2 DEF ValuesOK

LEMMA FourOfValues ==
  ASSUME NEW s, NEW u, ValuesOK(s, u), NEW q \in Nat
  PROVE  \E x1 \in Nat : \E x2 \in Nat : \E x3 \in Nat : \E x4 \in Nat :
           FourValues(s, u, q, x1, x2, x3, x4)
<1>1. /\ 4 * q + 1 \in Nat \ {0} /\ 4 * q + 2 \in Nat \ {0} /\ 4 * q + 3 \in Nat \ {0}
      /\ 4 * q + 4 \in Nat \ {0}
  OBVIOUS
<1>2. /\ ValueAt(s, u, 4 * q + 1) \in 0 .. 63 /\ ValueAt(s, u, 4 * q + 2) \in 0 .. 63
      /\ ValueAt(s, u, 4 * q + 3) \in 0 .. 63 /\ ValueAt(s, u, 4 * q + 4) \in 0 .. 63
  BY <1>1 DEF ValuesOK
<1>3. \A x \in 0 .. 63 : x \in Nat /\ x < 64
  OBVIOUS
<1>4. FourValues(s, u, q, ValueAt(s, u, 4 * q + 1), ValueAt(s, u, 4 * q + 2),
                 ValueAt(s, u, 4 * q + 3), ValueAt(s, u, 4 * q + 4))
  BY <1>2, <1>3 DEF FourValues
<1> QED
  BY <1>2, <1>3, <1>4

OctetRange(x1, x2, x3, x4) ==
  /\ FirstByte8(x1, x2) \in 0 .. 255 /\ SecondByte8(x2, x3) \in 0 .. 255
  /\ ThirdByte8(x3, x4) \in 0 .. 255
LEMMA OctetsInRange ==
  ASSUME NEW x1 \in Nat, NEW x2 \in Nat, NEW x3 \in Nat, NEW x4 \in Nat,
         x1 < 64, x2 < 64, x3 < 64, x4 < 64
  PROVE  OctetRange(x1, x2, x3, x4)
<1>1. FirstByte8(x1, x2) \in 0 .. 255
  BY SMT DEF FirstByte8
<1>2. SecondByte8(x2, x3) \in 0 .. 255
  BY SMT DEF SecondByte8
<1>3. ThirdByte8(x3, x4) \in 0 .. 255
  BY SMT DEF ThirdByte8
<1> QED
  BY <1>1, <1>2, <1>3 DEF OctetRange

LEMMA OctetsType ==
  ASSUME NEW s, NEW u, ValuesOK(s, u), NEW n \in Nat, DecodedLength(s) = n
  PROVE  /\ OfLength(Octets(s, u), 0 .. 255, n)
         /\ \A i \in 1 .. n : Octets(s, u)[i] = OctetAt(s, u, i)
<1>1. ASSUME NEW i \in 1 .. n PROVE OctetAt(s, u, i) \in 0 .. 255
  <2>1. i \in Nat \ {0}
    OBVIOUS
  <2>2. PICK q \in Nat : i = 3 * q + 1 \/ i = 3 * q + 2 \/ i = 3 * q + 3
    BY <2>1, ThirdsOf
  <2>3. PICK x1 \in Nat : \E x2 \in Nat : \E x3 \in Nat : \E x4 \in Nat :
           FourValues(s, u, q, x1, x2, x3, x4)
    BY FourOfValues
  <2>4. PICK x2 \in Nat : \E x3 \in Nat : \E x4 \in Nat : FourValues(s, u, q, x1, x2, x3, x4)
    BY <2>3
  <2>5. PICK x3 \in Nat : \E x4 \in Nat : FourValues(s, u, q, x1, x2, x3, x4)
    BY <2>4
  <2>6. PICK x4 \in Nat : FourValues(s, u, q, x1, x2, x3, x4)
    BY <2>5
  <2>7. OctetRange(x1, x2, x3, x4)
    BY <2>6, OctetsInRange DEF FourValues
  <2>8. /\ OctetAt(s, u, 3 * q + 1) = FirstByte8(x1, x2)
        /\ OctetAt(s, u, 3 * q + 2) = SecondByte8(x2, x3)
        /\ OctetAt(s, u, 3 * q + 3) = ThirdByte8(x3, x4)
    BY <2>6, OctetsAt
  <2> QED
    BY <2>2, <2>7, <2>8 DEF OctetRange
<1> QED
  BY <1>1 DEF Octets, OfLength

Sextets4(v, n, s, u, q, b) ==
  \A j \in {4 * q + 1, 4 * q + 2, 4 * q + 3, 4 * q + 4} :
    j <= b => Sextet(v, n, j) = ValueAt(s, u, j)

EndsIn(s, b, m, r, n) ==
  /\ b = 4 * m + (IF r = 0 THEN 0 ELSE r + 1) /\ n = 3 * m + r
  /\ DecodedLength(s) = n /\ (r # 0 => Omitted(s) = 3 - r /\ GroupsOf(s) = m + 1)
NoStray(s, u) == ~(GroupsOf(s) > 0 /\ LastStray(s, u))

LEMMA GroupRecovered ==
  ASSUME NEW s, NEW u, ValuesOK(s, u), NEW b \in Nat, NEW m \in Nat, NEW r \in 0 .. 2,
         NEW n \in Nat, EndsIn(s, b, m, r, n), NoStray(s, u), NEW q \in Nat, 4 * q + 1 <= b
  PROVE  Sextets4(Octets(s, u), n, s, u, q, b)
<1> USE DEF EndsIn, NoStray
<1> DEFINE v == Octets(s, u)
<1>1. PICK x1 \in Nat : \E x2 \in Nat : \E x3 \in Nat : \E x4 \in Nat :
         FourValues(s, u, q, x1, x2, x3, x4)
  BY FourOfValues
<1>2. PICK x2 \in Nat : \E x3 \in Nat : \E x4 \in Nat : FourValues(s, u, q, x1, x2, x3, x4)
  BY <1>1
<1>3. PICK x3 \in Nat : \E x4 \in Nat : FourValues(s, u, q, x1, x2, x3, x4)
  BY <1>2
<1>4. PICK x4 \in Nat : FourValues(s, u, q, x1, x2, x3, x4)
  BY <1>3
<1>5. /\ OctetAt(s, u, 3 * q + 1) = FirstByte8(x1, x2)
      /\ OctetAt(s, u, 3 * q + 2) = SecondByte8(x2, x3)
      /\ OctetAt(s, u, 3 * q + 3) = ThirdByte8(x3, x4)
  BY <1>4, OctetsAt
<1>6. \A i \in 1 .. n : v[i] = OctetAt(s, u, i)
  BY OctetsType
<1> HIDE DEF v
<1>7. ByteAt(v, n, 3 * q + 1) = FirstByte8(x1, x2)
  <2>1. 3 * q + 1 \in 1 .. n
    OBVIOUS
  <2> QED
    BY <1>5, <1>6, <2>1 DEF ByteAt
<1>8. ByteAt(v, n, 3 * q + 2) = IF 4 * q + 3 <= b THEN SecondByte8(x2, x3) ELSE 0
  <2>1. 3 * q + 2 <= n <=> 4 * q + 3 <= b
    OBVIOUS
  <2>2. 3 * q + 2 <= n => 3 * q + 2 \in 1 .. n
    OBVIOUS
  <2> QED
    BY <1>5, <1>6, <2>1, <2>2 DEF ByteAt
<1>9. ByteAt(v, n, 3 * q + 3) = IF 4 * q + 4 <= b THEN ThirdByte8(x3, x4) ELSE 0
  <2>1. 3 * q + 3 <= n <=> 4 * q + 4 <= b
    OBVIOUS
  <2>2. 3 * q + 3 <= n => 3 * q + 3 \in 1 .. n
    OBVIOUS
  <2> QED
    BY <1>5, <1>6, <2>1, <2>2 DEF ByteAt
<1>10. x1 < 64 /\ x2 < 64 /\ x3 < 64 /\ x4 < 64
  BY <1>4 DEF FourValues
<1>11. /\ First6(FirstByte8(x1, x2)) = x1
       /\ Second6(FirstByte8(x1, x2), SecondByte8(x2, x3)) = x2
       /\ Third6(SecondByte8(x2, x3), ThirdByte8(x3, x4)) = x3
       /\ Fourth6(ThirdByte8(x3, x4)) = x4
       /\ x2 % 16 = 0 => Second6(FirstByte8(x1, x2), 0) = x2
       /\ x3 % 4 = 0 => Third6(SecondByte8(x2, x3), 0) = x3
  BY <1>10, SextetsBack
<1>12. /\ ValueAt(s, u, 4 * q + 1) = x1 /\ ValueAt(s, u, 4 * q + 2) = x2
       /\ ValueAt(s, u, 4 * q + 3) = x3 /\ ValueAt(s, u, 4 * q + 4) = x4
  BY <1>4 DEF FourValues
<1>13. ~(4 * q + 3 <= b) => x2 % 16 = 0
  <2> SUFFICES ASSUME ~(4 * q + 3 <= b) PROVE x2 % 16 = 0
    OBVIOUS
  <2>1. r = 1 /\ q = m
    OBVIOUS
  <2>2. Omitted(s) = 2 /\ GroupsOf(s) > 0 /\ 4 * GroupsOf(s) - 4 + 2 = 4 * q + 2
    BY <2>1
  <2> QED
    BY <1>12, <2>2 DEF LastStray
<1>14. 4 * q + 3 <= b /\ ~(4 * q + 4 <= b) => x3 % 4 = 0
  <2> SUFFICES ASSUME 4 * q + 3 <= b, ~(4 * q + 4 <= b) PROVE x3 % 4 = 0
    OBVIOUS
  <2>1. r = 2 /\ q = m
    OBVIOUS
  <2>2. Omitted(s) = 1 /\ GroupsOf(s) > 0 /\ 4 * GroupsOf(s) - 4 + 3 = 4 * q + 3
    BY <2>1
  <2> QED
    BY <1>12, <2>2 DEF LastStray
<1> DEFINE b0 == ByteAt(v, n, 3 * q + 1)
           b1 == ByteAt(v, n, 3 * q + 2)
           b2 == ByteAt(v, n, 3 * q + 3)
<1>15. /\ Sextet(v, n, 4 * q + 1) = First6(b0) /\ Sextet(v, n, 4 * q + 2) = Second6(b0, b1)
       /\ Sextet(v, n, 4 * q + 3) = Third6(b1, b2) /\ Sextet(v, n, 4 * q + 4) = Fourth6(b2)
  BY SextetAt
<1> HIDE DEF b0, b1, b2
<1>16. Sextet(v, n, 4 * q + 1) = x1
  BY <1>7, <1>11, <1>15 DEF b0
<1>17. Sextet(v, n, 4 * q + 2) = x2
  <2>1. b0 = FirstByte8(x1, x2) /\ b1 = IF 4 * q + 3 <= b THEN SecondByte8(x2, x3) ELSE 0
    BY <1>7, <1>8 DEF b0, b1
  <2> QED
    BY <1>11, <1>13, <1>15, <2>1
<1>18. 4 * q + 3 <= b => Sextet(v, n, 4 * q + 3) = x3
  <2>1. b1 = (IF 4 * q + 3 <= b THEN SecondByte8(x2, x3) ELSE 0)
        /\ b2 = IF 4 * q + 4 <= b THEN ThirdByte8(x3, x4) ELSE 0
    BY <1>8, <1>9 DEF b1, b2
  <2> QED
    BY <1>11, <1>14, <1>15, <2>1
<1>19. 4 * q + 4 <= b => Sextet(v, n, 4 * q + 4) = x4
  BY <1>9, <1>11, <1>15 DEF b2
<1> QED
  BY <1>12, <1>16, <1>17, <1>18, <1>19 DEF Sextets4, v

Recovered(s, u, bytes, n, pad, required) ==
  /\ OfLength(bytes, 0 .. 255, n) /\ n <= Len(s)
  /\ s = Chars(bytes, n, u, pad) /\ (required => pad)

LEMMA Base64Recovered ==
  ASSUME NEW string \in Seq(0 .. 255), NEW s, compacted(string) = s, NEW u \in BOOLEAN,
         NEW required \in BOOLEAN, NEW bytes \in LTE_base64_decode(string, u, required)
  PROVE  \E n \in Nat : \E pad \in BOOLEAN : Recovered(s, u, bytes, n, pad, required)
<1>1. s \in Seq(Ink) /\ Len(s) \in Nat
  BY CompactedIs, LenProperties
<1>2. Accepted(s, u, required) /\ bytes = Octets(s, u)
  <2>1. Base64Decodes(string, s, u, required)
    BY Base64DecodedIs
  <2> QED
    BY <2>1 DEF Base64Decodes
<1>3. /\ ~RefusedLength(s, required) /\ AllBase64(s, u) /\ ~(GroupsOf(s) > 0 /\ LastStray(s, u))
  BY <1>2 DEF Accepted
<1>4. PICK b \in Nat : \E m \in Nat : \E r \in 0 .. 2 : \E n \in Nat : \E pad \in BOOLEAN :
           Ends(s, b, m, r, n, pad, required)
  BY <1>1, <1>3, EndsOf
<1>5. PICK m \in Nat : \E r \in 0 .. 2 : \E n \in Nat : \E pad \in BOOLEAN :
           Ends(s, b, m, r, n, pad, required)
  BY <1>4
<1>6. PICK r \in 0 .. 2 : \E n \in Nat : \E pad \in BOOLEAN : Ends(s, b, m, r, n, pad, required)
  BY <1>5
<1>7. PICK n \in Nat : \E pad \in BOOLEAN : Ends(s, b, m, r, n, pad, required)
  BY <1>6
<1>8. PICK pad \in BOOLEAN : Ends(s, b, m, r, n, pad, required)
  BY <1>7
<1>9. /\ b = 4 * m + (IF r = 0 THEN 0 ELSE r + 1) /\ n = 3 * m + r
      /\ b = Body(s) /\ b <= Len(s) /\ n <= Len(s) /\ DecodedLength(s) = n
      /\ \A j \in b + 1 .. Len(s) : s[j] = Equals
      /\ r # 0 => Omitted(s) = 3 - r /\ GroupsOf(s) = m + 1
  BY <1>8 DEF Ends
<1>10. Len(s) = encoded_length(n, pad) /\ (required => pad)
  BY <1>8 DEF Ends
<1>11. /\ ValuesOK(s, u)
       /\ \A j \in 1 .. b : base64_alphabet(ValueAt(s, u, j), u) = s[j]
  BY <1>1, <1>3, <1>9, ValuesInRange
<1>12. OfLength(bytes, 0 .. 255, n)
  BY <1>2, <1>9, <1>11, OctetsType
<1>13. ASSUME NEW j \in 1 .. b PROVE Sextet(bytes, n, j) = ValueAt(s, u, j)
  <2>1. j \in Nat \ {0}
    OBVIOUS
  <2>2. PICK q \in Nat : j = 4 * q + 1 \/ j = 4 * q + 2 \/ j = 4 * q + 3 \/ j = 4 * q + 4
    BY <2>1, Quarter
  <2>3. 4 * q + 1 <= b
    BY <2>2
  <2>4. Sextets4(Octets(s, u), n, s, u, q, b)
    <3>1. EndsIn(s, b, m, r, n) /\ NoStray(s, u)
      BY <1>3, <1>9, Zenon DEF EndsIn, NoStray
    <3> QED
      BY <1>11, <2>3, <3>1, GroupRecovered
  <2>5. Sextets4(bytes, n, s, u, q, b)
    BY <1>2, <2>4
  <2> QED
    BY <2>2, <2>5 DEF Sextets4
<1>14. Sextets(n) = b
  <2>1. Lengths(n, m, r)
    BY <1>9, LengthsAre
  <2> QED
    BY <1>9, <2>1 DEF Lengths
<1> DEFINE t == Chars(bytes, n, u, pad)
<1>15. OfLength(t, Ink, Len(s))
  BY <1>10, <1>12, CharsType
<1>16. \A j \in 1 .. Len(s) :
         t[j] = IF j <= b THEN base64_alphabet(Sextet(bytes, n, j), u) ELSE Equals
  BY <1>10, <1>14 DEF Chars
<1> HIDE DEF t
<1>17. ASSUME NEW j \in 1 .. Len(s) PROVE s[j] = t[j]
  <2>1. CASE j <= b
    <3>1. j \in 1 .. b
      BY <1>1, <2>1
    <3>2. Sextet(bytes, n, j) = ValueAt(s, u, j)
      BY <1>13, <3>1
    <3>3. base64_alphabet(ValueAt(s, u, j), u) = s[j]
      BY <1>11, <3>1
    <3>4. t[j] = base64_alphabet(Sextet(bytes, n, j), u)
      BY <1>16, <2>1
    <3> QED
      BY <3>2, <3>3, <3>4, Zenon
  <2>2. CASE ~(j <= b)
    BY <1>1, <1>9, <1>16, <2>2
  <2> QED
    BY <2>1, <2>2
<1>18. OfLength(s, Ink, Len(s))
  BY <1>1 DEF OfLength
<1>19. s = t
  BY <1>15, <1>17, <1>18, SameSequence
<1>20. Recovered(s, u, bytes, n, pad, required)
  BY <1>9, <1>10, <1>12, <1>19, Zenon DEF Recovered, t
<1> QED
  BY <1>20

(* The bits of a byte, from the highest on, and numbers made of them.      *)
BitOf(b, t) == (b \div 2 ^ (7 - t)) % 2
BitAt(v, k) == IF k >= 8 * Len(v) THEN 0
               ELSE (v[(k \div 8) + 1] \div 2 ^ (7 - (k % 8))) % 2

ByteIs(b, d0, d1, d2, d3, d4, d5, d6, d7) ==
  /\ b = 128 * d0 + 64 * d1 + 32 * d2 + 16 * d3 + 8 * d4 + 4 * d5 + 2 * d6 + d7
  /\ d0 \in 0 .. 1 /\ d1 \in 0 .. 1 /\ d2 \in 0 .. 1 /\ d3 \in 0 .. 1
  /\ d4 \in 0 .. 1 /\ d5 \in 0 .. 1 /\ d6 \in 0 .. 1 /\ d7 \in 0 .. 1

LEMMA BitsOfByte ==
  ASSUME NEW b \in Nat, b < 256
  PROVE  ByteIs(b, BitOf(b, 0), BitOf(b, 1), BitOf(b, 2), BitOf(b, 3),
                BitOf(b, 4), BitOf(b, 5), BitOf(b, 6), BitOf(b, 7))
<1>1. /\ 2 ^ (7 - 0) = 128 /\ 2 ^ (7 - 1) = 64 /\ 2 ^ (7 - 2) = 32 /\ 2 ^ (7 - 3) = 16
      /\ 2 ^ (7 - 4) = 8 /\ 2 ^ (7 - 5) = 4 /\ 2 ^ (7 - 6) = 2 /\ 2 ^ (7 - 7) = 1
  OBVIOUS
<1>2. /\ BitOf(b, 0) = (b \div 128) % 2 /\ BitOf(b, 1) = (b \div 64) % 2
      /\ BitOf(b, 2) = (b \div 32) % 2 /\ BitOf(b, 3) = (b \div 16) % 2
      /\ BitOf(b, 4) = (b \div 8) % 2 /\ BitOf(b, 5) = (b \div 4) % 2
      /\ BitOf(b, 6) = (b \div 2) % 2 /\ BitOf(b, 7) = (b \div 1) % 2
  BY <1>1 DEF BitOf
<1>3. /\ b \div 1 = 2 * (b \div 2) + ((b \div 1) % 2) /\ b \div 1 = b
      /\ b \div 2 = 2 * (b \div 4) + ((b \div 2) % 2)
      /\ b \div 4 = 2 * (b \div 8) + ((b \div 4) % 2)
      /\ b \div 8 = 2 * (b \div 16) + ((b \div 8) % 2)
  OBVIOUS
<1>4. /\ b \div 16 = 2 * (b \div 32) + ((b \div 16) % 2)
      /\ b \div 32 = 2 * (b \div 64) + ((b \div 32) % 2)
      /\ b \div 64 = 2 * (b \div 128) + ((b \div 64) % 2)
      /\ b \div 128 = (b \div 128) % 2
  OBVIOUS
<1>5. \A x \in Nat : x % 2 \in 0 .. 1
  OBVIOUS
<1>6. /\ b \div 128 \in Nat /\ b \div 64 \in Nat /\ b \div 32 \in Nat /\ b \div 16 \in Nat
      /\ b \div 8 \in Nat /\ b \div 4 \in Nat /\ b \div 2 \in Nat /\ b \div 1 \in Nat
  OBVIOUS
<1>7. /\ BitOf(b, 0) \in 0 .. 1 /\ BitOf(b, 1) \in 0 .. 1 /\ BitOf(b, 2) \in 0 .. 1
      /\ BitOf(b, 3) \in 0 .. 1 /\ BitOf(b, 4) \in 0 .. 1 /\ BitOf(b, 5) \in 0 .. 1
      /\ BitOf(b, 6) \in 0 .. 1 /\ BitOf(b, 7) \in 0 .. 1
  BY <1>2, <1>5, <1>6
<1>8. b = 128 * BitOf(b, 0) + 64 * BitOf(b, 1) + 32 * BitOf(b, 2) + 16 * BitOf(b, 3)
            + 8 * BitOf(b, 4) + 4 * BitOf(b, 5) + 2 * BitOf(b, 6) + BitOf(b, 7)
  BY <1>2, <1>3, <1>4, <1>6, SMT
<1> QED
  BY <1>7, <1>8 DEF ByteIs

Four1(x, a, b, c, d) == x = 2 * (2 * (2 * a + b) + c) + d
Six1(x, a, b, c, d, e, f) == x = 2 * (2 * (2 * (2 * (2 * a + b) + c) + d) + e) + f
LEMMA PartsOfByte ==
  ASSUME NEW b \in Nat, NEW d0, NEW d1, NEW d2, NEW d3, NEW d4, NEW d5, NEW d6, NEW d7,
         ByteIs(b, d0, d1, d2, d3, d4, d5, d6, d7)
  PROVE  /\ Four1(b \div 16, d0, d1, d2, d3) /\ Four1(b % 16, d4, d5, d6, d7)
         /\ Six1(b \div 4, d0, d1, d2, d3, d4, d5) /\ b % 4 = 2 * d6 + d7
         /\ Six1(b % 64, d2, d3, d4, d5, d6, d7) /\ b \div 64 = 2 * d0 + d1
<1> USE DEF ByteIs
<1>1. Four1(b \div 16, d0, d1, d2, d3)
  BY SMT DEF Four1
<1>2. Four1(b % 16, d4, d5, d6, d7)
  BY SMT DEF Four1
<1>3. Six1(b \div 4, d0, d1, d2, d3, d4, d5)
  BY SMT DEF Six1
<1>4. b % 4 = 2 * d6 + d7
  BY SMT
<1>5. Six1(b % 64, d2, d3, d4, d5, d6, d7)
  BY SMT DEF Six1
<1>6. b \div 64 = 2 * d0 + d1
  BY SMT
<1> QED
  BY <1>1, <1>2, <1>3, <1>4, <1>5, <1>6

(* The recursive function of BitGroups has a solution, written out.        *)
Unrolled(v, k, i) ==
  IF i = 0 THEN BitAt(v, k)
  ELSE IF i = 1 THEN 2 * BitAt(v, k - 1) + BitAt(v, k)
  ELSE IF i = 2 THEN 2 * (2 * BitAt(v, k - 2) + BitAt(v, k - 1)) + BitAt(v, k)
  ELSE IF i = 3 THEN 2 * (2 * (2 * BitAt(v, k - 3) + BitAt(v, k - 2)) + BitAt(v, k - 1)) + BitAt(v, k)
  ELSE IF i = 4
    THEN 2 * (2 * (2 * (2 * BitAt(v, k - 4) + BitAt(v, k - 3)) + BitAt(v, k - 2)) + BitAt(v, k - 1))
           + BitAt(v, k)
  ELSE 2 * (2 * (2 * (2 * (2 * BitAt(v, k - 5) + BitAt(v, k - 4)) + BitAt(v, k - 3))
                 + BitAt(v, k - 2)) + BitAt(v, k - 1)) + BitAt(v, k)

LEMMA UnrolledStep ==
  ASSUME NEW v, NEW k \in Nat, NEW i \in 1 .. 5
  PROVE  Unrolled(v, k, i) = 2 * Unrolled(v, k - 1, i - 1) + BitAt(v, k)
<1>1. /\ k - 1 - 1 = k - 2 /\ k - 1 - 2 = k - 3 /\ k - 1 - 3 = k - 4 /\ k - 1 - 4 = k - 5
  OBVIOUS
<1>2. i = 1 \/ i = 2 \/ i = 3 \/ i = 4 \/ i = 5
  OBVIOUS
<1> QED
  BY <1>1, <1>2 DEF Unrolled

GroupsAre(v, w, l) ==
  /\ BitGroups(v, w) = [g \in 1 .. l |-> BitGroups(v, w)[g]]
  /\ \A g \in 1 .. l : BitGroups(v, w)[g] = Unrolled(v, g * w - 1, w - 1)

LEMMA BitGroupsAre ==
  ASSUME NEW v, NEW w, w = 4 \/ w = 6, NEW l \in Nat, l = (8 * Len(v) + w - 1) \div w
  PROVE  GroupsAre(v, w, l)
<1> DEFINE Def(f) == f = [k \in Nat |-> IF k % w = 0 THEN BitAt(v, k)
                                         ELSE 2 * f[k - 1] + BitAt(v, k)]
           u == CHOOSE f : Def(f)
           h == [k \in Nat |-> Unrolled(v, k, k % w)]
<1>1. BitGroups(v, w) = [g \in 1 .. (8 * Len(v) + w - 1) \div w |-> u[g * w - 1]]
  BY Zenon DEF BitGroups, BitAt
<1>2. ASSUME NEW k \in Nat
      PROVE  Unrolled(v, k, k % w) = IF k % w = 0 THEN BitAt(v, k)
                                     ELSE 2 * h[k - 1] + BitAt(v, k)
  <2>1. CASE k % w = 0
    BY <2>1 DEF Unrolled
  <2>2. CASE k % w # 0
    <3>1. k % w \in 1 .. 5 /\ k - 1 \in Nat /\ (k - 1) % w = (k % w) - 1
      <4>1. CASE w = 4
        <5>1. k % 4 # 0 => k % 4 \in 1 .. 5 /\ k - 1 \in Nat /\ (k - 1) % 4 = (k % 4) - 1
          OBVIOUS
        <5> QED
          BY <2>2, <4>1, <5>1
      <4>2. CASE w = 6
        <5>1. k % 6 # 0 => k % 6 \in 1 .. 5 /\ k - 1 \in Nat /\ (k - 1) % 6 = (k % 6) - 1
          OBVIOUS
        <5> QED
          BY <2>2, <4>2, <5>1
      <4> QED
        BY <4>1, <4>2
    <3>2. h[k - 1] = Unrolled(v, k - 1, (k % w) - 1)
      BY <3>1
    <3> HIDE DEF h
    <3>3. Unrolled(v, k, k % w) = 2 * Unrolled(v, k - 1, (k % w) - 1) + BitAt(v, k)
      BY <3>1, UnrolledStep
    <3> QED
      BY <2>2, <3>2, <3>3
  <2> QED
    BY <2>1, <2>2
<1>3. Def(h)
  BY <1>2, Zenon
<1>4. Def(u)
  BY <1>3, Zenon
<1> HIDE DEF u
<1>5. \A k \in Nat : u[k] = IF k % w = 0 THEN BitAt(v, k) ELSE 2 * u[k - 1] + BitAt(v, k)
  BY <1>4
<1> HIDE DEF h
<1>6. ASSUME NEW q \in Nat, NEW i \in 0 .. w - 1
      PROVE  u[q * w + i] = IF i = 0 THEN BitAt(v, q * w + i)
                            ELSE 2 * u[(q * w + i) - 1] + BitAt(v, q * w + i)
  <2>1. q * w + i \in Nat /\ (q * w + i) % w = i
    <3>1. CASE w = 4
      <4>1. q * 4 + i \in Nat /\ (q * 4 + i) % 4 = i
        BY <3>1
      <4> QED
        BY <3>1, <4>1
    <3>2. CASE w = 6
      <4>1. q * 6 + i \in Nat /\ (q * 6 + i) % 6 = i
        BY <3>2
      <4> QED
        BY <3>2, <4>1
    <3> QED
      BY <3>1, <3>2
  <2> QED
    BY <1>5, <2>1
<1>7. ASSUME NEW g \in 1 .. l PROVE u[g * w - 1] = Unrolled(v, g * w - 1, w - 1)
  <2>1. PICK q \in Nat : q = g - 1
    OBVIOUS
  <2>2. CASE w = 4
    <3>1. /\ u[q * 4 + 0] = BitAt(v, q * 4 + 0)
          /\ u[q * 4 + 1] = 2 * u[q * 4 + 1 - 1] + BitAt(v, q * 4 + 1)
          /\ u[q * 4 + 2] = 2 * u[q * 4 + 2 - 1] + BitAt(v, q * 4 + 2)
          /\ u[q * 4 + 3] = 2 * u[q * 4 + 3 - 1] + BitAt(v, q * 4 + 3)
      <4>1. 0 \in 0 .. w - 1 /\ 1 \in 0 .. w - 1 /\ 2 \in 0 .. w - 1 /\ 3 \in 0 .. w - 1
        BY <2>2
      <4> QED
        BY <1>6, <2>2, <4>1
    <3>2. /\ q * 4 + 1 - 1 = q * 4 + 0 /\ q * 4 + 2 - 1 = q * 4 + 1 /\ q * 4 + 3 - 1 = q * 4 + 2
          /\ g * 4 - 1 = q * 4 + 3 /\ q * 4 + 3 - 2 = q * 4 + 1 /\ q * 4 + 3 - 3 = q * 4 + 0
      BY <2>1
    <3>3. Unrolled(v, q * 4 + 3, 3) =
            2 * (2 * (2 * BitAt(v, q * 4 + 0) + BitAt(v, q * 4 + 1)) + BitAt(v, q * 4 + 2))
              + BitAt(v, q * 4 + 3)
      BY <3>2 DEF Unrolled
    <3>4. u[q * 4 + 3] = Unrolled(v, q * 4 + 3, 3)
      BY <3>1, <3>2, <3>3
    <3>5. w - 1 = 3
      BY <2>2
    <3> QED
      BY <2>2, <3>2, <3>4, <3>5
  <2>3. CASE w = 6
    <3>1. /\ u[q * 6 + 0] = BitAt(v, q * 6 + 0)
          /\ u[q * 6 + 1] = 2 * u[q * 6 + 1 - 1] + BitAt(v, q * 6 + 1)
          /\ u[q * 6 + 2] = 2 * u[q * 6 + 2 - 1] + BitAt(v, q * 6 + 2)
          /\ u[q * 6 + 3] = 2 * u[q * 6 + 3 - 1] + BitAt(v, q * 6 + 3)
          /\ u[q * 6 + 4] = 2 * u[q * 6 + 4 - 1] + BitAt(v, q * 6 + 4)
          /\ u[q * 6 + 5] = 2 * u[q * 6 + 5 - 1] + BitAt(v, q * 6 + 5)
      <4>1. /\ 0 \in 0 .. w - 1 /\ 1 \in 0 .. w - 1 /\ 2 \in 0 .. w - 1 /\ 3 \in 0 .. w - 1
            /\ 4 \in 0 .. w - 1 /\ 5 \in 0 .. w - 1
        BY <2>3
      <4> QED
        BY <1>6, <2>3, <4>1
    <3>2. /\ q * 6 + 1 - 1 = q * 6 + 0 /\ q * 6 + 2 - 1 = q * 6 + 1 /\ q * 6 + 3 - 1 = q * 6 + 2
          /\ q * 6 + 4 - 1 = q * 6 + 3 /\ q * 6 + 5 - 1 = q * 6 + 4
          /\ g * 6 - 1 = q * 6 + 5 /\ q * 6 + 5 - 2 = q * 6 + 3 /\ q * 6 + 5 - 3 = q * 6 + 2
          /\ q * 6 + 5 - 4 = q * 6 + 1 /\ q * 6 + 5 - 5 = q * 6 + 0
      BY <2>1
    <3>3. Unrolled(v, q * 6 + 5, 5) =
            2 * (2 * (2 * (2 * (2 * BitAt(v, q * 6 + 0) + BitAt(v, q * 6 + 1))
                           + BitAt(v, q * 6 + 2)) + BitAt(v, q * 6 + 3)) + BitAt(v, q * 6 + 4))
              + BitAt(v, q * 6 + 5)
      BY <3>2 DEF Unrolled
    <3>4. u[q * 6 + 5] = Unrolled(v, q * 6 + 5, 5)
      BY <3>1, <3>2, <3>3
    <3>5. w - 1 = 5
      BY <2>3
    <3> QED
      BY <2>3, <3>2, <3>4, <3>5
  <2> QED
    BY <2>2, <2>3
<1> QED
  BY <1>1, <1>7 DEF GroupsAre

LEMMA BitIn ==
  ASSUME NEW n \in Nat, NEW v, OfLength(v, 0 .. 255, n), NEW i \in Nat, NEW t \in 0 .. 7
  PROVE  BitAt(v, 8 * i + t) = BitOf(ByteAt(v, n, i + 1), t)
<1>1. Len(v) = n
  BY DEF OfLength
<1>2. (8 * i + t) \div 8 = i /\ (8 * i + t) % 8 = t
  OBVIOUS
<1>3. 8 * i + t >= 8 * n <=> ~(i + 1 <= n)
  OBVIOUS
<1>4. CASE i + 1 <= n
  BY <1>1, <1>2, <1>3, <1>4 DEF BitAt, BitOf, ByteAt
<1>5. CASE ~(i + 1 <= n)
  <2>1. BitAt(v, 8 * i + t) = 0 /\ ByteAt(v, n, i + 1) = 0
    BY <1>1, <1>3, <1>5 DEF BitAt, ByteAt
  <2>2. ByteIs(0, BitOf(0, 0), BitOf(0, 1), BitOf(0, 2), BitOf(0, 3),
               BitOf(0, 4), BitOf(0, 5), BitOf(0, 6), BitOf(0, 7))
    BY BitsOfByte
  <2>3. /\ BitOf(0, 0) = 0 /\ BitOf(0, 1) = 0 /\ BitOf(0, 2) = 0 /\ BitOf(0, 3) = 0
        /\ BitOf(0, 4) = 0 /\ BitOf(0, 5) = 0 /\ BitOf(0, 6) = 0 /\ BitOf(0, 7) = 0
    BY <2>2 DEF ByteIs
  <2>4. t = 0 \/ t = 1 \/ t = 2 \/ t = 3 \/ t = 4 \/ t = 5 \/ t = 6 \/ t = 7
    OBVIOUS
  <2>5. BitOf(0, t) = 0
    BY <2>3, <2>4
  <2> QED
    BY <2>1, <2>5
<1> QED
  BY <1>4, <1>5

BitsAt8(v, i, d0, d1, d2, d3, d4, d5, d6, d7) ==
  /\ BitAt(v, 8 * i + 0) = d0 /\ BitAt(v, 8 * i + 1) = d1 /\ BitAt(v, 8 * i + 2) = d2
  /\ BitAt(v, 8 * i + 3) = d3 /\ BitAt(v, 8 * i + 4) = d4 /\ BitAt(v, 8 * i + 5) = d5
  /\ BitAt(v, 8 * i + 6) = d6 /\ BitAt(v, 8 * i + 7) = d7
BitsMake(v, i, b) ==
  /\ Four1(b \div 16, BitAt(v, 8 * i + 0), BitAt(v, 8 * i + 1), BitAt(v, 8 * i + 2),
           BitAt(v, 8 * i + 3))
  /\ Four1(b % 16, BitAt(v, 8 * i + 4), BitAt(v, 8 * i + 5), BitAt(v, 8 * i + 6),
           BitAt(v, 8 * i + 7))
  /\ Six1(b \div 4, BitAt(v, 8 * i + 0), BitAt(v, 8 * i + 1), BitAt(v, 8 * i + 2),
          BitAt(v, 8 * i + 3), BitAt(v, 8 * i + 4), BitAt(v, 8 * i + 5))
  /\ b % 4 = 2 * BitAt(v, 8 * i + 6) + BitAt(v, 8 * i + 7)
  /\ Six1(b % 64, BitAt(v, 8 * i + 2), BitAt(v, 8 * i + 3), BitAt(v, 8 * i + 4),
          BitAt(v, 8 * i + 5), BitAt(v, 8 * i + 6), BitAt(v, 8 * i + 7))
  /\ b \div 64 = 2 * BitAt(v, 8 * i + 0) + BitAt(v, 8 * i + 1)

LEMMA BitsOfByteAt ==
  ASSUME NEW n \in Nat, NEW v, OfLength(v, 0 .. 255, n), NEW i \in Nat, NEW b \in Nat,
         b = ByteAt(v, n, i + 1), b < 256
  PROVE  /\ BitsMake(v, i, b)
         /\ \A t \in 0 .. 7 : BitAt(v, 8 * i + t) \in 0 .. 1
<1> DEFINE d(t) == BitAt(v, 8 * i + t)
<1>1. \A t \in 0 .. 7 : d(t) = BitOf(b, t)
  BY BitIn
<1>2. ByteIs(b, BitOf(b, 0), BitOf(b, 1), BitOf(b, 2), BitOf(b, 3),
             BitOf(b, 4), BitOf(b, 5), BitOf(b, 6), BitOf(b, 7))
  BY BitsOfByte
<1>3. /\ 0 \in 0 .. 7 /\ 1 \in 0 .. 7 /\ 2 \in 0 .. 7 /\ 3 \in 0 .. 7 /\ 4 \in 0 .. 7
      /\ 5 \in 0 .. 7 /\ 6 \in 0 .. 7 /\ 7 \in 0 .. 7
  OBVIOUS
<1> HIDE DEF d
<1>4. /\ d(0) = BitOf(b, 0) /\ d(1) = BitOf(b, 1) /\ d(2) = BitOf(b, 2) /\ d(3) = BitOf(b, 3)
      /\ d(4) = BitOf(b, 4) /\ d(5) = BitOf(b, 5) /\ d(6) = BitOf(b, 6) /\ d(7) = BitOf(b, 7)
  BY <1>1, <1>3
<1>5. ByteIs(b, d(0), d(1), d(2), d(3), d(4), d(5), d(6), d(7))
  BY <1>2, <1>4
<1>6. /\ Four1(b \div 16, d(0), d(1), d(2), d(3)) /\ Four1(b % 16, d(4), d(5), d(6), d(7))
      /\ Six1(b \div 4, d(0), d(1), d(2), d(3), d(4), d(5)) /\ b % 4 = 2 * d(6) + d(7)
      /\ Six1(b % 64, d(2), d(3), d(4), d(5), d(6), d(7)) /\ b \div 64 = 2 * d(0) + d(1)
  BY <1>5, PartsOfByte
<1>7. BitsMake(v, i, b)
  BY <1>6, Zenon DEF BitsMake, d
<1>8. \A t \in 0 .. 7 : d(t) \in 0 .. 1
  <2>1. \A t \in 0 .. 7 : t = 0 \/ t = 1 \/ t = 2 \/ t = 3 \/ t = 4 \/ t = 5 \/ t = 6 \/ t = 7
    OBVIOUS
  <2> QED
    BY <1>5, <2>1 DEF ByteIs
<1> QED
  BY <1>7, <1>8 DEF d

LEMMA NibbleBits ==
  ASSUME NEW n \in Nat, NEW v, OfLength(v, 0 .. 255, n), NEW j \in 1 .. 2 * n
  PROVE  Unrolled(v, j * 4 - 1, 3) = Nibble(v, j)
<1>1. PICK i \in 1 .. n : j = 2 * i - 1 \/ j = 2 * i
  BY Halves
<1>2. PICK k \in Nat : i = k + 1
  OBVIOUS
<1>3. v[i] \in 0 .. 255
  BY ElementOfSeq DEF OfLength
<1>4. PICK b \in Nat : b = v[i] /\ b < 256
  BY <1>3
<1>5. ByteAt(v, n, k + 1) = b
  BY <1>2, <1>4 DEF ByteAt
<1>6. BitsMake(v, k, b)
  BY <1>4, <1>5, BitsOfByteAt
<1>7. Nibble(v, 2 * i - 1) = b \div 16 /\ Nibble(v, 2 * i) = b % 16
  BY <1>4, HalfOf
<1>8. CASE j = 2 * i - 1
  <2>1. /\ j * 4 - 1 = 8 * k + 3 /\ 8 * k + 3 - 1 = 8 * k + 2 /\ 8 * k + 3 - 2 = 8 * k + 1
        /\ 8 * k + 3 - 3 = 8 * k + 0
    BY <1>2, <1>8
  <2>2. Unrolled(v, 8 * k + 3, 3) =
          2 * (2 * (2 * BitAt(v, 8 * k + 0) + BitAt(v, 8 * k + 1)) + BitAt(v, 8 * k + 2))
            + BitAt(v, 8 * k + 3)
    BY <2>1 DEF Unrolled
  <2>3. b \div 16 =
          2 * (2 * (2 * BitAt(v, 8 * k + 0) + BitAt(v, 8 * k + 1)) + BitAt(v, 8 * k + 2))
            + BitAt(v, 8 * k + 3)
    BY <1>6 DEF BitsMake, Four1
  <2> QED
    BY <1>7, <1>8, <2>1, <2>2, <2>3, Zenon
<1>9. CASE j = 2 * i
  <2>1. /\ j * 4 - 1 = 8 * k + 7 /\ 8 * k + 7 - 1 = 8 * k + 6 /\ 8 * k + 7 - 2 = 8 * k + 5
        /\ 8 * k + 7 - 3 = 8 * k + 4
    BY <1>2, <1>9
  <2>2. Unrolled(v, 8 * k + 7, 3) =
          2 * (2 * (2 * BitAt(v, 8 * k + 4) + BitAt(v, 8 * k + 5)) + BitAt(v, 8 * k + 6))
            + BitAt(v, 8 * k + 7)
    BY <2>1 DEF Unrolled
  <2>3. b % 16 =
          2 * (2 * (2 * BitAt(v, 8 * k + 4) + BitAt(v, 8 * k + 5)) + BitAt(v, 8 * k + 6))
            + BitAt(v, 8 * k + 7)
    BY <1>6 DEF BitsMake, Four1
  <2> QED
    BY <1>7, <1>9, <2>1, <2>2, <2>3, Zenon
<1> QED
  BY <1>1, <1>8, <1>9

(* Six bits of three bytes: the bytes are at 8 * i on, 8 * i + 8 on and    *)
(* 8 * i + 16 on.                                                          *)
LEMMA SixUnrolled ==
  ASSUME NEW v, NEW k \in Nat, NEW x, Six1(x, BitAt(v, k + 0), BitAt(v, k + 1), BitAt(v, k + 2),
                                           BitAt(v, k + 3), BitAt(v, k + 4), BitAt(v, k + 5))
  PROVE  Unrolled(v, k + 5, 5) = x
<1>1. /\ k + 5 - 1 = k + 4 /\ k + 5 - 2 = k + 3 /\ k + 5 - 3 = k + 2 /\ k + 5 - 4 = k + 1
      /\ k + 5 - 5 = k + 0
  OBVIOUS
<1> QED
  BY <1>1 DEF Unrolled, Six1

LEMMA SixOfTwoAndFour ==
  ASSUME NEW x \in Nat, NEW y \in Nat, NEW a \in 0 .. 1, NEW b \in 0 .. 1, NEW c \in 0 .. 1,
         NEW d \in 0 .. 1, NEW e \in 0 .. 1, NEW f \in 0 .. 1,
         x = 2 * a + b, y = 2 * (2 * (2 * c + d) + e) + f
  PROVE  Six1(x * 16 + y, a, b, c, d, e, f)
BY DEF Six1

LEMMA SixOfFourAndTwo ==
  ASSUME NEW x \in Nat, NEW y \in Nat, NEW a \in 0 .. 1, NEW b \in 0 .. 1, NEW c \in 0 .. 1,
         NEW d \in 0 .. 1, NEW e \in 0 .. 1, NEW f \in 0 .. 1,
         x = 2 * (2 * (2 * a + b) + c) + d, y = 2 * e + f
  PROVE  Six1(x * 4 + y, a, b, c, d, e, f)
BY DEF Six1

LEMMA SextetBitsAre ==
  ASSUME NEW n \in Nat, NEW v, OfLength(v, 0 .. 255, n), NEW j \in Nat \ {0}
  PROVE  Unrolled(v, j * 6 - 1, 5) = Sextet(v, n, j)
<1>1. PICK q \in Nat : j = 4 * q + 1 \/ j = 4 * q + 2 \/ j = 4 * q + 3 \/ j = 4 * q + 4
  BY Quarter
<1>2. PICK b0 \in Nat : \E b1 \in Nat : \E b2 \in Nat : Grouped(v, n, q, b0, b1, b2)
  BY ThreeAt
<1>3. PICK b1 \in Nat : \E b2 \in Nat : Grouped(v, n, q, b0, b1, b2)
  BY <1>2
<1>4. PICK b2 \in Nat : Grouped(v, n, q, b0, b1, b2)
  BY <1>3
<1>5. /\ Sextet(v, n, 4 * q + 1) = First6(b0) /\ Sextet(v, n, 4 * q + 2) = Second6(b0, b1)
      /\ Sextet(v, n, 4 * q + 3) = Third6(b1, b2) /\ Sextet(v, n, 4 * q + 4) = Fourth6(b2)
  BY <1>4, SextetAt DEF Grouped
<1>6. PICK k0 \in Nat : k0 = 3 * q
  OBVIOUS
<1>7. PICK k1 \in Nat : k1 = 3 * q + 1
  OBVIOUS
<1>8. PICK k2 \in Nat : k2 = 3 * q + 2
  OBVIOUS
<1>9. /\ b0 = ByteAt(v, n, k0 + 1) /\ b1 = ByteAt(v, n, k1 + 1) /\ b2 = ByteAt(v, n, k2 + 1)
      /\ b0 < 256 /\ b1 < 256 /\ b2 < 256
  BY <1>4, <1>6, <1>7, <1>8 DEF Grouped
<1>10. BitsMake(v, k0, b0) /\ \A t \in 0 .. 7 : BitAt(v, 8 * k0 + t) \in 0 .. 1
  BY <1>9, BitsOfByteAt
<1>11. BitsMake(v, k1, b1) /\ \A t \in 0 .. 7 : BitAt(v, 8 * k1 + t) \in 0 .. 1
  BY <1>9, BitsOfByteAt
<1>12. BitsMake(v, k2, b2) /\ \A t \in 0 .. 7 : BitAt(v, 8 * k2 + t) \in 0 .. 1
  BY <1>9, BitsOfByteAt
<1>13. CASE j = 4 * q + 1
  <2>1. /\ j * 6 - 1 = 8 * k0 + 5
    BY <1>6, <1>13
  <2>2. Six1(First6(b0), BitAt(v, 8 * k0 + 0), BitAt(v, 8 * k0 + 1), BitAt(v, 8 * k0 + 2),
             BitAt(v, 8 * k0 + 3), BitAt(v, 8 * k0 + 4), BitAt(v, 8 * k0 + 5))
    BY <1>10, Zenon DEF BitsMake, First6
  <2>3. 8 * k0 \in Nat
    OBVIOUS
  <2>4. Unrolled(v, 8 * k0 + 5, 5) = First6(b0)
    BY <2>2, <2>3, SixUnrolled
  <2> QED
    BY <1>5, <1>13, <2>1, <2>4
<1>14. CASE j = 4 * q + 2
  <2>1. PICK k \in Nat : k = 8 * k0 + 6
    OBVIOUS
  <2>2. /\ j * 6 - 1 = k + 5 /\ k + 0 = 8 * k0 + 6 /\ k + 1 = 8 * k0 + 7 /\ k + 2 = 8 * k1 + 0
        /\ k + 3 = 8 * k1 + 1 /\ k + 4 = 8 * k1 + 2 /\ k + 5 = 8 * k1 + 3
    BY <1>6, <1>7, <1>14, <2>1
  <2> DEFINE d(i) == BitAt(v, k + i)
  <2>3. /\ d(0) \in 0 .. 1 /\ d(1) \in 0 .. 1 /\ d(2) \in 0 .. 1 /\ d(3) \in 0 .. 1
        /\ d(4) \in 0 .. 1 /\ d(5) \in 0 .. 1
    BY <1>10, <1>11, <2>2
  <2>4. b0 % 4 = 2 * d(0) + d(1) /\ b1 \div 16 = 2 * (2 * (2 * d(2) + d(3)) + d(4)) + d(5)
    BY <1>10, <1>11, <2>2 DEF BitsMake, Four1
  <2> HIDE DEF d
  <2>5. Six1(Second6(b0, b1), d(0), d(1), d(2), d(3), d(4), d(5))
    <3>1. b0 % 4 \in Nat /\ b1 \div 16 \in Nat
      OBVIOUS
    <3> QED
      BY <2>3, <2>4, <3>1, SixOfTwoAndFour, Zenon DEF Second6
  <2>6. Unrolled(v, k + 5, 5) = Second6(b0, b1)
    BY <2>5, SixUnrolled DEF d
  <2> QED
    BY <1>5, <1>14, <2>2, <2>6
<1>15. CASE j = 4 * q + 3
  <2>1. PICK k \in Nat : k = 8 * k1 + 4
    OBVIOUS
  <2>2. /\ j * 6 - 1 = k + 5 /\ k + 0 = 8 * k1 + 4 /\ k + 1 = 8 * k1 + 5 /\ k + 2 = 8 * k1 + 6
        /\ k + 3 = 8 * k1 + 7 /\ k + 4 = 8 * k2 + 0 /\ k + 5 = 8 * k2 + 1
    BY <1>7, <1>8, <1>15, <2>1
  <2> DEFINE d(i) == BitAt(v, k + i)
  <2>3. /\ d(0) \in 0 .. 1 /\ d(1) \in 0 .. 1 /\ d(2) \in 0 .. 1 /\ d(3) \in 0 .. 1
        /\ d(4) \in 0 .. 1 /\ d(5) \in 0 .. 1
    BY <1>11, <1>12, <2>2
  <2>4. b1 % 16 = 2 * (2 * (2 * d(0) + d(1)) + d(2)) + d(3) /\ b2 \div 64 = 2 * d(4) + d(5)
    BY <1>11, <1>12, <2>2 DEF BitsMake, Four1
  <2> HIDE DEF d
  <2>5. Six1(Third6(b1, b2), d(0), d(1), d(2), d(3), d(4), d(5))
    <3>1. b1 % 16 \in Nat /\ b2 \div 64 \in Nat
      OBVIOUS
    <3> QED
      BY <2>3, <2>4, <3>1, SixOfFourAndTwo, Zenon DEF Third6
  <2>6. Unrolled(v, k + 5, 5) = Third6(b1, b2)
    BY <2>5, SixUnrolled DEF d
  <2> QED
    BY <1>5, <1>15, <2>2, <2>6
<1>16. CASE j = 4 * q + 4
  <2>1. PICK k \in Nat : k = 8 * k2 + 2
    OBVIOUS
  <2>2. /\ j * 6 - 1 = k + 5 /\ k + 0 = 8 * k2 + 2 /\ k + 1 = 8 * k2 + 3 /\ k + 2 = 8 * k2 + 4
        /\ k + 3 = 8 * k2 + 5 /\ k + 4 = 8 * k2 + 6 /\ k + 5 = 8 * k2 + 7
    BY <1>8, <1>16, <2>1
  <2>3. Six1(Fourth6(b2), BitAt(v, 8 * k2 + 2), BitAt(v, 8 * k2 + 3), BitAt(v, 8 * k2 + 4),
             BitAt(v, 8 * k2 + 5), BitAt(v, 8 * k2 + 6), BitAt(v, 8 * k2 + 7))
    BY <1>12, Zenon DEF BitsMake, Fourth6
  <2>4. Unrolled(v, k + 5, 5) = Fourth6(b2)
    BY <2>2, <2>3, SixUnrolled
  <2> QED
    BY <1>5, <1>16, <2>2, <2>4
<1> QED
  BY <1>1, <1>13, <1>14, <1>15, <1>16

(* The characters are those of the groups of bits.                         *)
HexBitsOf(v, n, u) ==
  HexDigits(v, n, u) = [i \in 1 .. 2 * n |-> hex_alphabet(BitGroups(v, 4)[i], u)]

LEMMA HexBits ==
  ASSUME NEW n \in Nat, NEW v, OfLength(v, 0 .. 255, n), NEW u
  PROVE  HexBitsOf(v, n, u)
<1>1. 2 * n \in Nat /\ 2 * n = (8 * Len(v) + 4 - 1) \div 4
  BY DEF OfLength
<1>2. GroupsAre(v, 4, 2 * n)
  BY <1>1, BitGroupsAre
<1>3. \A j \in 1 .. 2 * n : BitGroups(v, 4)[j] = Nibble(v, j)
  <2> SUFFICES ASSUME NEW j \in 1 .. 2 * n PROVE BitGroups(v, 4)[j] = Nibble(v, j)
    OBVIOUS
  <2>1. BitGroups(v, 4)[j] = Unrolled(v, j * 4 - 1, 4 - 1)
    BY <1>2 DEF GroupsAre
  <2>2. Unrolled(v, j * 4 - 1, 3) = Nibble(v, j)
    BY NibbleBits
  <2>3. 4 - 1 = 3
    OBVIOUS
  <2> QED
    BY <2>1, <2>2, <2>3
<1> QED
  BY <1>3, Zenon DEF HexBitsOf, HexDigits

Base64BitsOf(v, n, u, pad) ==
  /\ Len(Chars(v, n, u, pad)) = encoded_length(n, pad)
  /\ Chars(v, n, u, pad) =
       [i \in DOMAIN Chars(v, n, u, pad) |->
          IF i \in DOMAIN BitGroups(v, 6) THEN base64_alphabet(BitGroups(v, 6)[i], u) ELSE Equals]

LEMMA Base64Bits ==
  ASSUME NEW n \in Nat, NEW v, OfLength(v, 0 .. 255, n), NEW u \in BOOLEAN, NEW pad \in BOOLEAN
  PROVE  Base64BitsOf(v, n, u, pad)
<1>1. PICK l \in Nat : l = Sextets(n) /\ l = (8 * Len(v) + 6 - 1) \div 6
  <2>1. Len(v) = n
    BY DEF OfLength
  <2>2. (4 * n + 2) \div 3 \in Nat /\ (4 * n + 2) \div 3 = (8 * n + 6 - 1) \div 6
    OBVIOUS
  <2> QED
    BY <2>1, <2>2 DEF Sextets
<1>2. GroupsAre(v, 6, l)
  BY <1>1, BitGroupsAre
<1>3. \A j \in 1 .. l : BitGroups(v, 6)[j] = Sextet(v, n, j)
  <2> SUFFICES ASSUME NEW j \in 1 .. l PROVE BitGroups(v, 6)[j] = Sextet(v, n, j)
    OBVIOUS
  <2>1. BitGroups(v, 6)[j] = Unrolled(v, j * 6 - 1, 6 - 1)
    BY <1>2 DEF GroupsAre
  <2>2. Unrolled(v, j * 6 - 1, 5) = Sextet(v, n, j)
    BY SextetBitsAre
  <2>3. 6 - 1 = 5
    OBVIOUS
  <2> QED
    BY <2>1, <2>2, <2>3
<1>4. DOMAIN BitGroups(v, 6) = 1 .. l
  BY <1>2, Zenon DEF GroupsAre
<1>5. OfLength(Chars(v, n, u, pad), Ink, encoded_length(n, pad))
  BY CharsType
<1>6. encoded_length(n, pad) \in Nat /\ Len(Chars(v, n, u, pad)) = encoded_length(n, pad)
  BY <1>5 DEF OfLength
<1>7. DOMAIN Chars(v, n, u, pad) = 1 .. encoded_length(n, pad)
  BY DEF Chars
<1>8. \A j \in 1 .. encoded_length(n, pad) : j <= Sextets(n) <=> j \in DOMAIN BitGroups(v, 6)
  BY <1>1, <1>4, <1>6
<1>9. \A j \in 1 .. encoded_length(n, pad) :
        (IF j <= Sextets(n) THEN base64_alphabet(Sextet(v, n, j), u) ELSE Equals)
          = (IF j \in DOMAIN BitGroups(v, 6) THEN base64_alphabet(BitGroups(v, 6)[j], u) ELSE Equals)
  BY <1>3, <1>4, <1>8
<1>10. Chars(v, n, u, pad) =
         [i \in DOMAIN Chars(v, n, u, pad) |->
            IF i \in DOMAIN BitGroups(v, 6) THEN base64_alphabet(BitGroups(v, 6)[i], u) ELSE Equals]
  BY <1>7, <1>9, Zenon DEF Chars
<1> QED
  BY <1>6, <1>10 DEF Base64BitsOf

-------------------------------------------------------------------------------
(* The codecs of the text that is being read.                              *)

(* What the decoders skip is whitespace.                                   *)
LEMMA DenseIs == ASSUME NEW s PROVE Dense(s) = compacted(s)
<1>1. Whitespace = {32, 9, 10, 11, 12, 13}
  BY DEF Whitespace
<1> QED
  BY <1>1, Zenon DEF Dense, compacted

(* Every text is short enough to be encoded: it is an object.              *)
LEMMA TextFits ==
  ASSUME IInv, Reading
  PROVE  /\ OfLength(Value, 0 .. 255, length) /\ SizeValues \in Nat
         /\ HexFits(length) /\ Base64Fits(length)
<1>1. Value \in Seq(Byte) /\ Len(Value) = length
  BY ValueOK DEF Reading, Value
<1>2. length \in Nat /\ length < MaxBlock
  BY TextBytes, SizeAssumption DEF IInv, TypeOK
<1>3. PICK m \in Nat : m = MaxBlock /\ m >= 4
  BY SizeAssumption, TextAssumption
<1>4. PICK w \in Nat : w = SizeValues /\ 2 * m < w
  BY <1>3, SizeAssumption, TextAssumption
<1>5. PICK l \in Nat : l = length /\ l < m
  BY <1>2, <1>3
<1>6. SIZE_MAX - 1 = w - 2
  BY <1>4 DEF SIZE_MAX
<1>7. l <= (w - 2) \div 2
  BY <1>3, <1>4, <1>5
<1>8. l <= ((w - 2) \div 4) * 3
  BY <1>3, <1>4, <1>5
<1> QED
  BY <1>1, <1>4, <1>5, <1>6, <1>7, <1>8, TextAssumption DEF OfLength, HexFits, Base64Fits

(* Base64 and hexadecimal text has the characters of its groups of bits,   *)
(* and the length the encoders allocate for (hex.c:37-59,                  *)
(* base64.c:58-111).                                                       *)
THEOREM BitsEncoded == TextSpec => []EncodesBits
<1>1. ASSUME IInv, Reading, NEW flag \in BOOLEAN, NEW padded \in BOOLEAN
      PROVE  /\ \A s \in LTE_hex_encode(Value, flag) :
                  s = [i \in 1 .. 2 * length |-> hex_alphabet(BitGroups(Value, 4)[i], flag)]
             /\ \A s \in LTE_base64_encode(Value, flag, padded) :
                  /\ Len(s) = encoded_length(length, padded)
                  /\ s = [i \in DOMAIN s |->
                            IF i \in DOMAIN BitGroups(Value, 6)
                            THEN base64_alphabet(BitGroups(Value, 6)[i], flag) ELSE Equals]
  <2>1. OfLength(Value, 0 .. 255, length) /\ HexFits(length) /\ Base64Fits(length)
    BY <1>1, TextFits
  <2>2. length \in Nat
    BY <2>1 DEF OfLength
  <2>3. LTE_hex_encode(Value, flag) = {HexDigits(Value, length, flag)}
    BY <2>1, <2>2, HexEncoded
  <2>4. HexBitsOf(Value, length, flag)
    BY <2>1, <2>2, HexBits
  <2>5. LTE_base64_encode(Value, flag, padded) = {Chars(Value, length, flag, padded)}
    BY <1>1, <2>1, <2>2, Base64Encoded
  <2>6. Base64BitsOf(Value, length, flag, padded)
    BY <1>1, <2>1, <2>2, Base64Bits
  <2>7. \A s \in LTE_hex_encode(Value, flag) :
          s = [i \in 1 .. 2 * length |-> hex_alphabet(BitGroups(Value, 4)[i], flag)]
    BY <2>3, <2>4, Zenon DEF HexBitsOf
  <2>8. \A s \in LTE_base64_encode(Value, flag, padded) : s = Chars(Value, length, flag, padded)
    BY <2>5
  <2> QED
    BY <2>6, <2>7, <2>8, Zenon DEF Base64BitsOf
<1>2. IInv => EncodesBits
  BY <1>1, Zenon DEF EncodesBits
<1> QED
  BY <1>2, TextInvariance, PTL

(* The hexadecimal form of a text is decoded to it, and what is decoded is *)
(* encoded to the same digits (hex.c:37-96).                               *)
LEMMA HexInverted == ASSUME IInv PROVE HexInverse
<1> SUFFICES ASSUME Reading
             PROVE  /\ \A s \in LTE_hex_encode(Value, FALSE) \cup LTE_hex_encode(Value, TRUE) :
                         LTE_hex_decode(s) = {Value}
                    /\ LTE_hex_decode(Value) = LTE_hex_decode(Dense(Value))
                    /\ \A bytes \in LTE_hex_decode(Value) :
                         LTE_hex_encode(bytes, FALSE) = {LowerCase(Dense(Value))}
  BY DEF HexInverse
<1>1. /\ OfLength(Value, 0 .. 255, length) /\ HexFits(length) /\ SizeValues \in Nat
      /\ length \in Nat /\ Value \in Seq(0 .. 255) /\ Len(Value) = length
  BY TextFits DEF OfLength
<1>2. ASSUME NEW u \in BOOLEAN, NEW s \in LTE_hex_encode(Value, u)
      PROVE  LTE_hex_decode(s) = {Value}
  <2>1. s = HexDigits(Value, length, u)
    BY <1>1, <1>2, HexEncoded
  <2> QED
    BY <1>1, <2>1, HexDecoded
<1>3. Dense(Value) = compacted(Value) /\ compacted(compacted(Value)) = compacted(Value)
  BY <1>1, DenseIs, CompactedIs, CompactedSame
<1>4. LTE_hex_decode(Value) = LTE_hex_decode(Dense(Value))
  BY <1>3, HexDecodedIs
<1>5. ASSUME NEW bytes \in LTE_hex_decode(Value)
      PROVE  LTE_hex_encode(bytes, FALSE) = {LowerCase(Dense(Value))}
  <2>1. LTE_hex_encode(bytes, FALSE) =
          {[i \in DOMAIN compacted(Value) |-> LowerByte(compacted(Value)[i])]}
    BY <1>1, <1>5, HexReencoded
  <2> QED
    BY <1>3, <2>1, Zenon DEF LowerCase, LowerByte
<1> QED
  BY <1>2, <1>4, <1>5

(* The same of base64, in both alphabets (base64.c:58-111, 113-214).       *)
LEMMA Base64Inverted == ASSUME IInv PROVE Base64Inverse
<1> SUFFICES ASSUME Reading, NEW u \in BOOLEAN, NEW padded \in BOOLEAN, NEW required \in BOOLEAN
             PROVE  /\ \A s \in LTE_base64_encode(Value, u, padded) :
                         LTE_base64_decode(s, u, required) =
                           IF required /\ ~padded /\ length % 3 # 0 THEN {} ELSE {Value}
                    /\ \A bytes \in LTE_base64_decode(Value, u, required) :
                         Dense(Value) \in LTE_base64_encode(bytes, u, TRUE)
                           \cup (IF required THEN {} ELSE LTE_base64_encode(bytes, u, FALSE))
  BY Zenon DEF Base64Inverse
<1>1. /\ OfLength(Value, 0 .. 255, length) /\ Base64Fits(length) /\ SizeValues \in Nat
      /\ length \in Nat /\ Value \in Seq(0 .. 255) /\ Len(Value) = length
  BY TextFits DEF OfLength
<1>2. ASSUME NEW s \in LTE_base64_encode(Value, u, padded)
      PROVE  LTE_base64_decode(s, u, required) =
               IF required /\ ~padded /\ length % 3 # 0 THEN {} ELSE {Value}
  <2>1. s = Chars(Value, length, u, padded)
    BY <1>1, <1>2, Base64Encoded
  <2> QED
    BY <1>1, <2>1, Base64Decoded
<1>3. ASSUME NEW bytes \in LTE_base64_decode(Value, u, required)
      PROVE  Dense(Value) \in LTE_base64_encode(bytes, u, TRUE)
               \cup (IF required THEN {} ELSE LTE_base64_encode(bytes, u, FALSE))
  <2>1. PICK s : s = compacted(Value)
    OBVIOUS
  <2>2. Dense(Value) = s /\ s \in Seq(Ink) /\ Len(s) <= length
    BY <1>1, <2>1, DenseIs, CompactedIs
  <2>3. PICK n \in Nat : \E pad \in BOOLEAN : Recovered(s, u, bytes, n, pad, required)
    BY <1>1, <1>3, <2>1, Base64Recovered
  <2>4. PICK pad \in BOOLEAN : Recovered(s, u, bytes, n, pad, required)
    BY <2>3
  <2>5. /\ OfLength(bytes, 0 .. 255, n) /\ n <= Len(s) /\ s = Chars(bytes, n, u, pad)
        /\ (required => pad)
    BY <2>4 DEF Recovered
  <2>6. n <= length
    BY <1>1, <2>2, <2>5, LenProperties
  <2>7. Base64Fits(n)
    BY <1>1, <2>6, FewerFit
  <2>8. LTE_base64_encode(bytes, u, pad) = {s}
    BY <2>5, <2>7, Base64Encoded
  <2>9. CASE pad = TRUE
    BY <2>2, <2>8, <2>9
  <2>10. CASE pad = FALSE
    BY <2>2, <2>5, <2>8, <2>10
  <2> QED
    BY <2>9, <2>10
<1> QED
  BY <1>2, <1>3

(* Decoding inverts encoding, and what is decoded is, whitespace and case  *)
(* left aside, the encoding of the result (hex.c:37-96,                    *)
(* base64.c:58-214).                                                       *)
THEOREM CodecsInvert == TextSpec => []DecodingInverts
<1>1. IInv => DecodingInverts
  BY HexInverted, Base64Inverted DEF DecodingInverts
<1> QED
  BY <1>1, TextInvariance, PTL

===============================================================================
