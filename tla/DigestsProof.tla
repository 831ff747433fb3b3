----------------------------- MODULE DigestsProof -----------------------------
(***************************************************************************)
(* A message given to a SHA-256 context in pieces is compressed block by   *)
(* block, whatever the lengths of the pieces, and its digest is computed   *)
(* from the blocks of the padded message.  An Ascon-XOF128 context absorbs *)
(* the padded message, and the pieces squeezed from it make up one stream. *)
(* For every message, every length of a block and every rate.              *)
(*                                                                         *)
(* Of SHA-256, what is buffered follows the last block compressed, and an  *)
(* update only goes on to whole blocks once the buffer is empty or nothing *)
(* is left.  The padded message and the blocks are compared place by       *)
(* place: PaddedAt is what FIPS 180-4 has at a place, and SequenceLemmas   *)
(* says what FlattenSeq puts there.  Of the sponge, what is absorbed is    *)
(* the message in parts of one rate, and what was squeezed ends inside of  *)
(* the block read after the last permutation, at buffer_offset.            *)
(***************************************************************************)
EXTENDS Sha256, AsconXof, SequenceLemmas

LEMMA MinOfTwo ==
  ASSUME NEW a \in Nat, NEW b \in Nat
  PROVE  Min({a, b}) \in {a, b} /\ Min({a, b}) <= a /\ Min({a, b}) <= b
<1>1. \E x \in {a, b} : \A y \in {a, b} : x <= y
  OBVIOUS
<1> QED
  BY <1>1 DEF Min

-------------------------------------------------------------------------------
(* SHA-256.                                                                *)
Active == pc \in {"ready", "fill", "blocks"}

Sizes ==
  /\ pc \in {"none", "ready", "fill", "blocks", "digest"}
  /\ buffer_length \in 0 .. BlockLength - 1
  /\ bytes \in Nat /\ length \in Nat /\ total_length \in Nat /\ total_length <= Len(input)
  /\ Active => Len(state) \in Nat
  /\ pc = "ready" => length = 0
  /\ pc = "fill" => buffer_length > 0
  /\ pc = "blocks" => buffer_length = 0 \/ length = 0

ShaInv == Sizes /\ NothingLost

LEMMA Constants ==
  BlockLength \in Nat /\ BlockLength > 1 /\ Len(input) \in Nat
  BY BlockAssumption, InputAssumption, LenProperties

(* The next n bytes of the message, and the next block.                    *)
LEMMA NextBytes ==
  ASSUME ShaInv, Active, NEW n \in Nat, n <= length
  PROVE  /\ Bytes(n) \in Seq(Byte) /\ Len(Bytes(n)) = n
         /\ \A i \in 1 .. n : Bytes(n)[i] = input[bytes + i]
<1>1. bytes \in Nat /\ bytes + n <= Len(input) /\ Len(input) \in Nat
  BY Constants DEF ShaInv, Sizes, NothingLost, Active
<1>2. input \in Seq(Byte)
  BY InputAssumption
<1> QED
  BY <1>1, <1>2 DEF Bytes

LEMMA BlockFacts ==
  ASSUME NEW n \in Nat, NEW k \in Nat, k = (n + 1) * BlockLength, k <= Len(input)
  PROVE  /\ n * BlockLength \in Nat /\ k = n * BlockLength + BlockLength
         /\ Block(n + 1) = SubSeq(input, n * BlockLength + 1, n * BlockLength + BlockLength)
         /\ Block(n + 1) \in Seq(Byte) /\ Len(Block(n + 1)) = BlockLength
         /\ \A i \in 1 .. BlockLength : Block(n + 1)[i] = input[n * BlockLength + i]
<1>1. n * BlockLength \in Nat /\ (n + 1) * BlockLength = n * BlockLength + BlockLength
      /\ ((n + 1) - 1) * BlockLength = n * BlockLength
  BY Constants
<1>2. Block(n + 1) = SubSeq(input, n * BlockLength + 1, n * BlockLength + BlockLength)
  BY <1>1 DEF Block
<1>3. PICK m \in Nat : m = n * BlockLength
  BY <1>1
<1>4. input \in Seq(Byte) /\ m + BlockLength <= Len(input)
  BY <1>1, <1>3, InputAssumption
<1>5. /\ SubSeq(input, m + 1, m + BlockLength) \in Seq(Byte)
      /\ Len(SubSeq(input, m + 1, m + BlockLength)) = BlockLength
      /\ \A i \in 1 .. BlockLength : SubSeq(input, m + 1, m + BlockLength)[i] = input[m + i]
  BY <1>4, Constants
<1> QED
  BY <1>1, <1>2, <1>3, <1>5

(* A block compressed next continues the blocks of the message.            *)
LEMMA Compressed ==
  ASSUME NEW n \in Nat, state = [b \in 1 .. n |-> Block(b)]
  PROVE  /\ sha256_compress(state, Block(n + 1)) = [b \in 1 .. n + 1 |-> Block(b)]
         /\ Len(state) = n /\ Len([b \in 1 .. n + 1 |-> Block(b)]) = n + 1
<1> DEFINE S == {Block(b) : b \in Nat}
           next == [b \in 1 .. n + 1 |-> Block(b)]
<1>1. state \in Seq(S) /\ Len(state) = n /\ \A b \in 1 .. n : state[b] = Block(b)
  OBVIOUS
<1>2. next \in Seq(S) /\ Len(next) = n + 1 /\ \A b \in 1 .. n + 1 : next[b] = Block(b)
  <2>1. PICK m \in Nat : m = n + 1
    OBVIOUS
  <2>2. \A b \in 1 .. m : Block(b) \in S
    OBVIOUS
  <2> HIDE DEF S
  <2>3. next = [b \in 1 .. m |-> Block(b)]
    BY <2>1
  <2>4. [b \in 1 .. m |-> Block(b)] \in Seq(S) /\ Len([b \in 1 .. m |-> Block(b)]) = m
    BY <2>2
  <2> QED
    BY <2>1, <2>3, <2>4
<1>3. Block(n + 1) \in S
  OBVIOUS
<1> HIDE DEF S, next
<1>4. Append(state, Block(n + 1)) \in Seq(S) /\ Len(Append(state, Block(n + 1))) = n + 1
      /\ \A b \in 1 .. n + 1 :
           Append(state, Block(n + 1))[b] = IF b <= n THEN state[b] ELSE Block(n + 1)
  BY <1>1, <1>3, AppendProperties
<1>5. \A b \in 1 .. n + 1 : Append(state, Block(n + 1))[b] = next[b]
  <2> SUFFICES ASSUME NEW b \in 1 .. n + 1
               PROVE  Append(state, Block(n + 1))[b] = next[b]
    OBVIOUS
  <2>1. CASE b <= n
    BY <1>1, <1>2, <1>4, <2>1
  <2>2. CASE b = n + 1
    BY <1>2, <1>4, <2>2
  <2> QED
    BY <2>1, <2>2
<1>6. Append(state, Block(n + 1)) = next
  BY <1>2, <1>4, <1>5, SeqEqual
<1> QED
  BY <1>1, <1>2, <1>6 DEF sha256_compress, next

LEMMA ShaInitInv == Init => ShaInv
  BY Constants DEF Init, ShaInv, Sizes, NothingLost, Active

LEMMA ShaRestart == ASSUME ShaInv, LTE_SHA256_init PROVE ShaInv'
<1>1. pc' = "ready" /\ state' = <<>> /\ buffer_length' = 0 /\ total_length' = 0
      /\ bytes' = 0 /\ length' = 0
  BY DEF LTE_SHA256_init
<1>2. Sizes'
  BY <1>1, Constants DEF Sizes, Active
<1>3. Len(state') = 0 /\ state' = [b \in 1 .. 0 |-> Block(b)]
  BY <1>1
<1>4. NothingLost'
  BY <1>1, <1>3, Constants DEF NothingLost, Block
<1> QED
  BY <1>2, <1>4 DEF ShaInv

LEMMA ShaUpdate == ASSUME ShaInv, NEW n \in 0 .. Len(input), LTE_SHA256_update(n) PROVE ShaInv'
<1>1. /\ pc = "ready" /\ total_length + n <= Len(input)
      /\ total_length' = total_length + n /\ length' = n
      /\ pc' = IF buffer_length > 0 THEN "fill" ELSE "blocks"
      /\ UNCHANGED <<state, buffer, buffer_length, bytes>>
  BY DEF LTE_SHA256_update
<1>2. n \in Nat /\ BlockLength \in Nat
  BY Constants
<1>3. Sizes'
  BY <1>1, <1>2, Constants DEF ShaInv, Sizes, Active
<1>4. NothingLost'
  BY <1>1, <1>2, SMTT(30) DEF ShaInv, Sizes, NothingLost, Block
<1> QED
  BY <1>3, <1>4 DEF ShaInv

LEMMA ShaWholeBlock == ASSUME ShaInv, WholeBlock PROVE ShaInv'
<1>1. /\ pc = "blocks" /\ length >= BlockLength
      /\ state' = sha256_compress(state, Bytes(BlockLength))
      /\ bytes' = bytes + BlockLength /\ length' = length - BlockLength
      /\ UNCHANGED <<buffer, buffer_length, total_length, pc>>
  BY DEF WholeBlock
<1>2. PICK n \in Nat : n = Len(state)
  BY <1>1 DEF ShaInv, Sizes, Active
<1>3. buffer_length = 0 /\ bytes \in Nat /\ length \in Nat /\ total_length \in Nat
      /\ total_length <= Len(input)
  BY <1>1, Constants DEF ShaInv, Sizes
<1>4. state = [b \in 1 .. n |-> Block(b)] /\ bytes = n * BlockLength
      /\ total_length = bytes + length
  <2>1. /\ state = [b \in 1 .. Len(state) |-> Block(b)]
        /\ bytes = Len(state) * BlockLength + buffer_length
        /\ total_length = bytes + length
    BY <1>1 DEF ShaInv, NothingLost
  <2> QED
    BY <1>2, <1>3, <2>1, Constants
<1>5. PICK k \in Nat : k = (n + 1) * BlockLength
  BY Constants
<1>6. k = n * BlockLength + BlockLength
  BY <1>5, Constants
<1>7. k <= Len(input)
  BY <1>1, <1>3, <1>4, <1>6, Constants
<1>8. Bytes(BlockLength) = Block(n + 1)
  BY <1>4, <1>5, <1>7, BlockFacts DEF Bytes
<1>9. state' = [b \in 1 .. n + 1 |-> Block(b)] /\ Len(state') = n + 1
  BY <1>1, <1>4, <1>8, Compressed
<1>10. bytes' = (n + 1) * BlockLength
  BY <1>1, <1>4, <1>5, <1>6
<1>11. Sizes'
  BY <1>1, <1>3, <1>9, Constants DEF ShaInv, Sizes, Active
<1>12. bytes' = (n + 1) * BlockLength + buffer_length' /\ total_length' = bytes' + length'
  BY <1>1, <1>3, <1>4, <1>5, <1>10, Constants
<1>13. state' = [b \in 1 .. Len(state') |-> Block(b)]
  BY <1>9
<1>14. 1 .. buffer_length' = {}
  BY <1>1, <1>3
<1>15. NothingLost'
  BY <1>9, <1>12, <1>13, <1>14 DEF NothingLost, Block
<1> QED
  BY <1>11, <1>15 DEF ShaInv

(* What completes a block goes behind what is buffered.                    *)
LEMMA ShaFill == ASSUME ShaInv, Fill PROVE ShaInv'
<1> DEFINE chunk == Min({length, BlockLength - buffer_length})
           full == Complete(buffer_length + chunk)
           filled == Overwrite(buffer, buffer_length, Bytes(chunk))
<1>1. /\ pc = "fill" /\ pc' = "blocks" /\ buffer' = filled
      /\ state' = IF full THEN sha256_compress(state, buffer') ELSE state
      /\ buffer_length' = IF full THEN 0 ELSE buffer_length + chunk
      /\ bytes' = bytes + chunk /\ length' = length - chunk
      /\ total_length' = total_length
  BY DEF Fill
<1>2. PICK n \in Nat : n = Len(state)
  BY <1>1 DEF ShaInv, Sizes, Active
<1>3. /\ buffer_length \in 1 .. BlockLength - 1 /\ bytes \in Nat /\ length \in Nat
      /\ total_length \in Nat /\ total_length <= Len(input) /\ Len(input) \in Nat
      /\ BlockLength \in Nat
  BY <1>1, Constants DEF ShaInv, Sizes
<1>4. /\ state = [b \in 1 .. n |-> Block(b)] /\ bytes = n * BlockLength + buffer_length
      /\ total_length = bytes + length
      /\ \A i \in 1 .. buffer_length : buffer[i] = input[n * BlockLength + i]
  BY <1>1, <1>2 DEF ShaInv, NothingLost
<1>5. PICK m \in Nat : m = n * BlockLength
  BY <1>3
<1>6. /\ chunk \in Nat /\ chunk <= length /\ chunk <= BlockLength - buffer_length
      /\ (chunk = length \/ chunk = BlockLength - buffer_length)
  BY <1>3, MinOfTwo
<1>7. PICK c \in Nat : c = chunk
  BY <1>6
<1>8. Bytes(c) \in Seq(Byte) /\ Len(Bytes(c)) = c
      /\ \A i \in 1 .. c : Bytes(c)[i] = input[bytes + i]
  BY <1>1, <1>6, <1>7, NextBytes DEF Active
<1>9. filled = [i \in 1 .. BlockLength |->
                  IF i \in buffer_length + 1 .. buffer_length + c
                  THEN Bytes(c)[i - buffer_length] ELSE buffer[i]]
  BY <1>7, <1>8 DEF Overwrite
<1> HIDE DEF chunk
<1>10. ASSUME NEW i \in 1 .. buffer_length + c PROVE filled[i] = input[m + i]
  <2>1. i \in 1 .. BlockLength
    BY <1>3, <1>6, <1>7
  <2>2. filled[i] = IF i \in buffer_length + 1 .. buffer_length + c
                    THEN Bytes(c)[i - buffer_length] ELSE buffer[i]
    BY <1>9, <2>1
  <2>3. CASE i <= buffer_length
    BY <1>3, <1>4, <1>5, <2>2, <2>3
  <2>4. CASE i > buffer_length
    <3>1. i - buffer_length \in 1 .. c /\ bytes + (i - buffer_length) = m + i
          /\ i \in buffer_length + 1 .. buffer_length + c
      BY <1>3, <1>4, <1>5, <2>4
    <3>2. filled[i] = Bytes(c)[i - buffer_length]
      BY <2>2, <3>1
    <3>3. Bytes(c)[i - buffer_length] = input[bytes + (i - buffer_length)]
      BY <1>8, <3>1
    <3> QED
      BY <3>1, <3>2, <3>3
  <2> QED
    BY <1>3, <2>3, <2>4
<1> HIDE DEF filled
<1>11. CASE buffer_length + c = BlockLength
  <2>1. full
    BY <1>7, <1>11 DEF Complete
  <2>2. PICK k \in Nat : k = (n + 1) * BlockLength
    BY <1>3
  <2>3. k = m + BlockLength
    BY <1>3, <1>5, <2>2
  <2>4. k <= Len(input)
    BY <1>3, <1>4, <1>5, <1>6, <1>7, <1>11, <2>3
  <2>5. Block(n + 1) \in Seq(Byte) /\ Len(Block(n + 1)) = BlockLength
        /\ \A i \in 1 .. BlockLength : Block(n + 1)[i] = input[m + i]
    BY <1>5, <2>2, <2>4, BlockFacts
  <2>6. filled = Block(n + 1)
    <3>1. filled = [i \in 1 .. BlockLength |-> filled[i]]
      BY <1>9
    <3>2. \A i \in 1 .. BlockLength : filled[i] = Block(n + 1)[i] /\ filled[i] \in Byte
      BY <1>10, <1>11, <2>5, ElementOfSeq
    <3>3. filled \in Seq(Byte) /\ Len(filled) = BlockLength
      BY <1>3, <3>1, <3>2, SMTT(30)
    <3> QED
      BY <2>5, <3>2, <3>3, SeqEqual
  <2>7. state' = [b \in 1 .. n + 1 |-> Block(b)] /\ Len(state') = n + 1
    BY <1>1, <1>4, <2>1, <2>6, Compressed
  <2>8. buffer_length' = 0 /\ bytes' = (n + 1) * BlockLength
    BY <1>1, <1>3, <1>4, <1>5, <1>7, <1>11, <2>1, <2>2, <2>3
  <2>9. Sizes'
    BY <1>1, <1>3, <1>6, <1>7, <2>7, <2>8 DEF Sizes, Active
  <2>10. NothingLost'
    <3>1. bytes' = (n + 1) * BlockLength + buffer_length' /\ total_length' = bytes' + length'
      <4>1. bytes' = (n + 1) * BlockLength + 0
        BY <1>3, <2>2, <2>8
      <4>2. total_length' = bytes' + length'
        BY <1>1, <1>3, <1>4, <1>6, SMTT(30)
      <4> QED
        BY <2>8, <4>1, <4>2
    <3>2. 1 .. buffer_length' = {}
      BY <2>8
    <3> QED
      BY <2>7, <3>1, <3>2 DEF NothingLost, Block
  <2> QED
    BY <2>9, <2>10 DEF ShaInv
<1>12. CASE buffer_length + c # BlockLength
  <2>1. ~full
    BY <1>7, <1>12 DEF Complete
  <2>2. c = length /\ buffer_length + c < BlockLength
    BY <1>3, <1>6, <1>7, <1>12
  <2>3. state' = state /\ buffer_length' = buffer_length + c /\ bytes' = bytes + c
        /\ length' = 0
    BY <1>1, <1>3, <1>7, <2>1, <2>2
  <2>4. Sizes'
    BY <1>1, <1>2, <1>3, <2>2, <2>3, SMTT(30) DEF Sizes, Active
  <2>5. NothingLost'
    <3>1. bytes' = n * BlockLength + buffer_length' /\ total_length' = bytes' + length'
      <4>1. bytes' = m + (buffer_length + c) /\ total_length = (bytes + c) + 0
        BY <1>3, <1>4, <1>5, <2>2, <2>3
      <4> QED
        BY <1>1, <1>5, <2>3, <4>1
    <3>2. \A i \in 1 .. buffer_length' : buffer'[i] = input[n * BlockLength + i]
      BY <1>1, <1>5, <1>10, <2>3
    <3>3. state' = [b \in 1 .. Len(state') |-> Block(b)] /\ Len(state') = n
      BY <1>2, <1>4, <2>3
    <3> QED
      BY <3>1, <3>2, <3>3 DEF NothingLost, Block
  <2> QED
    BY <2>4, <2>5 DEF ShaInv
<1> QED
  BY <1>11, <1>12

(* What is left of an update goes to the empty buffer.                     *)
LEMMA ShaRest == ASSUME ShaInv, Rest PROVE ShaInv'
<1>1. /\ pc = "blocks" /\ length < BlockLength /\ pc' = "ready"
      /\ bytes' = bytes + length /\ length' = 0 /\ UNCHANGED <<state, total_length>>
  BY DEF Rest
<1>2. PICK n \in Nat : n = Len(state)
  BY <1>1 DEF ShaInv, Sizes, Active
<1>3. /\ buffer_length \in 0 .. BlockLength - 1 /\ bytes \in Nat /\ length \in Nat
      /\ total_length \in Nat /\ total_length <= Len(input) /\ BlockLength \in Nat
      /\ (buffer_length = 0 \/ length = 0)
  BY <1>1, Constants DEF ShaInv, Sizes
<1>4. /\ state = [b \in 1 .. n |-> Block(b)] /\ bytes = n * BlockLength + buffer_length
      /\ total_length = bytes + length
      /\ \A i \in 1 .. buffer_length : buffer[i] = input[n * BlockLength + i]
  BY <1>1, <1>2 DEF ShaInv, NothingLost
<1>5. PICK m \in Nat : m = n * BlockLength
  BY <1>3
<1>6. buffer_length' = buffer_length + length
  BY <1>1, <1>3 DEF Rest
<1>7. ASSUME NEW i \in 1 .. buffer_length' PROVE buffer'[i] = input[m + i]
  <2>1. CASE length = 0
    <3>1. buffer' = buffer
      BY <1>3, <2>1 DEF Rest
    <3>2. i \in 1 .. buffer_length
      BY <1>3, <1>6, <2>1
    <3> QED
      BY <1>4, <1>5, <3>1, <3>2
  <2>2. CASE length > 0
    <3>1. buffer' = Overwrite(buffer, 0, Bytes(length)) /\ buffer_length = 0
      BY <1>3, <2>2 DEF Rest
    <3>2. PICK l \in Nat : l = length
      BY <1>3
    <3>3. Len(Bytes(length)) = l /\ \A j \in 1 .. l : Bytes(length)[j] = input[bytes + j]
      BY <1>1, <1>3, <3>2, NextBytes DEF Active
    <3>4. i \in 1 .. BlockLength /\ i \in 0 + 1 .. 0 + l /\ i - 0 = i /\ i \in 1 .. l
      BY <1>1, <1>3, <1>6, <3>1, <3>2
    <3>5. buffer'[i] = IF i \in 0 + 1 .. 0 + Len(Bytes(length))
                       THEN Bytes(length)[i - 0] ELSE buffer[i]
      BY <3>1, <3>4, Zenon DEF Overwrite
    <3>6. buffer'[i] = Bytes(length)[i]
      BY <3>3, <3>4, <3>5
    <3>7. m = bytes
      BY <1>3, <1>4, <1>5, <3>1
    <3> QED
      BY <3>3, <3>4, <3>6, <3>7
  <2> QED
    BY <1>3, <2>1, <2>2
<1>8. Sizes'
  BY <1>1, <1>2, <1>3, <1>6 DEF ShaInv, Sizes, Active
<1>9. NothingLost'
  <2>1. bytes' = n * BlockLength + buffer_length' /\ total_length' = bytes' + length'
    BY <1>1, <1>3, <1>4, <1>5, <1>6
  <2>2. state' = [b \in 1 .. Len(state') |-> Block(b)] /\ Len(state') = n
    BY <1>1, <1>2, <1>4
  <2> QED
    BY <1>5, <1>7, <2>1, <2>2 DEF NothingLost, Block
<1> QED
  BY <1>8, <1>9 DEF ShaInv

LEMMA ShaFinish == ASSUME ShaInv, LTE_SHA256_finish PROVE ShaInv'
<1>1. pc' = "digest" /\ buffer_length' = 0 /\ UNCHANGED <<total_length, bytes, length>>
  BY DEF LTE_SHA256_finish
<1> QED
  BY <1>1, Constants DEF ShaInv, Sizes, NothingLost, Active

LEMMA ShaNext == ShaInv /\ [Next]_vars => ShaInv'
<1> SUFFICES ASSUME ShaInv, [Next]_vars PROVE ShaInv'
  OBVIOUS
<1>1. CASE UNCHANGED vars
  BY <1>1 DEF vars, sha256, ShaInv, Sizes, NothingLost, Active, Block
<1> QED
  BY <1>1, ShaRestart, ShaUpdate, ShaFill, ShaWholeBlock, ShaRest, ShaFinish DEF Next, Updating

(* Between the steps of an update every byte given so far is compressed,   *)
(* buffered or yet to come, once and in order (sha256.c:127-155).          *)
THEOREM EveryByteOnce == Spec => []NothingLost
<1>1. Init => ShaInv
  BY ShaInitInv
<1>2. ShaInv /\ [Next]_vars => ShaInv'
  BY ShaNext
<1>3. ShaInv => NothingLost
  BY DEF ShaInv
<1> QED
  BY <1>1, <1>2, <1>3, PTL DEF Spec

(* The message of t bytes, the one bit, z zeros and the length, by place.  *)
LengthWord(t) == store_be64(8 * t)
Element(t) == Byte \union {LengthWord(t)[i] : i \in 1 .. LengthBytes}
PaddedAt(t, z, j) ==
  IF j <= t THEN input[j] ELSE IF j = t + 1 THEN \h80
  ELSE IF j <= t + 1 + z THEN 0 ELSE LengthWord(t)[j - (t + 1 + z)]

LEMMA WordLength == ASSUME NEW t \in Nat PROVE OfLength(LengthWord(t), Element(t), LengthBytes)
<1>1. LengthBytes \in Nat
  BY BlockAssumption
<1> DEFINE e(i) == ((8 * t) \div 256 ^ (LengthBytes - i)) % 256
           f == [i \in 1 .. LengthBytes |-> e(i)]
<1>2. LengthWord(t) = f
  BY DEF LengthWord, store_be64
<1> HIDE DEF e
<1>3. \A i \in 1 .. LengthBytes : f[i] \in Element(t)
  BY <1>2 DEF Element
<1>4. f \in Seq(Element(t)) /\ Len(f) = LengthBytes
  BY <1>1, <1>3
<1> QED
  BY <1>1, <1>2, <1>4 DEF OfLength

(* Only one number of zeros fills the last block.                          *)
LEMMA ZerosUnique ==
  ASSUME NEW t \in Nat, NEW z \in 0 .. BlockLength - 1, NEW k \in Nat,
         t + 1 + z + LengthBytes = k * BlockLength
  PROVE  z = CHOOSE c \in 0 .. BlockLength - 1 : (t + 1 + c + LengthBytes) % BlockLength = 0
<1>1. BlockLength \in Nat /\ BlockLength > 1 /\ LengthBytes \in Nat /\ z \in Nat
  BY Constants, BlockAssumption
<1>2. (t + 1 + z + LengthBytes) % BlockLength = 0
  <2>1. (k * BlockLength) % BlockLength = 0
    <3>1. BlockLength \in Nat \ {0}
      BY <1>1
    <3> QED
      BY <3>1, TimesMod
  <2> QED
    BY <2>1
<1>3. ASSUME NEW c \in 0 .. BlockLength - 1, (t + 1 + c + LengthBytes) % BlockLength = 0
      PROVE  c = z
  <2>1. c \in Nat /\ t + 1 + c + LengthBytes \in Nat
    BY <1>1
  <2>2. PICK n \in Nat : n = t + 1 + c + LengthBytes
    BY <2>1
  <2>3. PICK a \in Nat : a * BlockLength = n
    <3>1. n % BlockLength = 0
      BY <1>3, <2>2
    <3>2. BlockLength \in Nat \ {0}
      BY <1>1
    <3> QED
      BY <3>1, <3>2, ModZero
  <2>4. CASE a = k
    BY <1>1, <2>1, <2>2, <2>3, <2>4
  <2>5. CASE a > k
    <3>1. PICK d \in Nat : a = k + 1 + d
      <4>1. a - k - 1 \in Nat /\ a = k + 1 + (a - k - 1)
        BY <2>5
      <4> QED
        BY <4>1
    <3>2. a * BlockLength = k * BlockLength + BlockLength + d * BlockLength
          /\ d * BlockLength \in Nat
      BY <1>1, <3>1
    <3> QED
      BY <1>1, <2>2, <2>3, <3>2
  <2>6. CASE a < k
    <3>1. PICK d \in Nat : k = a + 1 + d
      <4>1. k - a - 1 \in Nat /\ k = a + 1 + (k - a - 1)
        BY <2>6
      <4> QED
        BY <4>1
    <3>2. k * BlockLength = a * BlockLength + BlockLength + d * BlockLength
          /\ d * BlockLength \in Nat
      BY <1>1, <3>1
    <3> QED
      BY <1>1, <2>2, <2>3, <3>2
  <2> QED
    BY <2>4, <2>5, <2>6
<1> QED
  BY <1>2, <1>3

LEMMA PaddedPlaces ==
  ASSUME NEW t \in Nat, t <= Len(input), NEW z \in 0 .. BlockLength - 1, NEW k \in Nat,
         t + 1 + z + LengthBytes = k * BlockLength
  PROVE  /\ OfLength(Padded(SubSeq(input, 1, t)), Element(t), t + 1 + z + LengthBytes)
         /\ \A j \in 1 .. t + 1 + z + LengthBytes :
              Padded(SubSeq(input, 1, t))[j] = PaddedAt(t, z, j)
<1> DEFINE T == Element(t)
           upto == SubSeq(input, 1, t)
           one == <<\h80>>
           marked == upto \o one
           zeros == Zeros(z)
           filled == marked \o zeros
           whole == filled \o LengthWord(t)
<1>1. LengthBytes \in Nat /\ z \in Nat /\ Byte \subseteq T
  BY BlockAssumption, Constants DEF Element
<1>2. OfLength(upto, T, t) /\ \A i \in 1 .. t : upto[i] = input[i]
  <2>1. PICK l \in Nat : l = Len(input)
    BY Constants
  <2>2. input \in Seq(T)
    <3>1. \A i \in 1 .. l : input[i] \in T
      BY <1>1, <2>1, InputAssumption, ElementOfSeq
    <3>2. input = [i \in 1 .. l |-> input[i]]
      BY <2>1, InputAssumption
    <3> HIDE DEF T
    <3>3. [i \in 1 .. l |-> input[i]] \in Seq(T)
      BY <3>1
    <3> QED
      BY <3>2, <3>3, Zenon
  <2>3. OfLength(input, T, l) /\ t \in 0 .. l - 0
    BY <2>1, <2>2 DEF OfLength
  <2>4. OfLength(SubSeq(input, 0 + 1, 0 + t), T, t) /\ PieceOf(SubSeq(input, 0 + 1, 0 + t), input, 0, t)
    BY <2>3, PieceAt
  <2>5. 0 + 1 = 1 /\ 0 + t = t /\ \A i \in 1 .. t : 0 + i = i
    OBVIOUS
  <2> QED
    BY <2>4, <2>5 DEF PieceOf
<1>3. OfLength(one, T, 1) /\ one[1] = \h80
  <2>1. \h80 \in T
    BY <1>1 DEF Byte
  <2> HIDE DEF T
  <2> QED
    BY <2>1 DEF OfLength
<1>4. OfLength(zeros, T, z) /\ \A i \in 1 .. z : zeros[i] = 0
  <2>1. 0 \in T
    BY <1>1 DEF Byte
  <2> HIDE DEF T
  <2> QED
    BY <1>1, <2>1 DEF OfLength, Zeros
<1>5. OfLength(LengthWord(t), T, LengthBytes)
  BY WordLength
<1> HIDE DEF T, upto, one, zeros
<1>6. OfLength(marked, T, t + 1) /\ Joined(marked, upto, t, one, 1)
  <2>1. OfLength(upto, T, t) /\ OfLength(one, T, 1)
    BY <1>2, <1>3
  <2> QED
    BY <2>1, ConcatAt
<1>7. OfLength(filled, T, (t + 1) + z) /\ Joined(filled, marked, t + 1, zeros, z)
  BY <1>4, <1>6, ConcatAt
<1>8. OfLength(whole, T, ((t + 1) + z) + LengthBytes)
      /\ Joined(whole, filled, (t + 1) + z, LengthWord(t), LengthBytes)
  BY <1>5, <1>7, ConcatAt
<1>9. Padded(SubSeq(input, 1, t)) = whole
  <2>1. Len(upto) = t
    BY <1>2 DEF OfLength
  <2>2. z = CHOOSE c \in 0 .. BlockLength - 1 : (t + 1 + c + LengthBytes) % BlockLength = 0
    BY ZerosUnique
  <2>3. Padded(upto) = whole
    BY <2>1, <2>2, Zenon DEF Padded, LengthWord, one, zeros
  <2> QED
    BY <2>3 DEF upto
<1> HIDE DEF marked, filled, whole
<1>10. ASSUME NEW j \in 1 .. t + 1 + z + LengthBytes
       PROVE  whole[j] = PaddedAt(t, z, j)
  <2> USE DEF Joined
  <2>1. CASE j <= t
    <3>1. j \in 1 .. t /\ j \in 1 .. t + 1 /\ j \in 1 .. (t + 1) + z
      BY <1>1, <2>1
    <3> QED
      BY <1>2, <1>6, <1>7, <1>8, <2>1, <3>1 DEF PaddedAt
  <2>2. CASE j = t + 1
    <3>1. 1 \in 1 .. 1 /\ j \in 1 .. t + 1 /\ j \in 1 .. (t + 1) + z /\ ~(j <= t)
      BY <1>1, <2>2
    <3>2. whole[t + 1] = one[1]
      BY <1>6, <1>7, <1>8, <2>2, <3>1
    <3> QED
      BY <1>3, <2>2, <3>1, <3>2 DEF PaddedAt
  <2>3. CASE j > t + 1 /\ j <= t + 1 + z
    <3>1. PICK i \in 1 .. z : j = (t + 1) + i
      <4>1. j - (t + 1) \in 1 .. z /\ j = (t + 1) + (j - (t + 1))
        BY <1>1, <2>3
      <4> QED
        BY <4>1
    <3>2. j \in 1 .. (t + 1) + z
      BY <1>1, <2>3
    <3>3. whole[j] = 0
      BY <1>4, <1>7, <1>8, <3>1, <3>2
    <3>4. ~(j <= t) /\ j # t + 1
      BY <2>3
    <3> QED
      BY <2>3, <3>3, <3>4 DEF PaddedAt
  <2>4. CASE j > t + 1 + z
    <3>1. PICK i \in 1 .. LengthBytes : j = ((t + 1) + z) + i /\ i = j - (t + 1 + z)
      <4>1. j - (t + 1 + z) \in 1 .. LengthBytes /\ j = ((t + 1) + z) + (j - (t + 1 + z))
        BY <1>1, <2>4
      <4> QED
        BY <4>1
    <3>2. whole[j] = LengthWord(t)[i]
      BY <1>8, <3>1
    <3>3. ~(j <= t) /\ j # t + 1 /\ ~(j <= t + 1 + z)
      BY <1>1, <2>4
    <3> QED
      BY <3>1, <3>2, <3>3 DEF PaddedAt
  <2> QED
    BY <1>1, <2>1, <2>2, <2>3, <2>4
<1>11. (t + 1) + z + LengthBytes = t + 1 + z + LengthBytes
  BY <1>1
<1> QED
  BY <1>8, <1>9, <1>10, <1>11 DEF T

(* Blocks that have the padded message at their places are its blocks.     *)
PaddedUpto(s, k, t, z) ==
  /\ s \in Seq(Seq(Element(t))) /\ Len(s) = k
  /\ \A b \in 1 .. k : Len(s[b]) = BlockLength
                       /\ \A r \in 1 .. BlockLength :
                            s[b][r] = PaddedAt(t, z, (b - 1) * BlockLength + r)
LEMMA PaddedBlocks ==
  ASSUME NEW t \in Nat, t <= Len(input), NEW z \in 0 .. BlockLength - 1, NEW k \in Nat,
         t + 1 + z + LengthBytes = k * BlockLength,
         NEW s, PaddedUpto(s, k, t, z)
  PROVE  FlattenSeq(s) = Padded(SubSeq(input, 1, t))
<1> USE DEF PaddedUpto
<1> DEFINE whole == Padded(SubSeq(input, 1, t))
<1>1. OfLength(whole, Element(t), t + 1 + z + LengthBytes)
      /\ \A j \in 1 .. t + 1 + z + LengthBytes : whole[j] = PaddedAt(t, z, j)
  BY PaddedPlaces
<1> HIDE DEF whole
<1>2. BlockLength \in Nat /\ BlockLength \in Nat \ {0} /\ LengthBytes \in Nat /\ z \in Nat
  BY Constants, BlockAssumption
<1>3. k > 0
  BY <1>2
<1>4. PICK j \in Nat : k = j + 1
  <2>1. k - 1 \in Nat /\ k = (k - 1) + 1
    BY <1>3
  <2> QED
    BY <2>1
<1>5. PICK m \in Nat : m = k * BlockLength
  BY <1>2
<1>6. (k - 1) * BlockLength + BlockLength = m
  BY <1>2, <1>4, <1>5
<1>7. whole \in Seq(Element(t)) /\ Len(whole) = m /\ \A i \in 1 .. m : whole[i] = PaddedAt(t, z, i)
  BY <1>1, <1>5 DEF OfLength
<1>8. ASSUME NEW b \in 1 .. k, NEW r \in 1 .. BlockLength
      PROVE  whole[(b - 1) * BlockLength + r] = s[b][r]
  <2>1. PICK d \in Nat : d = k - b
    OBVIOUS
  <2>2. PICK c \in Nat : c = (b - 1) * BlockLength
    BY <1>2
  <2>3. b + d = k /\ b * BlockLength + d * BlockLength = (b + d) * BlockLength
        /\ d * BlockLength \in Nat /\ b * BlockLength = c + BlockLength
    BY <1>2, <2>1, <2>2
  <2>4. c + r \in 1 .. m
    <3>1. PICK e \in Nat : e = d * BlockLength
      BY <2>3
    <3>2. (c + BlockLength) + e = m
      BY <1>5, <2>3, <3>1
    <3> QED
      BY <1>2, <3>2
  <2> QED
    BY <1>7, <2>2, <2>4
<1>9. k \in 1 .. k /\ Len(s[k]) = BlockLength
  BY <1>3
<1>10. Parts(s, BlockLength, k)
  BY <1>3 DEF Parts
<1>11. Joins(whole, s, BlockLength, k)
  <2>1. Len(whole) = (k - 1) * BlockLength + Len(s[k])
    BY <1>6, <1>7, <1>9
  <2>2. \A b \in 1 .. k : \A r \in 1 .. Len(s[b]) : whole[(b - 1) * BlockLength + r] = s[b][r]
    BY <1>8
  <2> QED
    BY <2>1, <2>2, Zenon DEF Joins
<1>12. Len(s[k]) <= BlockLength
  BY <1>2, <1>9
<1>13. FlattenSeq(s) = whole
  BY <1>2, <1>7, <1>10, <1>11, <1>12, FlattenIs
<1> QED
  BY <1>13 DEF whole

IsBlock(block) == block = [r \in 1 .. BlockLength |-> block[r]]
LEMMA BlockIsSeq ==
  ASSUME NEW T, NEW block, IsBlock(block), \A r \in 1 .. BlockLength : block[r] \in T
  PROVE  block \in Seq(T) /\ Len(block) = BlockLength
<1>1. BlockLength \in Nat
  BY Constants
<1> DEFINE f == [r \in 1 .. BlockLength |-> block[r]]
<1>2. f \in Seq(T) /\ Len(f) = BlockLength
  BY <1>1
<1> HIDE DEF f
<1>3. block = f
  BY Zenon DEF IsBlock, f
<1> QED
  BY <1>2, <1>3

LEMMA AnotherBlock ==
  ASSUME NEW t \in Nat, t <= Len(input), NEW z \in 0 .. BlockLength - 1, NEW n \in Nat,
         t + 1 + z + LengthBytes = n * BlockLength,
         NEW k \in Nat, k < n, NEW s, PaddedUpto(s, k, t, z), NEW c \in Nat, c = k * BlockLength,
         NEW block, IsBlock(block),
         \A r \in 1 .. BlockLength : block[r] = PaddedAt(t, z, c + r)
  PROVE  PaddedUpto(Append(s, block), k + 1, t, z)
<1> DEFINE T == Element(t)
           whole == Padded(SubSeq(input, 1, t))
<1>1. BlockLength \in Nat /\ LengthBytes \in Nat /\ z \in Nat
  BY Constants, BlockAssumption
<1>2. PICK l \in Nat : l = t + 1 + z + LengthBytes
  BY <1>1
<1>3. c + BlockLength <= l
  BY <1>1, <1>2, TimesLess
<1>4. \A j \in 1 .. l : PaddedAt(t, z, j) \in T
  <2>1. OfLength(whole, T, l) /\ \A j \in 1 .. l : whole[j] = PaddedAt(t, z, j)
    BY <1>2, PaddedPlaces
  <2> HIDE DEF T, whole
  <2> QED
    BY <2>1, ElementOfSeq DEF OfLength
<1>5. \A r \in 1 .. BlockLength : block[r] \in T
  <2> HIDE DEF T
  <2> SUFFICES ASSUME NEW r \in 1 .. BlockLength PROVE block[r] \in T
    OBVIOUS
  <2>1. c + r \in 1 .. l
    BY <1>1, <1>3
  <2> QED
    BY <1>4, <2>1
<1>6. block \in Seq(T) /\ Len(block) = BlockLength
  <2> HIDE DEF T
  <2> QED
    BY <1>1, <1>5, BlockIsSeq
<1>7. s \in Seq(Seq(T)) /\ Len(s) = k
  BY DEF PaddedUpto
<1> HIDE DEF T
<1>8. /\ Append(s, block) \in Seq(Seq(T)) /\ Len(Append(s, block)) = k + 1
      /\ Append(s, block)[k + 1] = block /\ \A b \in 1 .. k : Append(s, block)[b] = s[b]
  BY <1>6, <1>7, AppendPlaces, SMTT(30)
<1>9. ASSUME NEW b \in 1 .. k + 1
      PROVE  Len(Append(s, block)[b]) = BlockLength
             /\ \A r \in 1 .. BlockLength :
                  Append(s, block)[b][r] = PaddedAt(t, z, (b - 1) * BlockLength + r)
  <2>1. CASE b = k + 1
    <3>1. b - 1 = k
      BY <2>1
    <3>2. (b - 1) * BlockLength = c /\ Append(s, block)[b] = block
      BY <1>8, <2>1, <3>1
    <3> QED
      BY <1>6, <3>2
  <2>2. CASE b # k + 1
    <3>1. b \in 1 .. k
      BY <2>2
    <3>2. Append(s, block)[b] = s[b]
      BY <1>8, <3>1
    <3> QED
      BY <3>1, <3>2, Zenon DEF PaddedUpto
  <2> QED
    BY <2>1, <2>2
<1> QED
  BY <1>8, <1>9 DEF PaddedUpto, T

OverwrittenAt(f, b, at, s, n, i) == f[i] = IF i > at /\ i <= at + n THEN s[i - at] ELSE b[i]
LEMMA Overwritten ==
  ASSUME NEW b, NEW at \in Nat, NEW s, NEW T, NEW n, OfLength(s, T, n), NEW i \in 1 .. BlockLength
  PROVE  OverwrittenAt(Overwrite(b, at, s), b, at, s, n, i)
<1>1. n \in Nat /\ Len(s) = n /\ BlockLength \in Nat
  BY Constants DEF OfLength
<1>2. (i \in at + 1 .. at + Len(s)) <=> (i > at /\ i <= at + n)
  BY <1>1
<1> QED
  BY <1>1, <1>2 DEF Overwrite, OverwrittenAt

(* The blocks compressed so far, by place.                                 *)
LEMMA CompressedPlaces ==
  ASSUME ShaInv, Active, NEW b \in 1 .. Len(state)
  PROVE  /\ state[b] \in Seq(Byte) /\ Len(state[b]) = BlockLength
         /\ \A r \in 1 .. BlockLength : state[b][r] = input[(b - 1) * BlockLength + r]
<1>1. PICK q \in Nat : q = Len(state)
  BY DEF ShaInv, Sizes
<1>2. state = [a \in 1 .. q |-> Block(a)] /\ bytes = q * BlockLength + buffer_length
  BY <1>1 DEF ShaInv, NothingLost, Active
<1>3. BlockLength \in Nat /\ Len(input) \in Nat
  BY Constants
<1>4. q * BlockLength <= Len(input)
  <2>1. PICK m \in Nat : m = q * BlockLength
    BY <1>1, <1>3
  <2>2. m + buffer_length + length <= Len(input) /\ buffer_length \in Nat /\ length \in Nat
    BY <1>2, <1>3, <2>1 DEF ShaInv, Sizes, NothingLost, Active
  <2> QED
    BY <1>3, <2>1, <2>2
<1>5. b \in 1 .. q /\ b - 1 \in Nat
  BY <1>1
<1>6. PICK k \in Nat : k = b * BlockLength /\ k = ((b - 1) + 1) * BlockLength
  BY <1>3, <1>5
<1>7. k <= Len(input)
  <2>1. PICK d \in Nat : d = q - b
    <3>1. q - b \in Nat
      BY <1>5
    <3> QED
      BY <3>1
  <2>2. (b + d) * BlockLength = k + d * BlockLength /\ d * BlockLength \in Nat /\ b + d = q
    BY <1>1, <1>3, <1>5, <1>6, <2>1
  <2> QED
    BY <1>3, <1>4, <2>2
<1>8. /\ Block((b - 1) + 1) \in Seq(Byte) /\ Len(Block((b - 1) + 1)) = BlockLength
      /\ \A r \in 1 .. BlockLength : Block((b - 1) + 1)[r] = input[(b - 1) * BlockLength + r]
  BY <1>5, <1>6, <1>7, BlockFacts
<1>9. state[b] = Block((b - 1) + 1)
  <2>1. (b - 1) + 1 = b
    BY <1>5
  <2> QED
    BY <1>2, <1>5, <2>1
<1> QED
  BY <1>8, <1>9

(* What finish is called with: t bytes, q blocks of them compressed, and   *)
(* the others, fewer than a block, in the buffer.                          *)
Before(q, c, t) ==
  /\ q = Len(state) /\ c = q * BlockLength /\ t = c + buffer_length /\ total_length = t
  /\ t <= Len(input) /\ buffer_length \in 0 .. BlockLength - 1
  /\ \A i \in 1 .. buffer_length : buffer[i] = input[c + i]
  /\ state \in Seq(Seq(Element(t)))
  /\ \A b \in 1 .. q : Len(state[b]) = BlockLength
                       /\ \A r \in 1 .. BlockLength :
                            state[b][r] = input[(b - 1) * BlockLength + r]

LEMMA BeforeFinish ==
  ASSUME ShaInv, LTE_SHA256_finish
  PROVE  \E q \in Nat, c \in Nat, t \in Nat : Before(q, c, t)
<1>1. pc = "ready" /\ Active /\ Sizes /\ NothingLost
  BY DEF LTE_SHA256_finish, ShaInv, Active
<1>2. PICK q \in Nat : q = Len(state)
  BY <1>1 DEF Sizes
<1>3. BlockLength \in Nat
  BY Constants
<1>4. PICK c \in Nat : c = q * BlockLength
  BY <1>2, <1>3
<1>5. PICK t \in Nat : t = c + buffer_length /\ total_length = t /\ t <= Len(input)
  BY <1>1, <1>2, <1>3, <1>4, Constants DEF Sizes, NothingLost
<1>6. \A b \in 1 .. q : /\ state[b] \in Seq(Byte) /\ Len(state[b]) = BlockLength
                        /\ \A r \in 1 .. BlockLength :
                             state[b][r] = input[(b - 1) * BlockLength + r]
  BY <1>1, <1>2, CompressedPlaces
<1>7. state \in Seq(Seq(Element(t)))
  <2>1. \A s \in Seq(Byte) : s \in Seq(Element(t))
    BY DEF Element
  <2>2. [b \in 1 .. q |-> state[b]] \in Seq(Seq(Element(t)))
    BY <1>6, <2>1
  <2>3. state = [b \in 1 .. q |-> state[b]]
    BY <1>1, <1>2 DEF NothingLost
  <2> QED
    BY <2>2, <2>3, Zenon
<1>8. \A i \in 1 .. buffer_length : buffer[i] = input[c + i]
  BY <1>1, <1>2, <1>4 DEF NothingLost
<1>9. Before(q, c, t)
  <2>1. buffer_length \in 0 .. BlockLength - 1
    BY <1>1, Zenon DEF Sizes
  <2>2. \A b \in 1 .. q : /\ Len(state[b]) = BlockLength
                          /\ \A r \in 1 .. BlockLength :
                               state[b][r] = input[(b - 1) * BlockLength + r]
    BY <1>6, Zenon
  <2> QED
    BY <1>2, <1>4, <1>5, <1>7, <1>8, <2>1, <2>2, Zenon DEF Before
<1> QED
  BY <1>9, Zenon

LEMMA StatePadded ==
  ASSUME NEW q \in Nat, NEW c \in Nat, NEW t \in Nat, Before(q, c, t), NEW z
  PROVE  PaddedUpto(state, q, t, z)
<1>1. BlockLength \in Nat /\ c <= t /\ c = q * BlockLength
  BY Constants DEF Before
<1>2. ASSUME NEW b \in 1 .. q, NEW r \in 1 .. BlockLength
      PROVE  state[b][r] = PaddedAt(t, z, (b - 1) * BlockLength + r)
  <2>1. PICK a \in Nat : a = (b - 1) * BlockLength
    BY <1>1
  <2>2. PICK d \in Nat : d = q - b
    OBVIOUS
  <2>3. b + d = q /\ (b + d) * BlockLength = b * BlockLength + d * BlockLength
        /\ d * BlockLength \in Nat /\ b * BlockLength = a + BlockLength
    BY <1>1, <2>1, <2>2
  <2>4. a + r <= t
    <3>1. PICK e \in Nat : e = d * BlockLength
      BY <2>3
    <3>2. (a + BlockLength) + e = c
      BY <1>1, <2>3, <3>1
    <3> QED
      BY <1>1, <3>2
  <2>5. state[b][r] = input[a + r]
    BY <2>1 DEF Before
  <2> QED
    BY <2>1, <2>4, <2>5 DEF PaddedAt
<1>3. state \in Seq(Seq(Element(t))) /\ Len(state) = q /\ \A b \in 1 .. q : Len(state[b]) = BlockLength
  BY DEF Before
<1> QED
  BY <1>2, <1>3 DEF PaddedUpto

(* The buffer with the one bit behind the message.                         *)
LEMMA MarkedPlaces ==
  ASSUME NEW q \in Nat, NEW c \in Nat, NEW t \in Nat, Before(q, c, t),
         NEW i \in 1 .. buffer_length + 1
  PROVE  /\ c + i <= t + 1
         /\ Overwrite(buffer, buffer_length, <<\h80>>)[i] =
              IF c + i <= t THEN input[c + i] ELSE \h80
<1>1. BlockLength \in Nat /\ buffer_length \in Nat /\ buffer_length + 1 <= BlockLength
      /\ t = c + buffer_length
  BY Constants DEF Before
<1> DEFINE one == <<\h80>>
<1>2. i \in 1 .. BlockLength /\ OfLength(one, {\h80}, 1) /\ one[1] = \h80
  BY <1>1 DEF OfLength
<1> HIDE DEF one
<1>3. Overwrite(buffer, buffer_length, one)[i] =
        IF i > buffer_length /\ i <= buffer_length + 1 THEN one[i - buffer_length] ELSE buffer[i]
  <2>1. OverwrittenAt(Overwrite(buffer, buffer_length, one), buffer, buffer_length, one, 1, i)
    BY <1>1, <1>2, Overwritten
  <2> QED
    BY <2>1 DEF OverwrittenAt
<1>4. CASE i <= buffer_length
  BY <1>1, <1>3, <1>4 DEF Before, one
<1>5. CASE i = buffer_length + 1
  <2>1. i - buffer_length = 1 /\ ~(c + i <= t) /\ c + i <= t + 1 /\ i > buffer_length
    BY <1>1, <1>5
  <2>2. Overwrite(buffer, buffer_length, one)[i] = \h80
    BY <1>2, <1>3, <1>5, <2>1
  <2> QED
    BY <2>1, <2>2 DEF one
<1> QED
  BY <1>1, <1>4, <1>5

(* The one bit leaves room for the length: one last block.                 *)
LEMMA FinishInOne ==
  ASSUME ShaInv, LTE_SHA256_finish, ~NoRoom(buffer_length + 1)
  PROVE  FlattenSeq(state') = Padded(SubSeq(input, 1, total_length'))
<1> DEFINE n == buffer_length + 1
           marked == Overwrite(buffer, buffer_length, <<\h80>>)
           zeros == Zeros(LengthAt - n)
           zeroed == Overwrite(marked, n, zeros)
           last == buffer'
<1>1. PICK q \in Nat, c \in Nat, t \in Nat : Before(q, c, t)
  BY BeforeFinish
<1> DEFINE word == LengthWord(t)
           T == Element(t)
<1>2. /\ BlockLength \in Nat /\ LengthBytes \in Nat /\ LengthAt \in Nat
      /\ LengthAt + LengthBytes = BlockLength /\ LengthBytes > 0
  BY BlockAssumption DEF LengthAt
<1>3. /\ n \in Nat /\ n <= LengthAt /\ t = c + buffer_length /\ c = q * BlockLength
      /\ q = Len(state) /\ buffer_length \in Nat /\ t <= Len(input) /\ n \in 1 .. BlockLength
  BY <1>1, <1>2 DEF NoRoom, Before
<1>4. last = Overwrite(zeroed, LengthAt, word) /\ state' = Append(state, last)
      /\ total_length' = t
  <2>1. total_length = t /\ total_length * 8 = 8 * t
    BY <1>1 DEF Before
  <2>2. store_be64(total_length * 8) = word
    BY <2>1, Zenon DEF LengthWord
  <2> HIDE DEF word
  <2> QED
    BY <2>1, <2>2 DEF LTE_SHA256_finish, sha256_compress
<1>5. PICK z \in Nat : z = LengthAt - n
  BY <1>2, <1>3
<1>6. OfLength(zeros, {0}, z) /\ \A i \in 1 .. z : zeros[i] = 0
  <2>1. zeros = [i \in 1 .. z |-> 0]
    BY <1>5 DEF Zeros
  <2> HIDE DEF zeros
  <2>2. [i \in 1 .. z |-> 0] \in Seq({0}) /\ Len([i \in 1 .. z |-> 0]) = z
    OBVIOUS
  <2> QED
    BY <2>1, <2>2 DEF OfLength
<1>7. OfLength(word, T, LengthBytes)
  BY WordLength
<1>8. t + 1 + z + LengthBytes = (q + 1) * BlockLength /\ z \in 0 .. BlockLength - 1
  <2>1. (q + 1) * BlockLength = c + BlockLength
    BY <1>2, <1>3
  <2> QED
    BY <1>2, <1>3, <1>5, <2>1
<1> HIDE DEF marked, zeros, zeroed, word, T
<1>9. ASSUME NEW r \in 1 .. BlockLength PROVE last[r] = PaddedAt(t, z, c + r)
  <2>1. last[r] = IF r > LengthAt /\ r <= LengthAt + LengthBytes THEN word[r - LengthAt] ELSE zeroed[r]
    <3>1. OverwrittenAt(Overwrite(zeroed, LengthAt, word), zeroed, LengthAt, word, LengthBytes, r)
      BY <1>2, <1>7, Overwritten
    <3> QED
      BY <1>4, <3>1 DEF OverwrittenAt
  <2>2. zeroed[r] = IF r > n /\ r <= n + z THEN zeros[r - n] ELSE marked[r]
    <3>1. OverwrittenAt(Overwrite(marked, n, zeros), marked, n, zeros, z, r)
      BY <1>3, <1>6, Overwritten
    <3> QED
      BY <3>1 DEF zeroed, OverwrittenAt
  <2>3. CASE r <= n
    <3>1. r \in 1 .. n /\ ~(r > LengthAt) /\ ~(r > n) /\ last[r] = marked[r]
      BY <1>2, <1>3, <2>1, <2>2, <2>3, SMTT(30)
    <3>2. c + r <= t + 1 /\ marked[r] = IF c + r <= t THEN input[c + r] ELSE \h80
      BY <1>1, <3>1, MarkedPlaces DEF marked
    <3>3. c + r <= t \/ c + r = t + 1
      BY <1>3, <3>2, SMTT(30)
    <3> QED
      BY <1>3, <3>1, <3>2, <3>3 DEF PaddedAt
  <2>4. CASE r > n /\ r <= LengthAt
    <3>1. r - n \in 1 .. z /\ ~(r > LengthAt) /\ r <= n + z
      BY <1>2, <1>3, <1>5, <2>4
    <3>2. last[r] = 0
      BY <1>6, <2>1, <2>2, <2>4, <3>1
    <3>3. ~(c + r <= t) /\ c + r # t + 1 /\ c + r <= t + 1 + z
      BY <1>2, <1>3, <1>5, <2>4
    <3> QED
      BY <3>2, <3>3 DEF PaddedAt
  <2>5. CASE r > LengthAt
    <3>1. last[r] = word[r - LengthAt]
      BY <1>2, <2>1, <2>5
    <3>2. ~(c + r <= t) /\ c + r # t + 1 /\ ~(c + r <= t + 1 + z)
          /\ (c + r) - (t + 1 + z) = r - LengthAt
      BY <1>2, <1>3, <1>5, <2>5
    <3> QED
      BY <3>1, <3>2 DEF PaddedAt, word
  <2> QED
    BY <1>2, <1>3, <2>3, <2>4, <2>5
<1>10. PaddedUpto(state', q + 1, t, z)
  <2>1. q < q + 1 /\ q + 1 \in Nat
    OBVIOUS
  <2>2. IsBlock(last)
    BY <1>4 DEF Overwrite, IsBlock
  <2>3. PaddedUpto(state, q, t, z)
    BY <1>1, StatePadded
  <2>4. PaddedUpto(Append(state, last), q + 1, t, z)
    BY <1>3, <1>8, <1>9, <2>1, <2>2, <2>3, AnotherBlock
  <2> QED
    BY <1>4, <2>4
<1> HIDE DEF last
<1>11. PICK k \in Nat : k = q + 1
  OBVIOUS
<1>12. t <= Len(input) /\ t + 1 + z + LengthBytes = k * BlockLength /\ z \in 0 .. BlockLength - 1
  BY <1>3, <1>8, <1>11, Zenon
<1>13. PaddedUpto(state', k, t, z)
  BY <1>10, <1>11, Zenon
<1>14. FlattenSeq(state') = Padded(SubSeq(input, 1, t))
  BY <1>12, <1>13, PaddedBlocks, Zenon
<1> QED
  BY <1>4, <1>14, Zenon

(* It leaves none: the block with the one bit, and one with the length.    *)
LEMMA FinishInTwo ==
  ASSUME ShaInv, LTE_SHA256_finish, NoRoom(buffer_length + 1)
  PROVE  FlattenSeq(state') = Padded(SubSeq(input, 1, total_length'))
<1> DEFINE n == buffer_length + 1
           marked == Overwrite(buffer, buffer_length, <<\h80>>)
           zeros == Zeros(BlockLength - n)
           zeroed == Overwrite(marked, n, zeros)
           more == Zeros(LengthAt)
           empty == Overwrite(zeroed, 0, more)
           last == buffer'
<1>1. PICK q \in Nat, c \in Nat, t \in Nat : Before(q, c, t)
  BY BeforeFinish
<1> DEFINE word == LengthWord(t)
           T == Element(t)
<1>2. /\ BlockLength \in Nat /\ LengthBytes \in Nat /\ LengthAt \in Nat
      /\ LengthAt + LengthBytes = BlockLength /\ LengthBytes > 0
  BY BlockAssumption DEF LengthAt
<1>3. /\ n \in Nat /\ n > LengthAt /\ n <= BlockLength
      /\ t = c + buffer_length /\ c = q * BlockLength
      /\ q = Len(state) /\ buffer_length \in Nat /\ t <= Len(input)
  BY <1>1, <1>2 DEF NoRoom, Before
<1>4. /\ last = Overwrite(empty, LengthAt, word) /\ total_length' = t
      /\ state' = Append(Append(state, zeroed), last)
  <2>1. total_length = t /\ total_length * 8 = 8 * t /\ LengthAt - 0 = LengthAt
    BY <1>1, <1>2 DEF Before
  <2>2. store_be64(total_length * 8) = word
    BY <2>1, Zenon DEF LengthWord
  <2> HIDE DEF word
  <2> QED
    BY <2>1, <2>2 DEF LTE_SHA256_finish, sha256_compress
<1>5. PICK y \in Nat : y = BlockLength - n
  BY <1>2, <1>3
<1>6. PICK z \in Nat : z = y + LengthAt /\ z \in 0 .. BlockLength - 1
  BY <1>2, <1>3, <1>5
<1>7. OfLength(zeros, {0}, y) /\ \A i \in 1 .. y : zeros[i] = 0
  <2>1. zeros = [i \in 1 .. y |-> 0]
    BY <1>5 DEF Zeros
  <2> HIDE DEF zeros
  <2>2. [i \in 1 .. y |-> 0] \in Seq({0}) /\ Len([i \in 1 .. y |-> 0]) = y
    OBVIOUS
  <2> QED
    BY <2>1, <2>2 DEF OfLength
<1>8. OfLength(more, {0}, LengthAt) /\ \A i \in 1 .. LengthAt : more[i] = 0
  BY <1>2 DEF Zeros, OfLength
<1>9. OfLength(word, T, LengthBytes)
  BY WordLength
<1>10. PICK d \in Nat : d = (q + 1) * BlockLength /\ d = c + BlockLength
  BY <1>2, <1>3
<1>11. t + 1 + z + LengthBytes = (q + 2) * BlockLength
  <2>1. (q + 2) * BlockLength = c + BlockLength + BlockLength
    BY <1>2, <1>3
  <2> QED
    BY <1>2, <1>3, <1>5, <1>6, <2>1
<1> HIDE DEF marked, zeros, zeroed, more, empty, word, T
<1>12. ASSUME NEW r \in 1 .. BlockLength PROVE zeroed[r] = PaddedAt(t, z, c + r)
  <2>1. zeroed[r] = IF r > n /\ r <= n + y THEN zeros[r - n] ELSE marked[r]
    <3>1. OverwrittenAt(Overwrite(marked, n, zeros), marked, n, zeros, y, r)
      BY <1>3, <1>7, Overwritten
    <3> QED
      BY <3>1 DEF zeroed, OverwrittenAt
  <2>2. CASE r <= n
    <3>1. r \in 1 .. n /\ ~(r > n) /\ zeroed[r] = marked[r]
      BY <1>2, <1>3, <2>1, <2>2, SMTT(30)
    <3>2. c + r <= t + 1 /\ marked[r] = IF c + r <= t THEN input[c + r] ELSE \h80
      BY <1>1, <3>1, MarkedPlaces DEF marked
    <3>3. c + r <= t \/ c + r = t + 1
      <4>1. r \in Nat /\ c + r <= t + 1
        BY <1>2, <3>2
      <4> QED
        BY <4>1
    <3> QED
      BY <1>3, <3>1, <3>2, <3>3 DEF PaddedAt
  <2>3. CASE r > n
    <3>1. r - n \in 1 .. y /\ r <= n + y
      BY <1>2, <1>3, <1>5, <2>3
    <3>2. zeroed[r] = 0
      BY <1>7, <2>1, <2>3, <3>1
    <3>3. ~(c + r <= t) /\ c + r # t + 1 /\ c + r <= t + 1 + z
      BY <1>2, <1>3, <1>5, <1>6, <2>3
    <3> QED
      BY <3>2, <3>3 DEF PaddedAt
  <2> QED
    BY <1>2, <1>3, <2>2, <2>3
<1>13. ASSUME NEW r \in 1 .. BlockLength PROVE last[r] = PaddedAt(t, z, d + r)
  <2>1. last[r] = IF r > LengthAt /\ r <= LengthAt + LengthBytes THEN word[r - LengthAt] ELSE empty[r]
    <3>1. OverwrittenAt(Overwrite(empty, LengthAt, word), empty, LengthAt, word, LengthBytes, r)
      BY <1>2, <1>9, Overwritten
    <3> QED
      BY <1>4, <3>1 DEF OverwrittenAt
  <2>2. ~(d + r <= t) /\ d + r # t + 1
    BY <1>2, <1>3, <1>10, SMTT(30)
  <2>3. CASE r <= LengthAt
    <3>1. r > 0 /\ r <= 0 + LengthAt /\ r - 0 = r /\ r \in 1 .. LengthAt /\ ~(r > LengthAt)
      BY <1>2, <2>3
    <3>2. OverwrittenAt(Overwrite(zeroed, 0, more), zeroed, 0, more, LengthAt, r)
      BY <1>8, Overwritten
    <3>3. empty[r] = more[r]
      BY <3>1, <3>2 DEF OverwrittenAt, empty
    <3>4. last[r] = 0
      BY <1>8, <2>1, <3>1, <3>3
    <3>5. d + r <= t + 1 + z
      BY <1>2, <1>3, <1>5, <1>6, <1>10, <2>3
    <3> QED
      BY <2>2, <3>4, <3>5 DEF PaddedAt
  <2>4. CASE r > LengthAt
    <3>1. last[r] = word[r - LengthAt]
      BY <1>2, <2>1, <2>4
    <3>2. ~(d + r <= t + 1 + z) /\ (d + r) - (t + 1 + z) = r - LengthAt
      BY <1>2, <1>3, <1>5, <1>6, <1>10, <2>4
    <3> QED
      BY <2>2, <3>1, <3>2 DEF PaddedAt, word
  <2> QED
    BY <1>2, <2>3, <2>4
<1>14. PICK j \in Nat, m \in Nat : j = q + 1 /\ m = q + 2 /\ m = j + 1 /\ q < m /\ j < m
  OBVIOUS
<1>15. t + 1 + z + LengthBytes = m * BlockLength /\ c = q * BlockLength /\ d = j * BlockLength
       /\ t <= Len(input) /\ z \in 0 .. BlockLength - 1
  BY <1>3, <1>6, <1>10, <1>11, <1>14
<1>16. PaddedUpto(Append(state, zeroed), j, t, z)
  <2>1. IsBlock(zeroed)
    BY DEF Overwrite, IsBlock, zeroed
  <2>2. PaddedUpto(state, q, t, z)
    BY <1>1, StatePadded
  <2>3. PaddedUpto(Append(state, zeroed), q + 1, t, z)
    BY <1>12, <1>14, <1>15, <2>1, <2>2, AnotherBlock
  <2> QED
    BY <1>14, <2>3
<1>17. PaddedUpto(state', m, t, z)
  <2>1. IsBlock(last)
    BY <1>4 DEF Overwrite, IsBlock
  <2> HIDE DEF last
  <2>2. PaddedUpto(Append(Append(state, zeroed), last), j + 1, t, z)
    BY <1>13, <1>14, <1>15, <1>16, <2>1, AnotherBlock
  <2> QED
    BY <1>4, <1>14, <2>2 DEF last
<1>18. FlattenSeq(state') = Padded(SubSeq(input, 1, t))
  BY <1>15, <1>17, PaddedBlocks
<1> QED
  BY <1>4, <1>18, Zenon

LEMMA DigestNext ==
  ASSUME ShaInv, DigestOfMessage, [Next]_vars
  PROVE  DigestOfMessage'
<1>1. CASE LTE_SHA256_finish
  <2>1. FlattenSeq(state') = Padded(SubSeq(input, 1, total_length'))
    BY <1>1, FinishInOne, FinishInTwo
  <2> QED
    BY <2>1 DEF DigestOfMessage
<1>2. CASE ~LTE_SHA256_finish
  <2>1. pc' # "digest" \/ UNCHANGED <<pc, state, total_length>>
    BY <1>2 DEF Next, Updating, LTE_SHA256_init, LTE_SHA256_update, Fill, WholeBlock, Rest,
                vars, sha256
  <2> QED
    BY <2>1 DEF DigestOfMessage
<1> QED
  BY <1>1, <1>2

(* The blocks that a finished digest was computed from are those of the    *)
(* message with its padding and its length in bits, whatever the lengths   *)
(* of the pieces it came in and whether the one bit leaves room for the    *)
(* length or not (sha256.c:127-177).                                       *)
THEOREM DigestIsOfMessage == Spec => []DigestOfMessage
<1>1. Init => ShaInv /\ DigestOfMessage
  BY ShaInitInv DEF Init, DigestOfMessage
<1>2. ShaInv /\ DigestOfMessage /\ [Next]_vars => (ShaInv /\ DigestOfMessage)'
  BY ShaNext, DigestNext
<1> QED
  BY <1>1, <1>2, PTL DEF Spec

-------------------------------------------------------------------------------
(* Ascon-XOF128.                                                           *)
Upto(n) == [i \in 1 .. n |-> i - 1]

(* Before the first block is read, and once a block is in the buffer.      *)
Fresh ==
  /\ permutations = 0 /\ output = <<>>
  /\ buffer_offset = 0 /\ xof_buffer_length = 0 /\ need_permute_before_block = FALSE
InBlock ==
  /\ permutations \in Nat /\ buffer_offset \in 0 .. Rate /\ xof_buffer_length = Rate
  /\ need_permute_before_block = TRUE
  /\ xof_buffer = ascon_store_le(permutations)
  /\ output = Upto(permutations * Rate + buffer_offset)

XofInv ==
  /\ xof_pc \in {"none", "absorb", "ready", "squeeze"}
  /\ xof_pc = "absorb" => permutations = 0
  /\ xof_pc \in {"none", "absorb"} => output = <<>>
  /\ xof_pc \in {"ready", "squeeze"} => Fresh \/ InBlock
  /\ xof_pc = "squeeze" => left \in Nat

LEMMA UptoFacts ==
  ASSUME NEW n \in Nat
  PROVE  Upto(n) \in Seq(Int) /\ Len(Upto(n)) = n /\ \A i \in 1 .. n : Upto(n)[i] = i - 1
  BY DEF Upto

LEMMA BlockBytes ==
  ASSUME NEW p \in Nat
  PROVE  /\ ascon_store_le(p) \in Seq(Int) /\ Len(ascon_store_le(p)) = Rate
         /\ \A i \in 1 .. Rate : ascon_store_le(p)[i] = p * Rate + i - 1
<1>1. PICK q \in Nat : q = p * Rate
  BY RateAssumption
<1>2. ascon_store_le(p) = [i \in 1 .. Rate |-> q + i - 1]
  BY <1>1 DEF ascon_store_le
<1> QED
  BY <1>1, <1>2, RateAssumption

(* The bytes squeezed from a block continue the stream.                    *)
LEMMA Continues ==
  ASSUME NEW p \in Nat, NEW o \in 0 .. Rate, NEW c \in Nat, c <= Rate - o
  PROVE  Upto(p * Rate + o) \o SubSeq(ascon_store_le(p), o + 1, o + c) = Upto(p * Rate + (o + c))
<1>1. PICK q \in Nat : q = p * Rate
  BY RateAssumption
<1>2. Rate \in Nat /\ o \in Nat /\ o + c \in 0 .. Rate
  BY RateAssumption
<1> DEFINE s1 == Upto(q + o)
           block == ascon_store_le(p)
           s2 == SubSeq(block, o + 1, o + c)
           both == s1 \o s2
           s3 == Upto(q + (o + c))
<1>3. block \in Seq(Int) /\ Len(block) = Rate /\ \A i \in 1 .. Rate : block[i] = q + i - 1
  BY <1>1, BlockBytes
<1> HIDE DEF block
<1>4. s2 \in Seq(Int) /\ Len(s2) = c /\ \A i \in 1 .. c : s2[i] = block[o + i]
  BY <1>2, <1>3
<1>5. s1 \in Seq(Int) /\ Len(s1) = q + o /\ \A i \in 1 .. q + o : s1[i] = i - 1
  BY <1>2, UptoFacts
<1>6. s3 \in Seq(Int) /\ Len(s3) = q + (o + c) /\ \A i \in 1 .. q + (o + c) : s3[i] = i - 1
  BY <1>2, UptoFacts
<1> HIDE DEF s1, s2, s3
<1>7. /\ both \in Seq(Int) /\ Len(both) = (q + o) + c
      /\ \A i \in 1 .. (q + o) + c : both[i] = IF i <= q + o THEN s1[i] ELSE s2[i - (q + o)]
  <2>1. /\ s1 \o s2 \in Seq(Int) /\ Len(s1 \o s2) = Len(s1) + Len(s2)
        /\ \A i \in 1 .. Len(s1) + Len(s2) :
             (s1 \o s2)[i] = IF i <= Len(s1) THEN s1[i] ELSE s2[i - Len(s1)]
    BY <1>4, <1>5, ConcatProperties
  <2>2. Len(s1) = q + o /\ Len(s2) = c
    BY <1>4, <1>5
  <2> QED
    BY <2>1, <2>2
<1> HIDE DEF both
<1>8. ASSUME NEW i \in 1 .. (q + o) + c PROVE both[i] = i - 1
  <2>1. CASE i <= q + o
    BY <1>2, <1>5, <1>7, <2>1
  <2>2. CASE i > q + o
    <3>1. i - (q + o) \in 1 .. c /\ o + (i - (q + o)) \in 1 .. Rate
          /\ q + (o + (i - (q + o))) - 1 = i - 1
      BY <1>2, <2>2
    <3>2. both[i] = s2[i - (q + o)]
      BY <1>2, <1>7, <2>2, SMTT(30)
    <3>3. s2[i - (q + o)] = block[o + (i - (q + o))]
      BY <1>4, <3>1
    <3> QED
      BY <1>3, <3>1, <3>2, <3>3
  <2> QED
    BY <1>2, <2>1, <2>2
<1>9. (q + o) + c = q + (o + c)
  BY <1>2
<1>10. both = s3
  BY <1>6, <1>7, <1>8, <1>9, SeqEqual
<1> QED
  BY <1>1, <1>10 DEF both, s1, s2, s3, block

LEMMA XofSqueeze == ASSUME XofInv, SqueezeBlock PROVE XofInv'
<1> DEFINE used_up == buffer_offset = xof_buffer_length
           offset == IF used_up THEN 0 ELSE buffer_offset
           block == IF used_up THEN ascon_store_le(Refill(permutations)) ELSE xof_buffer
           chunk == Min({left, Len(block) - offset})
           p == IF used_up THEN Refill(permutations) ELSE permutations
<1>1. /\ xof_pc = "squeeze" /\ left > 0 /\ permutations' = p
      /\ need_permute_before_block' = (used_up \/ need_permute_before_block)
      /\ xof_buffer' = block /\ xof_buffer_length' = Len(block)
      /\ buffer_offset' = offset + chunk
      /\ output' = output \o SubSeq(block, offset + 1, offset + chunk)
      /\ left' = left - chunk /\ xof_pc' = xof_pc
  BY DEF SqueezeBlock
<1>2. left \in Nat /\ (Fresh \/ InBlock) /\ Rate \in Nat /\ Rate > 0
  BY <1>1, RateAssumption DEF XofInv
<1>3. p \in Nat /\ offset \in 0 .. Rate /\ block = ascon_store_le(p)
      /\ output = Upto(p * Rate + offset) /\ (used_up \/ need_permute_before_block)
  <2>1. CASE Fresh
    <3>1. used_up /\ p = 0 /\ offset = 0 /\ block = ascon_store_le(p) /\ output = <<>>
      BY <2>1 DEF Fresh, Refill
    <3>2. 0 * Rate + 0 = 0 /\ Upto(0) = <<>>
      BY <1>2 DEF Upto
    <3> QED
      BY <1>2, <3>1, <3>2
  <2>2. CASE InBlock /\ used_up
    <3>1. p = permutations + 1 /\ offset = 0 /\ block = ascon_store_le(p)
          /\ permutations \in Nat /\ output = Upto(permutations * Rate + Rate)
      BY <2>2 DEF InBlock, Refill
    <3>2. (permutations + 1) * Rate + 0 = permutations * Rate + Rate
      BY <1>2, <3>1
    <3> QED
      BY <1>2, <2>2, <3>1, <3>2
  <2>3. CASE InBlock /\ ~used_up
    BY <2>3 DEF InBlock
  <2> QED
    BY <1>2, <2>1, <2>2, <2>3
<1> HIDE DEF p, offset, block, used_up
<1>4. Len(block) = Rate
  BY <1>3, BlockBytes
<1>5. chunk \in Nat /\ chunk <= left /\ chunk <= Rate - offset
  BY <1>2, <1>3, <1>4, MinOfTwo
<1> HIDE DEF chunk
<1>6. output' = Upto(p * Rate + (offset + chunk))
  BY <1>1, <1>3, <1>5, Continues
<1>7. InBlock'
  <2>1. offset + chunk \in 0 .. Rate
    BY <1>2, <1>3, <1>5
  <2>2. need_permute_before_block' = TRUE
    BY <1>1, <1>3
  <2> QED
    BY <1>1, <1>3, <1>4, <1>6, <2>1, <2>2 DEF InBlock, ascon_store_le, Upto
<1>8. left' \in Nat
  BY <1>1, <1>2, <1>5
<1> QED
  BY <1>1, <1>7, <1>8 DEF XofInv

LEMMA XofInitInv == XofInit => XofInv
  BY DEF XofInit, XofInv

LEMMA XofNextInv == XofInv /\ [XofNext]_xofVars => XofInv'
<1> SUFFICES ASSUME XofInv, [XofNext]_xofVars PROVE XofInv'
  OBVIOUS
<1>1. ASSUME NEW n \in 0 .. Len(message), LTE_AsconXOF128_init(n) PROVE XofInv'
  BY <1>1 DEF LTE_AsconXOF128_init, XofInv
<1>2. CASE AbsorbBlock
  BY <1>2 DEF AbsorbBlock, squeezing, XofInv
<1>3. CASE AbsorbRest
  BY <1>3 DEF AbsorbRest, XofInv, Fresh
<1>4. ASSUME NEW n \in 0 .. MaxOutput, LTE_AsconXOF128_squeeze(n) PROVE XofInv'
  <2>1. n \in Nat
    BY RateAssumption
  <2> QED
    BY <1>4, <2>1
    DEF LTE_AsconXOF128_squeeze, sponge, squeezing, XofInv, Fresh, InBlock, Upto, ascon_store_le
<1>5. CASE SqueezeBlock
  BY <1>5, XofSqueeze
<1>6. CASE SqueezeReturns
  BY <1>6
  DEF SqueezeReturns, sponge, squeezing, XofInv, Fresh, InBlock, Upto, ascon_store_le
<1>7. CASE UNCHANGED xofVars
  BY <1>7 DEF xofVars, sponge, squeezing, XofInv, Fresh, InBlock, Upto, ascon_store_le
<1> QED
  BY <1>1, <1>2, <1>3, <1>4, <1>5, <1>6, <1>7 DEF XofNext

LEMMA XofInOrder == XofInv => SqueezesInOrder
<1> SUFFICES ASSUME XofInv PROVE SqueezesInOrder
  OBVIOUS
<1>1. output = <<>> \/ InBlock
  BY DEF XofInv, Fresh
<1>2. CASE output = <<>>
  BY <1>2 DEF SqueezesInOrder
<1>3. CASE InBlock
  <2>1. permutations * Rate + buffer_offset \in Nat
    BY <1>3, RateAssumption DEF InBlock
  <2> QED
    BY <1>3, <2>1, UptoFacts DEF InBlock, SqueezesInOrder, Upto
<1> QED
  BY <1>1, <1>2, <1>3

(* What was absorbed: parts of one length that together are the message so *)
(* far, and once all of it is in, the message with its padding.            *)
AbsorbedBlocks ==
  /\ absorbed \in Seq(Seq(0 .. 255)) /\ taken = Len(absorbed) * Rate
  /\ left \in Nat /\ taken + left = given /\ given <= Len(message)
  /\ \A b \in 1 .. Len(absorbed) :
       Len(absorbed[b]) = Rate /\ \A r \in 1 .. Rate : absorbed[b][r] = message[(b - 1) * Rate + r]
AbsorbInv ==
  /\ xof_pc \in {"none", "absorb", "ready", "squeeze"}
  /\ xof_pc = "absorb" => AbsorbedBlocks
  /\ AbsorbsPadded

LEMMA AbsorbStart ==
  ASSUME AbsorbInv, NEW n \in 0 .. Len(message), LTE_AsconXOF128_init(n)
  PROVE  AbsorbInv'
<1>1. Len(message) \in Nat
  BY MessageAssumption, LenProperties
<1>2. /\ xof_pc' = "absorb" /\ absorbed' = <<>> /\ given' = n /\ taken' = 0 /\ left' = n
  BY DEF LTE_AsconXOF128_init
<1>3. absorbed' \in Seq(Seq(0 .. 255)) /\ Len(absorbed') = 0 /\ 0 * Rate = 0
  BY <1>2, RateAssumption
<1> QED
  BY <1>1, <1>2, <1>3 DEF AbsorbInv, AbsorbedBlocks, AbsorbsPadded

(* The next n bytes of the message.                                        *)
LEMMA NextPiece ==
  ASSUME AbsorbedBlocks, NEW n \in 0 .. left
  PROVE  /\ Piece(n) \in Seq(0 .. 255) /\ Len(Piece(n)) = n
         /\ \A i \in 1 .. n : Piece(n)[i] = message[taken + i]
<1>1. PICK t \in Nat : t = taken
  BY LenProperties, RateAssumption DEF AbsorbedBlocks
<1>2. PICK l \in Nat : l = Len(message)
  BY MessageAssumption, LenProperties
<1>3. OfLength(message, 0 .. 255, l) /\ n \in 0 .. l - t
  BY <1>1, <1>2, MessageAssumption DEF AbsorbedBlocks, OfLength
<1>4. OfLength(Piece(n), 0 .. 255, n) /\ PieceOf(Piece(n), message, t, n)
  BY <1>1, <1>3, PieceAt DEF Piece
<1> QED
  BY <1>1, <1>4, Zenon DEF OfLength, PieceOf

(* One more block of the message behind those absorbed before.             *)
LEMMA AbsorbNext == ASSUME AbsorbInv, AbsorbBlock PROVE AbsorbInv'
<1>1. /\ xof_pc = "absorb" /\ xof_pc' = "absorb" /\ left >= Rate
      /\ absorbed' = Append(absorbed, Piece(Rate))
      /\ taken' = taken + Rate /\ left' = left - Rate /\ given' = given
  BY DEF AbsorbBlock, Whole
<1>2. AbsorbedBlocks /\ Rate \in Nat /\ Rate > 0 /\ left \in Nat
  <2>1. AbsorbedBlocks
    BY <1>1, Zenon DEF AbsorbInv
  <2>2. left \in Nat
    BY <2>1, Zenon DEF AbsorbedBlocks
  <2> QED
    BY <2>1, <2>2, RateAssumption
<1>3. PICK m \in Nat : m = Len(absorbed)
  BY <1>2, LenProperties DEF AbsorbedBlocks
<1>4. PICK t \in Nat : t = m * Rate /\ taken = t
  BY <1>2, <1>3 DEF AbsorbedBlocks
<1>5. /\ Piece(Rate) \in Seq(0 .. 255) /\ Len(Piece(Rate)) = Rate
      /\ \A i \in 1 .. Rate : Piece(Rate)[i] = message[t + i]
  BY <1>1, <1>2, <1>4, NextPiece
<1>6. /\ absorbed' \in Seq(Seq(0 .. 255)) /\ Len(absorbed') = m + 1
      /\ absorbed'[m + 1] = Piece(Rate) /\ \A b \in 1 .. m : absorbed'[b] = absorbed[b]
  BY <1>1, <1>2, <1>3, <1>5, AppendProperties DEF AbsorbedBlocks
<1>7. (m + 1) * Rate = t + Rate /\ ((m + 1) - 1) * Rate = t
  BY <1>2, <1>4
<1>8. taken' = (m + 1) * Rate /\ left' \in Nat /\ taken' + left' = given'
      /\ given' <= Len(message)
  <2>1. taken + left = given /\ given <= Len(message) /\ Len(message) \in Nat
    BY <1>2, MessageAssumption, LenProperties DEF AbsorbedBlocks
  <2> QED
    BY <1>1, <1>2, <1>4, <1>7, <2>1
<1>9. ASSUME NEW b \in 1 .. m + 1
      PROVE  Len(absorbed'[b]) = Rate
             /\ \A r \in 1 .. Rate : absorbed'[b][r] = message[(b - 1) * Rate + r]
  <2>1. CASE b = m + 1
    BY <1>5, <1>6, <1>7, <2>1
  <2>2. CASE b # m + 1
    <3>1. b \in 1 .. m
      BY <2>2
    <3>2. Len(absorbed[b]) = Rate
          /\ \A r \in 1 .. Rate : absorbed[b][r] = message[(b - 1) * Rate + r]
      BY <1>2, <1>3, <3>1 DEF AbsorbedBlocks
    <3>3. absorbed'[b] = absorbed[b]
      BY <1>6, <3>1
    <3> QED
      BY <3>2, <3>3, Zenon
  <2> QED
    BY <2>1, <2>2
<1>10. AbsorbedBlocks'
  BY <1>6, <1>8, <1>9 DEF AbsorbedBlocks
<1> QED
  BY <1>1, <1>10 DEF AbsorbInv, AbsorbsPadded

(* What is left, the one bit and the zeros make the last block.            *)
LEMMA AbsorbLast == ASSUME AbsorbInv, AbsorbRest PROVE AbsorbInv'
<1> DEFINE B == 0 .. 255
           tail == [i \in 1 .. Rate - left |-> IF i = 1 THEN 1 ELSE 0]
           last == Piece(left) \o tail
           upto == SubSeq(message, 1, given')
           one == <<1>>
<1>1. /\ xof_pc = "absorb" /\ xof_pc' = "ready" /\ ~(left >= Rate)
      /\ absorbed' = Append(absorbed, last) /\ given' = given
  BY DEF AbsorbRest, Whole
<1>2. AbsorbedBlocks /\ Rate \in Nat /\ Rate > 0 /\ left \in Nat
  BY <1>1, RateAssumption DEF AbsorbInv, AbsorbedBlocks
<1>3. PICK m \in Nat : m = Len(absorbed)
  BY <1>2, LenProperties DEF AbsorbedBlocks
<1>4. PICK t \in Nat : t = m * Rate /\ taken = t
  BY <1>2, <1>3 DEF AbsorbedBlocks
<1>5. PICK z \in Nat : z \in 0 .. Rate - 1 /\ left + (1 + z) = Rate
  <2>1. Rate - left - 1 \in 0 .. Rate - 1 /\ left + (1 + (Rate - left - 1)) = Rate
    BY <1>1, <1>2
  <2> QED
    BY <2>1
<1> DEFINE padding == [i \in 1 .. z |-> 0]
           marked == upto \o one
           whole == marked \o padding
<1>6. /\ Piece(left) \in Seq(B) /\ Len(Piece(left)) = left
      /\ \A i \in 1 .. left : Piece(left)[i] = message[t + i]
  <2>1. left \in 0 .. left
    BY <1>2
  <2> QED
    BY <1>2, <1>4, <2>1, NextPiece
<1>7. /\ tail \in Seq(B) /\ Len(tail) = 1 + z
      /\ \A i \in 1 .. 1 + z : tail[i] = IF i = 1 THEN 1 ELSE 0
  <2>1. PICK k \in Nat : k = 1 + z /\ k = Rate - left
    BY <1>2, <1>5
  <2>2. tail = [i \in 1 .. k |-> IF i = 1 THEN 1 ELSE 0]
    BY <2>1
  <2> DEFINE u == [i \in 1 .. k |-> IF i = 1 THEN 1 ELSE 0]
  <2>3. u \in Seq(B) /\ Len(u) = k /\ \A i \in 1 .. k : u[i] = IF i = 1 THEN 1 ELSE 0
    OBVIOUS
  <2> HIDE DEF u, tail
  <2>4. tail = u
    BY <2>2 DEF u
  <2> QED
    BY <2>1, <2>3, <2>4
<1> HIDE DEF tail
<1>8. /\ last \in Seq(B) /\ Len(last) = left + (1 + z)
      /\ \A i \in 1 .. left : last[i] = message[t + i]
      /\ \A i \in 1 .. 1 + z : last[left + i] = IF i = 1 THEN 1 ELSE 0
  <2>1. OfLength(Piece(left), B, left) /\ OfLength(tail, B, 1 + z)
    BY <1>2, <1>6, <1>7 DEF OfLength
  <2>2. OfLength(last, B, left + (1 + z)) /\ Joined(last, Piece(left), left, tail, 1 + z)
    BY <2>1, ConcatAt
  <2> HIDE DEF last
  <2> QED
    BY <1>6, <1>7, <2>2 DEF OfLength, Joined
<1> HIDE DEF last
<1>9. /\ absorbed' \in Seq(Seq(B)) /\ Len(absorbed') = m + 1
      /\ absorbed'[m + 1] = last /\ \A b \in 1 .. m : absorbed'[b] = absorbed[b]
  BY <1>1, <1>2, <1>3, <1>8, AppendProperties DEF AbsorbedBlocks
<1>10. \A b \in 1 .. m : Len(absorbed'[b]) = Rate
                         /\ \A r \in 1 .. Rate : absorbed'[b][r] = message[(b - 1) * Rate + r]
  <2>1. ASSUME NEW b \in 1 .. m
        PROVE  Len(absorbed[b]) = Rate
               /\ \A r \in 1 .. Rate : absorbed[b][r] = message[(b - 1) * Rate + r]
    BY <1>2, <1>3 DEF AbsorbedBlocks
  <2> QED
    BY <1>9, <2>1, ZenonT(60)
<1>11. /\ upto \in Seq(B) /\ Len(upto) = t + left
       /\ \A i \in 1 .. t + left : upto[i] = message[i]
  <2>1. PICK k \in Nat : k = t + left
    BY <1>2
  <2>2. PICK l \in Nat : l = Len(message)
    BY MessageAssumption, LenProperties
  <2>3. given = k /\ k <= l /\ message \in Seq(B)
    BY <1>2, <1>4, <2>1, <2>2, MessageAssumption DEF AbsorbedBlocks
  <2>4. /\ SubSeq(message, 1, k) \in Seq(B) /\ Len(SubSeq(message, 1, k)) = k
        /\ \A i \in 1 .. k : SubSeq(message, 1, k)[i] = message[i]
    BY <2>2, <2>3, SMTT(30)
  <2>5. upto = SubSeq(message, 1, k)
    BY <1>1, <2>3
  <2> HIDE DEF upto
  <2> QED
    BY <2>1, <2>4, <2>5
<1> HIDE DEF upto
<1>12. /\ marked \in Seq(B) /\ Len(marked) = (t + left) + 1
       /\ \A i \in 1 .. t + left : marked[i] = message[i]
       /\ marked[(t + left) + 1] = 1
  <2>1. one \in Seq(B) /\ Len(one) = 1 /\ one[1] = 1 /\ t + left \in Nat /\ 1 \in 1 .. 1
    BY <1>2
  <2> HIDE DEF one
  <2>2. OfLength(upto, B, t + left) /\ OfLength(one, B, 1)
    BY <1>11, <2>1 DEF OfLength
  <2>3. OfLength(marked, B, (t + left) + 1) /\ Joined(marked, upto, t + left, one, 1)
    BY <2>2, ConcatAt
  <2> HIDE DEF marked
  <2> QED
    BY <1>11, <2>1, <2>3 DEF OfLength, Joined
<1> HIDE DEF marked
<1>13. /\ whole \in Seq(B) /\ Len(whole) = t + Rate
       /\ \A i \in 1 .. t + left : whole[i] = message[i]
       /\ whole[(t + left) + 1] = 1
       /\ \A i \in 1 .. z : whole[((t + left) + 1) + i] = 0
  <2>1. padding \in Seq(B) /\ Len(padding) = z /\ \A i \in 1 .. z : padding[i] = 0
    OBVIOUS
  <2> HIDE DEF padding
  <2>2. PICK k \in Nat : k = (t + left) + 1
    BY <1>2
  <2>3. OfLength(whole, B, k + z) /\ Joined(whole, marked, k, padding, z)
    <3>1. OfLength(marked, B, k) /\ OfLength(padding, B, z)
      BY <1>12, <2>1, <2>2 DEF OfLength
    <3> QED
      BY <3>1, ConcatAt
  <2> HIDE DEF whole
  <2>4. k + z = t + Rate /\ k \in 1 .. k /\ \A i \in 1 .. t + left : i \in 1 .. k
    BY <1>2, <1>5, <2>2
  <2> QED
    BY <1>12, <2>1, <2>2, <2>3, <2>4 DEF OfLength, Joined
<1> HIDE DEF whole
<1>14. ASSUME NEW b \in 1 .. m + 1, NEW r \in 1 .. Rate
       PROVE  whole[(b - 1) * Rate + r] = absorbed'[b][r]
  <2>1. PICK c \in Nat : c = (b - 1) * Rate
    BY <1>2
  <2>2. CASE b = m + 1
    <3>1. c = t /\ absorbed'[b] = last
      BY <1>4, <1>9, <2>1, <2>2
    <3>2. CASE r <= left
      <4>1. r \in 1 .. left /\ t + r \in 1 .. t + left
        BY <1>2, <3>2
      <4> QED
        BY <1>8, <1>13, <2>1, <3>1, <4>1, SMTT(30)
    <3>3. CASE r = left + 1
      <4>1. r = left + 1 /\ t + r = (t + left) + 1 /\ 1 \in 1 .. 1 + z
        BY <1>2, <3>3
      <4> QED
        BY <1>8, <1>13, <2>1, <3>1, <4>1
    <3>4. CASE r > left + 1
      <4>1. PICK i \in 1 .. z : r = left + (1 + i)
        <5>1. r - left - 1 \in 1 .. z /\ r = left + (1 + (r - left - 1))
          BY <1>2, <1>5, <3>4
        <5> QED
          BY <5>1
      <4>2. 1 + i \in 1 .. 1 + z /\ 1 + i # 1 /\ t + r = ((t + left) + 1) + i
        BY <1>2, <4>1
      <4>3. last[r] = 0
        BY <1>8, <4>1, <4>2
      <4>4. whole[t + r] = 0
        BY <1>13, <4>2
      <4> QED
        BY <2>1, <3>1, <4>3, <4>4
    <3> QED
      BY <1>2, <3>2, <3>3, <3>4
  <2>3. CASE b # m + 1
    <3>1. b \in 1 .. m
      BY <2>3
    <3>2. PICK d \in Nat : d = m - b
      BY <3>1
    <3>3. (b + d) * Rate = b * Rate + d * Rate /\ d * Rate \in Nat /\ b * Rate = c + Rate
      BY <1>2, <2>1, <3>1
    <3>4. c + r \in 1 .. t + left
      BY <1>2, <1>4, <2>1, <3>1, <3>2, <3>3
    <3>5. whole[c + r] = message[c + r]
      BY <1>13, <3>4
    <3>6. absorbed'[b][r] = message[c + r]
      BY <1>10, <2>1, <3>1
    <3> QED
      BY <2>1, <3>5, <3>6
  <2> QED
    BY <2>2, <2>3
<1>15. \A b \in 1 .. m + 1 : Len(absorbed'[b]) = Rate
  BY <1>5, <1>8, <1>9, <1>10
<1>16. FlattenSeq(absorbed') = whole
  <2>1. m + 1 \in 1 .. m + 1 /\ (m + 1) - 1 = m /\ m + 1 \in Nat /\ m + 1 > 0
    OBVIOUS
  <2>2. Len(whole) = ((m + 1) - 1) * Rate + Len(absorbed'[m + 1])
    BY <1>4, <1>13, <1>15, <2>1
  <2>3. Parts(absorbed', Rate, m + 1)
    BY <1>9, <1>15, <2>1 DEF Parts
  <2>4. Joins(whole, absorbed', Rate, m + 1)
    BY <1>14, <1>15, <2>2 DEF Joins
  <2>5. Len(absorbed'[m + 1]) <= Rate /\ Rate \in Nat \ {0}
    BY <1>2, <1>15, <2>1
  <2> QED
    <3>1. PICK n \in Nat : n = m + 1
      BY <2>1
    <3>2. absorbed' \in Seq(Seq(B)) /\ whole \in Seq(B)
      BY <1>9, <1>13, Zenon
    <3>3. Parts(absorbed', Rate, n) /\ Joins(whole, absorbed', Rate, n) /\ Len(absorbed'[n]) <= Rate
      BY <2>3, <2>4, <2>5, <3>1, Zenon
    <3>4. Rate \in Nat \ {0}
      BY <2>5, Zenon
    <3> QED
      BY <3>2, <3>3, <3>4, FlattenIs, Zenon
<1>17. AbsorbsPadded'
  <2>1. z \in 0 .. Rate - 1 /\ whole = upto \o <<1>> \o [i \in 1 .. z |-> 0]
    BY <1>5 DEF whole, marked
  <2>2. \A b \in DOMAIN absorbed' : Len(absorbed'[b]) = Rate
    <3>1. DOMAIN absorbed' = 1 .. m + 1
      BY <1>9
    <3> QED
      BY <1>15, <3>1
  <2> QED
    BY <1>16, <2>1, <2>2 DEF AbsorbsPadded, upto
<1> QED
  BY <1>1, <1>17 DEF AbsorbInv

LEMMA AbsorbNextInv == AbsorbInv /\ [XofNext]_xofVars => AbsorbInv'
<1> SUFFICES ASSUME AbsorbInv, [XofNext]_xofVars PROVE AbsorbInv'
  OBVIOUS
<1>1. ASSUME NEW n \in 0 .. Len(message), LTE_AsconXOF128_init(n) PROVE AbsorbInv'
  BY <1>1, AbsorbStart
<1>2. CASE AbsorbBlock
  BY <1>2, AbsorbNext
<1>3. CASE AbsorbRest
  BY <1>3, AbsorbLast
<1>4. ASSUME NEW n \in 0 .. MaxOutput, LTE_AsconXOF128_squeeze(n) PROVE AbsorbInv'
  BY <1>4 DEF LTE_AsconXOF128_squeeze, sponge, AbsorbInv, AbsorbsPadded
<1>5. CASE SqueezeBlock
  BY <1>5 DEF SqueezeBlock, AbsorbInv, AbsorbsPadded
<1>6. CASE SqueezeReturns
  BY <1>6 DEF SqueezeReturns, sponge, AbsorbInv, AbsorbsPadded
<1>7. CASE UNCHANGED xofVars
  BY <1>7 DEF xofVars, sponge, AbsorbInv, AbsorbedBlocks, AbsorbsPadded
<1> QED
  BY <1>1, <1>2, <1>3, <1>4, <1>5, <1>6, <1>7 DEF XofNext

(* The blocks absorbed before the first squeeze all have ASCON_HASH_RATE   *)
(* bytes, and together they are the whole input of LTE_AsconXOF128_init, a *)
(* one bit and fewer zeros than a block has bytes, that is, the least      *)
(* number that fills the last block, whatever the length of the input      *)
(* (ascon.c:94-119).                                                       *)
THEOREM PaddedAbsorbed == XofSpec => []AbsorbsPadded
<1>1. XofInit => AbsorbInv
  BY DEF XofInit, AbsorbInv, AbsorbsPadded
<1>2. AbsorbInv => AbsorbsPadded
  BY DEF AbsorbInv
<1> QED
  BY <1>1, <1>2, AbsorbNextInv, PTL DEF XofSpec

(* The pieces squeezed from a sponge, whatever their lengths, make up one  *)
(* stream with no byte left out or repeated (ascon.c:121-146).             *)
THEOREM OneStream == XofSpec => []SqueezesInOrder
<1> QED
  BY XofInitInv, XofNextInv, XofInOrder, PTL DEF XofSpec

===============================================================================
