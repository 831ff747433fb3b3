--------------------------------- MODULE Sha256 ---------------------------------
(***************************************************************************)
(* The incremental digest of src/utils/crypto/sha256.c: what is buffered,  *)
(* what is compressed and how the end is padded.  The compression function *)
(* is not interpreted: state is the sequence of the blocks it was applied  *)
(* to, so that two digests are equal when the same blocks were.            *)
(*                                                                         *)
(* The program feeds the bytes of input in order, in pieces of any length. *)
(***************************************************************************)
EXTENDS Integers, SequencesExt

CONSTANTS
  BlockLength,            \* sizeof(buffer), 64 in the code
  LengthBytes,            \* the bytes of the length at the end, 8 in the code
  input,                  \* the longest message
  Junk                    \* what the buffer of a new context holds

ASSUME BlockAssumption ==
  LengthBytes \in Nat \ {0} /\ BlockLength \in Nat /\ LengthBytes < BlockLength
Byte == 0 .. 255
ASSUME InputAssumption == input \in Seq(Byte) /\ Junk \in Byte

VARIABLES
  state, buffer, buffer_length, total_length,    \* the fields of LTE_SHA256
  pc,
  bytes, length           \* what LTE_SHA256_update has left of its arguments

sha256 == <<state, buffer, buffer_length, total_length>>
vars == <<sha256, pc, bytes, length>>

(* bytes counts the bytes of input before the pointer.                     *)
Bytes(n) == SubSeq(input, bytes + 1, bytes + n)

(* memcpy of s to the buffer at an offset, and sha256_compress.            *)
Overwrite(b, at, s) ==
  [i \in 1 .. BlockLength |-> IF i \in at + 1 .. at + Len(s) THEN s[i - at] ELSE b[i]]
sha256_compress(st, block) == Append(st, block)

Init ==                                      \* a context before LTE_SHA256_init
  /\ state = <<>> /\ buffer = [i \in 1 .. BlockLength |-> Junk]
  /\ buffer_length = 0 /\ total_length = 0
  /\ pc = "none" /\ bytes = 0 /\ length = 0

(* At the start or for the next message; the buffer is left as it is.      *)
LTE_SHA256_init ==
  /\ pc \in {"none", "ready", "digest"} /\ pc' = "ready"
  /\ state' = <<>> /\ buffer_length' = 0 /\ total_length' = 0
  /\ bytes' = 0 /\ length' = 0
  /\ UNCHANGED buffer

LTE_SHA256_update(n) ==
  /\ pc = "ready"
  /\ total_length + n <= Len(input)
  /\ total_length' = total_length + n
  /\ length' = n
  /\ pc' = IF buffer_length > 0 THEN "fill" ELSE "blocks"
  /\ UNCHANGED <<state, buffer, buffer_length, bytes>>

(* First, what completes the block in the buffer.                          *)
Complete(n) == n = BlockLength

Fill ==
  /\ pc = "fill" /\ pc' = "blocks"
  /\ LET chunk == Min({length, BlockLength - buffer_length})
         full == Complete(buffer_length + chunk)
     IN  /\ buffer' = Overwrite(buffer, buffer_length, Bytes(chunk))
         /\ state' = IF full THEN sha256_compress(state, buffer') ELSE state
         /\ buffer_length' = IF full THEN 0 ELSE buffer_length + chunk
         /\ bytes' = bytes + chunk
         /\ length' = length - chunk
  /\ UNCHANGED total_length

WholeBlock ==
  /\ pc = "blocks" /\ length >= BlockLength
  /\ state' = sha256_compress(state, Bytes(BlockLength))
  /\ bytes' = bytes + BlockLength
  /\ length' = length - BlockLength
  /\ UNCHANGED <<buffer, buffer_length, total_length, pc>>

(* Last, what is left goes to the start of the buffer; if nothing is left  *)
(* the buffer may hold what Fill put there.                                *)
Rest_Always ==                        \* mutant: without if (length > 0)
  /\ pc = "blocks" /\ length < BlockLength
  /\ buffer' = Overwrite(buffer, 0, Bytes(length)) /\ buffer_length' = length
  /\ bytes' = bytes + length /\ length' = 0 /\ pc' = "ready"
  /\ UNCHANGED <<state, total_length>>
Rest ==
  /\ pc = "blocks" /\ length < BlockLength
  /\ IF length > 0
     THEN buffer' = Overwrite(buffer, 0, Bytes(length)) /\ buffer_length' = length
     ELSE UNCHANGED <<buffer, buffer_length>>
  /\ bytes' = bytes + length /\ length' = 0 /\ pc' = "ready"
  /\ UNCHANGED <<state, total_length>>

(* The end: a one bit, zeros up to the place of the length, in a block of  *)
(* their own if the one bit leaves no room, and the length in bits.        *)
store_be64(value) ==
  [i \in 1 .. LengthBytes |-> (value \div 256 ^ (LengthBytes - i)) % 256]
Zeros(n) == [i \in 1 .. n |-> 0]
LengthAt == BlockLength - LengthBytes

NoRoom_Early(n) == n >= LengthAt      \* mutant: > is >=
NoRoom(n) == n > LengthAt

LTE_SHA256_finish ==
  LET n == buffer_length + 1
      marked == Overwrite(buffer, buffer_length, <<\h80>>)
      zeroed == Overwrite(marked, n, Zeros(BlockLength - n))
      start == IF NoRoom(n) THEN 0 ELSE n
  IN  /\ pc = "ready" /\ pc' = "digest"
      /\ buffer' = Overwrite(Overwrite(IF NoRoom(n) THEN zeroed ELSE marked,
                                       start, Zeros(LengthAt - start)),
                             LengthAt, store_be64(total_length * 8))
      /\ state' = sha256_compress(IF NoRoom(n) THEN sha256_compress(state, zeroed) ELSE state,
                                  buffer')
      /\ buffer_length' = 0
      /\ UNCHANGED <<total_length, bytes, length>>

Updating == Fill \/ WholeBlock \/ Rest

Next ==
  \/ LTE_SHA256_init
  \/ \E n \in 0 .. Len(input) : LTE_SHA256_update(n)
  \/ Updating
  \/ LTE_SHA256_finish

Spec == Init /\ [][Next]_vars

-------------------------------------------------------------------------------

(* Between the steps of an update, every byte given so far is compressed,  *)
(* buffered or yet to come, once and in order.                             *)
Block(b) == SubSeq(input, (b - 1) * BlockLength + 1, b * BlockLength)
NothingLost ==
  pc \in {"ready", "fill", "blocks"} =>
    /\ state = [b \in 1 .. Len(state) |-> Block(b)]
    /\ \A i \in 1 .. buffer_length : buffer[i] = input[Len(state) * BlockLength + i]
    /\ bytes = Len(state) * BlockLength + buffer_length
    /\ total_length = bytes + length

(* FIPS 180-4, 5.1.1: the message, a one bit, the least number of zeros    *)
(* and the length in bits make whole blocks.                               *)
Padded(message) ==
  LET zeros == CHOOSE k \in 0 .. BlockLength - 1 :
                 (Len(message) + 1 + k + LengthBytes) % BlockLength = 0
  IN  message \o <<\h80>> \o Zeros(zeros) \o store_be64(8 * Len(message))

(* The digest depends on the bytes alone, not on the lengths of the pieces *)
(* they came in, and is that of the padded message.                        *)
DigestOfMessage ==
  pc = "digest" => FlattenSeq(state) = Padded(SubSeq(input, 1, total_length))
===============================================================================
