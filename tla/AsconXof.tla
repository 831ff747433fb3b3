-------------------------------- MODULE AsconXof --------------------------------
(***************************************************************************)
(* LTE_AsconXOF128 of src/utils/crypto/ascon.c: the message is absorbed in *)
(* one call, the output is squeezed in pieces of any length.  The          *)
(* permutation is not interpreted: the state of the sponge is given by     *)
(* the blocks absorbed and by how often it was permuted after them, and    *)
(* byte i of the block that is read after p of these permutations is named *)
(* by its place in the output, p * Rate + i.                               *)
(***************************************************************************)
EXTENDS Integers, SequencesExt

CONSTANTS
  Rate,                   \* ASCON_HASH_RATE, 8 in the code
  message,                \* the longest input
  MaxOutput               \* bound: bytes squeezed from one context

ASSUME RateAssumption == Rate \in Nat \ {0} /\ MaxOutput \in Nat
ASSUME MessageAssumption == message \in Seq(0 .. 255)

VARIABLES
  absorbed, permutations, \* state: the blocks, and LTE_Ascon_permute after them
  xof_buffer, buffer_offset, xof_buffer_length, need_permute_before_block,
  xof_pc,
  given,                  \* the length of the input of LTE_AsconXOF128_init
  taken, left,            \* what the call in progress has done and left to do
  output                  \* what was squeezed

sponge == <<absorbed, permutations>>
squeezing == <<xof_buffer, buffer_offset, xof_buffer_length, need_permute_before_block>>
xofVars == <<sponge, squeezing, xof_pc, given, taken, left, output>>

XofInit ==                                   \* before LTE_AsconXOF128_init
  /\ absorbed = <<>> /\ permutations = 0
  /\ xof_buffer = <<>> /\ buffer_offset = 0 /\ xof_buffer_length = 0
  /\ need_permute_before_block = FALSE
  /\ xof_pc = "none" /\ given = 0 /\ taken = 0 /\ left = 0 /\ output = <<>>

Piece(n) == SubSeq(message, taken + 1, taken + n)

(* The first n bytes are absorbed: whole blocks, then what is left with a  *)
(* one bit behind it.                                                      *)
LTE_AsconXOF128_init(n) ==
  /\ xof_pc \in {"none", "ready"} /\ xof_pc' = "absorb"
  /\ absorbed' = <<>> /\ given' = n /\ taken' = 0 /\ left' = n /\ output' = <<>>
  /\ permutations' = 0
  /\ UNCHANGED squeezing

Whole_Over(n) == n > Rate             \* mutant: >= is >
Whole(n) == n >= Rate

AbsorbBlock ==
  /\ xof_pc = "absorb" /\ Whole(left)
  /\ absorbed' = Append(absorbed, Piece(Rate))
  /\ taken' = taken + Rate /\ left' = left - Rate
  /\ UNCHANGED <<permutations, squeezing, xof_pc, given, output>>

AbsorbRest ==
  /\ xof_pc = "absorb" /\ ~Whole(left) /\ xof_pc' = "ready"
  /\ absorbed' = Append(absorbed, Piece(left) \o [i \in 1 .. Rate - left |-> IF i = 1 THEN 1 ELSE 0])
  /\ taken' = taken + left /\ left' = 0
  /\ xof_buffer' = [i \in 1 .. Rate |-> 0]
  /\ buffer_offset' = 0 /\ xof_buffer_length' = 0 /\ need_permute_before_block' = FALSE
  /\ UNCHANGED <<permutations, given, output>>

LTE_AsconXOF128_squeeze(n) ==
  /\ xof_pc = "ready" /\ xof_pc' = "squeeze"
  /\ Len(output) + n <= MaxOutput
  /\ left' = n
  /\ UNCHANGED <<sponge, squeezing, given, taken, output>>

(* One turn of the loop: a new block if the last one is used up, and what  *)
(* is wanted of it.                                                        *)
ascon_store_le(p) == [i \in 1 .. Rate |-> p * Rate + i - 1]
Refill_Eager(p) == p + 1              \* mutant: permutes before the first block
Refill(p) == IF need_permute_before_block THEN p + 1 ELSE p

SqueezeBlock ==
  LET used_up == buffer_offset = xof_buffer_length
      offset == IF used_up THEN 0 ELSE buffer_offset
      block == IF used_up THEN ascon_store_le(Refill(permutations)) ELSE xof_buffer
      chunk == Min({left, Len(block) - offset})
  IN  /\ xof_pc = "squeeze" /\ left > 0
      /\ permutations' = IF used_up THEN Refill(permutations) ELSE permutations
      /\ need_permute_before_block' = (used_up \/ need_permute_before_block)
      /\ xof_buffer' = block /\ xof_buffer_length' = Len(block)
      /\ buffer_offset' = offset + chunk
      /\ output' = output \o SubSeq(block, offset + 1, offset + chunk)
      /\ left' = left - chunk
      /\ UNCHANGED <<absorbed, xof_pc, given, taken>>

SqueezeReturns ==
  /\ xof_pc = "squeeze" /\ left = 0 /\ xof_pc' = "ready"
  /\ UNCHANGED <<sponge, squeezing, given, taken, left, output>>

XofNext ==
  \/ \E n \in 0 .. Len(message) : LTE_AsconXOF128_init(n)
  \/ AbsorbBlock \/ AbsorbRest
  \/ \E n \in 0 .. MaxOutput : LTE_AsconXOF128_squeeze(n)
  \/ SqueezeBlock \/ SqueezeReturns

XofSpec == XofInit /\ [][XofNext]_xofVars

-------------------------------------------------------------------------------
(* SP 800-232, appendix A.2: the whole input, a one bit and the least      *)
(* number of zeros make whole blocks.  The least is what makes the blocks  *)
(* whole with fewer zeros than a block has bytes (ascon.c:104-113).        *)
AbsorbsPadded ==
  xof_pc \in {"ready", "squeeze"} =>
    /\ \A b \in DOMAIN absorbed : Len(absorbed[b]) = Rate
    /\ \E zeros \in 0 .. Rate - 1 :
         FlattenSeq(absorbed) = SubSeq(message, 1, given) \o <<1>> \o [i \in 1 .. zeros |-> 0]

(* The pieces, whatever their lengths, make up the output stream: its      *)
(* bytes come in order, none is left out or comes twice.                   *)
SqueezesInOrder == output = [i \in 1 .. Len(output) |-> i - 1]
===============================================================================
