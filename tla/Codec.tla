---------------------------------- MODULE Codec ----------------------------------
(***************************************************************************)
(* The functions of src/utils/hex.c and src/utils/base64.c.  A string or a *)
(* byte array is the sequence of its bytes.  The result is a set: it has   *)
(* one member, or none where the code stops in LTE_error.                  *)
(***************************************************************************)
EXTENDS Integers, SequencesExt

CONSTANTS SizeValues          \* how many values size_t has

SIZE_MAX == SizeValues - 1

(* hex_ascii_whitespace_p and base64_ascii_whitespace_p; the first loop of *)
(* both decoders drops these characters.                                   *)
Whitespace == {32} \cup 9 .. 13
compacted(s) == FlattenSeq([i \in DOMAIN s |-> IF s[i] \in Whitespace THEN <<>> ELSE <<s[i]>>])

(***************************************************************************)
(* Hexadecimal.                                                            *)
(***************************************************************************)
hex_alphabet(v, uppercase) ==
  IF v < 10 THEN 48 + v ELSE (IF uppercase THEN 65 ELSE 97) + v - 10

hex_decode_char_value(ch) ==
  CASE ch \in 48 .. 57 -> ch - 48
    [] ch \in 97 .. 102 -> ch - 97 + 10
    [] ch \in 65 .. 70 -> ch - 65 + 10
    [] OTHER -> -1

HexFits(n) == n <= (SIZE_MAX - 1) \div 2

LTE_hex_encode(bytes, uppercase) ==
  IF ~HexFits(Len(bytes)) THEN {}
  ELSE {FlattenSeq([i \in DOMAIN bytes |->
          << hex_alphabet(bytes[i] \div 16, uppercase),
             hex_alphabet(bytes[i] % 16, uppercase) >>])}

LTE_hex_decode(string) ==
  LET s == compacted(string)
      value(i) == hex_decode_char_value(s[i])
  IN  IF Len(s) % 2 # 0 \/ \E i \in DOMAIN s : value(i) < 0 THEN {}
      ELSE {[i \in 1 .. Len(s) \div 2 |-> value(2 * i - 1) * 16 + value(2 * i)]}

(***************************************************************************)
(* Base64.                                                                 *)
(***************************************************************************)
base64_alphabet(v, uri_safe) ==
  CASE v < 26 -> 65 + v
    [] v \in 26 .. 51 -> 97 + v - 26
    [] v \in 52 .. 61 -> 48 + v - 52
    [] v = 62 -> IF uri_safe THEN 45 ELSE 43
    [] v = 63 -> IF uri_safe THEN 95 ELSE 47

base64_decode_char_value(ch, uri_safe) ==
  CASE ch \in 65 .. 90 -> ch - 65
    [] ch \in 97 .. 122 -> ch - 97 + 26
    [] ch \in 48 .. 57 -> ch - 48 + 52
    [] ch \in {43, 47} -> IF uri_safe THEN -1 ELSE IF ch = 43 THEN 62 ELSE 63
    [] ch \in {45, 95} -> IF ~uri_safe THEN -1 ELSE IF ch = 45 THEN 62 ELSE 63
    [] OTHER -> -1

Equals == 61                            \* the character =

Base64Fits(n) == n <= ((SIZE_MAX - 1) \div 4) * 3
encoded_length_Rounded(n, include_padding) == ((n + 2) \div 3) * 4
                                        \* mutant: room for padding anyway
encoded_length(n, include_padding) ==
  ((n + 2) \div 3) * 4 - (IF include_padding \/ n % 3 = 0 THEN 0 ELSE 3 - (n % 3))

(* The characters for the bytes from index at on: three of them, or what   *)
(* is left.                                                                *)
EncodedGroup(bytes, at, uri_safe, include_padding) ==
  LET remaining == Len(bytes) - at + 1
      byte(k) == IF k < remaining THEN bytes[at + k] ELSE 0
      v == byte(0) * 65536 + byte(1) * 256 + byte(2)
      char(shift) == base64_alphabet((v \div shift) % 64, uri_safe)
      filled(k, shift) ==
        IF remaining > k THEN <<char(shift)>> ELSE IF include_padding THEN <<Equals>> ELSE <<>>
  IN  <<char(262144), char(4096)>> \o filled(1, 64) \o filled(2, 1)

LTE_base64_encode(bytes, uri_safe, include_padding) ==
  IF ~Base64Fits(Len(bytes)) THEN {}
  ELSE {FlattenSeq([g \in 1 .. (Len(bytes) + 2) \div 3 |->
          EncodedGroup(bytes, 3 * g - 2, uri_safe, include_padding)])}

PaddingOf(s) ==
  (IF Len(s) >= 1 /\ s[Len(s)] = Equals THEN 1 ELSE 0)
    + (IF Len(s) >= 2 /\ s[Len(s) - 1] = Equals THEN 1 ELSE 0)

RefusedLength(s, require_padding) ==
  \/ PaddingOf(s) > 0 /\ Len(s) % 4 # 0
  \/ require_padding /\ Len(s) % 4 # 0
  \/ PaddingOf(s) = 0 /\ Len(s) % 4 = 1

(* The last group leaves out sextets: the bits that then belong to no byte *)
(* must be zero.                                                           *)
StrayBits_None(omitted, sextet) == FALSE     \* mutant: any bits will do
StrayBits(omitted, sextet) ==
  \/ omitted = 1 /\ sextet[3] % 4 # 0
  \/ omitted = 2 /\ sextet[2] % 16 # 0

LTE_base64_decode(string, uri_safe, require_padding) ==
  LET s == compacted(string)
      padding == PaddingOf(s)
      body_length == Len(s) - padding
      remainder == body_length % 4
      decoded_length == (body_length \div 4) * 3 + (IF remainder > 0 THEN remainder - 1 ELSE 0)
      value(i) == IF i > body_length THEN 0 ELSE base64_decode_char_value(s[i], uri_safe)
      sextets(g) == [k \in 1 .. 4 |-> value(4 * g - 4 + k)]
      groups == (body_length + 3) \div 4
      bits(g) == LET x == sextets(g)
                 IN  x[1] * 262144 + x[2] * 4096 + x[3] * 64 + x[4]
      omitted == IF remainder = 0 THEN padding ELSE 4 - remainder
  IN  IF \/ RefusedLength(s, require_padding)
         \/ \E i \in 1 .. body_length : value(i) < 0
         \/ groups > 0 /\ StrayBits(omitted, sextets(groups))
      THEN {}
      ELSE {[i \in 1 .. decoded_length |->
               (bits((i + 2) \div 3) \div <<65536, 256, 1>>[((i - 1) % 3) + 1]) % 256]}

-------------------------------------------------------------------------------
(* The reference for both encodings: the bits of the bytes, from the       *)
(* highest of the first one on, in groups of width bits, the last group    *)
(* filled up with zeros.                                                   *)
BitGroups(bytes, width) ==
  LET bit(k) == IF k >= 8 * Len(bytes) THEN 0
                ELSE (bytes[(k \div 8) + 1] \div 2 ^ (7 - (k % 8))) % 2
      upto[k \in Nat] == IF k % width = 0 THEN bit(k) ELSE 2 * upto[k - 1] + bit(k)
  IN  [g \in 1 .. (8 * Len(bytes) + width - 1) \div width |-> upto[g * width - 1]]
===============================================================================
