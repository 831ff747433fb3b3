---------------------------------- MODULE Text ----------------------------------
(***************************************************************************)
(* A program that collects a text in a string builder, byte by byte, by    *)
(* strings, or by code points it encodes, and then reads the value with    *)
(* the functions of utf8.c, hex.c and base64.c, none of which changes it.  *)
(* Reading is possible whenever no append is in progress, so that what a   *)
(* reader finds is stated as invariants.                                   *)
(***************************************************************************)
EXTENDS StringBuilder, Utf8, Codec

CONSTANTS
  Kind,         \* what the program collects: "codepoints", "strings" or bytes
  Alphabet,     \* the bytes of each of the other kinds of texts
  Codepoints,   \* the code points it tries to encode
  MaxBytes,     \* bound: how long a text of each of these kinds gets
  MaxTyped      \* bound: texts made of code points get no longer than this

ASSUME TextAssumption ==
  /\ Byte = 0 .. 255 /\ NUL = 0
  /\ SizeValues = WordValues            \* both are the values of size_t
  /\ MaxBlock >= 4                      \* an encoded code point is an object
  /\ Codepoints \subseteq Nat
  /\ "codepoints" \notin DOMAIN Alphabet
  /\ \A k \in DOMAIN Alphabet : Alphabet[k] \subseteq Byte

VARIABLES
  kind,
  typed         \* the code points that were encoded into the text

textVars == <<vars, kind, typed>>

TextInit == Init /\ kind = "none" /\ typed = <<>>

Start(k) == LTE_StringBuilder_new /\ kind' = k /\ typed' = <<>>
Discard == LTE_StringBuilder_free /\ kind' = "none" /\ typed' = <<>>

AppendByte(ch) ==
  /\ length < MaxBytes[kind]
  /\ LTE_StringBuilder_append_char(ch)
  /\ UNCHANGED <<kind, typed>>

AppendString(a) ==
  /\ kind = "strings"
  /\ LTE_StringBuilder_append_bytes(a) \/ LTE_StringBuilder_append_str(a)
  /\ UNCHANGED <<kind, typed>>

(* A code point that LTE_utf8_encode refuses gives no bytes to append.     *)
AppendCodepoint(cp) ==
  /\ kind = "codepoints" /\ Len(typed) < MaxTyped
  /\ LTE_StringBuilder_append_bytes(Given(LTE_utf8_encode(cp)))
  /\ typed' = Append(typed, cp)
  /\ UNCHANGED kind

TextNext ==
  \/ \E k \in Kind : Start(k)
  \/ Discard
  \/ kind \in DOMAIN Alphabet /\ \E ch \in Alphabet[kind] : AppendByte(ch)
  \/ \E a \in Arguments : AppendString(a)
  \/ \E cp \in Codepoints : AppendCodepoint(cp)
  \/ Appending /\ UNCHANGED <<kind, typed>>

TextSpec == TextInit /\ [][TextNext]_textVars /\ WF_textVars(Appending /\ UNCHANGED <<kind, typed>>)

-------------------------------------------------------------------------------
Reading == pc = "ready"
Value == LTE_StringBuilder_value
Available(c) == length - c
Next_(c) == LTE_utf8_next_bounded(buf, c, Available(c))
Codepoint(c) == LTE_utf8_codepoint_at_bounded(buf, c, Available(c))

(* The cursors of a walk with LTE_utf8_next_bounded from the start on, the *)
(* end not included.                                                       *)
Walk ==
  LET from[c \in 0 .. length] == IF c = length THEN <<>> ELSE <<c>> \o from[Next_(c)]
  IN  from[0]

(* Reading a part of a text with the functions that are told its length   *)
(* is reading a copy of it that ends in NUL with those that are not, from  *)
(* any cursor: neither is misled by the bytes behind the end.              *)
BoundedAgrees ==
  Reading =>
    \A end \in 0 .. length :
      LET copy == [buf EXCEPT ![end] = NUL]
      IN  \A c \in 0 .. end - 1 :
            (\A d \in c .. end - 1 : buf[d] # NUL) =>
              /\ LTE_utf8_next(copy, c) = LTE_utf8_next_bounded(buf, c, end - c)
              /\ LTE_utf8_codepoint_at(copy, c) = LTE_utf8_codepoint_at_bounded(buf, c, end - c)

(* At any cursor of any text, a sequence the Unicode Standard calls well   *)
(* formed is decoded to the code point that LTE_utf8_encode encodes that   *)
(* way and stepped over as a whole; anything else gives the replacement.   *)
DecodesWellFormed ==
  Reading =>
    \A c \in 0 .. length - 1 :
      LET formed == {n \in 1 .. Min({4, Available(c)}) : WellFormed(SubSeq(Value, c + 1, c + n))}
      IN  IF formed = {} THEN Codepoint(c) = LTE_UTF8_REPLACEMENT_CODEPOINT
          ELSE \A n \in formed :
                 /\ Next_(c) = c + n
                 /\ LTE_utf8_encode(Codepoint(c)) = SubSeq(Value, c + 1, c + n)

(* Malformed bytes never hide the start of what follows them: a walk over  *)
(* any text visits every byte that is not a continuation byte, and ends    *)
(* exactly at the end of the text.                                         *)
StartsVisited ==
  Reading =>
    {c \in 0 .. length - 1 : ~LTE_utf8_is_continuation(buf[c])} \subseteq Range(Walk)

(* A walk over a text made of encoded code points reads these code points. *)
TypedReadBack ==
  Reading /\ kind = "codepoints" => [i \in DOMAIN Walk |-> Codepoint(Walk[i])] = typed

(* Decoding the hexadecimal form of any bytes gives the bytes, and a       *)
(* string that can be decoded is, but for whitespace and case, the         *)
(* hexadecimal form of the result; whitespace never matters.               *)
Dense(s) == FlattenSeq([i \in DOMAIN s |-> IF s[i] \in {32, 9, 10, 11, 12, 13} THEN <<>> ELSE <<s[i]>>])
LowerCase(s) == [i \in DOMAIN s |-> IF s[i] \in 65 .. 90 THEN s[i] + 32 ELSE s[i]]
HexInverse ==
  Reading =>
    /\ \A s \in LTE_hex_encode(Value, FALSE) \cup LTE_hex_encode(Value, TRUE) :
         LTE_hex_decode(s) = {Value}
    /\ LTE_hex_decode(Value) = LTE_hex_decode(Dense(Value))
    /\ \A bytes \in LTE_hex_decode(Value) :
         LTE_hex_encode(bytes, FALSE) = {LowerCase(Dense(Value))}

(* The same for base64, in both alphabets: what is encoded with padding,   *)
(* or without it if none is required, is decoded to the same bytes; and no *)
(* string is decoded but, whitespace left aside, the two encodings of the  *)
(* result.                                                                 *)
Base64Inverse ==
  Reading =>
    \A uri_safe, padded, required \in BOOLEAN :
      /\ \A s \in LTE_base64_encode(Value, uri_safe, padded) :
           LTE_base64_decode(s, uri_safe, required) =
             IF required /\ ~padded /\ length % 3 # 0 THEN {} ELSE {Value}
      /\ \A bytes \in LTE_base64_decode(Value, uri_safe, required) :
           Dense(Value) \in LTE_base64_encode(bytes, uri_safe, TRUE)
             \cup (IF required THEN {} ELSE LTE_base64_encode(bytes, uri_safe, FALSE))

(* Decoding inverts encoding, and what is no encoding is refused.          *)
DecodingInverts == HexInverse /\ Base64Inverse

(* The characters are those of the bits of the text, and as many as the    *)
(* code allocated memory for: digits for every four bits, and a character  *)
(* for every six and its padding.                                          *)
EncodesBits ==
  Reading =>
    \A flag, padded \in BOOLEAN :
      /\ \A s \in LTE_hex_encode(Value, flag) :
           s = [i \in 1 .. 2 * length |-> hex_alphabet(BitGroups(Value, 4)[i], flag)]
      /\ \A s \in LTE_base64_encode(Value, flag, padded) :
           LET sextets == BitGroups(Value, 6)
           IN  /\ Len(s) = encoded_length(length, padded)
               /\ s = [i \in DOMAIN s |-> IF i \in DOMAIN sextets
                                          THEN base64_alphabet(sextets[i], flag) ELSE Equals]
===============================================================================
