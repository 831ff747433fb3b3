---------------------------------- MODULE Utf8 ----------------------------------
(***************************************************************************)
(* The functions of src/utils/utf8.c.  bytes is the memory a cursor points *)
(* into, a function of addresses; the functions that are given no number   *)
(* of available bytes rely on a NUL somewhere behind the cursor.           *)
(***************************************************************************)
EXTENDS Integers, FiniteSetsExt

LTE_UTF8_REPLACEMENT_CODEPOINT == \hfffd

LTE_utf8_is_continuation(ch) == ch \div \h40 = 2

utf8_codepoint_valid_Surrogates(codepoint) == codepoint <= \h10ffff
                                             \* mutant: surrogates are valid
utf8_codepoint_valid(codepoint) ==
  codepoint <= \h10ffff /\ codepoint \notin \hd800 .. \hdfff

(* The first bytes of the sequences of one, two, three and four bytes.     *)
FirstByte == <<0 .. \h7f, \hc2 .. \hdf, \he0 .. \hef, \hf0 .. \hf4>>

LTE_utf8_sequence_length(first) ==
  IF \E n \in 1 .. 4 : first \in FirstByte[n]
  THEN CHOOSE n \in 1 .. 4 : first \in FirstByte[n] ELSE 0

LTE_utf8_sequence_valid_NoBounds(bytes, cursor, length) ==
  /\ length \in 1 .. 4 /\ bytes[cursor] \in FirstByte[length]
  /\ \A i \in 1 .. length - 1 : LTE_utf8_is_continuation(bytes[cursor + i])
                                             \* mutant: first = 0xe0 and the like
LTE_utf8_sequence_valid(bytes, cursor, length) ==
  LET first == bytes[cursor]
      second == bytes[cursor + 1]
  IN  /\ length \in 1 .. 4 /\ first \in FirstByte[length]
      /\ \A i \in 1 .. length - 1 : LTE_utf8_is_continuation(bytes[cursor + i])
      /\ first = \he0 => second >= \ha0
      /\ first = \hed => second <= \h9f
      /\ first = \hf0 => second >= \h90
      /\ first = \hf4 => second <= \h8f

LTE_utf8_sequence_valid_bounded_Late(bytes, cursor, available, length) ==
  LTE_utf8_sequence_valid(bytes, cursor, length)   \* mutant: available is ignored
LTE_utf8_sequence_valid_bounded(bytes, cursor, available, length) ==
  length <= available /\ LTE_utf8_sequence_valid(bytes, cursor, length)

LTE_utf8_decode_valid(bytes, cursor, length) ==
  LET first == bytes[cursor]
      low(i) == bytes[cursor + i] % \h40
  IN  CASE length = 1 -> first
        [] length = 2 -> (first % \h20) * \h40 + low(1)
        [] length = 3 -> (first % \h10) * \h1000 + low(1) * \h40 + low(2)
        [] length = 4 -> (first % 8) * \h40000 + low(1) * \h1000 + low(2) * \h40 + low(3)
        [] OTHER -> LTE_UTF8_REPLACEMENT_CODEPOINT

LTE_utf8_codepoint_at_bounded(bytes, cursor, available) ==
  LET length == LTE_utf8_sequence_length(bytes[cursor])
  IN  IF available > 0 /\ length > 0
         /\ LTE_utf8_sequence_valid_bounded(bytes, cursor, available, length)
      THEN LTE_utf8_decode_valid(bytes, cursor, length)
      ELSE LTE_UTF8_REPLACEMENT_CODEPOINT

LTE_utf8_codepoint_at(bytes, cursor) ==
  LET length == LTE_utf8_sequence_length(bytes[cursor])
  IN  IF length > 0 /\ LTE_utf8_sequence_valid(bytes, cursor, length)
      THEN LTE_utf8_decode_valid(bytes, cursor, length)
      ELSE LTE_UTF8_REPLACEMENT_CODEPOINT

(* The cursor behind the sequence, or behind the run of continuation bytes *)
(* it is in, or behind the one byte that starts no valid sequence.         *)
LTE_utf8_next_bounded_Skip(bytes, cursor, available) ==
  LET length == LTE_utf8_sequence_length(bytes[cursor])
  IN  cursor + (IF length = 0 THEN 1 ELSE Min({length, available}))
                                             \* mutant: trusts the first byte
LTE_utf8_next_bounded(bytes, cursor, available) ==
  LET length == LTE_utf8_sequence_length(bytes[cursor])
      run == {offset \in 1 .. available :
                offset = available \/ ~LTE_utf8_is_continuation(bytes[cursor + offset])}
  IN  IF available = 0 THEN cursor
      ELSE IF LTE_utf8_is_continuation(bytes[cursor]) THEN cursor + Min(run)
      ELSE IF length > 0 /\ LTE_utf8_sequence_valid_bounded(bytes, cursor, available, length)
           THEN cursor + length ELSE cursor + 1

LTE_utf8_next(bytes, cursor) ==
  LET length == LTE_utf8_sequence_length(bytes[cursor])
      behind == {c \in DOMAIN bytes : c > cursor /\ ~LTE_utf8_is_continuation(bytes[c])}
  IN  IF LTE_utf8_is_continuation(bytes[cursor]) THEN Min(behind)
      ELSE IF length > 0 /\ LTE_utf8_sequence_valid(bytes, cursor, length)
           THEN cursor + length ELSE cursor + 1

LTE_utf8_encode(codepoint) ==
  LET tail(shift) == \h80 + ((codepoint \div shift) % \h40)
  IN  IF ~utf8_codepoint_valid(codepoint) THEN <<>>
      ELSE IF codepoint <= \h7f THEN <<codepoint>>
      ELSE IF codepoint <= \h7ff THEN <<\hc0 + codepoint \div \h40, tail(1)>>
      ELSE IF codepoint <= \hffff
           THEN <<\he0 + codepoint \div \h1000, tail(\h40), tail(1)>>
      ELSE <<\hf0 + codepoint \div \h40000, tail(\h1000), tail(\h40), tail(1)>>

-------------------------------------------------------------------------------
(* The reference: the well-formed sequences of the Unicode Standard, as    *)
(* the ranges of their bytes, and the code points that are encoded.        *)
Rest == \h80 .. \hbf
WellFormedRanges ==
  { << 0 .. \h7f >>, << \hc2 .. \hdf, Rest >>,
    << {\he0}, \ha0 .. \hbf, Rest >>, << \he1 .. \hec, Rest, Rest >>,
    << {\hed}, \h80 .. \h9f, Rest >>, << \hee .. \hef, Rest, Rest >>,
    << {\hf0}, \h90 .. \hbf, Rest, Rest >>, << \hf1 .. \hf3, Rest, Rest, Rest >>,
    << {\hf4}, \h80 .. \h8f, Rest, Rest >> }
WellFormed(s) ==
  \E r \in WellFormedRanges : DOMAIN r = DOMAIN s /\ \A i \in DOMAIN s : s[i] \in r[i]
===============================================================================
