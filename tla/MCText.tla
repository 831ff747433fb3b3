-------------------------------- MODULE MCText --------------------------------
EXTENDS Text

MCByte == 0 .. 255

(* utf8: bytes of each kind of sequence and of its end, up to the longest  *)
(* sequence; borders: both sides of every border between the ranges of     *)
(* first and of second bytes in utf8.c.                                    *)
MCAlphabet ==
  [utf8 |-> {0, \h41, \h8f, \h90, \ha0, \hbf, \hc2, \he0, \hed, \hf0, \hf1, \hf4, \hf5},
   borders |-> {0, \h7f, \h80, \h8f, \h90, \h9f, \ha0, \hbf, \hc0, \hc1, \hc2, \hdf,
                \he0, \he1, \hec, \hed, \hee, \hef, \hf0, \hf1, \hf3, \hf4, \hf5},
   base64 |-> {65, 81, 103, 43, 47, 45, 61, 32},      \* AQg+/-= and space
   groups |-> {65, 66, 61},                           \* more than one group of base64
   hex |-> {48, 58, 70, 71, 102, 103, 10},
   octets |-> {0, 1, 129, 255}]

MCMaxBytes == [utf8 |-> 4, borders |-> 3, base64 |-> 4, groups |-> 8, hex |-> 4, octets |-> 5]

MCKind == {"codepoints", "strings"} \cup DOMAIN MCAlphabet

MCSource == {<<98, 0, 99>>, [i \in 1 .. 31 |-> 97]}

(* Both sides of every border between the lengths of encodings.            *)
MCCodepoints == {0, \h7f, \h80, \h7ff, \h800, \hd7ff, \hd800, \hdfff, \he000, \hffff,
                 \h10000, \h10ffff, \h110000}
===============================================================================
