-------------------------------- MODULE Utf8 --------------------------------
(***************************************************************************)
(* The two UTF-8 algorithms of lib/json.c: json_validate_utf8, run on the  *)
(* bytes of a string when validate_utf8 is configured, and                 *)
(* json_encode_utf8, run on the four digits of each "\uXXXX".              *)
(***************************************************************************)
EXTENDS Naturals, Sequences

Byte == 0..255

(* (b ^ 0x80) < 0x40 *)
Cont == 128..191

SetMin(S) == CHOOSE x \in S : \A y \in S : x <= y

(***************************************************************************)
(* The bytes that may follow lead byte ch, in order; no lead byte has to   *)
(* be in 0x80..0xc1 or above 0xf4.                                         *)
(***************************************************************************)
IsLead(ch) == ch \in (0..127) \cup (194..244)

Follow(ch) ==
  CASE ch < 128 -> <<>>
    [] ch \in 194..223 -> <<Cont>>
    [] ch \in 224..239 -> <<IF ch < 225 THEN 160..191 ELSE Cont, Cont>>
    [] ch \in 240..244 -> <<IF ch < 241 THEN 144..191
                            ELSE IF ch > 243 THEN 128..143 ELSE Cont, Cont, Cont>>

Valid == [ok |-> TRUE, err |-> 0]

(* *err is the offset of the byte that failed its test, or the length when *)
(* the bytes end too early (macro INC).                                    *)
Invalid(offset) == [ok |-> FALSE, err |-> offset]

(* Deviation: a sequence cut by the end of the string is reported where it *)
(* begins.                                                                 *)
ValidateCutAtLead(s) ==
  LET n == Len(s)
      scan[i \in 1..(n + 1)] ==
        IF i > n THEN Valid
        ELSE IF ~IsLead(s[i]) THEN Invalid(i - 1)
        ELSE LET f   == Follow(s[i])
                 bad == { k \in 1..Len(f) : i + k > n \/ s[i + k] \notin f[k] }
             IN  IF bad = {} THEN scan[i + Len(f) + 1]
                 ELSE LET p == i + SetMin(bad)
                      IN  Invalid(IF p > n THEN i - 1 ELSE p - 1)
  IN  scan[1]

Validate(s) ==
  LET n == Len(s)
      scan[i \in 1..(n + 1)] ==
        IF i > n THEN Valid
        ELSE IF ~IsLead(s[i]) THEN Invalid(i - 1)
        ELSE LET f   == Follow(s[i])
                 bad == { k \in 1..Len(f) : i + k > n \/ s[i + k] \notin f[k] }
             IN  IF bad = {} THEN scan[i + Len(f) + 1]
                 ELSE LET p == i + SetMin(bad)
                      IN  Invalid(IF p > n THEN n ELSE p - 1)
  IN  scan[1]

-----------------------------------------------------------------------------
(* json_encode_utf8: the value of four hexadecimal digits. *)
CodeUnit(h) == ((h[1] * 16 + h[2]) * 16 + h[3]) * 16 + h[4]

Refused(c) == c \in 55296..57343 \/ c \in {65534, 65535}

(* The branch for c >= 0x10000 of the code needs more than four digits. *)
Bits(c) ==
  CASE c < 128 -> <<c>>
    [] c \in 128..2047 -> <<(c \div 64) + 192, (c % 64) + 128>>
    [] c \in 2048..65535 ->
         <<(c \div 4096) + 224, ((c \div 64) % 64) + 128, (c % 64) + 128>>

(* The bytes that replace the digits in the buffer; none when refused. *)
Encode(h) ==
  LET c == CodeUnit(h)
  IN  IF Refused(c) THEN <<>> ELSE Bits(c)

-----------------------------------------------------------------------------
(* The reference: the tables of the Unicode Standard 8.0 that the comments *)
(* of the two functions name.                                              *)

(* Table 3-6: the payload bits of one sequence of UTF-8. *)
Payload(s) ==
  CASE Len(s) = 1 -> s[1]
    [] Len(s) = 2 -> (s[1] - 192) * 64 + (s[2] - 128)
    [] Len(s) = 3 -> ((s[1] - 224) * 64 + (s[2] - 128)) * 64 + (s[3] - 128)

(* Table 3-7, Well-Formed UTF-8 Byte Sequences, row by row. *)
Table37 ==
  { <<0..127>>,
    <<194..223, Cont>>,
    <<{224}, 160..191, Cont>>,
    <<225..236, Cont, Cont>>,
    <<{237}, 128..159, Cont>>,
    <<238..239, Cont, Cont>>,
    <<{240}, 144..191, Cont, Cont>>,
    <<241..243, Cont, Cont, Cont>>,
    <<{244}, 128..143, Cont, Cont>> }

IsWellFormed(s) ==
  \E row \in Table37 :
    Len(row) = Len(s) /\ \A i \in DOMAIN row : s[i] \in row[i]

IsSurrogate(c) == c \in 55296..57343

(* The second byte of the row for 0xed keeps the surrogates out. *)
HasSurrogate(s) ==
  \E i \in 1..(Len(s) - 1) : s[i] = 237 /\ s[i + 1] \in 160..191

(* s is a sequence of parts, each of which satisfies P. *)
Parts(s, P(_)) ==
  LET n == Len(s)
      from[i \in 1..(n + 1)] ==
        \/ i > n
        \/ \E k \in 1..4 : /\ i + k <= n + 1
                           /\ P(SubSeq(s, i, i + k - 1))
                           /\ from[i + k]
  IN  from[1]
=============================================================================
