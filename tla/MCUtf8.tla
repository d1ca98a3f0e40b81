------------------------------- MODULE MCUtf8 -------------------------------
(***************************************************************************)
(* The algorithms of Utf8 on every string of at most MaxBytes bytes taken  *)
(* from a set of bytes that has each bound of a row of table 3-7 and its   *)
(* neighbours, and on the code units around each change of length.         *)
(***************************************************************************)
EXTENDS Utf8

CONSTANTS
  MaxBytes,     \* strings have at most so many bytes
  StringBytes,  \* taken from these
  UnitDigits    \* and the digits of code units from these

VARIABLES bytes, digits

stringVars == <<bytes, digits>>

StringsInit == bytes = <<>> /\ digits = <<>>

AppendByte(b) ==
  /\ Len(bytes) < MaxBytes /\ digits = <<>>
  /\ bytes' = Append(bytes, b) /\ UNCHANGED digits

AppendDigit(d) ==
  /\ Len(digits) < 4 /\ bytes = <<>>
  /\ digits' = Append(digits, d) /\ UNCHANGED bytes

StringsNext ==
  \/ \E b \in StringBytes : AppendByte(b)
  \/ \E d \in UnitDigits : AppendDigit(d)

StringsSpec == StringsInit /\ [][StringsNext]_stringVars

-----------------------------------------------------------------------------
(* Bytes that may complete a string. *)
Tails == {<<>>} \cup { <<a>> : a \in {128, 159, 160, 191, 143, 144} }
                \cup { <<a, 128>> : a \in {128, 160, 144} }
                \cup { <<a, 128, 128>> : a \in {128, 144} }

IsText(s) == Parts(s, IsWellFormed)
Completable(s) == \E t \in Tails : IsText(s \o t)

(***************************************************************************)
(* Utf8Exact: json_validate_utf8 accepts exactly the strings that table    *)
(* 3-7 has, and the offset it reports is that of the first byte after      *)
(* which no continuation is valid: what precedes it can be completed (by   *)
(* some continuation bytes), what ends with it cannot.  Strings with a     *)
(* surrogate are left to AcceptsTable37.  json_encode_utf8 writes the one  *)
(* form of each code unit it takes (which passes the validation too), and  *)
(* takes every one but the surrogates, 0xfffe and 0xffff.                  *)
(***************************************************************************)
ValidatesText(s) ==
  LET v == Validate(s)
  IN  /\ v.ok <=> IsText(s)
      /\ ~v.ok =>
           /\ v.err \in 0..Len(s)
           /\ Completable(SubSeq(s, 1, v.err))
           /\ v.err < Len(s) => ~Completable(SubSeq(s, 1, v.err + 1))

EncodesUnit(ds) ==
  LET c == CodeUnit(ds)
      e == Encode(ds)
  IN  IF IsSurrogate(c) \/ c \in {65534, 65535} THEN e = <<>>
      ELSE IsWellFormed(e) /\ Payload(e) = c /\ Validate(e).ok

Utf8Exact ==
  /\ HasSurrogate(bytes) \/ ValidatesText(bytes)
  /\ Len(digits) = 4 => EncodesUnit(digits)

(***************************************************************************)
(* AcceptsTable37: json_validate_utf8 accepts the well-formed sequences of *)
(* table 3-7 of the Unicode Standard and no others, as the comment in it   *)
(* and README, 1 have it.  It accepts surrogates too.                      *)
(***************************************************************************)
AcceptsTable37 == Validate(bytes).ok <=> IsText(bytes)
=============================================================================
