---------------------------- MODULE JsonLexemes -----------------------------
(***************************************************************************)
(* What the tokens of a text are, without an automaton: a number and a     *)
(* string are words of a form, the token at a place of the text is the     *)
(* longest word there, and its line and column are counted in the text.    *)
(* Module JsonLexer is compared with it.                                   *)
(***************************************************************************)
EXTENDS Naturals, Sequences, FiniteSets, Utf8

SetMax(S) == CHOOSE x \in S : \A y \in S : y <= x

AllIn(w, S) == \A i \in 1..Len(w) : w[i] \in S

Slice(t, i, j) == SubSeq(t, i, j)

-----------------------------------------------------------------------------
(* Numbers: [ "-" ] ( "0" | [1-9] [0-9]* ) [ "." [0-9]+ ]                  *)
(*          [ [eE] [ [-+] ] [0-9]+ ]                                       *)
DigitByte == 48..57

IsDigits(w) == w # <<>> /\ AllIn(w, DigitByte)

IsInteger(w) ==
  LET n == IF w # <<>> /\ w[1] = 45 THEN Tail(w) ELSE w
  IN  IsDigits(n) /\ (n[1] = 48 => Len(n) = 1)

IsFraction(w) == w = <<>> \/ (w[1] = 46 /\ IsDigits(Tail(w)))

IsExponent(w) ==
  \/ w = <<>>
  \/ /\ w[1] \in {69, 101}
     /\ LET n == Tail(w)
        IN  IsDigits(IF n # <<>> /\ n[1] \in {43, 45} THEN Tail(n) ELSE n)

IsNumber(w) ==
  \E i \in 0..Len(w) : \E j \in i..Len(w) :
    /\ IsInteger(Slice(w, 1, i))
    /\ IsFraction(Slice(w, i + 1, j))
    /\ IsExponent(Slice(w, j + 1, Len(w)))

(* A prefix of a number is one digit away from a number, at most. *)
BeginsNumber(w) == IsNumber(w) \/ IsNumber(Append(w, 48))

-----------------------------------------------------------------------------
(* Strings: a quote, items, a quote.  An item is a byte, "\" and a letter, *)
(* or "\u" and four digits; its value is the bytes it stands for.          *)
HexByte == DigitByte \cup (65..70) \cup (97..102)

HexDigit(c) == IF c < 58 THEN c - 48 ELSE IF c < 97 THEN c - 55 ELSE c - 87

IsPlain(c, ascii) ==
  c \notin {34, 92, 127} /\ c >= 32 /\ (ascii => c < 128)

Letters == <<34, 92, 47, 98, 102, 110, 114, 116>>
Escaped == <<34, 92, 47, 8, 12, 10, 13, 9>>

UnitOf(w) == [ k \in 1..4 |-> HexDigit(w[k + 2]) ]

IsItem(w, ascii) ==
  \/ Len(w) = 1 /\ IsPlain(w[1], ascii)
  \/ Len(w) = 2 /\ w[1] = 92 /\ \E k \in 1..8 : w[2] = Letters[k]
  \/ /\ Len(w) = 6 /\ w[1] = 92 /\ w[2] = 117
     /\ \A k \in 3..6 : w[k] \in HexByte
     /\ ~Refused(CodeUnit(UnitOf(w)))

ItemValue(w) ==
  CASE Len(w) = 1 -> w
    [] Len(w) = 2 -> <<Escaped[CHOOSE k \in 1..8 : w[2] = Letters[k]]>>
    [] Len(w) = 6 -> Bits(CodeUnit(UnitOf(w)))

BeginsItem(w) ==
  \/ w = <<>> \/ w = <<92>>
  \/ /\ Len(w) \in 2..5 /\ w[1] = 92 /\ w[2] = 117
     /\ \A k \in 3..Len(w) : w[k] \in HexByte

(* The length of the item w begins with, 0 when there is none. *)
FirstItem(w, ascii) ==
  LET k == { i \in {1, 2, 6} : i <= Len(w) /\ IsItem(Slice(w, 1, i), ascii) }
  IN  IF k = {} THEN 0 ELSE SetMax(k)

(* The value of the items w is made of, and what is left after them. *)
RECURSIVE Items(_, _, _)
Items(w, ascii, val) ==
  LET k == FirstItem(w, ascii)
  IN  IF k = 0 THEN [val |-> val, rest |-> w]
      ELSE Items(Slice(w, k + 1, Len(w)), ascii, val \o ItemValue(Slice(w, 1, k)))

StringItems(w, ascii) == Items(Tail(w), ascii, <<>>)

IsString(w, ascii) ==
  Len(w) > 1 /\ w[1] = 34 /\ StringItems(w, ascii).rest = <<34>>

BeginsString(w, ascii) ==
  w[1] = 34 /\ (IsString(w, ascii) \/ BeginsItem(StringItems(w, ascii).rest))

-----------------------------------------------------------------------------
(* Tokens.  A kind has its whole words and the beginnings of its words.    *)
Word(k) == CASE k = "null" -> <<110, 117, 108, 108>>
             [] k = "true" -> <<116, 114, 117, 101>>
             [] k = "false" -> <<102, 97, 108, 115, 101>>

PunctKind ==
  [ c \in {123, 125, 91, 93, 44, 58} |->
      CASE c = 123 -> "left_cbrace" [] c = 125 -> "right_cbrace"
        [] c = 91 -> "left_sqbrk"   [] c = 93 -> "right_sqbrk"
        [] c = 44 -> "comma"        [] c = 58 -> "colon" ]

KindAt(c) ==
  CASE c = 110 -> "null" [] c = 116 -> "true" [] c = 102 -> "false"
    [] c = 34 -> "string" [] c \in DigitByte \cup {45} -> "number"
    [] c \in DOMAIN PunctKind -> PunctKind[c]
    [] OTHER -> "none"

IsWhole(k, w, ascii) ==
  CASE k \in {"null", "true", "false"} -> w = Word(k)
    [] k = "number" -> IsNumber(w)
    [] k = "string" -> IsString(w, ascii)
    [] OTHER -> Len(w) = 1

Begins(k, w, ascii) ==
  CASE k \in {"null", "true", "false"} ->
         Len(w) <= Len(Word(k)) /\ w = Slice(Word(k), 1, Len(w))
    [] k = "number" -> BeginsNumber(w)
    [] k = "string" -> BeginsString(w, ascii)
    [] OTHER -> Len(w) = 1

-----------------------------------------------------------------------------
(* The place of byte i of text t (i = Len(t) + 1 is its end). *)
PosOf(t, i) ==
  LET nl == { k \in 1..(i - 1) : t[k] = 10 }
  IN  [ line |-> Cardinality(nl) + 1,
        col  |-> IF nl = {} THEN i ELSE i - SetMax(nl) ]

TypeOf(k) == IF k \in {"true", "false"} THEN "boolean" ELSE k

ValueOf(k, w, ascii) ==
  CASE k \in {"null", "true", "false", "number"} -> w
    [] k = "string" -> StringItems(w, ascii).val
    [] OTHER -> <<>>

(* The place of a badly encoded byte of the string that begins at i, its   *)
(* value judged by v: its column is counted in the bytes of the value, so  *)
(* an escape before the byte makes it that of an earlier one.              *)
Utf8Pos(t, i, v) == [PosOf(t, i) EXCEPT !.col = @ + 1 + v.err]

NoPlace == <<>>

(***************************************************************************)
(* Tokens(t, conf, done): the tokens of t, and the place of the first      *)
(* error if there is one.  A word that reaches the end of t is a token     *)
(* only if nothing could go on with it, or once the text is done.          *)
(***************************************************************************)
RECURSIVE TokensFrom(_, _, _, _, _)
TokensFrom(t, i, conf, done, toks) ==
  LET ascii == "disallow_non_ascii" \in conf
      kind  == KindAt(t[i])
      last  == SetMax({ j \in i..Len(t) : Begins(kind, Slice(t, i, j), ascii) })
      w     == Slice(t, i, last)
      whole == IsWhole(kind, w, ascii)
      val   == ValueOf(kind, w, ascii)
      utf8  == IF kind = "string" /\ "validate_utf8" \in conf THEN Validate(val)
               ELSE Valid
      token == [type |-> TypeOf(kind), pos |-> PosOf(t, i), val |-> val]
      Result(place) == [toks |-> toks, place |-> place]
  IN  IF i > Len(t) THEN Result(NoPlace)
      ELSE IF t[i] \in {9, 10, 13, 32} THEN TokensFrom(t, i + 1, conf, done, toks)
      ELSE IF kind = "none" THEN Result(PosOf(t, i))
      ELSE IF ~whole
      THEN IF last < Len(t) \/ done THEN Result(PosOf(t, last + 1))
           ELSE Result(NoPlace)
      ELSE IF kind = "number" /\ last = Len(t) /\ ~done THEN Result(NoPlace)
      ELSE IF ~utf8.ok THEN Result(Utf8Pos(t, i, utf8))
      ELSE TokensFrom(t, last + 1, conf, done, Append(toks, token))

Tokens(t, conf, done) == TokensFrom(t, 1, conf, done, <<>>)
=============================================================================
