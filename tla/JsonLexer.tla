----------------------------- MODULE JsonLexer ------------------------------
(***************************************************************************)
(* The lexer of lib/json.c: json_parse_token and the functions it calls,   *)
(* on the bytes of a text that the client hands over in buffers cut        *)
(* anywhere, within a number, an escape or a UTF-8 sequence.  What the     *)
(* lexer must remember from one buffer to the next is in "part", the       *)
(* union "struct json_token_part_t".                                       *)
(*                                                                         *)
(* One action of the specification consumes at most one byte.  The parser  *)
(* is left out: it only decides when to stop asking for tokens.            *)
(***************************************************************************)
EXTENDS Naturals, Sequences, TLC, Utf8

CONSTANTS
  Chars,    \* the bytes a text is made of
  Confs,    \* the configurations tried: subsets of Param
  MaxText,  \* bound: the length of the text
  MaxBuf    \* bound: the length of a buffer

Param == {"disallow_non_ascii", "validate_utf8"}

ASSUME LexerAssumption ==
  /\ Chars \subseteq Byte /\ Confs \subseteq SUBSET Param
  /\ MaxText \in Nat /\ MaxBuf \in Nat

VARIABLES
  conf,    \* current_conf
  buf,     \* what is left of the buffer of this call
  pos,     \* current_pos
  tok,     \* current_tok: its type and position
  part,    \* current_tok.part
  muf,     \* current_tok_buf
  err,     \* error_info of a lexical error, or NoError
  done,    \* TRUE once json_parse_done was called
  text,    \* history: the bytes handed over so far
  out      \* history: the tokens given to the parser

vars == <<conf, buf, pos, tok, part, muf, err, done, text, out>>

-----------------------------------------------------------------------------
Quote == 34   Plus == 43    Comma == 44   Minus == 45   Dot == 46
Zero == 48    Colon == 58   LSqBrk == 91  BSlash == 92  RSqBrk == 93
LCBrace == 123  RCBrace == 125  NewLine == 10

Wsp     == {9, 10, 13, 32}
Digit   == 48..57
ExpChar == {69, 101}
Cntrl   == (0..31) \cup {127}
Ascii   == 0..127

Punct ==
  (LCBrace :> "left_cbrace" @@ RCBrace :> "right_cbrace" @@
   LSqBrk :> "left_sqbrk" @@ RSqBrk :> "right_sqbrk" @@
   Comma :> "comma" @@ Colon :> "colon")

NullWord  == <<110, 117, 108, 108>>
TrueWord  == <<116, 114, 117, 101>>
FalseWord == <<102, 97, 108, 115, 101>>

(* The words by their first byte. *)
Words == (110 :> NullWord @@ 116 :> TrueWord @@ 102 :> FalseWord)

Unescape ==
  (Quote :> Quote @@ BSlash :> BSlash @@ 47 :> 47 @@ 98 :> 8 @@ 102 :> 12 @@
   110 :> 10 @@ 114 :> 13 @@ 116 :> 9)

Hexa == [ c \in Digit \cup (65..70) \cup (97..102) |->
            IF c \in Digit THEN c - 48 ELSE IF c < 97 THEN c - 55 ELSE c - 87 ]

-----------------------------------------------------------------------------
Complete  == [type |-> "complete"]
NoError   == [what |-> "none"]
LexError(w, p) == [what |-> w, pos |-> p]

LiteralPart(w)   == [type |-> "literal", word |-> w, rest |-> w]
NumberPart(s)    == [type |-> "number", state |-> s]
StringPart(s, p) == [type |-> "string", state |-> s, pos |-> p]

Init ==
  /\ conf \in Confs
  /\ buf = <<>> /\ pos = [line |-> 1, col |-> 1]
  /\ tok = [type |-> "bof", pos |-> [line |-> 1, col |-> 1]]
  /\ part = Complete /\ muf = <<>>
  /\ err = NoError /\ done = FALSE
  /\ text = <<>> /\ out = <<>>

Ok == err = NoError

Parse(b) ==
  /\ buf = <<>> /\ Ok /\ ~done
  /\ Len(text) + Len(b) <= MaxText
  /\ buf' = b /\ text' = text \o b
  /\ UNCHANGED <<conf, pos, tok, part, muf, err, done, out>>

Reading(type) == buf # <<>> /\ Ok /\ part.type = type
Ch == Head(buf)

Advance == buf' = Tail(buf) /\ pos' = [pos EXCEPT !.col = @ + 1]
Stay    == UNCHANGED <<buf, pos>>

(* A whole token goes to the parser, with its value. *)
Emit(t, val) ==
  /\ out' = Append(out, [type |-> t.type, pos |-> t.pos, val |-> val])
  /\ part' = Complete

Fail(w, p) ==
  /\ err' = LexError(w, p)
  /\ UNCHANGED <<tok, muf, out>>

-----------------------------------------------------------------------------
(* json_parse_begin_token *)

SkipWsp ==
  /\ Reading("complete") /\ Ch \in Wsp
  /\ buf' = Tail(buf)
  /\ pos' = IF Ch = NewLine THEN [line |-> pos.line + 1, col |-> 1]
            ELSE [pos EXCEPT !.col = @ + 1]
  /\ tok' = [tok EXCEPT !.type = "wsp"]
  /\ UNCHANGED <<conf, part, muf, err, done, text, out>>

BeginPunct ==
  /\ Reading("complete") /\ Ch \in DOMAIN Punct
  /\ tok' = [type |-> Punct[Ch], pos |-> pos]
  /\ Advance
  /\ Emit(tok', <<>>)
  /\ UNCHANGED <<conf, muf, err, done, text>>

(* JSON_PARSE_LITERAL_PART, JSON_PARSE_LITERAL_BUF_PART *)
BeginPart ==
  /\ Reading("complete")
  /\ \/ /\ Ch \in DOMAIN Words
        /\ tok' = [type |-> IF Ch = 110 THEN "null" ELSE "boolean", pos |-> pos]
        /\ part' = LiteralPart(Words[Ch])
        /\ UNCHANGED muf
     \/ /\ Ch \in Digit \cup {Minus}
        /\ tok' = [type |-> "number", pos |-> pos]
        /\ part' = NumberPart("integer") /\ muf' = <<>>
     \/ /\ Ch = Quote
        /\ tok' = [type |-> "string", pos |-> pos]
        /\ part' = StringPart("start", 0) /\ muf' = <<>>
  /\ Stay
  /\ UNCHANGED <<conf, err, done, text, out>>

InvalidChar ==
  /\ Reading("complete")
  /\ Ch \notin Wsp \cup DOMAIN Punct \cup DOMAIN Words \cup Digit \cup {Minus, Quote}
  /\ Fail("invalid_char", pos)
  /\ UNCHANGED <<conf, buf, pos, part, done, text>>

-----------------------------------------------------------------------------
(* json_parse_literal_token *)

LiteralChar ==
  /\ Reading("literal") /\ Ch = Head(part.rest)
  /\ Advance
  /\ IF Len(part.rest) = 1
     THEN Emit(tok, part.word)
     ELSE part' = [part EXCEPT !.rest = Tail(@)] /\ UNCHANGED out
  /\ UNCHANGED <<conf, tok, muf, err, done, text>>

LiteralMismatch ==
  /\ Reading("literal") /\ Ch # Head(part.rest)
  /\ Fail("invalid_literal", pos)
  /\ UNCHANGED <<conf, buf, pos, part, done, text>>

-----------------------------------------------------------------------------
(* json_parse_number_token: the state a number is in after byte ch, "done" *)
(* when it ends before ch.                                                 *)

Integer2(ch) ==
  IF ch = Zero THEN "fractional" ELSE IF ch \in Digit THEN "digitsn" ELSE "error"

Exponent(ch) == IF ch \in ExpChar THEN "exponent3" ELSE "done"

Fractional(ch) == IF ch = Dot THEN "digits2" ELSE Exponent(ch)

Digits(ch, more, end) == IF ch \in Digit THEN more ELSE end

NumberNext(s, ch) ==
  CASE s = "integer"    -> IF ch = Minus THEN "integer2" ELSE Integer2(ch)
    [] s = "integer2"   -> Integer2(ch)
    [] s = "digitsn"    -> Digits(ch, "digitsn", Fractional(ch))
    [] s = "fractional" -> Fractional(ch)
    [] s = "digits2"    -> Digits(ch, "digits2n", "error")
    [] s = "digits2n"   -> Digits(ch, "digits2n", Exponent(ch))
    [] s = "exponent3"  -> IF ch \in {Minus, Plus} THEN "digits3"
                           ELSE Digits(ch, "digits3n", "error")
    [] s = "digits3"    -> Digits(ch, "digits3n", "error")
    [] s = "digits3n"   -> Digits(ch, "digits3n", "done")

NumberChar ==
  /\ Reading("number")
  /\ LET s == NumberNext(part.state, Ch)
     IN  /\ s \notin {"done", "error"}
         /\ part' = NumberPart(s)
  /\ muf' = Append(muf, Ch)
  /\ Advance
  /\ UNCHANGED <<conf, tok, err, done, text, out>>

(* The byte that ends the number stays in the buffer. *)
NumberDone ==
  /\ Reading("number") /\ NumberNext(part.state, Ch) = "done"
  /\ Emit(tok, muf)
  /\ muf' = Append(muf, 0)
  /\ Stay
  /\ UNCHANGED <<conf, tok, err, done, text>>

NumberError ==
  /\ Reading("number") /\ NumberNext(part.state, Ch) = "error"
  /\ Fail("invalid_number_literal", pos)
  /\ UNCHANGED <<conf, buf, pos, part, done, text>>

-----------------------------------------------------------------------------
(* json_parse_string_token, by the state of the part. *)

InString(states) == Reading("string") /\ part.state \in states

StringStart ==
  /\ InString({"start"})
  /\ part' = StringPart("plain_char", 0)
  /\ Advance
  /\ UNCHANGED <<conf, tok, muf, err, done, text, out>>

PlainAllowed(ch) ==
  ch \notin Cntrl /\ (ch \in Ascii \/ "disallow_non_ascii" \notin conf)

PlainChar ==
  /\ InString({"plain_char"}) /\ PlainAllowed(Ch) /\ Ch # Quote
  /\ IF Ch = BSlash
     THEN part' = [part EXCEPT !.state = "esc_char"] /\ UNCHANGED muf
     ELSE muf' = Append(muf, Ch) /\ UNCHANGED part
  /\ Advance
  /\ UNCHANGED <<conf, tok, err, done, text, out>>

(* The closing quote: the whole buffer is validated, and the position of   *)
(* an error is counted in its bytes, not in those of the text.             *)
StringDone ==
  /\ InString({"plain_char"}) /\ Ch = Quote
  /\ Advance
  /\ IF "validate_utf8" \notin conf \/ Validate(muf).ok
     THEN Emit(tok, muf) /\ muf' = Append(muf, 0) /\ UNCHANGED <<tok, err>>
     ELSE /\ Fail("invalid_utf8_encoding",
                  [tok.pos EXCEPT !.col = @ + Validate(muf).err + 1])
          /\ UNCHANGED part
  /\ UNCHANGED <<conf, done, text>>

EscChar ==
  /\ InString({"esc_char"})
  /\ \/ /\ Ch = 117
        /\ part' = [part EXCEPT !.state = "hexa1"] /\ UNCHANGED muf
     \/ /\ Ch \in DOMAIN Unescape
        /\ part' = [part EXCEPT !.state = "plain_char"]
        /\ muf' = Append(muf, Unescape[Ch])
  /\ Advance
  /\ UNCHANGED <<conf, tok, err, done, text, out>>

HexaState == {"hexa1", "hexa2", "hexa3", "hexa4"}

(* The digits are kept at the end of the buffer, from part->pos on. *)
HexaChar ==
  /\ InString(HexaState \ {"hexa4"}) /\ Ch \in DOMAIN Hexa
  /\ part' = CASE part.state = "hexa1" -> StringPart("hexa2", Len(muf))
               [] part.state = "hexa2" -> [part EXCEPT !.state = "hexa3"]
               [] part.state = "hexa3" -> [part EXCEPT !.state = "hexa4"]
  /\ muf' = Append(muf, Hexa[Ch])
  /\ Advance
  /\ UNCHANGED <<conf, tok, err, done, text, out>>

(* Deviation: the buffer is not cut to what was encoded. *)
HexaDoneLong ==
  /\ InString({"hexa4"}) /\ Ch \in DOMAIN Hexa
  /\ LET e == Encode(SubSeq(muf, part.pos + 1, part.pos + 3) \o <<Hexa[Ch]>>)
     IN  /\ e # <<>>
         /\ muf' = SubSeq(muf, 1, part.pos) \o e \o
                     SubSeq(Append(muf, Hexa[Ch]), part.pos + Len(e) + 1, part.pos + 4)
  /\ part' = [part EXCEPT !.state = "plain_char"]
  /\ Advance
  /\ UNCHANGED <<conf, tok, err, done, text, out>>

(* The code unit of the last digit, and what json_encode_utf8 makes of it. *)
HexaDone ==
  /\ InString({"hexa4"}) /\ Ch \in DOMAIN Hexa
  /\ LET e == Encode(SubSeq(muf, part.pos + 1, part.pos + 3) \o <<Hexa[Ch]>>)
     IN  e # <<>> /\ muf' = SubSeq(muf, 1, part.pos) \o e
  /\ part' = [part EXCEPT !.state = "plain_char"]
  /\ Advance
  /\ UNCHANGED <<conf, tok, err, done, text, out>>

StringError ==
  /\ \/ InString({"plain_char"}) /\ ~PlainAllowed(Ch)
     \/ InString({"esc_char"}) /\ Ch \notin {117} \cup DOMAIN Unescape
     \/ InString(HexaState) /\ Ch \notin DOMAIN Hexa
     \/ /\ InString({"hexa4"}) /\ Ch \in DOMAIN Hexa
        /\ Encode(SubSeq(muf, part.pos + 1, part.pos + 3) \o <<Hexa[Ch]>>) = <<>>
  /\ Fail("invalid_string_literal", pos)
  /\ UNCHANGED <<conf, buf, pos, part, done, text>>

-----------------------------------------------------------------------------
(* json_parse_done: json_parse_end_token and JSON_PARSE_INSERT_EOF. *)

ParseDone ==
  /\ buf = <<>> /\ Ok /\ ~done
  /\ done' = TRUE
  /\ UNCHANGED <<conf, buf, pos, tok, part, muf, err, text, out>>

AtEnd == done /\ Ok /\ tok.type # "eof"

NumberEnd ==
  /\ AtEnd /\ part.type = "number"
  /\ part.state \in {"digitsn", "digits2n", "digits3n", "fractional"}
  /\ Emit(tok, muf)
  /\ muf' = Append(muf, 0)
  /\ UNCHANGED <<conf, buf, pos, tok, err, done, text>>

EndError ==
  /\ AtEnd
  /\ \/ part.type = "literal" /\ Fail("invalid_literal", pos)
     \/ part.type = "string" /\ Fail("invalid_string_literal", pos)
     \/ /\ part.type = "number"
        /\ part.state \notin {"digitsn", "digits2n", "digits3n", "fractional"}
        /\ Fail("invalid_number_literal", pos)
  /\ UNCHANGED <<conf, buf, pos, part, done, text>>

InsertEof ==
  /\ AtEnd /\ part = Complete
  /\ tok' = [type |-> "eof", pos |-> pos]
  /\ UNCHANGED <<conf, buf, pos, part, muf, err, done, text, out>>

-----------------------------------------------------------------------------
Buffers == UNION { [1..n -> Chars] : n \in 0..MaxBuf }

Client == (\E b \in Buffers : Parse(b)) \/ ParseDone

Lex ==
  \/ SkipWsp \/ BeginPunct \/ BeginPart \/ InvalidChar
  \/ LiteralChar \/ LiteralMismatch
  \/ NumberChar \/ NumberDone \/ NumberError
  \/ StringStart \/ PlainChar \/ StringDone
  \/ EscChar \/ HexaChar \/ HexaDone \/ StringError
  \/ NumberEnd \/ EndError \/ InsertEof

Next == Client \/ Lex

Spec == Init /\ [][Next]_vars

-----------------------------------------------------------------------------
NumberState ==
  { "integer", "integer2", "digitsn", "fractional", "digits2", "digits2n",
    "exponent3", "digits3", "digits3n" }

StringState == {"start", "plain_char", "esc_char"} \cup HexaState

Position == [line : Nat \ {0}, col : Nat \ {0}]

TypeOK ==
  /\ conf \in Confs
  /\ buf \in Seq(Byte) /\ text \in Seq(Byte) /\ muf \in Seq(Byte)
  /\ pos \in Position /\ tok.pos \in Position
  /\ CASE part.type = "complete" -> TRUE
       [] part.type = "literal"  -> part.rest # <<>> /\ tok.type \in {"null", "boolean"}
       [] part.type = "number"   -> part.state \in NumberState /\ tok.type = "number"
       [] part.type = "string"   -> part.state \in StringState /\ tok.type = "string"
  /\ err # NoError => err.pos \in Position
  /\ done \in BOOLEAN
=============================================================================
