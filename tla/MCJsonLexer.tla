---------------------------- MODULE MCJsonLexer -----------------------------
(***************************************************************************)
(* JsonLexer on every text of a small alphabet, cut in buffers in every    *)
(* way.  There is an alphabet for each kind of token, with a bound for the *)
(* length of the texts and the configurations that make a difference.      *)
(* Beside them, the algorithms that a string is handed to, as in MCUtf8.   *)
(***************************************************************************)
EXTENDS JsonLexer, MCUtf8

CONSTANT Alphabets

VARIABLE alphabet  \* the one this text is written in

mcVars == <<vars, alphabet, stringVars>>

Ref == INSTANCE JsonLexemes

MCInit ==
  /\ Init
  /\ alphabet \in Alphabets /\ conf \in alphabet.confs
  /\ StringsInit

AnyAlphabet == CHOOSE a \in Alphabets : TRUE

Texts(n) == [1..n -> alphabet.chars]

MCParse ==
  \E n \in 0..MaxBuf :
    Len(text) + n <= alphabet.max /\ \E b \in Texts(n) : Parse(b)

MCText == (MCParse \/ ParseDone \/ Lex) /\ bytes = <<>> /\ digits = <<>>

(* No text has begun; the alphabets of texts make no difference here. *)
MCStrings == StringsNext /\ text = <<>> /\ ~done /\ alphabet = AnyAlphabet

MCNext ==
  /\ UNCHANGED alphabet
  /\ \/ MCText /\ UNCHANGED stringVars
     \/ MCStrings /\ UNCHANGED vars

MCSpec == MCInit /\ [][MCNext]_mcVars

-----------------------------------------------------------------------------

(* What was read of the text, all of it when the lexer waits for more. *)
Settled == buf = <<>> /\ (done => ~Ok \/ tok.type = "eof")

(***************************************************************************)
(* TokensOfText: whenever json_parse has returned, the tokens given to the *)
(* parser, with their values and positions, are those of the text handed   *)
(* over, however it was cut in buffers.  An error is raised exactly when   *)
(* the text has one, and it is located at the first byte with which no     *)
(* token goes on (or at the end of a text that ends too early), but for a  *)
(* badly encoded byte, whose column is counted in the bytes of the value.  *)
(***************************************************************************)
TokensOfText ==
  /\ TypeOK
  /\ (Settled \/ ~Ok) =>
       LET r == Ref!Tokens(text, conf, done)
       IN  /\ out = r.toks
           /\ IF Ok THEN r.place = Ref!NoPlace ELSE err.pos = r.place

-----------------------------------------------------------------------------
Alphabet(chars, confs, max) == [chars |-> chars, confs |-> confs, max |-> max]

(* - 0 1 . e + , new line *)
NumberText == Alphabet({45, 48, 49, 46, 101, 43, 44, 10}, {{}}, 6)

(* n u l t r e new line , [ *)
WordText == Alphabet({110, 117, 108, 116, 114, 101, 10, 44, 91}, {{}}, 7)

(* " \ u 0 d: enough for "\u0000" *)
EscapeText == Alphabet({34, 92, 117, 48, 100}, {{"validate_utf8"}}, 8)

(* " \ n and bytes of well and of badly encoded characters *)
Utf8Text == Alphabet({34, 92, 110, 195, 169, 224, 160}, SUBSET Param, 6)

MCAlphabets == {NumberText, WordText, EscapeText, Utf8Text}
MCChars == UNION { a.chars : a \in MCAlphabets }
MCConfs == SUBSET Param
=============================================================================
