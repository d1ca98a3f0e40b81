----------------------------- MODULE MCJsonText -----------------------------
(***************************************************************************)
(* JsonParser fed with every sequence of at most MaxSeen tokens, cut in    *)
(* every way, and compared with the grammar.  "seen" are the tokens the    *)
(* parser took since the text began, "textConf" what the client had        *)
(* configured at that moment, "again" whether a text was parsed before.    *)
(* The client is either an arbitrary one, which may refuse any call and    *)
(* parse any number of texts, or json_ast, which parses one.               *)
(***************************************************************************)
EXTENDS JsonAst

CONSTANTS
  MaxSeen,   \* bound: the tokens of a text
  AstSeen,   \* and of a text for json_ast
  Kinds      \* the literal tokens used

VARIABLES seen, textConf, again, client

textVars == <<vars, astVars, seen, textConf, again, client>>

G == INSTANCE JsonGrammar WITH GLiteral <- Kinds

TextInit ==
  /\ AstInit
  /\ seen = <<>> /\ textConf = {} /\ again = FALSE
  /\ client \in {"any", "ast"}

BeginsText == stack = <<>> \/ Top = "done"

TextParse(n) ==
  /\ Parse(n) /\ Idle
  /\ IF BeginsText
     THEN seen' = <<>> /\ textConf' = config /\ again' = (stack # <<>>)
     ELSE UNCHANGED <<seen, textConf, again>>
  /\ client = "ast" => ~again'

TextDone ==
  /\ ParseDone /\ Idle
  /\ textConf' = IF BeginsText THEN config ELSE textConf
  /\ UNCHANGED <<seen, again>>

TextToken ==
  /\ IF client = "ast" THEN AstToken ELSE NextToken /\ Idle
  /\ tok' \in Kinds \/ tok' \notin Literal
  /\ seen' = IF pc' = "state" /\ tok' # "eof" THEN Append(seen, tok')
             ELSE seen
  /\ Len(seen') <= IF client = "ast" THEN AstSeen ELSE MaxSeen
  /\ UNCHANGED <<textConf, again>>

TextState ==
  /\ IF client = "ast" THEN AstState ELSE NextState /\ Idle
  /\ UNCHANGED <<seen, textConf, again>>

TextDoneAgain ==
  /\ client = "ast" /\ DoneAgain
  /\ UNCHANGED <<seen, textConf, again>>

TextSet(p, on) ==
  SetParam(p, on) /\ Idle /\ UNCHANGED <<seen, textConf, again>>

TextNext ==
  /\ fault = "none"
  /\ UNCHANGED client
  /\ \/ \E n \in 0..MaxRoom : TextParse(n)
     \/ TextDone
     \/ TextToken
     \/ TextState
     \/ TextDoneAgain
     \/ \E p \in Param, on \in BOOLEAN : TextSet(p, on)

TextSpec == TextInit /\ [][TextNext]_textVars

-----------------------------------------------------------------------------
Language ==
  [ bare  |-> [ multi |-> G!Texts(MaxSeen, TRUE, TRUE),
                one   |-> G!Texts(MaxSeen, TRUE, FALSE) ],
    boxed |-> [ multi |-> G!Texts(MaxSeen, FALSE, TRUE),
                one   |-> G!Texts(MaxSeen, FALSE, FALSE) ] ]

TextsNow ==
  LET l == IF "allow_literal_value" \in textConf THEN Language.bare
           ELSE Language.boxed
      t == IF "allow_multi_objects" \in textConf THEN l.multi ELSE l.one
  IN  t[Len(seen) + 1]

(* The counter of top-level values outlives the end of a text: without     *)
(* allow_multi_objects a later text of the same parser can only be empty.  *)
OnlyEmpty == again /\ "allow_multi_objects" \notin textConf

Viable == IF OnlyEmpty THEN seen = <<>> ELSE seen \in TextsNow.prefix

Whole ==
  \/ seen = <<>> /\ again
  \/ seen # <<>> /\ ~OnlyEmpty /\ seen \in TextsNow.whole

(* The parser is the same for both clients; one of them goes further. *)
Compared == client = "any"

(* As long as the parser goes on, what it took can still become a text of  *)
(* the grammar, and when json_parse_done answers "ok" it is one.           *)
AcceptsGrammar ==
  (Compared /\ stat = "ok" /\ stack # <<>> /\ pc \in {"idle", "token"}) =>
    IF Top = "done" THEN Whole ELSE Viable

(* A parse error is raised at a token with which no text goes on.          *)
RejectsOnlyErrors ==
  Compared /\ err \in Error \ {"lex"} =>
    IF tok = "eof" THEN ~Whole ELSE ~Viable

(***************************************************************************)
(* DecidesGrammar: the parser takes exactly the texts of the grammar, and  *)
(* fails at the first token that leaves it and not before, under the       *)
(* configuration in force when the text began, for every text that one     *)
(* object parses.                                                          *)
(***************************************************************************)
DecidesGrammar == AcceptsGrammar /\ RejectsOnlyErrors

-----------------------------------------------------------------------------
(* The text a tree was read from: its tokens, with the positions that the  *)
(* tree recorded (0 for the tokens that close or separate).                *)
RECURSIVE WrittenAs(_)
WrittenAs(node) ==
  LET Tok(t, w)  == <<[tok |-> t, pos |-> w]>>
      Pair(p)    == WrittenAs(p.key) \o Tok("colon", 0) \o WrittenAs(p.val)
      Part(x)    == IF node.type = "object" THEN Pair(x) ELSE WrittenAs(x)
      Joined(xs) ==
        LET f[i \in 0..Len(xs)] ==
              IF i = 0 THEN <<>>
              ELSE IF i = 1 THEN Part(xs[1])
              ELSE f[i - 1] \o (IF node.pos = TextStart THEN <<>>
                                ELSE Tok("comma", 0)) \o Part(xs[i])
        IN  f[Len(xs)]
  IN  IF node.type \in Literal THEN Tok(node.type, node.pos)
      ELSE IF node.pos = TextStart THEN Joined(node.args)
      ELSE IF node.type = "object"
      THEN Tok("left_cbrace", node.pos) \o Joined(node.args) \o Tok("right_cbrace", 0)
      ELSE Tok("left_sqbrk", node.pos) \o Joined(node.args) \o Tok("right_sqbrk", 0)

(***************************************************************************)
(* TreeIsText: the tree of json_ast, once json_ast_parse_done has answered *)
(* "ok", is that of the text: written out again it gives every token in    *)
(* its place, and each node was located where it began.  A text of several *)
(* values is the array of them.                                            *)
(***************************************************************************)
TreeIsText ==
  done =>
    LET w == WrittenAs(root)
    IN  /\ Len(w) = Len(seen)
        /\ \A i \in DOMAIN w : /\ w[i].tok = seen[i]
                               /\ w[i].pos \in {0, i}
=============================================================================
