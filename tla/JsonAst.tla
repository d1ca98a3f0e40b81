------------------------------- MODULE JsonAst -------------------------------
(***************************************************************************)
(* The tree of a text (lib/json-ast.c): a parser of JsonParser that it     *)
(* owns, and a handler that builds nodes on a stack of objects.  A node is *)
(* pushed for each value and each name, and a mark, which remembers where  *)
(* it began, for each container; the end of a container gathers what was   *)
(* pushed since the last mark into one node.                               *)
(*                                                                         *)
(* A position is the ordinal of a token in the text; it also stands for    *)
(* the bytes of a number or a string, which the handler copies from there. *)
(* An ENSURE that fails ends the process: "fault" says which.              *)
(***************************************************************************)
EXTENDS JsonParser

VARIABLES
  objStack,  \* obj_stack
  root,      \* the tree, once json_ast_parse_done has answered "ok"
  done,      \* the flag of json_ast_parse_done
  tokPos,    \* the position of the token being parsed
  fault      \* the ENSURE that failed

astVars == <<objStack, root, done, tokPos, fault>>

NodeObj(n) == [type |-> "node", node |-> n]
MarkObj(w) == [type |-> "mark", mark |-> w]

LeafNode(t, w)        == [type |-> t, pos |-> w]
ObjectNode(pairs, w)  == [type |-> "object", pos |-> w, args |-> pairs]
ArrayNode(nodes, w)   == [type |-> "array", pos |-> w, args |-> nodes]

NoNode    == [type |-> "none"]
TextStart == 0   \* {1, 1}: before any token

Fault == {"limit", "mark", "odd", "element", "size"}

AstInit ==
  /\ Init
  /\ objStack = <<>> /\ root = NoNode /\ done = FALSE
  /\ tokPos = 0 /\ fault = "none"

-----------------------------------------------------------------------------
(* The handler.  Each function answers TRUE, or ends the process.          *)

Ensure(fails, e, next) ==
  IF fails THEN fault' = e /\ UNCHANGED objStack ELSE next

(* STACK_PUSH, on what is left of the stack. *)
PushObj(st, o) ==
  Ensure(Len(st) = StackMax, "limit",
         objStack' = Append(st, o) /\ UNCHANGED fault)

(* json_ast_stack_find_first_mark: 0 if there is none. *)
LastMark ==
  LET marks == { i \in DOMAIN objStack : objStack[i].type = "mark" }
  IN  IF marks = {} THEN 0 ELSE CHOOSE i \in marks : \A j \in marks : j <= i

Below(m) == SubSeq(objStack, 1, m - 1)
Above(m) == SubSeq(objStack, m + 1, Len(objStack))

IsNode(o)   == o.type = "node"
IsString(o) == IsNode(o) /\ o.node.type = "string"

AllNodes(objs) == \A i \in DOMAIN objs : IsNode(objs[i])

(* Deviation: the elements are read from the top of the stack downwards. *)
NodesFromTop(objs) == [i \in DOMAIN objs |-> objs[Len(objs) + 1 - i].node]

NodesOf(objs) == [i \in DOMAIN objs |-> objs[i].node]

PairsOf(objs) ==
  [i \in 1..(Len(objs) \div 2) |->
     [key |-> objs[2 * i - 1].node, val |-> objs[2 * i].node]]

ArrayEndFunc ==
  LET m == LastMark
  IN  Ensure(m = 0, "mark",
      Ensure(~AllNodes(Above(m)), "element",
      PushObj(Below(m),
              NodeObj(ArrayNode(NodesOf(Above(m)), objStack[m].mark)))))

ObjectEndFunc ==
  LET m == LastMark
      o == Above(m)
  IN  Ensure(m = 0, "mark",
      Ensure(Len(o) % 2 # 0, "odd",
      Ensure(\E i \in DOMAIN o : IF i % 2 = 1 THEN ~IsString(o[i])
                                 ELSE ~IsNode(o[i]), "element",
      PushObj(Below(m), NodeObj(ObjectNode(PairsOf(o), objStack[m].mark))))))

(* One function of the table of handlers; the separators have none. *)
HandlerFunc(h) ==
  \/ h \in Literal /\ PushObj(objStack, NodeObj(LeafNode(h, tokPos)))
  \/ h = "object_key" /\ PushObj(objStack, NodeObj(LeafNode("string", tokPos)))
  \/ h \in {"object_start", "array_start"} /\ PushObj(objStack, MarkObj(tokPos))
  \/ h = "object_end" /\ ObjectEndFunc
  \/ h = "array_end" /\ ArrayEndFunc
  \/ h \in {"object_sep", "array_sep"} /\ UNCHANGED <<objStack, fault>>

-----------------------------------------------------------------------------
(* json_ast_parse_done, after json_parse_done has answered "ok".           *)

MultiNow == "allow_multi_objects" \in currentConf

(* Several values of a text become an array, which begins with the text. *)
RootNode ==
  IF Len(objStack) > 1 THEN ArrayNode(NodesOf(objStack), TextStart)
  ELSE objStack[1].node

(* Deviation: what is configured now decides, not what this text is under. *)
FinishByConfig ==
  IF done THEN UNCHANGED <<objStack, root, done, fault>>
  ELSE
    /\ LET n == Len(objStack)
           multi == "allow_multi_objects" \in config
       IN  Ensure(IF multi THEN n = 0 ELSE n # 1, "size",
           Ensure(~AllNodes(objStack), "element",
                  objStack' = <<>> /\ UNCHANGED fault))
    /\ IF fault' = "none" THEN root' = RootNode /\ done' = TRUE
       ELSE UNCHANGED <<root, done>>

(* A second call in a row does nothing. *)
Finish ==
  IF done THEN UNCHANGED <<objStack, root, done, fault>>
  ELSE
    /\ LET n == Len(objStack)
       IN  Ensure(IF MultiNow THEN n = 0 ELSE n # 1, "size",
           Ensure(~AllNodes(objStack), "element",
                  objStack' = <<>> /\ UNCHANGED fault))
    /\ IF fault' = "none" THEN root' = RootNode /\ done' = TRUE
       ELSE UNCHANGED <<root, done>>

-----------------------------------------------------------------------------
(* The parser's steps, with what they make the handler do.                 *)

Idle == UNCHANGED <<objStack, root, done, tokPos, fault>>

AstToken ==
  /\ NextToken
  /\ tokPos' = IF pc' = "state" /\ tok' # "eof" THEN tokPos + 1 ELSE tokPos
  /\ UNCHANGED <<objStack, root, done, fault>>

AstEof ==
  /\ StartEof
  /\ IF stat' = "ok" THEN Finish ELSE UNCHANGED <<objStack, root, done, fault>>
  /\ UNCHANGED tokPos

Quiet ==
  /\ \/ StartValue \/ ObjectMember \/ ObjectColon \/ ArrayElement
     \/ UnexpectedToken
  /\ Idle

Calling ==
  /\ \/ ValueLiteral \/ ValueOpen
     \/ ObjectKey \/ ObjectComma \/ ObjectEnd
     \/ ArrayComma \/ ArrayEnd
  /\ IF stat' = "ok" THEN HandlerFunc(ev') ELSE UNCHANGED <<objStack, fault>>
  /\ UNCHANGED <<root, done, tokPos>>

AstState == (AstEof \/ Quiet \/ Calling) /\ stat' # "canceled"

(* json_ast_parse_done of a text that is done. *)
DoneAgain ==
  /\ pc = "idle" /\ stat = "ok" /\ stack # <<>> /\ Top = "done"
  /\ Finish
  /\ UNCHANGED <<vars, tokPos>>

AstNext ==
  /\ fault = "none"
  /\ \/ AstToken
     \/ AstState
     \/ DoneAgain
     \/ Client /\ Idle

AstSpec == AstInit /\ [][AstNext]_<<vars, astVars>>

-----------------------------------------------------------------------------
(***************************************************************************)
(* AstNeverFails: the checks by which json-ast.c protects itself against a *)
(* wrong sequence of calls never end the process, whatever is configured   *)
(* in the middle of the text; only the limit of the stack does.            *)
(***************************************************************************)
AstNeverFails == fault \in {"none", "limit"}
=============================================================================
