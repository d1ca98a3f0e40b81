----------------------------- MODULE JsonPrinter -----------------------------
(***************************************************************************)
(* The printers of the program (src/json-printer.c, src/json2.c).  Two     *)
(* kinds are handlers of the parser, one function for each call of it; the *)
(* others visit the tree of a text.  A printer is a record with its flags, *)
(* and "out", what it has printed, piece by piece: the bytes of a value    *)
(* and of a margin are left out, the breaks of lines are not.              *)
(*                                                                         *)
(* A call is a record with the name of the handler function and its        *)
(* argument, a plain value or a name; the trees are those of JsonRuler.    *)
(***************************************************************************)
EXTENDS Naturals, Sequences

LOCAL Seqs == INSTANCE SequencesExt

CONSTANT
  Lines  \* a string, as the strings between its newlines

NewLine     == [piece |-> "newline"]
Margin(n)   == [piece |-> "margin", depth |-> n]
Mark(c)     == [piece |-> "mark", what |-> c]
Label(s)    == [piece |-> "label", what |-> s]
Size(n)     == [piece |-> "size", size |-> n]
Bytes(v)    == [piece |-> "bytes", of |-> v]
Value(t, v) == [piece |-> "value", type |-> t, val |-> v]
Str(s)      == Value("string", s)

-----------------------------------------------------------------------------
(* obj_json_printer_t, as obj_json_printer_init leaves it *)
Printer(terse) ==
  [out |-> <<>>, firstNl |-> ~terse, printedOut |-> FALSE,
   skipIndent |-> FALSE, indentLevel |-> 0]

Put(p, piece) == [p EXCEPT !.out = Append(@, piece), !.printedOut = TRUE]

(* print_indent: the place after a name takes no line of its own *)
PrintIndent(p) ==
  IF p.skipIndent THEN [p EXCEPT !.skipIndent = FALSE]
  ELSE [p EXCEPT !.out = @ \o (IF p.firstNl THEN <<>> ELSE <<NewLine>>)
                           \o <<Margin(p.indentLevel)>>,
                 !.firstNl = FALSE]

PrintIndentOpt(p, empty) ==
  IF empty THEN [p EXCEPT !.skipIndent = FALSE] ELSE PrintIndent(p)

(* print_val, print_repr_val *)
PrintVal(p, v) == [Put(p, v) EXCEPT !.skipIndent = FALSE]

PrintKey(p, k) == Put(PrintVal(p, Str(k)), Mark(":"))

Indented(p, piece) == Put(PrintIndent(p), piece)

(* pretty_null and the like, pretty_object_key *)
PrettyVal(p, v) == PrintVal(PrintIndent(p), v)
PrettyKey(p, k) == [PrintKey(PrintIndent(p), k) EXCEPT !.skipIndent = TRUE]

(* pretty_object_start, pretty_array_start *)
Enter(p, c) == [Indented(p, Mark(c)) EXCEPT !.indentLevel = @ + 1]

(* Deviation: the end is indented before the level is left *)
LeaveLate(p, c, empty) ==
  [Put(PrintIndentOpt(p, empty), Mark(c)) EXCEPT !.indentLevel = @ - 1]

(* pretty_object_end_opt, pretty_array_end_opt; the others are never empty *)
Leave(p, c, empty) ==
  Put(PrintIndentOpt([p EXCEPT !.indentLevel = @ - 1], empty), Mark(c))

Comma(p) == Put(p, Mark(","))

(* pretty_handler *)
PrettyCall(p, c) ==
  CASE c.func = "object_key"   -> PrettyKey(p, c.arg)
    [] c.func = "object_start" -> Enter(p, "{")
    [] c.func = "object_end"   -> Leave(p, "}", FALSE)
    [] c.func = "array_start"  -> Enter(p, "[")
    [] c.func = "array_end"    -> Leave(p, "]", FALSE)
    [] c.func \in {"object_sep", "array_sep"} -> Comma(p)
    [] c.func = "value_sep"    -> p
    [] OTHER                   -> PrettyVal(p, Value(c.func, c.arg.val))

(* terse_handler *)
TerseCall(p, c, newlineSep) ==
  CASE c.func = "object_key"   -> PrintKey(p, c.arg)
    [] c.func = "object_start" -> Put(p, Mark("{"))
    [] c.func = "object_end"   -> Put(p, Mark("}"))
    [] c.func = "array_start"  -> Put(p, Mark("["))
    [] c.func = "array_end"    -> Put(p, Mark("]"))
    [] c.func \in {"object_sep", "array_sep"} -> Comma(p)
    [] c.func = "value_sep"    -> IF newlineSep THEN Put(p, NewLine) ELSE p
    [] OTHER                   -> PrintVal(p, Value(c.func, c.arg.val))

(* obj_json_printer_run: the end of the last line *)
Finish(p) ==
  IF ~p.firstNl /\ p.printedOut THEN [p EXCEPT !.out = Append(@, NewLine)] ELSE p

PrettyCalls(calls) ==
  LET after[n \in 0..Len(calls)] ==
        IF n = 0 THEN Printer(FALSE) ELSE PrettyCall(after[n - 1], calls[n])
  IN  Finish(after[Len(calls)])

TerseCalls(calls, newlineSep) ==
  LET after[n \in 0..Len(calls)] ==
        IF n = 0 THEN Printer(TRUE) ELSE TerseCall(after[n - 1], calls[n], newlineSep)
  IN  Finish(after[Len(calls)])

-----------------------------------------------------------------------------
(* The visitors of a tree.  Each has the parts of a container printed by   *)
(* an operator of its own, from the i-th on.                               *)

IsEmpty(node) == node.args = <<>>

(* There is an i-th part.  What is printed so far is a printer, always: it *)
(* is asked for TLC to work it out before it goes on.                      *)
HasPart(p, node, i) == p.indentLevel \in Nat /\ i <= Len(node.args)

Separate(p, more) == IF more THEN Comma(p) ELSE p

(* pretty_node_visitor *)
RECURSIVE PrettyNode(_, _), PrettyArgs(_, _, _)
PrettyArgs(p, node, i) ==
  IF ~HasPart(p, node, i) THEN p
  ELSE PrettyArgs(Separate(IF node.type = "array" THEN PrettyNode(p, node.args[i])
                           ELSE PrettyNode(PrettyKey(p, node.args[i].key.val), node.args[i].val),
                           i < Len(node.args)),
                  node, i + 1)

PrettyNode(p, node) ==
  CASE node.type = "object" -> Leave(PrettyArgs(Enter(p, "{"), node, 1), "}", IsEmpty(node))
    [] node.type = "array"  -> Leave(PrettyArgs(Enter(p, "["), node, 1), "]", IsEmpty(node))
    [] OTHER                -> PrettyVal(p, Value(node.type, node.val))

(* ast_node_visitor: a node as the object it is in memory *)
Named(p, name, c) == Put(Put(PrintIndent(p), Label(name)), Mark(c))
NodeEnter(p, name, c) == [Named(p, name, c) EXCEPT !.indentLevel = @ + 1]
NodeEnterObj(p)       == Enter(p, "{")
NodeLeave(p, c, empty) ==
  LET q == [p EXCEPT !.indentLevel = @ - 1]
  IN  Put(IF empty THEN q ELSE PrintIndent(q), Mark(c))

NodeProp(p, name)        == [Named(p, name, "=") EXCEPT !.skipIndent = TRUE]
NodeValProp(p, name, v)  == PrintVal(Named(p, name, "="), v)
NodeSizeProp(p, size)    == Put(Named(p, "size", "="), size)

NodeBuf(p, t, v) ==
  LET q == NodeEnterObj(NodeProp(NodeEnter(p, t, "{"), "buf"))
      r == NodeSizeProp(NodeValProp(q, "ptr", Value(t, v)), Bytes(v))
  IN  NodeLeave(NodeLeave(r, "}", FALSE), "}", FALSE)

RECURSIVE AstNode(_, _), AstArgs(_, _, _)
AstPair(p, a) ==
  NodeLeave(AstNode(NodeProp(NodeBuf(NodeProp(NodeEnterObj(p), "key"), "string", a.key.val),
                             "val"),
                    a.val),
            "}", FALSE)

AstArgs(p, node, i) ==
  IF ~HasPart(p, node, i) THEN p
  ELSE AstArgs(IF node.type = "array" THEN AstNode(p, node.args[i])
               ELSE AstPair(p, node.args[i]),
               node, i + 1)

AstNodeIn(p, node) ==
  CASE node.type = "null"    -> p
    [] node.type = "boolean" -> NodeValProp(p, "val", Value("boolean", node.val))
    [] OTHER ->
         NodeLeave(AstArgs(NodeEnter(NodeSizeProp(p, Size(Len(node.args))), "args", "["), node, 1),
                   "]", IsEmpty(node))

AstNode(p, node) ==
  IF node.type \in {"number", "string"} THEN NodeBuf(p, node.type, node.val)
  ELSE NodeLeave(AstNodeIn(NodeEnter(p, node.type, "{"), node), "}", node.type = "null")

(* ast_type_visitor: the type of a text, as a text *)

(* Deviation: the string itself, where a plain type is meant *)
PlainTypeOfBare(p, v) ==
  IF v.type = "string" THEN PrettyVal(p, v)
  ELSE Leave(PrettyVal(PrettyKey(Enter(p, "{"), "plain"), v), "}", FALSE)

PlainTypeOf(p, v) == Leave(PrettyVal(PrettyKey(Enter(p, "{"), "plain"), v), "}", FALSE)

(* print_aggregate_type_start *)
Property(p, k, v) == Comma(PrettyVal(PrettyKey(p, k), Str(v)))
AggregateStart(p, name) == PrettyKey(Property(Enter(p, "{"), "type", name), "args")

RECURSIVE AstType(_, _), AstTypeArgs(_, _, _)
AstTypeMember(p, a) ==
  Leave(AstType(PrettyKey(Property(Enter(p, "{"), "name", a.key.val), "type"), a.val), "}", FALSE)

AstTypeArgs(p, node, i) ==
  IF ~HasPart(p, node, i) THEN p
  ELSE AstTypeArgs(Separate(IF node.type = "array" THEN AstType(p, node.args[i])
                            ELSE AstTypeMember(p, node.args[i]),
                            i < Len(node.args)),
                   node, i + 1)

AstType(p, node) ==
  IF node.type \in {"object", "array"}
  THEN Leave(Leave(AstTypeArgs(Enter(AggregateStart(p, node.type), "["), node, 1),
                   "]", IsEmpty(node)),
             "}", FALSE)
  ELSE PlainTypeOf(p, Value(node.type, node.val))

PrettyTree(tree) == Finish(PrettyNode(Printer(FALSE), tree))
AstTree(tree)    == Finish(AstNode(Printer(FALSE), tree))
TypeOfTree(tree) == Finish(AstType(Printer(FALSE), tree))

-----------------------------------------------------------------------------
(* The printer of paths, src/json2.c.  "last" says that the name on top of *)
(* the stack belongs to a member of an object that is complete, or to the  *)
(* value at hand; an ASSERT that fails ends the process.                   *)

Paths == [stack |-> <<>>, last |-> TRUE, out |-> <<>>, failed |-> FALSE]

PopString(j) ==
  IF j.stack = <<>> THEN j
  ELSE [j EXCEPT !.stack = SubSeq(@, 1, Len(@) - 1)]

SetLast(j, k) ==
  [(IF j.last THEN PopString(j) ELSE j) EXCEPT !.stack = Append(@, k), !.last = TRUE]

PushLast(j) == IF j.last THEN [j EXCEPT !.last = FALSE] ELSE [j EXCEPT !.failed = TRUE]

(* Deviation: an object without members pops the name of its own *)
PopLastAlways(j) == [PopString(j) EXCEPT !.last = TRUE]

PopLast(j) == [(IF j.last THEN PopString(j) ELSE j) EXCEPT !.last = TRUE]

PathLine(w)      == [path |-> w]
ValLine(w, t, v) == [path |-> w, type |-> t, val |-> v]

PrintPath(j) == [j EXCEPT !.out = Append(@, PathLine(j.stack))]

(* print_string: one line for each of the value's, save an empty last one *)
PrintLines(j, s) ==
  LET all  == Lines[s]
      kept == IF Len(all) > 1 /\ all[Len(all)] = "" THEN Seqs!Front(all) ELSE all
  IN  [j EXCEPT !.out = @ \o [ i \in DOMAIN kept |-> ValLine(j.stack, "string", kept[i]) ]]

(* handler; the functions that it has not are those of the last case *)
PathCall(j, c) ==
  CASE j.failed                -> j
    [] c.func = "object_key"   -> SetLast(j, c.arg)
    [] c.func = "object_start" -> PushLast(j)
    [] c.func = "object_end"   -> PopLast(j)
    [] c.func \in {"null", "array_sep"} -> PrintPath(j)
    [] c.func = "value_sep"    -> [j EXCEPT !.out = Append(@, PathLine(<<>>))]
    [] c.func \in {"boolean", "number"} ->
         [j EXCEPT !.out = Append(@, ValLine(j.stack, c.func, c.arg.val))]
    [] c.func = "string"       -> PrintLines(j, c.arg.val)
    [] OTHER                   -> j

PathCalls(calls) ==
  LET after[n \in 0..Len(calls)] ==
        IF n = 0 THEN Paths ELSE PathCall(after[n - 1], calls[n])
  IN  after[Len(calls)]
=============================================================================
