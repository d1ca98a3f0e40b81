------------------------------ MODULE JsonRuler ------------------------------
(***************************************************************************)
(* From the tree of a text to a type (lib/json-type.c): the ruler visits   *)
(* the tree by the meta-rules, which say which values are types, and calls *)
(* the rules of the type library on its way back; these build the type on  *)
(* a stack of objects.                                                     *)
(*                                                                         *)
(* The trees are those of JsonAst, with the bytes of a literal as its      *)
(* value, and with paths for positions: the texts of keys and names matter *)
(* here, lines and columns do not.  What is built has no positions: only   *)
(* the messages of later errors show them.                                 *)
(* An ASSERT that fails, or a stack that is full, ends the process: a      *)
(* fault is left on top of the stack, which stays as it is from there on.  *)
(***************************************************************************)
EXTENDS JsonTypes

LOCAL Seqs == INSTANCE SequencesExt

CONSTANT
  ObjStackMax  \* sizes.ast.obj.stack_max

Leaf(t, v, w)      == [type |-> t, pos |-> w, val |-> v]
Pairs(pairs, w)    == [type |-> "object", pos |-> w, args |-> pairs]
Elements(nodes, w) == [type |-> "array", pos |-> w, args |-> nodes]
Pair(k, v)         == [key |-> k, val |-> v]

BasicType == AnyType
ObjType   == {"object", "array", "list", "dict"}

-----------------------------------------------------------------------------
(* The rules of the type library.                                          *)

NodeObj(t)    == [obj |-> "node", node |-> t]
ArgObj(a)     == [obj |-> "arg", arg |-> a]
DefsObj(args) == [obj |-> "defs", args |-> args]
FaultObj(e)   == [obj |-> "fault", why |-> e]

Faulty(st) == st # <<>> /\ st[Len(st)].obj = "fault"

PushObj(st, o) ==
  IF Faulty(st) THEN st
  ELSE Append(st, IF Len(st) = ObjStackMax THEN FaultObj("limit") ELSE o)

(* JSON_TYPE_LIB_OBJ_AS, of the n objects on top *)
TopObjs(st, n)     == SubSeq(st, Len(st) - n + 1, Len(st))
Has(st, n, what)   == n <= Len(st) /\ \A i \in DOMAIN TopObjs(st, n) :
                                        TopObjs(st, n)[i].obj = what
(* Deviation: STACK_POP_N taken to pop as many as it says *)
ReplaceObjsLess(st, n, o) == PushObj(SubSeq(st, 1, Len(st) - (n - 1)), o)

ReplaceObjs(st, n, o) == PushObj(SubSeq(st, 1, Len(st) - n), o)

TopNodes(st, n) == [i \in 1..n |-> TopObjs(st, n)[i].node]
TopArgs(st, n)  == [i \in 1..n |-> TopObjs(st, n)[i].arg]

Gather(st, n, what, o) ==
  IF Has(st, n, what) THEN ReplaceObjs(st, n, o)
  ELSE IF Faulty(st) THEN st ELSE Append(st, FaultObj(what))

BasicTypeRule(st, t)  == PushObj(st, NodeObj(Any(t)))
PlainRule(st, leaf)   == PushObj(st, NodeObj(Plain(leaf.type, leaf.val)))
ArgNameRule(st, k)    == Gather(st, 1, "node", ArgObj(Arg(k, TopNodes(st, 1)[1])))
ArgsObjectRule(st, n) == Gather(st, n, "arg", NodeObj(Object(TopArgs(st, n))))
ArgsDictRule(st, n)   == Gather(st, n, "arg", NodeObj(Dict(TopArgs(st, n))))
MonoArrayRule(st)     == Gather(st, 1, "node", NodeObj(Open(TopNodes(st, 1)[1])))
ArgsArrayRule(st, n)  == Gather(st, n, "node", NodeObj(Closed(TopNodes(st, n))))
ArgsListRule(st, n)   == Gather(st, n, "node", NodeObj(List(TopNodes(st, n))))
ArgsTopRule(st, n)    == Gather(st, n, IF n > 0 THEN "arg" ELSE "none",
                                DefsObj(TopArgs(st, n)))

-----------------------------------------------------------------------------
(* The ruler.  A visit ends with an error, or with what kind of value the  *)
(* node is; either has a position, and the stack as the rules leave it.    *)

Val(st, v, w) == [err |-> "none", val |-> v, pos |-> w, stack |-> st]
Err(st, e, w) == [err |-> e, val |-> "none", pos |-> w, stack |-> st]

IsError(r) == r.err # "none"
IsType(r)  ==
  r.val \in {"basic", "plain_obj", "object_obj", "array_obj", "list_obj", "dict_obj"}

(* json_type_ruler_string *)
VisitString(st, node) ==
  IF node.val \in BasicType THEN Val(BasicTypeRule(st, node.val), "basic", node.pos)
  ELSE Val(st, "const", node.pos)

VisitPlainObj(st, node) ==
  LET v == node.args[1].val
  IN  IF Len(node.args) # 1 THEN Err(st, "invalid_plain_obj_size_not_one", node.pos)
      ELSE IF v.type \notin PlainType
           THEN Err(st, "invalid_plain_obj_type_not_null_bool_num_str", v.pos)
      ELSE Val(PlainRule(st, v), "plain_obj", node.pos)

(* The first case of json_type_ruler_object: what "args" must be is asked  *)
(* of the result of its visit.                                             *)
ArgsOf(t, r, n, w, v) ==
  CASE t = "object" ->
         IF r.val \in {"name_objs", "size_zero"}
         THEN Val(ArgsObjectRule(r.stack, n), "object_obj", w)
         ELSE Err(r.stack, "invalid_object_obj_args_not_array_of_name_objs", v)
    [] t = "array" /\ IsType(r) ->
         Val(MonoArrayRule(r.stack), "array_obj", w)
    [] t = "array" /\ ~IsType(r) ->
         IF r.val \in {"types", "size_zero"}
         THEN Val(ArgsArrayRule(r.stack, n), "array_obj", w)
         ELSE Err(r.stack, "invalid_array_obj_args_neither_type_nor_array_of_types", v)
    [] t = "list" ->
         IF r.val \in {"types", "size_zero"}
         THEN Val(ArgsListRule(r.stack, n), "list_obj", w)
         ELSE Err(r.stack, "invalid_list_obj_args_not_of_type_array_of_types", v)
    [] t = "dict" ->
         IF r.val \in {"name_objs", "size_zero"}
         THEN Val(ArgsDictRule(r.stack, n), "dict_obj", w)
         ELSE Err(r.stack, "invalid_dict_obj_args_not_array_of_name_objs", v)

IsStr(node, words) == node.type = "string" /\ node.val \in words

RECURSIVE Visit(_, _)

VisitTypeObj(st, node) ==
  LET v == node.args[1].val
      a == node.args[2].val
      r == Visit(st, a)
  IN  IF ~IsStr(v, ObjType)
      THEN Err(st, "invalid_type_obj_type_not_obj_arr_list_dict", v.pos)
      ELSE IF Len(node.args) # 2
           THEN Err(st, "invalid_type_obj_size_not_two", node.pos)
      ELSE IF node.args[2].key.val # "args"
           THEN Err(st, "invalid_type_obj_2nd_arg_not_args", node.pos)
      ELSE IF IsError(r) THEN r
      ELSE ArgsOf(v.val, r, IF a.type = "array" THEN Len(a.args) ELSE 0, node.pos, a.pos)

VisitNameObj(st, node) ==
  LET name == node.args[1].val
      r == Visit(st, node.args[2].val)
  IN  IF Len(node.args) # 2 THEN Err(st, "invalid_name_obj_size_not_two", node.pos)
      ELSE IF node.args[2].key.val # "type"
           THEN Err(st, "invalid_name_obj_2nd_arg_not_type", node.pos)
      ELSE IF name.type # "string"
           THEN Err(st, "invalid_name_obj_name_not_str", name.pos)
      ELSE IF IsError(r) THEN r
      ELSE IF ~IsType(r) THEN Err(r.stack, "invalid_name_obj_type_arg_not_a_type", r.pos)
      ELSE Val(ArgNameRule(r.stack, name.val), "name_obj", node.pos)

(* json_type_ruler_object *)
VisitObject(st, node) ==
  LET first == node.args[1].key
  IN  IF node.args = <<>> THEN Err(st, "empty_obj_not_allowed", node.pos)
      ELSE CASE first.val = "type"  -> VisitTypeObj(st, node)
             [] first.val = "name"  -> VisitNameObj(st, node)
             [] first.val = "plain" -> VisitPlainObj(st, node)
             [] OTHER               -> Err(st, "invalid_obj_first_key", first.pos)

(* Deviation: the elements need not all be of the kind of the first one *)
VisitArrayMixed(st, node) ==
  LET Elem(r, e) ==
        LET x == Visit(r.stack, e)
        IN  IF IsError(r) \/ IsError(x) THEN IF IsError(r) THEN r ELSE x
            ELSE IF ~IsType(x) /\ x.val # "name_obj"
                 THEN Err(x.stack, "invalid_array_elem_is_neither_type_nor_name_obj", x.pos)
            ELSE Val(x.stack, IF IsType(x) THEN "types" ELSE "name_objs", node.pos)
  IN  Seqs!FoldLeft(Elem, Val(st, "size_zero", node.pos), node.args)

(* Deviation: the elements after one that is wrong are visited too *)
VisitArrayToEnd(st, node) ==
  LET Elem(r, e) ==
        LET x    == Visit(r.stack, e)
            kind == IF IsType(x) THEN "types" ELSE "name_objs"
        IN  IF IsError(x) THEN x
            ELSE IF IsError(r) THEN r
            ELSE IF ~IsType(x) /\ x.val # "name_obj"
                 THEN Err(x.stack, "invalid_array_elem_is_neither_type_nor_name_obj", x.pos)
            ELSE IF r.val \notin {"size_zero", kind}
                 THEN Err(x.stack, "invalid_array_elem_is_either_type_xor_name_obj", x.pos)
            ELSE Val(x.stack, kind, node.pos)
  IN  Seqs!FoldLeft(Elem, Val(st, "size_zero", node.pos), node.args)

(* json_type_ruler_array: the kinds of the elements met so far are in r.val *)
VisitArray(st, node) ==
  LET Elem(r, e) ==
        LET x    == Visit(r.stack, e)
            kind == IF IsType(x) THEN "types" ELSE "name_objs"
        IN  IF IsError(r) THEN r
            ELSE IF IsError(x) THEN x
            ELSE IF ~IsType(x) /\ x.val # "name_obj"
                 THEN Err(x.stack, "invalid_array_elem_is_neither_type_nor_name_obj", x.pos)
            ELSE IF r.val \notin {"size_zero", kind}
                 THEN Err(x.stack, "invalid_array_elem_is_either_type_xor_name_obj", x.pos)
            ELSE Val(x.stack, kind, node.pos)
  IN  Seqs!FoldLeft(Elem, Val(st, "size_zero", node.pos), node.args)

(* json_type_ruler_visit: a null, a boolean and a number are constants *)
Visit(st, node) ==
  CASE node.type = "string" -> VisitString(st, node)
    [] node.type = "object" -> VisitObject(st, node)
    [] node.type = "array"  -> VisitArray(st, node)
    [] OTHER                -> Val(st, "const", node.pos)

(* json_type_ruler_eval *)
Eval(tree) ==
  LET r == Visit(<<>>, tree)
  IN  IF IsError(r) \/ IsType(r) THEN r
      ELSE IF r.val # "name_objs" THEN Err(r.stack, "invalid_top_value", r.pos)
      ELSE [r EXCEPT !.stack = ArgsTopRule(r.stack, Len(tree.args))]

-----------------------------------------------------------------------------
(* json_type_print, json_type_def_print: a type as a tree without places.  *)

NoPos == <<>>
Text(v) == Leaf("string", v, NoPos)

PrintNameObj(a, t) ==
  Pairs(<<Pair(Text("name"), Text(a.name)), Pair(Text("type"), t)>>, NoPos)
PrintTypeObj(t, args) ==
  Pairs(<<Pair(Text("type"), Text(t)), Pair(Text("args"), args)>>, NoPos)

RECURSIVE PrintNode(_)

PrintArgs(args) ==
  Elements([ i \in DOMAIN args |-> PrintNameObj(args[i], PrintNode(args[i].type)) ], NoPos)
PrintNodes(ts) == Elements([ i \in DOMAIN ts |-> PrintNode(ts[i]) ], NoPos)

PrintNode(t) ==
  CASE t.node = "any"    -> Text(t.type)
    [] t.node = "plain"  -> Pairs(<<Pair(Text("plain"), Leaf(t.type, t.val, NoPos))>>, NoPos)
    [] t.node \in {"object", "dict"} -> PrintTypeObj(t.node, PrintArgs(t.args))
    [] t.node = "open"   -> PrintTypeObj("array", PrintNode(t.arg))
    [] t.node = "closed" -> PrintTypeObj("array", PrintNodes(t.args))
    [] t.node = "list"   -> PrintTypeObj("list", PrintNodes(t.args))

PrintDef(o) == IF o.obj = "defs" THEN PrintArgs(o.args) ELSE PrintNode(o.node)
=============================================================================
