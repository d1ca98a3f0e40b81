----------------------------- MODULE JsonTypeLib -----------------------------
(***************************************************************************)
(* The type library of Json-Type (lib/json-type.c), from a type node that  *)
(* the rules have built to the verdict on it: the attributes of its lists  *)
(* and dicts are generated, then checked.  json_type_lib_text_load hands   *)
(* to the checker only the types accepted here.                            *)
(***************************************************************************)
EXTENDS JsonTypes

LOCAL Range(s) == { s[i] : i \in DOMAIN s }

(* The position of x in an enumeration. *)
LOCAL Rank(x, enum) == CHOOSE i \in DOMAIN enum : enum[i] = x

NodeTypes  == <<"any", "plain", "object", "open", "closed", "list", "dict">>
AnyTypes   == <<"null", "boolean", "number", "string", "object", "array", "type">>
PlainTypes == <<"null", "boolean", "number", "string">>

CONSTANTS
  Words  \* the names and the plain values, in increasing order

(* The first difference of two sequences of comparisons decides. *)
LOCAL First(cmps) ==
  LET at == { i \in DOMAIN cmps : cmps[i] # 0 }
  IN  IF at = {} THEN 0 ELSE cmps[CHOOSE i \in at : \A j \in at : i <= j]

(* json_type_node_cmp and the functions it calls for each kind of node *)
RECURSIVE NodeCmp(_, _)
NodeCmp(x, y) ==
  LET kind == Rank(x.node, NodeTypes) - Rank(y.node, NodeTypes)
      word(a, b) == Rank(a, Words) - Rank(b, Words)
      n == IF Len(x.args) < Len(y.args) THEN Len(x.args) ELSE Len(y.args)
      size == <<Len(x.args) - Len(y.args)>>
      args == [ i \in 1..n |->
                  First(<<word(x.args[i].name, y.args[i].name),
                          NodeCmp(x.args[i].type, y.args[i].type)>>) ]
  IN  IF kind # 0 THEN kind
      ELSE CASE x.node = "any"   -> Rank(x.type, AnyTypes) - Rank(y.type, AnyTypes)
             [] x.node = "plain" ->
                  First(<<Rank(x.type, PlainTypes) - Rank(y.type, PlainTypes),
                          word(x.val, y.val)>>)
             [] x.node = "open"  -> NodeCmp(x.arg, y.arg)
             [] x.node \in {"object", "dict"}  -> First(args \o size)
             [] x.node \in {"closed", "list"}  ->
                  First([ i \in 1..n |-> NodeCmp(x.args[i], y.args[i]) ] \o size)

(* json_type_trie_sym_cmp, json_type_object_sym_cmp: the end of a key      *)
(* comes before every name and every node; names and nodes never meet.     *)
SymCmp(x, y) ==
  IF x = y THEN 0
  ELSE IF x = Null THEN -1
  ELSE IF y = Null THEN 1
  ELSE IF x.node = "name" THEN Rank(x.name, Words) - Rank(y.name, Words)
  ELSE NodeCmp(x, y)

T == INSTANCE Trie WITH NullSym <- Null, Cmp <- SymCmp

(* Deviation: plain values are not looked at *)
NodeMatchAny(x, y) ==
  LET a == IF x.node = "any" THEN x ELSE y
      b == IF x.node = "any" THEN y ELSE x
  IN  \/ x = y
      \/ /\ a.node = "any"
         /\ \/ a.type = "type"
            \/ b.node = "any" /\ b.type = "type"
            \/ a.type = "object" /\ b.node = "object"
            \/ a.type = "array" /\ IsArray(b)

(* json_type_node_match *)
NodeMatch(x, y) ==
  LET a == IF x.node = "any" THEN x ELSE y
      b == IF x.node = "any" THEN y ELSE x
  IN  \/ x = y
      \/ /\ a.node = "any"
         /\ \/ a.type = "type"
            \/ b.node = "any" /\ b.type = "type"
            \/ b.node = "plain" /\ b.type = a.type
            \/ a.type = "object" /\ b.node = "object"
            \/ a.type = "array" /\ IsArray(b)

-----------------------------------------------------------------------------
(* json_type_lib_gen_list_attrs, json_type_lib_gen_dict_attrs: the keys    *)
(* that cannot be inserted.                                                *)
DistinctElems(s) == \A i, j \in DOMAIN s : s[i] = s[j] => i = j

GenListAttrs(list) ==
  /\ \A t \in Range(list.args) : t.node \notin {"list", "dict"}
  /\ DistinctElems(list.args)

GenDictAttrs(dict) == DistinctElems([ i \in DOMAIN dict.args |-> dict.args[i].name ])

-----------------------------------------------------------------------------
(* The checks of the attributes of a list.                                 *)

(* The sibling trees of a trie: the one at its root and all those below. *)
Levels(keys) ==
  { { SubSeq(k, Len(p) + 1, Len(k)) :
        k \in { q \in keys : Len(p) <= Len(q) /\ SubSeq(q, 1, Len(p)) = p } } :
      p \in { SubSeq(k, 1, n) : <<k, n>> \in
                UNION { {q} \X (0..Len(q)) : q \in keys } } }

NodesIn(trie) == { s \in Heads(trie) : s.node # "name" }

(* json_type_lib_check_object_ambiguities, .._check_array_ambiguities *)
NoAmbiguities(keys) ==
  \A trie \in Levels(keys) :
    \A x, y \in NodesIn(trie) : NodeMatch(x, y) => x = y

(* json_type_lib_check_object_not_supported, .._check_array_not_supported *)
IsSupported(keys) ==
  \A trie \in Levels(keys) : \A x, y \in NodesIn(trie) :
    /\ x.node # "list"
    /\ x.node = "object" /\ y.node = "object" => x = y
    /\ IsArray(x) /\ IsArray(y) => x = y

(***************************************************************************)
(* The trees that json_type_lib_gen_list_attrs builds, by inserting the    *)
(* keys of the elements of a list in their order.                          *)
(***************************************************************************)
Keyed(list, n, key(_)) ==
  LET elems == SelectSeq(list.args, LAMBDA t : t.node = n)
  IN  T!InsertAll(T!Nil, [ i \in DOMAIN elems |-> key(elems[i]) ])

Objects(list)      == Keyed(list, "object", ObjectKey)
OpenArrays(list)   == Keyed(list, "open", LAMBDA a : <<a.arg>>)
ClosedArrays(list) == Keyed(list, "closed", LAMBDA a : a.args)

(* JSON_TYPE_CHECK_LOOKUP_TRIE_NODE, of the tree that stands behind the    *)
(* set of JsonTypes.                                                       *)
LookupTreeNode(tree, syms, input) ==
  LET sym  == T!LookupSymNode(tree, input)
      any  == T!LookupSymNode(tree, NodeAny(input))
      type == T!LookupSymNode(tree, Any("type"))
      like == { s \in syms : IF input = AnyObject THEN s.node = "object"
                             ELSE input = AnyArray /\ IsArray(s) }
  IN  IF sym # T!Nil THEN sym
      ELSE IF input.node = "plain" /\ any # T!Nil THEN any
      ELSE IF type # T!Nil THEN type
      ELSE T!LookupFirstNode(tree, like)

(* json_type_lib_check_arrays_ambiguities; "flat": the trees are balanced. *)
NoArraysAmbiguities(list, flat) ==
  LET built  == ClosedArrays(list)
      closed == IF flat THEN T!Rebalance(built) ELSE built
  IN  \A open \in Heads(OpenArrayTrie(list)) :
        ~T!MatchSym(closed, { s \in UNION { Range(k) : k \in ClosedArrayTrie(list) } :
                                NodeMatch(s, open) })

(* Deviation: only arrays are looked for *)
ArraysAreSupportedIfObjects(list) ==
  \A x \in Heads(OpenArrayTrie(list)), y \in Heads(ClosedArrayTrie(list)) :
    LET isArray(t)  == t = AnyArray \/ IsArray(t)
    IN  ~(isArray(x) /\ isArray(y))

(* json_type_lib_check_arrays_not_supported *)
ArraysAreSupported(list) ==
  \A x \in Heads(OpenArrayTrie(list)), y \in Heads(ClosedArrayTrie(list)) :
    LET isObject(t) == t = AnyObject \/ t.node = "object"
        isArray(t)  == t = AnyArray \/ IsArray(t)
    IN  ~(isObject(x) /\ isObject(y)) /\ ~(isArray(x) /\ isArray(y))

CheckListAttrs(list, flat) ==
  /\ NoArraysAmbiguities(list, flat)
  /\ \A keys \in { ObjectTrie(list), OpenArrayTrie(list), ClosedArrayTrie(list) } :
       NoAmbiguities(keys) /\ IsSupported(keys)
  /\ ArraysAreSupported(list)

(* The types a node refers to. *)
Parts(t) ==
  CASE t.node \in {"any", "plain"}     -> {}
    [] t.node = "open"                 -> {t.arg}
    [] t.node \in {"closed", "list"}   -> Range(t.args)
    [] t.node \in {"object", "dict"}   -> { a.type : a \in Range(t.args) }

(* json_type_lib_gen_node_attrs *)
RECURSIVE GenNodeAttrs(_)
GenNodeAttrs(t) ==
  /\ t.node = "list" => GenListAttrs(t)
  /\ t.node = "dict" => GenDictAttrs(t)
  /\ \A p \in Parts(t) : GenNodeAttrs(p)

(* json_type_lib_check_node_attrs, of a node whose attributes exist *)
RECURSIVE CheckNodeAttrs(_, _)
CheckNodeAttrs(t, flat) ==
  /\ \A p \in Parts(t) : CheckNodeAttrs(p, flat)
  /\ t.node = "list" => CheckListAttrs(t, flat)

Accepted(t) == GenNodeAttrs(t) /\ CheckNodeAttrs(t, FALSE)
=============================================================================
