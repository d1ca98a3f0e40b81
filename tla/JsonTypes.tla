------------------------------ MODULE JsonTypes ------------------------------
(***************************************************************************)
(* The types of Json-Type as the checker sees them: the nodes of           *)
(* "struct json_type_node_t" and the attributes the type library computes  *)
(* for a list (lib/json-type.c).                                           *)
(*                                                                         *)
(* A trie of keys is abstracted to the set of keys it holds, and a node of *)
(* the trie to the set of what may still follow it: the trie node reached  *)
(* from the root along p is {s : p \o s is a key}.  A NULL pointer to a    *)
(* trie node is the empty set; the end-of-key symbol NULL among the        *)
(* siblings of a node is the empty sequence in the set.                    *)
(***************************************************************************)
EXTENDS Integers, Sequences, FiniteSets

AnyType    == {"type", "null", "boolean", "number", "string", "object", "array"}
PlainType  == {"null", "boolean", "number", "string"}

Any(t)       == [node |-> "any", type |-> t]
Plain(t, v)  == [node |-> "plain", type |-> t, val |-> v]
Object(args) == [node |-> "object", args |-> args]
Dict(args)   == [node |-> "dict", args |-> args]
Open(t)      == [node |-> "open", arg |-> t]
Closed(ts)   == [node |-> "closed", args |-> ts]
List(ts)     == [node |-> "list", args |-> ts]
Arg(k, t)    == [name |-> k, type |-> t]
Null         == [node |-> "null"]

IsArray(t) == t.node \in {"open", "closed"}

(* What the parser hands to the checker: a plain value, or the mere fact   *)
(* that an object or an array begins.                                      *)
AnyObject == Any("object")
AnyArray  == Any("array")

(* json_type_node_any: the type that all inputs like this one share. *)
NodeAny(input) == IF input.node = "any" THEN input ELSE Any(input.type)

(* The list attributes: the keys that each trie of the list holds. *)
Elems(list, n) ==
  { t \in { list.args[i] : i \in DOMAIN list.args } : t.node = n }

NameSym(k) == [node |-> "name", name |-> k]

ObjectKey(o) ==
  [ i \in 1..2 * Len(o.args) |->
      IF i % 2 = 1 THEN NameSym(o.args[(i + 1) \div 2].name)
                   ELSE o.args[i \div 2].type ]

ObjectTrie(list)      == { ObjectKey(o) : o \in Elems(list, "object") }
OpenArrayTrie(list)   == { <<a.arg>> : a \in Elems(list, "open") }
ClosedArrayTrie(list) == { a.args : a \in Elems(list, "closed") }

(* A node of a trie: the symbols among its siblings, and their children. *)
Heads(trie)          == { Head(s) : s \in trie \ {<<>>} }
HasNullSib(trie)     == <<>> \in trie
HasNonNullSib(trie)  == trie \ {<<>>} # {}
Eq(trie, sym)        == { Tail(s) : s \in { k \in trie \ {<<>>} : Head(k) = sym } }

(***************************************************************************)
(* JSON_TYPE_CHECK_LOOKUP_TRIE_NODE: the symbol an input leads to.  Where  *)
(* several would do, the first one the search meets in the tree is taken;  *)
(* which one that is depends on the shape of the tree, left open here.     *)
(***************************************************************************)
LookupTrieNode(trie, input) ==
  LET syms  == Heads(trie)
      first == CASE input = AnyObject -> { s \in syms : s.node = "object" }
                 [] input = AnyArray  -> { s \in syms : IsArray(s) }
                 [] OTHER             -> {}
  IN  IF input \in syms THEN {input}
      ELSE IF input.node = "plain" /\ NodeAny(input) \in syms THEN {NodeAny(input)}
      ELSE IF Any("type") \in syms THEN {Any("type")}
      ELSE first

(* json_type_check_any, json_type_check_plain, json_type_check_list_any *)
CheckAny(t, input)     == t.node = "any" /\ t.type \in {"type", NodeAny(input).type}
CheckListAny(t, input) == { NodeAny(input), Any("type") } \cap Elems(t, "any") # {}

CheckPlain(t, input) ==
  IF t.node = "list"
  THEN CheckListAny(t, input) \/ input \in Elems(t, "plain")
  ELSE CheckAny(t, input) \/ t = input
=============================================================================
