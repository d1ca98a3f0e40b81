----------------------------- MODULE JsonChecker -----------------------------
(***************************************************************************)
(* The type checker of Json-Type (lib/json-type.c): a "struct json_type_t" *)
(* is the client of a JSON parser and stands between it and a handler of   *)
(* its own.  Each call of the parser is checked against the frame on top   *)
(* of "obj_stack" and, when it passes, handed on to the handler.           *)
(*                                                                         *)
(* Two copies of JsonEvents meet here.  The calls the parser makes are     *)
(* assumed to be steps of Up; the calls the handler receives are shown to  *)
(* be steps of Down.                                                       *)
(*                                                                         *)
(* Left out: positions and the arguments of errors (they only go into      *)
(* messages), the limit of the stack, and the numbers that are not         *)
(* integers, on which trie_num_cmp ends the process.                       *)
(***************************************************************************)
EXTENDS JsonTypes

CONSTANTS
  Nodes,  \* the nodes of types: a type, and whatever a node is made of
  Types,  \* the types accepted by the type library
  Names,  \* the names of members
  Plains  \* the plain values of a text

(* What the unions of "struct json_type_node_t" hold, and what the library *)
(* makes sure of: the names of a dict are distinct.                        *)
ASSUME NodesAssumption ==
  /\ Types \subseteq Nodes
  /\ \A t \in Nodes :
       /\ t.node \in {"any", "plain", "object", "dict", "open", "closed", "list"}
       /\ t.node \in {"object", "dict"} =>
            t.args \in Seq([name : STRING, type : Nodes])
       /\ t.node = "dict" =>
            \A i, j \in DOMAIN t.args : t.args[i].name = t.args[j].name => i = j
       /\ t.node = "open" => t.arg \in Nodes
       /\ t.node \in {"closed", "list"} => t.args \in Seq(Nodes)

ASSUME PlainsAssumption ==
  \A p \in Plains : p.node = "plain" /\ p.type \in PlainType

VARIABLES
  root,      \* root_node
  objStack,  \* obj_stack, its top last
  err,       \* error_info.type_check.type
  canceled,  \* the handler has answered FALSE
  nest, phase, ev, alive, \* the calls of the parser: see JsonEvents
  sent       \* the last function of the handler called

vars == <<root, objStack, err, canceled, nest, phase, ev, alive, sent>>

Up   == INSTANCE JsonEvents
Down == INSTANCE JsonEvents WITH ev <- sent

-----------------------------------------------------------------------------
(* The elements of the stack: "struct json_type_obj_t".                    *)

NodeObj(t) == [obj |-> "node", node |-> t]

ObjectArgs(t, n) == [obj |-> "object", node |-> t, n_arg |-> n]
ArrayArgs(t, n)  == [obj |-> "array", node |-> t, n_arg |-> n]

ObjectTrieArgs(trie) == [obj |-> "object_trie", trie |-> trie]

(* open_found stands for open_trie # NULL. *)
ArrayTrieArgs(base, trie, closed) ==
  [ obj |-> "array_trie", base |-> base, trie |-> trie, is_closed |-> closed,
    open_node |-> Null, open_found |-> FALSE, n_arg |-> 0 ]

DictArgs(t) ==
  [obj |-> "dict", node |-> t, n_arg |-> 0, args |-> {}, last |-> 0]

IsObjectArgs(o) == o.obj \in {"object", "object_trie", "dict"}
IsArrayArgs(o)  == o.obj \in {"array", "array_trie"}

CheckError == { "type_mismatch", "too_few_args", "too_many_args",
                "invalid_arg_name", "duplicate_arg_name" }

(* What checking a call makes of the top of the stack: the frame becomes   *)
(* top, the frames of push go above it, and the check answers e.           *)
Outcome(e, top, push) == [err |-> e, top |-> top, push |-> push]
Pass(top) == Outcome("none", top, <<>>)
Fail(e, top) == Outcome(e, top, <<>>)

(***************************************************************************)
(* json_type_check_base, for an input that begins an object or an array:   *)
(* the frame that will check its contents, none when it does not match.    *)
(***************************************************************************)
ObjectFrame(t) ==
  CASE t.node = "list" ->
         IF CheckListAny(t, AnyObject) THEN {ObjectTrieArgs({})}
         ELSE { ObjectTrieArgs(trie) : trie \in {ObjectTrie(t)} \ {{}} }
    [] t.node = "dict"   -> {DictArgs(t)}
    [] t.node = "object" -> {ObjectArgs(t, 0)}
    [] OTHER -> IF CheckAny(t, AnyObject) THEN {ObjectArgs(Null, 0)} ELSE {}

ArrayFrame(t) ==
  LET closed == ClosedArrayTrie(t)
      open   == OpenArrayTrie(t)
  IN  CASE t.node = "list" ->
             IF CheckListAny(t, AnyArray) THEN {ArrayTrieArgs(t, {}, FALSE)}
             ELSE IF closed # {} THEN {ArrayTrieArgs(t, closed, TRUE)}
             ELSE IF open # {} THEN {ArrayTrieArgs(t, open, FALSE)}
             ELSE {}
        [] IsArray(t) -> {ArrayArgs(t, 0)}
        [] OTHER -> IF CheckAny(t, AnyArray) THEN {ArrayArgs(Null, 0)} ELSE {}

(* JSON_TYPE_CHECK_NODE_RESULT *)
CheckBase(top, input, t) ==
  LET frame == IF input = AnyObject THEN ObjectFrame(t) ELSE ArrayFrame(t)
  IN  IF input.node = "plain"
      THEN IF CheckPlain(t, input) THEN Pass(top) ELSE Fail("type_mismatch", top)
      ELSE IF frame = {} THEN Fail("type_mismatch", top)
      ELSE Outcome("none", top, <<CHOOSE f \in frame : TRUE>>)

(***************************************************************************)
(* json_type_check_node: a value, checked against the frame o on top.      *)
(***************************************************************************)
InObject(o, input) ==
  LET k == o.n_arg \div 2 + 1
      next == [o EXCEPT !.n_arg = @ + 1]
  IN  IF o.node = Null THEN CheckBase(next, input, Any("type"))
      ELSE IF k > Len(o.node.args) THEN Fail("too_many_args", o)
      ELSE CheckBase(next, input, o.node.args[k].type)

InArray(o, input) ==
  IF o.node = Null THEN CheckBase(o, input, Any("type"))
  ELSE IF o.node.node = "open" THEN CheckBase(o, input, o.node.arg)
  ELSE IF o.n_arg >= Len(o.node.args) THEN Fail("too_many_args", o)
  ELSE CheckBase([o EXCEPT !.n_arg = @ + 1], input, o.node.args[o.n_arg + 1])

InDict(o, input) ==
  IF o.n_arg \div 2 >= Len(o.node.args) THEN Fail("too_many_args", o)
  ELSE CheckBase([o EXCEPT !.n_arg = @ + 1, !.args = @ \cup {o.last}],
                 input, o.node.args[o.last].type)

InObjectTrie(o, input) ==
  LET found == LookupTrieNode(o.trie, input)
  IN  IF o.trie = {} THEN { CheckBase(o, input, Any("type")) }
      ELSE IF found = {} THEN { Fail("type_mismatch", o) }
      ELSE { CheckBase([o EXCEPT !.trie = Eq(@, r)], input, r) : r \in found }

(* Deviation: an open array is never given up *)
TrackOpenForGood(o, input) ==
  LET n == [o EXCEPT !.n_arg = @ + 1]
      found == LookupTrieNode(OpenArrayTrie(o.base), input)
  IN  IF o.is_closed /\ o.n_arg = 0
      THEN IF found = {} THEN {n}
           ELSE { [n EXCEPT !.open_node = r, !.open_found = TRUE] : r \in found }
      ELSE IF /\ o.is_closed /\ o.open_node # Null
              /\ ~CheckAny(o.open_node, input) /\ o.open_node # input
           THEN { [n EXCEPT !.n_arg = @] }
           ELSE {n}

(* The arrays of a list that are still possible: the closed ones, in the   *)
(* trie, and an open one, chosen on the first element and given up on the  *)
(* first later element that does not match it.                             *)
TrackOpen(o, input) ==
  LET n == [o EXCEPT !.n_arg = @ + 1]
      found == LookupTrieNode(OpenArrayTrie(o.base), input)
  IN  IF o.is_closed /\ o.n_arg = 0
      THEN IF found = {} THEN {n}
           ELSE { [n EXCEPT !.open_node = r, !.open_found = TRUE] : r \in found }
      ELSE IF /\ o.is_closed /\ o.open_node # Null
              /\ ~CheckAny(o.open_node, input) /\ o.open_node # input
           THEN { [n EXCEPT !.open_node = Null] }
           ELSE {n}

InArrayTrie(o, input) ==
  LET only  == ~HasNonNullSib(o.trie)
      found == LookupTrieNode(o.trie, input)
      left  == [o EXCEPT !.is_closed = FALSE, !.trie = {}]
  IN  IF o.trie = {}
      THEN { CheckBase(o, input, IF o.open_node # Null THEN o.open_node
                                 ELSE Any("type")) }
      ELSE IF found = {} /\ o.open_node # Null
      THEN { CheckBase(left, input, o.open_node) }
      ELSE IF found = {}
      THEN { Fail(IF only /\ ~o.open_found THEN "too_many_args"
                  ELSE "type_mismatch", o) }
      ELSE IF o.is_closed
      THEN { CheckBase([o EXCEPT !.trie = Eq(@, r)], input, r) : r \in found }
      ELSE { CheckBase([left EXCEPT !.open_node = r], input, r) : r \in found }

CheckNode(o, input) ==
  CASE o.obj = "node"        -> { CheckBase(o, input, o.node) }
    [] o.obj = "object"      -> { InObject(o, input) }
    [] o.obj = "array"       -> { InArray(o, input) }
    [] o.obj = "dict"        -> { InDict(o, input) }
    [] o.obj = "object_trie" -> InObjectTrie(o, input)
    [] o.obj = "array_trie"  ->
         UNION { InArrayTrie(p, input) : p \in TrackOpen(o, input) }

(* Deviation: names are not counted when nothing is expected of them *)
KeyInObjectUncounted(o, k) ==
  LET i == o.n_arg \div 2 + 1
  IN  IF o.node # Null /\ i > Len(o.node.args) THEN Fail("too_many_args", o)
      ELSE IF o.node # Null /\ o.node.args[i].name # k
      THEN Fail("invalid_arg_name", o)
      ELSE Pass([o EXCEPT !.n_arg = IF o.node = Null THEN @ ELSE @ + 1])

(***************************************************************************)
(* json_type_object_key                                                    *)
(***************************************************************************)
KeyInObject(o, k) ==
  LET i == o.n_arg \div 2 + 1
  IN  IF o.node # Null /\ i > Len(o.node.args) THEN Fail("too_many_args", o)
      ELSE IF o.node # Null /\ o.node.args[i].name # k
      THEN Fail("invalid_arg_name", o)
      ELSE Pass([o EXCEPT !.n_arg = @ + 1])

KeyInObjectTrie(o, k) ==
  IF o.trie = {} THEN Pass(o)
  ELSE IF NameSym(k) \in Heads(o.trie)
  THEN Pass([o EXCEPT !.trie = Eq(@, NameSym(k))])
  ELSE Fail(IF Heads(o.trie) # {} THEN "invalid_arg_name" ELSE "too_many_args", o)

KeyInDict(o, k) ==
  LET found == { i \in DOMAIN o.node.args : o.node.args[i].name = k }
  IN  IF o.n_arg \div 2 >= Len(o.node.args) THEN Fail("too_many_args", o)
      ELSE IF found = {} THEN Fail("invalid_arg_name", o)
      ELSE IF found \subseteq o.args THEN Fail("duplicate_arg_name", o)
      ELSE Pass([o EXCEPT !.last = CHOOSE i \in found : TRUE, !.n_arg = @ + 1])

CheckKey(o, k) ==
  CASE o.obj = "object"      -> KeyInObject(o, k)
    [] o.obj = "object_trie" -> KeyInObjectTrie(o, k)
    [] o.obj = "dict"        -> KeyInDict(o, k)

(***************************************************************************)
(* json_type_object_sep and json_type_array_sep: another member or element *)
(* is announced.                                                           *)
(***************************************************************************)
NoMoreArgs(o) ==
  CASE o.obj = "object" -> o.node # Null /\ o.n_arg \div 2 >= Len(o.node.args)
    [] o.obj = "dict"   -> o.n_arg \div 2 >= Len(o.node.args)
    [] o.obj = "object_trie" -> o.trie # {} /\ ~HasNonNullSib(o.trie)
    [] o.obj = "array"  ->
         o.node.node = "closed" /\ o.n_arg >= Len(o.node.args)
    [] o.obj = "array_trie" ->
         /\ o.trie # {} /\ ~HasNonNullSib(o.trie)
         /\ o.open_node = Null /\ o.is_closed

CheckSep(o) == IF NoMoreArgs(o) THEN Fail("too_many_args", o) ELSE Pass(o)

(* Deviation: every name of a dict must be there *)
ArgsMissingInDict(o) ==
  CASE o.obj = "object" -> o.node # Null /\ o.n_arg \div 2 < Len(o.node.args)
    [] o.obj = "dict"   -> o.n_arg \div 2 < Len(o.node.args)
    [] o.obj = "object_trie" -> o.trie # {} /\ ~HasNullSib(o.trie)
    [] o.obj = "array"  -> o.node.node = "closed" /\ o.n_arg < Len(o.node.args)
    [] o.obj = "array_trie" ->
         /\ o.trie # {} /\ ~HasNullSib(o.trie)
         /\ o.open_node = Null /\ o.is_closed
         /\ ~(o.n_arg = 0 /\ OpenArrayTrie(o.base) # {})

(***************************************************************************)
(* json_type_object_end and json_type_array_end: the contents must be      *)
(* complete; their frame is popped.                                        *)
(***************************************************************************)
ArgsMissing(o) ==
  CASE o.obj = "object" -> o.node # Null /\ o.n_arg \div 2 < Len(o.node.args)
    [] o.obj = "dict"   -> FALSE
    [] o.obj = "object_trie" -> o.trie # {} /\ ~HasNullSib(o.trie)
    [] o.obj = "array"  -> o.node.node = "closed" /\ o.n_arg < Len(o.node.args)
    [] o.obj = "array_trie" ->
         /\ o.trie # {} /\ ~HasNullSib(o.trie)
         /\ o.open_node = Null /\ o.is_closed
         /\ ~(o.n_arg = 0 /\ OpenArrayTrie(o.base) # {})

-----------------------------------------------------------------------------
Top  == objStack[Len(objStack)]
Rest == SubSeq(objStack, 1, Len(objStack) - 1)

Init ==
  /\ root \in Types
  /\ objStack = <<NodeObj(root)>>
  /\ err = "none" /\ canceled = FALSE
  /\ sent = "none"
  /\ Up!Init

(* Deviation: an error is kept, but the parser is let go on *)
AnswerTrue(e) ==
  /\ err' = e
  /\ IF e # "none" THEN UNCHANGED <<sent, canceled>>
     ELSE sent' = ev' /\ canceled' = ~alive'
  /\ UNCHANGED root

(***************************************************************************)
(* The end of every handler of the checker: an error is kept and stops the *)
(* parser; else the handler of the client is called, and its answer is the *)
(* answer given to the parser.                                             *)
(***************************************************************************)
Answer(e) ==
  /\ err' = e
  /\ IF e # "none" THEN alive' = FALSE /\ UNCHANGED <<sent, canceled>>
     ELSE sent' = ev' /\ canceled' = ~alive'
  /\ UNCHANGED root

Check(o) == objStack' = (Rest \o <<o.top>>) \o o.push /\ Answer(o.err)

(* json_type_null, json_type_boolean, json_type_number, json_type_string *)
PlainValue(input) ==
  /\ Up!Value(input.type)
  /\ \E o \in CheckNode(Top, input) : Check(o)

ObjectStart ==
  /\ Up!Start("object", "object_start")
  /\ \E o \in CheckNode(Top, AnyObject) : Check(o)

ArrayStart ==
  /\ Up!Start("array", "array_start")
  /\ \E o \in CheckNode(Top, AnyArray) : Check(o)

ObjectKeyOf(k) ==
  /\ Up!Key
  /\ Check(CheckKey(Top, k))

ObjectSep ==
  /\ Up!Sep("object", "object_sep", "key")
  /\ Check(CheckSep(Top))

ArraySep ==
  /\ Up!Sep("array", "array_sep", "value")
  /\ Check(CheckSep(Top))

EndOf(c, h) ==
  /\ Up!End(c, h)
  /\ IF ArgsMissing(Top) THEN Check(Fail("too_few_args", Top))
     ELSE objStack' = Rest /\ Answer("none")

ValueSep ==
  /\ Up!ValueSep
  /\ UNCHANGED objStack
  /\ Answer("none")

(* The parser commits itself to a value or a member; nothing is called. *)
Commit ==
  /\ Up!Commit
  /\ UNCHANGED <<root, objStack, err, canceled, sent>>

(* The parser ends, on an error of its own. *)
Stop ==
  /\ Up!Stop
  /\ UNCHANGED <<root, objStack, err, canceled, sent>>

(* json_type_parse_done, when the text is complete: the root node is taken *)
(* off the stack.                                                          *)
ParseDone ==
  /\ Up!Stop /\ phase = "top"
  /\ objStack' = Rest
  /\ UNCHANGED <<root, err, canceled, sent>>

Next ==
  \/ \E p \in Plains : PlainValue(p)
  \/ ObjectStart
  \/ ArrayStart
  \/ \E k \in Names : ObjectKeyOf(k)
  \/ ObjectSep
  \/ ArraySep
  \/ EndOf("object", "object_end")
  \/ EndOf("array", "array_end")
  \/ ValueSep
  \/ Commit
  \/ Stop
  \/ ParseDone

Spec == Init /\ [][Next]_vars

-----------------------------------------------------------------------------
(* The frames of obj_stack, one set for each kind.  What is left of a trie *)
(* of objects is names and types in turn; an open array can be found only  *)
(* in the trie of open arrays, which is also the one a frame that is not   *)
(* closed looks into.                                                      *)
NodeWith(kinds) == { t \in Nodes : t.node \in kinds }
Sym == Nodes \cup [node : {"name"}, name : STRING]

NodeFrames   == [obj : {"node"}, node : Types]
ObjectFrames == [obj : {"object"}, node : NodeWith({"object"}) \cup {Null}, n_arg : Nat]
ArrayFrames  ==
  [obj : {"array"}, node : NodeWith({"open", "closed"}) \cup {Null}, n_arg : Nat]
DictFrames   ==
  [ obj : {"dict"}, node : NodeWith({"dict"}), n_arg : Nat, args : SUBSET Nat,
    last : Nat ]
ObjectTrieFrames == [obj : {"object_trie"}, trie : SUBSET Seq(Sym)]
ArrayTrieFrames  ==
  { o \in [ obj : {"array_trie"}, base : NodeWith({"list"}),
            trie : SUBSET Seq(Nodes), is_closed : BOOLEAN,
            open_node : Nodes \cup {Null}, open_found : BOOLEAN, n_arg : Nat ] :
      /\ o.open_node = Null \/ <<o.open_node>> \in OpenArrayTrie(o.base)
      /\ ~o.is_closed => o.trie \in {{}, OpenArrayTrie(o.base)} }

Frame == NodeFrames \cup ObjectFrames \cup ArrayFrames \cup DictFrames
         \cup ObjectTrieFrames \cup ArrayTrieFrames

(* Type correctness of the checker's own state. *)
TypeOK ==
  /\ root \in Types
  /\ objStack \in Seq(Frame)
  /\ err \in CheckError \cup {"none"}
  /\ canceled \in BOOLEAN
  /\ sent \in Up!Handler \cup {"none"}
  /\ Up!TypeOK

(* What a frame must be when the name of a member, or a value, is next.    *)
AwaitsKey(o) ==
  \/ o.obj \in {"object", "dict"} /\ o.n_arg % 2 = 0
  \/ o.obj = "object_trie" /\ \A s \in Heads(o.trie) : s.node = "name"

AwaitsValue(o) ==
  \/ o.obj = "object" /\ o.n_arg % 2 = 1
  \/ o.obj = "dict" /\ o.n_arg % 2 = 1 /\ o.last \in DOMAIN o.node.args \ o.args
  \/ o.obj = "object_trie" /\ HasNullSib(o.trie) = FALSE
                           /\ \A s \in Heads(o.trie) : s.node # "name"

(* While the parser may still call, there is one frame per open container, *)
(* of its kind, over the root node, and the frames of objects have seen as *)
(* many names as values, but for the one whose value is awaited.  This is  *)
(* what every ENSURE(.., "invalid type stack: ..") of the handlers asks,   *)
(* and a failing one would end the process on a well-formed text.          *)
FramesMatchCalls ==
  /\ TypeOK
  /\ alive =>
       /\ Len(objStack) = Len(nest) + 1
       /\ objStack[1] = NodeObj(root)
       /\ \A i \in DOMAIN nest :
            LET o == objStack[i + 1]
            IN  IF nest[i] = "array" THEN IsArrayArgs(o)
                ELSE /\ IsObjectArgs(o)
                     /\ IF i = Len(nest) /\ phase = "value" THEN AwaitsValue(o)
                        ELSE AwaitsKey(o)

(* The open array a list of arrays may still be is one of simple elements, *)
(* once a closed array has been entered too: the ASSERT of                 *)
(* json_type_check_node, active in the builds that define JSON_DEBUG.      *)
OpenNodeIsSimple ==
  \A i \in DOMAIN objStack :
    LET o == objStack[i]
    IN  o.obj = "array_trie" /\ o.is_closed /\ o.open_node # Null =>
          /\ o.open_node.node \in {"any", "plain"}
          /\ o.open_node \notin {AnyObject, AnyArray}

(* The handler of the client sees a legal sequence of calls, as if it were *)
(* called by the parser itself, whatever the checker refuses on the way.   *)
ImplementsHandlers == Down!Spec
=============================================================================
