--------------------------- MODULE MCJsonLibrary ---------------------------
(***************************************************************************)
(* JsonLibrary on every text that grows, from a leaf, by being wrapped     *)
(* into a larger value at most MaxWraps times; of those of at most         *)
(* CallWraps, a library is made and called in every order.                 *)
(***************************************************************************)
EXTENDS JsonLibrary, JsonPrinter

CONSTANTS
  MaxWraps,   \* bound: how often a text is wrapped
  CallWraps,  \* and how often one that a library is made of
  Leaves,     \* the texts to begin with
  Partners    \* what stands beside a value in an array

VARIABLE wraps

mcVars == <<libVars, wraps>>

-----------------------------------------------------------------------------
(* A position is the path from the top of the tree: the i-th element of an *)
(* array is i, a key or a value of an object is an odd or an even number.  *)
RECURSIVE Place(_, _)
Place(n, w) ==
  CASE n.type = "array"  -> Elements([ i \in DOMAIN n.args |->
                                         Place(n.args[i], Append(w, i)) ], w)
    [] n.type = "object" ->
         Pairs([ i \in DOMAIN n.args |->
                   Pair(Place(n.args[i].key, Append(w, 2 * i - 1)),
                        Place(n.args[i].val, Append(w, 2 * i))) ], w)
    [] OTHER -> Leaf(n.type, n.val, w)

Obj2(k, v, l, w) == Pairs(<<Pair(Text(k), v), Pair(Text(l), w)>>, NoPos)

(* Well formed, for some v, and not. *)
Wraps(v) ==
  { Elements(<<v>>, NoPos) }
  \cup UNION { { Elements(<<v, p>>, NoPos), Elements(<<p, v>>, NoPos) } : p \in Partners }
  \cup { Obj2("type", Text(t), "args", v) : t \in ObjType }
  \cup { Obj2("name", Text("a"), "type", v), Pairs(<<Pair(Text("plain"), v)>>, NoPos) }
  \cup { Obj2("type", v, "args", Elements(<<>>, NoPos)), Obj2("name", v, "type", Text("null")),
         Obj2("type", Text("list"), "name", v), Obj2("name", Text("a"), "args", v),
         Obj2("plain", v, "plain", v), Pairs(<<Pair(Text("type"), Text("list"))>>, NoPos),
         Pairs(<<Pair(Text("args"), v)>>, NoPos), Pairs(<<Pair(Text("name"), v)>>, NoPos) }

MCInit ==
  /\ source \in { TextOf(Place(n, <<>>)) : n \in Leaves } \cup {WrongText}
         \cup { SharedObj(e, NoDef, TRUE) : e \in SobjError }
         \cup { SharedObj("none", NodeObj(Any("null")), v) : v \in BOOLEAN }
  /\ LibraryInit
  /\ wraps = 0

IsTree  == source.kind = "text" /\ source.json

Wrap ==
  /\ IsFresh /\ IsTree /\ wraps < MaxWraps
  /\ \E n \in Wraps(source.tree) : source' = TextOf(Place(n, <<>>))
  /\ wraps' = wraps + 1
  /\ UNCHANGED <<lib, answer, early>>

Library ==
  /\ wraps <= CallWraps
  /\ LibraryNext
  /\ UNCHANGED wraps

MCNext == Wrap \/ Library

MCSpec == MCInit /\ [][MCNext]_mcVars

-----------------------------------------------------------------------------
(* What the comment above json_type_ruler_visit says a type is.            *)

RECURSIVE TypeTree(_)
NameTree(n) ==
  /\ n.type = "object" /\ Len(n.args) = 2
  /\ n.args[1].key.val = "name" /\ n.args[1].val.type = "string"
  /\ n.args[2].key.val = "type" /\ TypeTree(n.args[2].val)

AllOf(n, is(_)) == n.type = "array" /\ \A i \in DOMAIN n.args : is(n.args[i])

TypeTree(n) ==
  \/ IsStr(n, BasicType)
  \/ /\ n.type = "object" /\ Len(n.args) = 1
     /\ n.args[1].key.val = "plain" /\ n.args[1].val.type \in PlainType
  \/ /\ n.type = "object" /\ Len(n.args) = 2
     /\ n.args[1].key.val = "type" /\ n.args[2].key.val = "args"
     /\ LET t == n.args[1].val
            a == n.args[2].val
        IN  \/ IsStr(t, {"object", "dict"}) /\ AllOf(a, NameTree)
            \/ IsStr(t, {"array", "list"}) /\ AllOf(a, TypeTree)
            \/ IsStr(t, {"array"}) /\ TypeTree(a)

DefsTree(n) == n.type = "array" /\ n.args # <<>> /\ AllOf(n, NameTree)

IsDefTree(n) == TypeTree(n) \/ DefsTree(n)

RECURSIVE SubTrees(_)
SubTrees(n) ==
  {n} \cup CASE n.type = "array"  -> UNION { SubTrees(n.args[i]) : i \in DOMAIN n.args }
             [] n.type = "object" -> UNION { SubTrees(n.args[i].key) \cup SubTrees(n.args[i].val) :
                                             i \in DOMAIN n.args }
             [] OTHER             -> {}

RECURSIVE Erase(_)
Erase(n) ==
  CASE n.type = "array"  -> Elements([ i \in DOMAIN n.args |-> Erase(n.args[i]) ], NoPos)
    [] n.type = "object" -> Pairs([ i \in DOMAIN n.args |->
                              Pair(Erase(n.args[i].key), Erase(n.args[i].val)) ], NoPos)
    [] OTHER             -> Leaf(n.type, n.val, NoPos)

Tree    == source.tree
Outcome == source.visited
IsFault(o) == o.obj = "fault"
Limited == \E i \in DOMAIN Outcome.stack : IsFault(Outcome.stack[i]) /\ Outcome.stack[i].why = "limit"

(* A text is a type when the meta-rules say so, and only then; and what    *)
(* the rules build of it, gathered from the stack on the way back, is that *)
(* type: printed, it gives the text again, nothing lost or moved.          *)
BuildsItsType ==
  IsFresh /\ IsTree =>
    LET r == Outcome
    IN  IF IsError(r) THEN ~IsDefTree(Tree)
        ELSE /\ IsDefTree(Tree)
             /\ ~Limited => Len(r.stack) = 1 /\ PrintDef(r.stack[1]) = Erase(Tree)

(* The ASSERTs of the rules hold on every text, those that the ruler       *)
(* refuses half way included: only a stack that is full ends the process.  *)
(* A library whose client waits for its text always has a tree to visit.   *)
RulesNeverFail ==
  /\ IsFresh /\ IsTree =>
       \A i \in DOMAIN Outcome.stack :
         IsFault(Outcome.stack[i]) => Outcome.stack[i].why = "limit"
  /\ lib.error = "crash" => early

Within(w, n) == Len(n.pos) <= Len(w) /\ SubSeq(w, 1, Len(n.pos)) = n.pos

(* The error of a text is the first one: never within a part that is well  *)
(* formed, nor after an element of an array that is not.                   *)
ErrorIsFirst ==
  IsFresh /\ IsTree /\ IsError(Outcome) =>
    LET w == Outcome.pos
    IN  \A n \in SubTrees(Tree) :
          /\ TypeTree(n) \/ NameTree(n) => ~Within(w, n) \/ w = n.pos
          /\ n.type = "array" =>
               \A i, j \in DOMAIN n.args :
                 i < j /\ Within(w, n.args[j]) => TypeTree(n.args[i]) \/ NameTree(n.args[i])

(* In whatever order the calls come, each answers what the text deserves,  *)
(* and the error tells which part of it is at fault.  Left out: what is    *)
(* asked after the definitions, whose trees are balanced.                  *)
VerdictsAgree ==
  ~IsFresh /\ IsTree /\ ~early /\ ~lib.flat /\ answer.call # "load" =>
    LET d     == Outcome.stack[1]
        types == IF d.obj = "node" THEN {d.node} ELSE { d.args[i].type : i \in DOMAIN d.args }
        names == IF d.obj = "node" THEN {} ELSE { d.args[i].name : i \in DOMAIN d.args }
        isType  == IsDefTree(Tree)
        isSound == isType /\ \A t \in types : GenNodeAttrs(t)
        isGood  == /\ isType
                   /\ \A t \in types : Accepted(t)
                   /\ d.obj = "defs" => Cardinality(names) = Len(d.args)
    IN  ~Limited =>
        /\ lib.error = "meta" => ~isType
        /\ lib.error = "attr" => isType /\ ~isGood
        /\ answer.yes =>
             CASE answer.call = "validate" -> isType
               [] answer.call = "print"    -> isSound
               [] answer.call \in {"check_attr", "gen_def"} -> isGood
               [] OTHER -> TRUE

-----------------------------------------------------------------------------
(* What the printers make of a text, and of two values in one text.        *)

S == INSTANCE SequencesExt
V == INSTANCE JsonTypeSpec

IsPrinted == IsFresh /\ IsTree /\ wraps <= CallWraps

RECURSIVE ValueOf(_)
ValueOf(n) ==
  CASE n.type = "array"  -> V!ArrayOf([ i \in DOMAIN n.args |-> ValueOf(n.args[i]) ])
    [] n.type = "object" -> V!ObjectOf([ i \in DOMAIN n.args |->
                              V!Member(n.args[i].key.val, ValueOf(n.args[i].val)) ])
    [] OTHER             -> Plain(n.type, n.val)

CallsOf(n)     == V!Calls(ValueOf(n))
CallsOf2(m, n) == CallsOf(m) \o <<V!Call("value_sep", Null)>> \o CallsOf(n)

(* A text laid out: each part on a line of its own, in by one level more   *)
(* than its container; "tight" if a container without parts is closed up.  *)
RECURSIVE Layout(_, _, _)
Layout(n, depth, tight) ==
  LET line(d) == <<NewLine, Margin(d)>>
      inner(a) ==
        IF n.type = "array" THEN Layout(a, depth + 1, tight)
        ELSE <<Str(a.key.val), Mark(":")>> \o Layout(a.val, depth + 1, tight)
      part(i) == line(depth + 1) \o inner(n.args[i])
                 \o (IF i < Len(n.args) THEN <<Mark(",")>> ELSE <<>>)
      around(a, b) ==
        <<Mark(a)>> \o S!FlattenSeq([ i \in DOMAIN n.args |-> part(i) ])
        \o (IF tight /\ n.args = <<>> THEN <<>> ELSE line(depth)) \o <<Mark(b)>>
  IN  CASE n.type = "array"  -> around("[", "]")
        [] n.type = "object" -> around("{", "}")
        [] OTHER             -> <<Value(n.type, n.val)>>

FullLines(n, tight) == <<Margin(0)>> \o Layout(n, 0, tight) \o <<NewLine>>
OneLine(out) == SelectSeq(out, LAMBDA x : x.piece \notin {"newline", "margin"})
Leaves0(out) == SelectSeq(out, LAMBDA x : x.piece = "value" /\ x.type # "null")

IsOpen(x)  == x \in {Mark("["), Mark("{")}
IsClose(x) == x \in {Mark("]"), Mark("}")}

(* Every margin is as deep as the brackets that are open there. *)
IsAligned(out) ==
  \A i \in DOMAIN out : out[i].piece = "margin" =>
    LET before == SubSeq(out, 1, IF IsClose(out[i + 1]) THEN i + 1 ELSE i)
    IN  out[i].depth = Len(SelectSeq(before, IsOpen)) - Len(SelectSeq(before, IsClose))

(* The tree that a printed text stands for.  A container that is open is   *)
(* the sequence of the trees in it.                                        *)
PairsIn(top) == [ i \in 1..(Len(top) \div 2) |-> Pair(top[2 * i - 1], top[2 * i]) ]

AddTree(open, n) == [open EXCEPT ![Len(open)] = Append(@, n)]

ReadPiece(open, x) ==
  CASE IsOpen(x)         -> Append(open, <<>>)
    [] x = Mark("]")     -> AddTree(S!Front(open), Elements(S!Last(open), NoPos))
    [] x = Mark("}")     -> AddTree(S!Front(open), Pairs(PairsIn(S!Last(open)), NoPos))
    [] x.piece = "value" -> AddTree(open, Leaf(x.type, x.val, NoPos))
    [] OTHER             -> open

RECURSIVE ReadFrom(_, _, _)
ReadFrom(out, i, open) ==
  IF open # <<>> /\ i <= Len(out) THEN ReadFrom(out, i + 1, ReadPiece(open, out[i]))
  ELSE open[1][1]

Read(out) == ReadFrom(out, 1, <<<<>>>>)

(* Printed, whole and indented, on one line or from its tree, a text is    *)
(* what it was, each part at the depth of its containers: the flags of the *)
(* printer, which knows of no container, follow any nesting, and from one  *)
(* value to the next.  The dump of a tree is aligned and has every value.  *)
PrintsTheText ==
  IsPrinted =>
    /\ PrettyTree(Tree).out = FullLines(Tree, TRUE)
    /\ LET dump == AstTree(Tree).out
       IN  IsAligned(dump) /\ Leaves0(dump) = Leaves0(Layout(Tree, 0, TRUE))
    /\ \A n \in Partners :
         LET calls  == CallsOf2(Tree, n)
             line   == OneLine(Layout(Tree, 0, FALSE))
             second == OneLine(Layout(n, 0, FALSE)) \o <<NewLine>>
         IN  /\ PrettyCalls(calls).out = FullLines(Tree, FALSE) \o FullLines(n, FALSE)
             /\ TerseCalls(calls, TRUE).out = line \o <<NewLine>> \o second
             /\ TerseCalls(calls, FALSE).out = line \o second

(* The lines of a value at the end of the path w. *)
RECURSIVE PathsOf(_, _)
PathsOf(n, w) ==
  CASE n.type = "null"   -> <<PathLine(w)>>
    [] n.type = "string" -> LET ls == Lines[n.val]
                                m  == IF S!Last(ls) = "" /\ Len(ls) > 1 THEN Len(ls) - 1 ELSE Len(ls)
                            IN  [ i \in 1..m |-> ValLine(w, "string", ls[i]) ]
    [] n.type = "array"  ->
         S!FlattenSeq([ i \in DOMAIN n.args |->
           (IF i = 1 THEN <<>> ELSE <<PathLine(w)>>) \o PathsOf(n.args[i], w) ])
    [] n.type = "object" ->
         S!FlattenSeq([ i \in DOMAIN n.args |->
           PathsOf(n.args[i].val, Append(w, n.args[i].key.val)) ])
    [] OTHER             -> <<ValLine(w, n.type, n.val)>>

(* Each line of the printer of paths has the names on the way to its value *)
(* and no other, though objects, those in arrays and those without members *)
(* among them, leave one flag to tell whether the top of the stack is      *)
(* still in use; the ASSERT on it never fails.                             *)
PathsNameLeaves ==
  IsPrinted =>
    \A n \in Partners :
      LET j == PathCalls(CallsOf2(Tree, n))
      IN  ~j.failed /\ j.out = PathsOf(Tree, <<>>) \o <<PathLine(<<>>)>> \o PathsOf(n, <<>>)

HasFault(o) == \E i \in DOMAIN o.stack : IsFault(o.stack[i])

IsTypeOf(node, n) ==
  /\ Accepted(node)
  /\ \A m \in {n} \cup SubTrees(n) \cup Wraps(n) \cup Partners :
       V!Matches(ValueOf(m), node) <=> Erase(m) = Erase(n)

(* The type t, printed, and what the ruler makes of it. *)
TypeIs(t, out, type) ==
  /\ out = FullLines(t, TRUE)
  /\ ~IsError(type)
  /\ IF HasFault(type) THEN Len(type.stack) > ObjStackMax
     ELSE IsTypeOf(type.stack[1].node, Tree)

TypePrinted(t, out) == TypeIs(t, out, Eval(t))

(* README:172: the type printed for a value "defines strictly" the value:  *)
(* read back it is a type, the library accepts it, and the value matches   *)
(* it (README:237), and none of those around it does.                      *)
TypeOfValue ==
  IsPrinted => TypePrinted(Read(TypeOfTree(Tree).out), TypeOfTree(Tree).out)

-----------------------------------------------------------------------------
Null0   == Leaf("null", "", NoPos)
MCLeaves == { Null0, Leaf("number", "1", NoPos), Text("number"), Text("w"),
              Elements(<<>>, NoPos), Pairs(<<>>, NoPos),
              Elements(<<Obj2("name", Text("a"), "type", Text("null")),
                         Obj2("name", Text("b"), "type", Text("w"))>>, NoPos),
              Obj2("type", Text("array"), "args", Text("number")) }
MCPartners == { Null0, Text("number"), Obj2("name", Text("a"), "type", Text("null")),
                Obj2("type", Text("array"), "args", Elements(<<Text("number")>>, NoPos)) }
MCNames == {"none", "a", "b"}
MCWords == <<"", "1", "a", "b", "w">>
MCLines == [ s \in BasicType \cup ObjType \cup {"a", "b", "w"} |-> IF s = "w" THEN <<"a", "b", "">> ELSE <<s>> ]
=============================================================================
