---------------------------- MODULE JsonTypeSpec ----------------------------
(***************************************************************************)
(* What a type means: which values match it (points M1 to M3 of            *)
(* doc/type-spec.txt), said of whole values, with no stack and no tries.   *)
(* This is the reference the checker is compared with.                     *)
(***************************************************************************)
EXTENDS JsonTypes

LOCAL Range(s) == { s[i] : i \in DOMAIN s }

(* Values: plain ones are the inputs of the checker. *)
ArrayOf(vs)     == [node |-> "array", elems |-> vs]
ObjectOf(ms)    == [node |-> "members", members |-> ms]
Member(k, v)    == [name |-> k, val |-> v]

Kind(v) == CASE v.node = "plain"   -> v.type
             [] v.node = "array"   -> "array"
             [] v.node = "members" -> "object"

RECURSIVE Matches(_, _)
Matches(v, t) ==
  LET args == t.args
      ms   == v.members
      vs   == v.elems
  IN  CASE t.node = "any"    -> t.type \in {"type", Kind(v)}
        [] t.node = "plain"  -> v = t
        [] t.node = "object" ->
             /\ Kind(v) = "object" /\ Len(ms) = Len(args)
             /\ \A i \in DOMAIN args :
                  ms[i].name = args[i].name /\ Matches(ms[i].val, args[i].type)
        [] t.node = "dict"   ->
             /\ Kind(v) = "object"
             /\ \A i, j \in DOMAIN ms : ms[i].name = ms[j].name => i = j
             /\ \A m \in Range(ms) : \E a \in Range(args) :
                  m.name = a.name /\ Matches(m.val, a.type)
        [] t.node = "open"   ->
             Kind(v) = "array" /\ \A i \in DOMAIN vs : Matches(vs[i], t.arg)
        [] t.node = "closed" ->
             /\ Kind(v) = "array" /\ Len(vs) = Len(args)
             /\ \A i \in DOMAIN args : Matches(vs[i], args[i])
        [] t.node = "list"   -> \E a \in Range(args) : Matches(v, a)

(***************************************************************************)
(* The calls the parser makes for a value: each is the name of a function  *)
(* and its argument.                                                       *)
(***************************************************************************)
Call(f, x) == [func |-> f, arg |-> x]

RECURSIVE Calls(_)
Calls(v) ==
  LET seq(c, n) ==  \* the calls for n parts, separated
        LET RECURSIVE upto(_)
            upto(i) == IF i = 0 THEN <<>>
                       ELSE upto(i - 1) \o
                            (IF i = 1 THEN <<>> ELSE <<Call(c \o "_sep", Null)>>) \o
                            (IF c = "array" THEN Calls(v.elems[i])
                             ELSE <<Call("object_key", v.members[i].name)>> \o
                                  Calls(v.members[i].val))
        IN  <<Call(c \o "_start", Null)>> \o upto(n) \o <<Call(c \o "_end", Null)>>
  IN  CASE v.node = "plain"   -> <<Call(v.type, v)>>
        [] v.node = "array"   -> seq("array", Len(v.elems))
        [] v.node = "members" -> seq("object", Len(v.members))
=============================================================================
