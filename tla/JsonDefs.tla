------------------------------- MODULE JsonDefs -------------------------------
(***************************************************************************)
(* The definitions of a type library as the objects they are in memory:    *)
(* json_type_lib_gen_def writes them as C text that a compiler makes a     *)
(* shared object of, and json_type_lib_validate checks the objects of a    *)
(* shared object before they are used (lib/json-type.c, lib/trie-impl.h).  *)
(*                                                                         *)
(* An object of `heap' is [kind, ptr, data]; a pointer is an index of      *)
(* `heap', NULL is 0, and `at' is where an object lies.  The kinds, with   *)
(* their pointers and what else they hold:                                 *)
(*                                                                         *)
(*   any, plain            <<>>                       the type             *)
(*   object, open, closed  <<args>> or the one <<arg>>                     *)
(*   list, dict            <<args, attr>>                                  *)
(*   defs                  <<args>>                                        *)
(*   args                  the types                  their names          *)
(*   array                 the types, and NULL                             *)
(*   attrs                 the five tries of a list                        *)
(*   trie                  <<root>>                                        *)
(*   cell, of types        <<sym, lo, eq or val, hi>>                      *)
(*   objcell, of objects   the same                   null | name | node   *)
(*   dictcell, of chars    the same, sym and val not pointers              *)
(*                                                                         *)
(* A recursive function of the code is a stack of tasks here: what the     *)
(* call at the top does, and what its callers have left to do.  A task is  *)
(* about a pointer, a field of an object; the root is a field of NULL.     *)
(***************************************************************************)
EXTENDS Treap, Sequences, FiniteSets
LOCAL INSTANCE SequencesExt

CONSTANTS Libraries,       \* the libraries loaded: [heap, at, root, origin]
          MaxReloads       \* bound on the shared objects made

VARIABLES heap, at, root,  \* the definitions
          origin,          \* "text" | "sobj": what they were loaded from
          phase,           \* what the library is doing, or has answered
          tasks,           \* the calls under way, the innermost first
          space,           \* json_type_ptr_space_t: [map, index]
          result,          \* *result of the validation: [obj, field]
          attrs,           \* json_type_attrs_t: [ptr_count, has_cells]
          out,             \* the definitions written: [ptr, obj]
          reloads          \* how many shared objects have been made

defVars == <<heap, at, root, origin, phase, tasks, space, result, attrs, out,
             reloads>>
library == <<heap, at, root, origin, reloads>>

Null == 0
NoPlace == [obj |-> Null, field |-> "none"]
NewSpace == [map |-> EmptyTreap, index |-> 0]
NoAttrs == [ptr_count |-> 0, has_cells |-> FALSE]

NodeKinds == {"any", "plain", "object", "open", "closed", "list", "dict"}
Cells == {"cell", "objcell", "dictcell"}
Kinds == NodeKinds \cup Cells \cup {"defs", "args", "array", "attrs", "trie"}

Sym(o) == o.ptr[1]
Lo(o) == o.ptr[2]
EqOrVal(o) == o.ptr[3]
Hi(o) == o.ptr[4]

\* TRIE_SYM_IS_NULL of the three kinds of trie
NullSym(o) == IF o.kind = "cell" THEN Sym(o) = Null ELSE o.data[1] = "null"

\* The fields of a node of a trie that point to a type of the list around it:
\* a symbol, NULL being one only for json_type_object_sym_validate, or a value.
Refers(o, k) ==
  \/ k = 1 /\ o.kind = "cell" /\ ~ NullSym(o)
  \/ k = 1 /\ o.kind = "objcell" /\ o.data[1] = "node"
  \/ k = 3 /\ o.kind \in {"cell", "objcell"} /\ NullSym(o)

\* The fields that validation asks for NULL before it follows them: all of
\* these, the last of an array being its end.
Required(o, k) ==
  \/ o.kind \in NodeKinds \cup {"defs"} /\ k = 1
  \/ o.kind = "args"
  \/ o.kind = "array" /\ k < Len(o.ptr)

\* Where an object lies; NULL is an address too.
Address(id) == IF id = Null THEN 0 ELSE at[id]

-----------------------------------------------------------------------------
\* What libraries may be loaded.  The types of C tell which kinds of objects a
\* field points to, and how many fields there are.
Pointees(o, k) ==
  CASE o.kind \in {"object", "dict", "defs"} /\ k = 1 -> {"args"}
    [] o.kind \in {"list", "closed"} /\ k = 1 -> {"array"}
    [] o.kind = "list" /\ k = 2 -> {"attrs"}
    [] (o.kind = "dict" /\ k = 2) \/ o.kind = "attrs" -> {"trie"}
    [] o.kind = "trie" -> Cells
    [] \/ o.kind \in {"open", "args"} \/ Refers(o, k)
       \/ o.kind = "array" /\ k < Len(o.ptr) -> NodeKinds
    [] o.kind \in Cells /\ k # 1 /\ ~ (k = 3 /\ NullSym(o)) -> {o.kind}
    [] OTHER -> {}

Arity(o) ==
  CASE o.kind \in {"any", "plain"} -> {0}
    [] o.kind \in {"object", "open", "closed", "defs", "trie"} -> {1}
    [] o.kind \in {"list", "dict"} -> {2}
    [] o.kind \in Cells -> {4}
    [] o.kind = "attrs" -> {5}
    [] o.kind = "array" -> Nat \ {0}
    [] OTHER -> Nat

Objects(n) == [kind : Kinds, ptr : Seq(0 .. n), data : Seq(STRING)]

\* The trie of a dict is one of chars, and no other is.
OfChars(h, p) == h[p].kind = "trie" /\ h[p].ptr[1] # Null
                   => h[h[p].ptr[1]].kind = "dictcell"
OfTypes(h, p) == h[p].kind = "trie" /\ h[p].ptr[1] # Null
                   => h[h[p].ptr[1]].kind # "dictcell"

IsTyped(h, r) ==
  /\ h \in Seq(Objects(Len(h))) /\ r \in 0 .. Len(h)
  /\ r # Null => h[r].kind \in NodeKinds \cup {"defs"}
  /\ \A id \in 1 .. Len(h) :
       /\ Len(h[id].ptr) \in Arity(h[id])
       /\ \A k \in 1 .. Len(h[id].ptr) :
            LET p == h[id].ptr[k]
            IN  p # Null => /\ h[p].kind \in Pointees(h[id], k)
                            /\ IF h[id].kind = "dict" THEN OfChars(h, p)
                                                      ELSE OfTypes(h, p)

\* What is reached from an object by the pointers that objects own, in as many
\* steps as it takes.
Owned(h, id) ==
  {h[id].ptr[k] : k \in {f \in 1 .. Len(h[id].ptr) : ~ Refers(h[id], f)}} \ {Null}

From(h, id) ==
  LET Reach[n \in 0 .. Len(h)] ==
        IF n = 0 THEN {id} \ {Null}
        ELSE LET near == Reach[n - 1]
             IN  near \cup UNION {Owned(h, q) : q \in near}
  IN  Reach[Len(h)]

\* The fields that own, the root among them, and what they point to.
Fields(h, r) ==
  {<<Null, 1>>}
  \cup UNION {{<<id, k>> : k \in {f \in 1 .. Len(h[id].ptr) : ~ Refers(h[id], f)}} :
                id \in From(h, r)}
PointedTo(h, r, f) == IF f[1] = Null THEN r ELSE h[f[1]].ptr[f[2]]

\* No two fields point to one object, and no two objects lie at one place.
IsTree(h, r, a) ==
  /\ \A f, g \in Fields(h, r) :
       PointedTo(h, r, f) = PointedTo(h, r, g) /\ PointedTo(h, r, f) # Null => f = g
  /\ \A p, q \in From(h, r) : a[p] = a[q] => p = q

\* Some object has NULL where validation asks.
Lacks(h, id) == \E k \in 1 .. Len(h[id].ptr) : Required(h[id], k) /\ h[id].ptr[k] = Null
LacksNothing(h, r) == r # Null /\ \A id \in From(h, r) : ~ Lacks(h, id)

LacksAttr(h, r) ==
  \E id \in From(h, r) : h[id].kind \in {"list", "dict"} /\ h[id].ptr[2] = Null

\* The names of the types of a library
Names(h, r) == IF h[r].kind = "defs" /\ h[r].ptr[1] # Null THEN h[h[r].ptr[1]].data ELSE <<>>
NamesDiffer(h, r) ==
  r # Null => \A i, j \in DOMAIN Names(h, r) : Names(h, r)[i] = Names(h, r)[j] => i = j

\* A library of types with names that has none.
DefinesNothing(h, r) == r # Null /\ h[r].kind = "defs" /\ Names(h, r) = <<>>

Refs(h, id) == {h[id].ptr[k] : k \in {f \in 1 .. Len(h[id].ptr) : Refers(h[id], f)}}
RefsKnown(h, r) == \A id \in From(h, r) : Refs(h, id) \subseteq From(h, r)

\* The types that the tries of a list are about are among those of the list.
RefsAtHome(h, r) ==
  \A l \in From(h, r) : h[l].kind = "list" =>
    \A id \in From(h, h[l].ptr[2]) : Refs(h, id) \subseteq From(h, h[l].ptr[1])

IsValid(h, r, a) ==
  /\ IsTree(h, r, a) /\ LacksNothing(h, r) /\ ~ LacksAttr(h, r)
  /\ RefsKnown(h, r) /\ NamesDiffer(h, r)

\* A library made of a text is what the rules build; a shared object may hold
\* anything that compiles, its objects lying apart.
IsLibrary(l) ==
  /\ IsTyped(l.heap, l.root)
  /\ l.at \in [1 .. Len(l.heap) -> Nat \ {0}]
  /\ \A p, q \in 1 .. Len(l.heap) : l.at[p] = l.at[q] => p = q
  /\ l.origin \in {"text", "sobj"}
  /\ l.origin = "text" => IsValid(l.heap, l.root, l.at)

ASSUME DefsAssumption == \A l \in Libraries : IsLibrary(l)

-----------------------------------------------------------------------------
\* Validation.

Task(op, obj, field) == [op |-> op, obj |-> obj, field |-> field]
Target(t) == IF t.obj = Null THEN root ELSE heap[t.obj].ptr[t.field]

\* Deviation: a pointer is followed and not asked.
WhatTrusted(o, k) == IF Refers(o, k) THEN "known" ELSE "trusted"

\* How a pointer is validated: a type that a trie is about is known already,
\* the attr of a list or of a dict is not asked for NULL, and what is in a trie
\* is there or not.
What(o, k) ==
  IF Refers(o, k) THEN "known"
  ELSE IF Required(o, k) THEN "asked"
  ELSE IF o.kind \in {"list", "dict"} THEN "trusted"
  ELSE "optional"

\* Deviation: the attributes are validated before the types they are about.
AttrBeforeArgs(id) ==
  LET n == Len(heap[id].ptr)
  IN  [k \in 1 .. n |->
         LET f == IF heap[id].kind = "list" THEN n + 1 - k ELSE k
         IN  Task(What(heap[id], f), id, f)]
      \o (IF heap[id].kind = "defs" THEN <<Task("dups", id, 1)>> ELSE <<>>)

\* What validates after an object, in the order of its fields, and the check for
\* names met already after the types that have them.
Parts(id) ==
  [k \in 1 .. Len(heap[id].ptr) |-> Task(What(heap[id], k), id, k)]
  \o (IF heap[id].kind = "defs" THEN <<Task("dups", id, 1)>> ELSE <<>>)

StartValidate ==
  /\ origin = "sobj" /\ phase = "loaded"
  /\ phase' = "validating"
  /\ tasks' = <<Task("asked", Null, 1)>>
  /\ space' = NewSpace
  /\ UNCHANGED <<library, result, attrs, out>>

\* Deviation: the call that refuses does not say what it refused.
RefuseSilently(place) ==
  /\ phase' = "refused" /\ tasks' = <<>> /\ UNCHANGED result

Refuse(place) ==
  /\ phase' = "refused" /\ result' = place /\ tasks' = <<>>

RefuseItself(id) == Refuse([obj |-> id, field |-> "itself"])

\* The process ends: an assertion fails, or NULL is read through.
Crash == phase' = "crashed" /\ tasks' = <<>> /\ UNCHANGED result

GoOn(more) ==
  /\ tasks' = more \o Tail(tasks)
  /\ UNCHANGED <<phase, result>>

\* A pointer asked, and NULL; the place is given in the object that has it.
AskNull(t) ==
  /\ t.op = "asked" /\ Target(t) = Null
  /\ Refuse([obj   |-> t.obj,
             field |-> IF t.obj = Null THEN "def"
                       ELSE IF heap[t.obj].kind \in {"args", "array"} THEN "type"
                       ELSE "args"])
  /\ UNCHANGED space

\* A pointer that may be NULL, and is.
PassOver(t) ==
  /\ t.op = "optional" /\ Target(t) = Null
  /\ GoOn(<<>>) /\ UNCHANGED space

\* JSON_TYPE_PTR_SPACE_VALIDATE_INSERT_ of the object pointed to, and what it
\* has to do next.  An attr that is NULL is inserted and then read through.
Enter(t) ==
  LET id == Target(t)
      i  == InsertKey(space.map, Address(id))
  IN  /\ \/ t.op = "trusted"
         \/ t.op \in {"asked", "optional"} /\ id # Null
      /\ IF ~ i.isNew
           THEN /\ RefuseItself(id)
                /\ space' = [space EXCEPT !.map = i.treap]
         ELSE /\ space' = [map   |-> SetVal(i.treap, Address(id), space.index),
                           index |-> space.index + 1]
              /\ IF id = Null
                   THEN Crash
                   ELSE GoOn(Parts(id))

\* JSON_TYPE_PTR_SPACE_VALIDATE
CheckKnown(t) ==
  LET l == LookupKey(space.map, Address(Target(t)))
  IN  /\ t.op = "known"
      /\ space' = [space EXCEPT !.map = l.treap]
      /\ IF l.node = Nil THEN RefuseItself(Target(t)) ELSE GoOn(<<>>)

\* json_type_defs_check_dup_keys: the first name met already, in a trie of them.
\* That the trie has room for some node is asserted, in builds with assertions.
CheckDups(t) ==
  LET data == heap[Target(t)].data
  IN  /\ t.op = "dups" /\ UNCHANGED space
      /\ \/ data = <<>> /\ Crash
         \/ IF \E i, j \in DOMAIN data : i # j /\ data[i] = data[j]
              THEN Refuse([obj |-> Target(t), field |-> "name"])
              ELSE GoOn(<<>>)

ValidateStep ==
  /\ phase = "validating" /\ tasks # <<>>
  /\ LET t == Head(tasks)
     IN  AskNull(t) \/ PassOver(t) \/ Enter(t) \/ CheckKnown(t) \/ CheckDups(t)
  /\ UNCHANGED <<library, attrs, out>>

\* *result is set to NULL by the call that returns last.
Validated ==
  /\ phase = "validating" /\ tasks = <<>>
  /\ phase' = "accepted"
  /\ result' = NoPlace
  /\ UNCHANGED <<library, tasks, space, attrs, out>>

-----------------------------------------------------------------------------
\* Writing the definitions.

\* The calls for what an object owns, in the order of its fields; what a trie
\* refers to is passed over.
Calls(op, id) ==
  [k \in 1 .. Len(heap[id].ptr) |->
     Task(IF Refers(heap[id], k) THEN "pass" ELSE op, id, k)]

HasArgs(o) == o.kind \in {"object", "closed", "list", "dict", "defs"}

\* json_type_node_get_attrs and the functions it calls: what is left to count of
\* an object counted with its arguments.
Counts(id) ==
  LET o == heap[id]
  IN  IF ~ HasArgs(o) THEN Calls("count", id)
      ELSE Calls("count", o.ptr[1])
           \o (IF o.kind \in {"list", "dict"} THEN <<Task("attr", id, 2)>> ELSE <<>>)

StartGenDef ==
  /\ \/ origin = "text" /\ phase = "loaded"
     \/ phase = "accepted"
  /\ phase' = "counting"
  /\ attrs' = NoAttrs
  /\ tasks' = <<Task("count", Null, 1)>>
  /\ space' = NewSpace
  /\ out' = <<>>
  /\ UNCHANGED <<library, result>>

CountObject(t) ==
  /\ t.op = "count" /\ Target(t) # Null
  /\ attrs' = [attrs EXCEPT !.ptr_count = @ + (IF HasArgs(heap[Target(t)]) THEN 2 ELSE 1)]
  /\ tasks' = Counts(Target(t)) \o Tail(tasks)

CountNothing(t) ==
  /\ \/ t.op = "pass"
     \/ t.op = "count" /\ Target(t) = Null
  /\ tasks' = Tail(tasks)
  /\ UNCHANGED attrs

\* The attr of a list or of a dict; when it is counted, the count there was
\* before it is asked for, in place of a field.
CountAttr(t) ==
  /\ t.op = "attr"
  /\ attrs' = [attrs EXCEPT !.ptr_count = @ + 1]
  /\ tasks' = Calls("count", Target(t))
                \o <<Task("cells", t.obj, attrs.ptr_count)>> \o Tail(tasks)

\* An attr of more objects than one has nodes of a trie.
AskCells(t) ==
  /\ t.op = "cells"
  /\ attrs' = [attrs EXCEPT !.has_cells = @ \/ attrs.ptr_count - t.field > 1]
  /\ tasks' = Tail(tasks)

CountStep ==
  /\ phase = "counting" /\ tasks # <<>>
  /\ LET t == Head(tasks)
     IN  CountObject(t) \/ CountNothing(t) \/ CountAttr(t) \/ AskCells(t)
  /\ UNCHANGED <<library, phase, space, result, out>>

Counted ==
  /\ phase = "counting" /\ tasks = <<>>
  /\ phase' = "writing"
  /\ tasks' = <<Task("gen", Null, 1)>>
  /\ UNCHANGED <<library, space, result, attrs, out>>

\* Deviation: the array of types is written before the types it names.
BeforeArgsFirst(id) ==
  LET o == heap[id]
  IN  IF ~ HasArgs(o) THEN Calls("gen", id)
      ELSE <<Task("write", id, 1)>> \o Calls("gen", o.ptr[1])
           \o (IF o.kind \in {"list", "dict"} THEN <<Task("gen", id, 2)>> ELSE <<>>)

\* What the *_gen_def functions write before the object itself: what it points
\* to, so that a name is defined before it is used.
Before(id) ==
  LET o == heap[id]
  IN  IF ~ HasArgs(o) THEN Calls("gen", id)
      ELSE Calls("gen", o.ptr[1])
           \o (IF o.kind \in {"list", "dict"} THEN <<Task("gen", id, 2)>> ELSE <<>>)
           \o <<Task("write", id, 1)>>

GenStep ==
  /\ phase = "writing" /\ tasks # <<>> /\ Head(tasks).op # "write"
  /\ LET t == Head(tasks)
     IN  tasks' = (IF t.op = "pass" \/ Target(t) = Null THEN <<>>
                   ELSE Before(Target(t)) \o <<Task("write", t.obj, t.field)>>)
                  \o Tail(tasks)
  /\ UNCHANGED <<library, phase, space, result, attrs, out>>

\* Deviation: names are numbered from 0, as NULL is.
NameFromZero(map, id) == IF id = Null THEN Null ELSE map.nodes[Address(id)].val

\* The name a pointer is written as: the serial number of what it points to.
Name(map, id) == IF id = Null THEN Null ELSE map.nodes[Address(id)].val + 1

\* JSON_TYPE_PTR_SPACE_GEN_DEF_INSERT_ gives an object the next number, and the
\* numbers of what it points to are looked up: both are asserted to succeed.
\* Of the lookups only the latest leaves a trace, the node asked first by the next
\* one; the code holds on to some numbers and may leave another node there, which
\* answers the same.
WriteStep ==
  /\ phase = "writing" /\ tasks # <<>> /\ Head(tasks).op = "write"
  /\ LET id   == Target(Head(tasks))
         ptr  == heap[id].ptr
         i    == InsertKey(space.map, Address(id))
         map  == SetVal(i.treap, Address(id), space.index)
         used == {k \in DOMAIN ptr : ptr[k] # Null}
         last == CHOOSE k \in used : \A j \in used : j <= k
         ok   == /\ i.isNew
                 /\ \A k \in used : LookupKey(map, Address(ptr[k])).node # Nil
     IN  IF ok
           THEN /\ space' = [map   |-> IF used = {} THEN map
                                       ELSE LookupKey(map, Address(ptr[last])).treap,
                             index |-> space.index + 1]
                /\ out' = Append(out, [ptr |-> id,
                                       obj |-> [heap[id] EXCEPT !.ptr =
                                         [k \in DOMAIN ptr |-> Name(map, ptr[k])]]])
                /\ tasks' = Tail(tasks)
                /\ UNCHANGED phase
           ELSE /\ phase' = "aborted"
                /\ tasks' = <<>>
                /\ UNCHANGED <<space, out>>
  /\ UNCHANGED <<library, result, attrs>>

\* The end of json_type_def_gen_def, with its assertion.
GenDone ==
  /\ phase = "writing" /\ tasks = <<>>
  /\ phase' = IF attrs.ptr_count = space.index THEN "written" ELSE "aborted"
  /\ UNCHANGED <<library, tasks, space, result, attrs, out>>

-----------------------------------------------------------------------------
\* The text compiled and loaded.  An object lies where the build puts it: in
\* the order written or the other way round, no two at one place, but for the
\* arrays of no elements, which take no room and lie where any other does.
Empties(objs) == {i \in DOMAIN objs : objs[i].kind = "args" /\ objs[i].ptr = <<>>}

Compiled(objs) ==
  LET n == Len(objs)
      orders == {[i \in 1 .. n |-> i], [i \in 1 .. n |-> n + 1 - i]}
  IN  {[i \in 1 .. n |-> order[IF i \in Empties(objs) THEN share[i] ELSE i]] :
         order \in orders, share \in [Empties(objs) -> 1 .. n]}

Reload ==
  /\ phase = "written" /\ reloads < MaxReloads
  /\ heap' = [i \in DOMAIN out |-> out[i].obj]
  /\ at' \in Compiled(heap')
  /\ root' = Len(out)
  /\ origin' = "sobj" /\ phase' = "loaded"
  /\ reloads' = reloads + 1
  /\ space' = NewSpace /\ out' = <<>> /\ attrs' = NoAttrs
  /\ UNCHANGED <<tasks, result>>

-----------------------------------------------------------------------------
Aligned(p) == p + (p % 2)
\* The array of an object, of a dict or of the types of a library has no NULL
\* at its end, and no bytes when there is nothing in it.
Bytes(o) == IF o.kind \in {"args", "array"} THEN 2 * Len(o.ptr) ELSE 4
\* The objects a library makes of its text lie in a pool, one after the other:
\* pool_alloc_allocate gives a place even to an object of no bytes.
PoolAllocate(pool, o) ==
  LET r == Aligned(pool.ptr)
      n == IF Bytes(o) = 0 THEN 1 ELSE Bytes(o)
  IN  [ptr |-> r + n, at |-> Append(pool.at, r)]

Allocated(objs) == FoldLeft(PoolAllocate, [ptr |-> 2, at |-> <<>>], objs).at

Init ==
  \E l \in Libraries :
    /\ heap = l.heap /\ at = l.at /\ root = l.root /\ origin = l.origin
    /\ phase = "loaded" /\ tasks = <<>> /\ space = NewSpace
    /\ result = NoPlace /\ attrs = NoAttrs /\ out = <<>> /\ reloads = 0

Next == \/ StartValidate \/ ValidateStep \/ Validated
        \/ StartGenDef \/ CountStep \/ Counted \/ GenStep \/ WriteStep \/ GenDone
        \/ Reload

Spec == Init /\ [][Next]_defVars

-----------------------------------------------------------------------------
\* Validation (json_type_def_validate) decides whether the objects are the tree
\* a library of types is.  It never follows a pointer round a circle, and it
\* stops without an answer only for a list or a dict that has no attributes, or
\* when there is no definition at all.
ValidIsTree ==
  /\ phase = "accepted" => IsValid(heap, root, at)
  /\ phase = "refused" => ~ (/\ IsTree(heap, root, at) /\ LacksNothing(heap, root)
                             /\ RefsAtHome(heap, root) /\ NamesDiffer(heap, root))
  /\ phase = "crashed" => LacksAttr(heap, root) \/ DefinesNothing(heap, root)

\* An object of the library that two fields point to, or that lies where another
\* of its objects does.
IsMetTwice(id) ==
  \/ \E f, g \in Fields(heap, root) :
       f # g /\ PointedTo(heap, root, f) = id /\ PointedTo(heap, root, g) = id
  \/ \E q \in From(heap, root) \ {id} : at[q] = at[id]

\* The pointer a refusal gives is one that is wrong: NULL where none may be, an
\* object met twice, a type that no type of the list is, or a name met twice.
RefusalNamesTheFault ==
  phase = "refused" =>
    LET id == result.obj
    IN  CASE result.field = "def"  -> root = Null
          [] result.field \in {"args", "type"} ->
               id \in From(heap, root) /\ Lacks(heap, id)
          [] result.field = "name" -> ~ NamesDiffer(heap, root)
          [] result.field = "itself" ->
               \/ id \in From(heap, root) /\ IsMetTwice(id)
               \/ /\ ~ RefsAtHome(heap, root)
                  /\ \E q \in From(heap, root) : id \in Refs(heap, q)
          [] OTHER -> FALSE

\* The pointers met are found again, whatever the order they came in and
\* whatever their stamps have wrapped to, each with a number of its own.
SpaceIsMap ==
  LET nodes == space.map.nodes
  IN  /\ IsTreap(space.map)
      /\ {nodes[k].val : k \in DOMAIN nodes} = 0 .. space.index - 1
      /\ Cardinality(DOMAIN nodes) = space.index

\* The assertions of json_type_def_gen_def hold: nothing is written twice, a
\* name that is used has been defined, and as many objects are written as were
\* counted -- unless a trie of a shared object is about types not of its list,
\* which validation lets pass.
GenDefNeverAborts == phase = "aborted" => ~ RefsAtHome(heap, root)

\* The text written defines the objects there are: each once, as it is, the
\* root last, its pointers being the names of what it points to, all of them
\* defined before.
WritesWhatItHolds ==
  phase = "written" =>
    /\ {out[i].ptr : i \in DOMAIN out} = From(heap, root)
    /\ Len(out) = Cardinality(From(heap, root))
    /\ out[Len(out)].ptr = root
    /\ \A i \in DOMAIN out :
         LET is == heap[out[i].ptr]
         IN  /\ out[i].obj.kind = is.kind /\ out[i].obj.data = is.data
             /\ DOMAIN out[i].obj.ptr = DOMAIN is.ptr
             /\ \A k \in DOMAIN is.ptr :
                  LET name == out[i].obj.ptr[k]
                  IN  IF is.ptr[k] = Null THEN name = Null
                      ELSE name \in 1 .. i - 1 /\ out[name].ptr = is.ptr[k]

\* The macros EQ and VAL are defined when a node of a trie needs them.
MacrosAreDefined ==
  phase = "written" =>
    ((\E i \in DOMAIN out : out[i].obj.kind \in Cells) => attrs.has_cells)

\* What was written of a library compiles, is valid when it is loaded, and is
\* written again, unless it has an array of no elements.
ReloadIsAccepted ==
  /\ MacrosAreDefined
  /\ reloads > 0 /\ Empties(heap) = {} => phase \notin {"refused", "crashed", "aborted"}

\* README, 4.d: a library written by gen-def, compiled, is a compiled version of
\* the library of its text.  A build may give an array of no elements the place
\* of another object.
EveryReloadIsAccepted ==
  reloads > 0 => phase \notin {"refused", "crashed"}
=============================================================================
