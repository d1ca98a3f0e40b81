------------------------------ MODULE TrieIter ------------------------------
(***************************************************************************)
(* The iterators of lib/trie-impl.h, which the type library walks the      *)
(* tries of a list with: over the siblings of a node, and over the levels  *)
(* of a trie (the trees of siblings in it).  Both keep a stack of nodes    *)
(* under way, whose size is fixed when the iterator is made.               *)
(***************************************************************************)
EXTENDS Trie

VARIABLES
  tree,    \* the tree to walk
  kind,    \* the iterator, "sib" or "lvl", "none" before it is made
  nodes,   \* the stack of nodes under way, its top last
  equals,  \* the levels met, to be visited when the stack is empty
  pc,      \* where in .._ITERATOR_INC, "idle" when it has returned
  seen     \* what the caller has dereferenced so far

vars == <<tree, kind, nodes, equals, pc, seen>>

Elem(s, n) == [state |-> s, node |-> n]
Top        == nodes[Len(nodes)]
Below      == SubSeq(nodes, 1, Len(nodes) - 1)
TopIn(s)   == Below \o <<[Top EXCEPT !.state = s]>>
Push(s, n) == Append(s, Elem("lo", n))

(* .._ITER_MAX_DEPTH *)
Depth == IF kind = "sib" THEN SibDepth(tree) ELSE KeyCount(tree)

(* No iterator yet. *)
Init ==
  /\ tree = Nil
  /\ kind = "none"
  /\ nodes = <<>>
  /\ equals = <<>>
  /\ pc = "idle"
  /\ seen = <<>>

(* TRIE_SIB_ITERATOR_INIT, TRIE_LVL_ITERATOR_INIT; both go on to INC. *)
Make(k) ==
  /\ kind = "none" /\ tree # Nil
  /\ kind' = k
  /\ nodes' = <<Elem(IF k = "sib" THEN "lo" ELSE "lvl", tree)>>
  /\ pc' = "test_done"
  /\ UNCHANGED <<tree, equals, seen>>

(* The caller takes the current node and asks for the next. *)
Deref ==
  /\ pc = "idle" /\ nodes # <<>>
  /\ seen' = Append(seen, Top.node)
  /\ pc' = "test_done"
  /\ UNCHANGED <<tree, kind, nodes, equals>>

(* Deviation: the levels met are put on the stack the last on top *)
TestDoneReversed ==
  /\ pc = "test_done"
  /\ IF nodes = <<>>
     THEN /\ pc' = IF equals = <<>> THEN "idle" ELSE "next_node"
          /\ nodes' = [ i \in DOMAIN equals |->
                          Elem("lvl", equals[i]) ]
          /\ equals' = <<>>
     ELSE pc' = "next_node" /\ UNCHANGED <<nodes, equals>>
  /\ UNCHANGED <<tree, kind, seen>>

(* test_done: the levels met are put on the empty stack, the first on top. *)
TestDone ==
  /\ pc = "test_done"
  /\ IF nodes = <<>>
     THEN /\ pc' = IF equals = <<>> THEN "idle" ELSE "next_node"
          /\ nodes' = [ i \in DOMAIN equals |->
                          Elem("lvl", equals[Len(equals) + 1 - i]) ]
          /\ equals' = <<>>
     ELSE pc' = "next_node" /\ UNCHANGED <<nodes, equals>>
  /\ UNCHANGED <<tree, kind, seen>>

At(s) == pc = "next_node" /\ Top.state \in s /\ UNCHANGED <<tree, kind, seen>>

(* A level is the next to be taken. *)
Level ==
  /\ At({"lvl"})
  /\ nodes' = TopIn("lo") /\ pc' = "idle"
  /\ UNCHANGED equals

Smaller ==
  /\ At({"lo"}) /\ Top.node.lo # Nil
  /\ nodes' = Push(TopIn(IF kind = "sib" THEN "sym" ELSE "eq"), Top.node.lo)
  /\ UNCHANGED <<pc, equals>>

SmallerDone == At({"sym", "eq"}) \/ (At({"lo"}) /\ Top.node.lo = Nil)

(* A sibling is the next to be taken. *)
Sibling ==
  /\ kind = "sib" /\ SmallerDone
  /\ nodes' = TopIn("hi") /\ pc' = "idle"
  /\ UNCHANGED equals

(* hi and pop, the way up: test_done follows. *)
Greater ==
  IF Top.node.hi # Nil
  THEN nodes' = Push(TopIn("pop"), Top.node.hi) /\ UNCHANGED pc
  ELSE nodes' = Below /\ pc' = "test_done"

SiblingGreater == At({"hi"}) /\ Greater /\ UNCHANGED equals

LevelGreater ==
  /\ kind = "lvl" /\ SmallerDone
  /\ equals' = IF Top.node.sym # NullSym /\ Top.node.eq # Nil
               THEN Append(equals, Top.node.eq) ELSE equals
  /\ Greater

(* Deviation: the node done with is left on the stack *)
PopNothing ==
  /\ At({"pop"})
  /\ UNCHANGED nodes /\ pc' = "test_done"
  /\ UNCHANGED equals

Pop ==
  /\ At({"pop"})
  /\ nodes' = Below /\ pc' = "test_done"
  /\ UNCHANGED equals

Inc ==
  \/ TestDone
  \/ Level
  \/ Smaller
  \/ Sibling
  \/ SiblingGreater
  \/ LevelGreater
  \/ Pop

Walk == Deref \/ Inc

Next == (\E k \in {"sib", "lvl"} : Make(k)) \/ Walk

AtEnd == kind # "none" /\ pc = "idle" /\ nodes = <<>>
=============================================================================
