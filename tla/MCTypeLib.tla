----------------------------- MODULE MCTypeLib -----------------------------
(***************************************************************************)
(* The verdicts of JsonTypeLib on lists that grow by one element at a      *)
(* time, and what the checker may rely on in the lists accepted.           *)
(***************************************************************************)
EXTENDS JsonTypeLib

CONSTANT MaxElems  \* a list has at most so many elements

VARIABLE elems

S == INSTANCE JsonTypeSpec

-----------------------------------------------------------------------------
One  == Plain("number", "1")
Word == Plain("string", "w")

(* What the parser may hand to the checker. *)
Inputs == {One, Word, Plain("null", ""), AnyObject, AnyArray}

ObjectA(t) == Object(<<Arg("a", t)>>)

(* The types a list may have as elements. *)
Elements ==
  { Any("type"), Any("object"), One, Word,
    Object(<<>>), ObjectA(Any("number")), ObjectA(Any("string")),
    ObjectA(One), ObjectA(ObjectA(One)), ObjectA(Open(One)), ObjectA(Closed(<<>>)),
    ObjectA(Any("object")),
    Object(<<Arg("a", Any("number")), Arg("b", Any("type"))>>),
    Object(<<Arg("a", Any("number")), Arg("b", Word)>>),
    Open(Any("type")), Open(Any("number")), Open(Word), Open(ObjectA(One)),
    Closed(<<>>), Closed(<<Any("number")>>), Closed(<<Any("string")>>),
    Closed(<<Any("string"), Any("array")>>), Closed(<<Any("string"), Open(One)>>),
    Closed(<<One, Word>>), Closed(<<ObjectA(One), One>>),
    Closed(<<List(<<One, Word>>)>>), Dict(<<Arg("a", One)>>) }

(* Values, to tell types apart. *)
Vals1 == {One, Word, S!ArrayOf(<<>>), S!ObjectOf(<<>>),
          S!ObjectOf(<<S!Member("a", One)>>)}
Values == Vals1 \cup { S!ArrayOf(<<x>>) : x \in Vals1 }
          \cup { S!ObjectOf(<<S!Member("a", x)>>) : x \in Vals1 }

-----------------------------------------------------------------------------
Init == elems = <<>>

Append1(t) == Len(elems) < MaxElems /\ elems' = Append(elems, t)

Next == \E t \in Elements : Append1(t)

-----------------------------------------------------------------------------
list == List(elems)

(* A list without elements has no trees. *)
Good == elems # <<>> /\ Accepted(list)

Tries == { ObjectTrie(list), OpenArrayTrie(list), ClosedArrayTrie(list) }

(* The trees of an accepted list, once balanced, answer every lookup of    *)
(* the checker as the sets of keys do that stand for them in JsonTypes, at *)
(* every level a sequence of lookups can reach.                            *)
RECURSIVE Agrees(_, _)
Agrees(tree, trie) ==
  /\ T!Keys(tree) = trie
  /\ \A input \in (IF NodesIn(trie) = Heads(trie) THEN Inputs ELSE {}) :
       LET n == LookupTreeNode(tree, Heads(trie), input)
           r == LookupTrieNode(trie, input)
       IN  IF n = T!Nil THEN r = {} ELSE n.sym \in r
  /\ \A s \in Heads(trie) : Agrees(T!LookupSymNode(tree, s).eq, Eq(trie, s))

TreesAreSets ==
  Good => /\ Agrees(T!Rebalance(Objects(list)), ObjectTrie(list))
          /\ Agrees(T!Rebalance(OpenArrays(list)), OpenArrayTrie(list))
          /\ Agrees(T!Rebalance(ClosedArrays(list)), ClosedArrayTrie(list))

(* The checker never goes back in a trie.  In an accepted list, what an    *)
(* input leads to does not depend on the order of the elements nor on the  *)
(* shape of the trees, and of the types that may come next, no value       *)
(* matches two.  Dicts are left aside: the checker never matches one that  *)
(* is part of a list.                                                      *)
BranchIsDecided ==
  Good => \A keys \in Tries : \A trie \in Levels(keys) :
            /\ \A input \in Inputs : \A x, y \in LookupTrieNode(trie, input) : x = y
            /\ \A x, y \in { s \in NodesIn(trie) : s.node # "dict" } :
                 x # y => ~ \E v \in Values : S!Matches(v, x) /\ S!Matches(v, y)
=============================================================================
