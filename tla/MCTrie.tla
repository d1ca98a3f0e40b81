------------------------------- MODULE MCTrie -------------------------------
(***************************************************************************)
(* A tree of lib/trie-impl.h grown by insertions in every order, and       *)
(* rebalanced at every moment, against the set of the keys inserted; then  *)
(* the walks of the iterators over it.  Beside it, the trees that the type *)
(* library makes of a list, as in MCTypeLib.                               *)
(***************************************************************************)
EXTENDS TrieIter, SequencesExt

CONSTANTS
  Syms,       \* the symbols of keys
  MaxKeyLen,  \* keys have at most so many symbols
  MaxKeys,    \* and a tree holds at most so many keys
  Words,      \* the words of types
  MaxElems    \* and a list has at most so many elements

VARIABLES
  held,    \* the keys inserted
  folded,  \* the tree has been rebalanced since
  elems    \* the elements of a list, as in MCTypeLib

Lists == INSTANCE MCTypeLib

mcVars == <<vars, held, folded, elems>>

AllKeys == UNION { [1..n -> Syms] : n \in 0..MaxKeyLen }

MCInit == Init /\ held = {} /\ folded = FALSE /\ Lists!Init

(* A walk leaves the tree as it is: the tree is examined before it. *)
Grown == kind = "none"
Grows == Grown /\ UNCHANGED <<kind, nodes, equals, pc, seen>>

Insert(key) ==
  /\ Grows
  /\ Cardinality(held \cup {key}) <= MaxKeys
  /\ tree' = InsertKey(tree, key)
  /\ held' = held \cup {key}
  /\ folded' = FALSE

RebalanceTree ==
  /\ Grows
  /\ tree # Nil
  /\ tree' = Rebalance(tree)
  /\ folded' = TRUE
  /\ UNCHANGED held

(* The client has grown the tree and walks over it. *)
Iterate == Next /\ UNCHANGED <<held, folded>>

MCTree == (\E key \in AllKeys : Insert(key)) \/ RebalanceTree \/ Iterate

(* A tree grows, or a list. *)
MCNext ==
  \/ MCTree /\ elems = <<>> /\ UNCHANGED elems
  \/ Lists!Next /\ tree = Nil /\ UNCHANGED <<vars, held, folded>>

(* A walk is a loop of one caller; nothing obliges the client to begin it. *)
MCSpec == MCInit /\ [][MCNext]_mcVars /\ WF_vars(Walk)

-----------------------------------------------------------------------------
Symbols == Syms \cup {NullSym}

Within(key, sat) == \A i \in DOMAIN key : key[i] \in sat

(* A lookup succeeds for the keys inserted and for no other, in whatever   *)
(* order they came and however often the tree was rebalanced in between:   *)
(* no key is lost under another, or is made up of parts of two.  What the  *)
(* checker and the library ask of the siblings of the root agrees with the *)
(* set of keys, as their abstraction of tries assumes; and a match found   *)
(* is the match of a key.                                                  *)
LookupExact ==
  Grown =>
    /\ \A key \in AllKeys : LookupKey(tree, key) <=> key \in held
    /\ HasNullSymNode(tree) <=> <<>> \in held
    /\ HasNonNullSymNode(tree) <=> held \ {<<>>} # {}
    /\ \A s \in Syms : Keys(LookupSymNode(tree, s)) # {} <=>
                       \E k \in held \ {<<>>} : Head(k) = s
    /\ \A sat \in SUBSET Symbols :
         LookupFirstNode(tree, sat) = Nil <=>
         \A k \in held : (IF k = <<>> THEN NullSym ELSE Head(k)) \notin sat
    /\ \A sat \in SUBSET Syms :
         MatchSym(tree, sat) => \E key \in held : Within(key, sat)

(* Rebalancing leaves every tree of siblings with the least depth trees of *)
(* its size can have.                                                      *)
RECURSIVE LeastDepth(_)
LeastDepth(node) ==
  node # Nil =>
    /\ 2^(SibDepth(node) - 1) <= SibCount(node)
    /\ LET RECURSIVE Beneath(_)
           Beneath(n) == n # Nil =>
             LeastDepth(n.eq) /\ Beneath(n.lo) /\ Beneath(n.hi)
       IN  Beneath(node)

RebalancedIsFlat == Grown /\ folded => LeastDepth(tree)

(* The nodes the iterators should give: all siblings, by increasing        *)
(* symbols; all levels, breadth first.                                     *)
RECURSIVE Siblings(_), Levels(_)
Siblings(node) ==
  IF node = Nil THEN <<>>
  ELSE Siblings(node.lo) \o <<node>> \o Siblings(node.hi)

Levels(roots) ==
  IF roots = <<>> THEN <<>>
  ELSE LET below(root) ==
             LET inner == SelectSeq(Siblings(root), LAMBDA n : n.eq # Nil)
             IN  [ i \in DOMAIN inner |-> inner[i].eq ]
       IN  roots \o Levels(FlattenSeq([ i \in DOMAIN roots |-> below(roots[i]) ]))

Order == IF kind = "sib" THEN Siblings(tree) ELSE Levels(<<tree>>)

(* Every sibling, or every level, is given once and in order, though the   *)
(* iterator only keeps the way back to the root and the levels met, on a   *)
(* stack that never outgrows the size it was given from the shape of the   *)
(* tree (a push on the full stack would end the process).                  *)
VisitsInOrder ==
  /\ pc = "idle" => IsPrefix(seen, Order)
  /\ AtEnd => seen = Order
  /\ Len(nodes) <= Depth

(* A walk ends. *)
WalkEnds == kind # "none" ~> AtEnd

-----------------------------------------------------------------------------
(* The trees of an accepted list, once balanced, answer every lookup of    *)
(* the checker as the sets of keys that stand for them in JsonTypes (see   *)
(* MCTypeLib).                                                             *)
TreesAreSets == Lists!TreesAreSets

(* What json_type_lib_check_list_attrs lets the checker rely on: no value  *)
(* suits two branches of an accepted list (see MCTypeLib).                 *)
BranchIsDecided == Lists!BranchIsDecided

-----------------------------------------------------------------------------
IntCmp(x, y) == x - y

MCWords == <<"", "1", "a", "b", "w">>
=============================================================================
