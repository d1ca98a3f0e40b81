-------------------------------- MODULE Trie --------------------------------
(***************************************************************************)
(* The ternary trees of lib/trie-impl.h: every node holds a symbol, the    *)
(* trees lo and hi of its smaller and greater siblings, and the tree eq of *)
(* the symbols that may follow its own.  A key ends in a node of symbol    *)
(* NullSym, whose cell holds a value instead of a tree.                    *)
(*                                                                         *)
(* A key is a sequence of symbols; its end stands for the final NullSym.   *)
(***************************************************************************)
EXTENDS Integers, Sequences

CONSTANTS
  NullSym,   \* TRIE_NULL_SYM
  Cmp(_, _)  \* TRIE_SYM_CMP: negative, zero or positive

Nil == [lo |-> 0]
Node(sym, lo, eq, hi) == [sym |-> sym, lo |-> lo, eq |-> eq, hi |-> hi]

LOCAL Sym(key) == IF key = <<>> THEN NullSym ELSE Head(key)

(* TRIE_NEW_NODE for each symbol left of a key *)
RECURSIVE Chain(_)
Chain(key) ==
  Node(Sym(key), Nil, IF key = <<>> THEN Nil ELSE Chain(Tail(key)), Nil)

(* Deviation: the symbol is kept when the node of its equal is left *)
RECURSIVE InsertKeyStuck(_, _)
InsertKeyStuck(node, key) ==
  IF node = Nil THEN Chain(key)
  ELSE LET c == Cmp(Sym(key), node.sym)
       IN  CASE c < 0 -> [node EXCEPT !.lo = InsertKeyStuck(@, key)]
             [] c > 0 -> [node EXCEPT !.hi = InsertKeyStuck(@, key)]
             [] OTHER -> IF key = <<>> THEN node
                         ELSE [node EXCEPT !.eq = IF @ = Nil THEN @ ELSE InsertKeyStuck(@, key)]

(* TRIE_INSERT_KEY, and TRIE_INSERT_SYM for a key of one symbol: a key     *)
(* already there leaves the tree as it is.                                 *)
RECURSIVE InsertKey(_, _)
InsertKey(node, key) ==
  IF node = Nil THEN Chain(key)
  ELSE LET c == Cmp(Sym(key), node.sym)
       IN  CASE c < 0 -> [node EXCEPT !.lo = InsertKey(@, key)]
             [] c > 0 -> [node EXCEPT !.hi = InsertKey(@, key)]
             [] OTHER -> IF key = <<>> THEN node
                         ELSE [node EXCEPT !.eq = InsertKey(@, Tail(key))]

RECURSIVE InsertAll(_, _)
InsertAll(node, keys) ==
  IF keys = <<>> THEN node
  ELSE InsertAll(InsertKey(node, Head(keys)), Tail(keys))

(* TRIE_LOOKUP_KEY, and TRIE_LOOKUP_SYM for a key of one symbol *)
RECURSIVE LookupKey(_, _)
LookupKey(node, key) ==
  /\ node # Nil
  /\ LET c == Cmp(Sym(key), node.sym)
     IN  CASE c < 0 -> LookupKey(node.lo, key)
           [] c > 0 -> LookupKey(node.hi, key)
           [] OTHER -> key = <<>> \/ LookupKey(node.eq, Tail(key))

(* TRIE_LOOKUP_SYM_NODE: among the siblings only *)
RECURSIVE LookupSymNode(_, _)
LookupSymNode(node, sym) ==
  IF node = Nil THEN Nil
  ELSE LET c == Cmp(sym, node.sym)
       IN  CASE c < 0 -> LookupSymNode(node.lo, sym)
             [] c > 0 -> LookupSymNode(node.hi, sym)
             [] OTHER -> node

(* TRIE_LOOKUP_FIRST_NODE, for the condition that holds of the symbols of  *)
(* sat: the node, then its smaller, then its greater siblings.             *)
RECURSIVE LookupFirstNode(_, _)
LookupFirstNode(node, sat) ==
  IF node = Nil \/ node.sym \in sat THEN node
  ELSE LET lo == LookupFirstNode(node.lo, sat)
       IN  IF lo # Nil THEN lo ELSE LookupFirstNode(node.hi, sat)

(***************************************************************************)
(* TRIE_MATCH_SYM: is there a key whose symbols are all in sat?  A node    *)
(* whose symbol is not ends the search, among its siblings too.            *)
(***************************************************************************)
RECURSIVE MatchSym(_, _)
MatchSym(node, sat) ==
  /\ node # Nil
  /\ \/ node.sym = NullSym
     \/ /\ node.sym \in sat
        /\ \/ MatchSym(node.lo, sat)
           \/ MatchSym(node.eq, sat)
           \/ MatchSym(node.hi, sat)

(* TRIE_NODE_HAS_NULL_SIB, TRIE_NODE_HAS_NON_NULL_SIB *)
HasNullSymNode(node) == LookupSymNode(node, NullSym) # Nil

RECURSIVE HasNonNullSymNode(_)
HasNonNullSymNode(node) ==
  /\ node # Nil
  /\ \/ node.sym # NullSym
     \/ HasNonNullSymNode(node.lo)
     \/ HasNonNullSymNode(node.hi)

(* TRIE_NODE_GET_SIB_COUNT, TRIE_NODE_GET_KEY_COUNT,                       *)
(* TRIE_NODE_GET_SIB_ITER_MAX_DEPTH                                        *)
RECURSIVE SibCount(_)
SibCount(node) ==
  IF node = Nil THEN 0 ELSE 1 + SibCount(node.lo) + SibCount(node.hi)

RECURSIVE KeyCount(_)
KeyCount(node) ==
  IF node = Nil THEN 0
  ELSE KeyCount(node.lo) + KeyCount(node.hi) +
       IF node.sym = NullSym THEN 1 ELSE KeyCount(node.eq)

RECURSIVE SibDepth(_)
SibDepth(node) ==
  IF node = Nil THEN 0
  ELSE LET l == SibDepth(node.lo)
           h == SibDepth(node.hi)
       IN  1 + IF l > h THEN l ELSE h

-----------------------------------------------------------------------------
(* Rebalancing (Stout and Warren): each tree of siblings is turned into a  *)
(* vine of greater and greater siblings, then folded.                      *)

(* Deviation: the greater siblings of the smaller one are dropped *)
RECURSIVE TreeToVineCut(_)
TreeToVineCut(node) ==
  IF node = Nil THEN Nil
  ELSE IF node.lo = Nil THEN [node EXCEPT !.hi = TreeToVineCut(@)]
  ELSE TreeToVineCut([node.lo EXCEPT !.hi = [node EXCEPT !.lo = Nil]])

(* TRIE_REBALANCE_TREE_TO_VINE: a rotation to the right for each node with *)
(* smaller siblings.                                                       *)
RECURSIVE TreeToVine(_)
TreeToVine(node) ==
  IF node = Nil THEN Nil
  ELSE IF node.lo = Nil THEN [node EXCEPT !.hi = TreeToVine(@)]
  ELSE TreeToVine([node.lo EXCEPT !.hi = [node EXCEPT !.lo = node.lo.hi]])

(* TRIE_REBALANCE_COMPRESS: n rotations to the left, down the vine. *)
RECURSIVE Compress(_, _)
Compress(vine, n) ==
  IF n = 0 THEN vine
  ELSE [vine.hi EXCEPT !.lo = [vine EXCEPT !.hi = vine.hi.lo],
                       !.hi = Compress(@, n - 1)]

(* Deviation: the last folding is left out *)
RECURSIVE CompressAllButOne(_, _)
CompressAllButOne(vine, n) ==
  IF n <= 3 THEN vine ELSE CompressAllButOne(Compress(vine, n \div 2), n \div 2)

(* TRIE_REBALANCE_VINE_TO_TREE; SIZE_LOG2 rounds down. *)
RECURSIVE CompressAll(_, _)
CompressAll(vine, n) ==
  IF n <= 1 THEN vine ELSE CompressAll(Compress(vine, n \div 2), n \div 2)

VineToTree(vine, size) ==
  LET log2 == CHOOSE k \in 0..size : 2^k <= size + 1 /\ size + 1 < 2^(k + 1)
      full == 2^log2 - 1
  IN  CompressAll(Compress(vine, size - full), full)

(* TRIE_REBALANCE: the tree of eq of each node, then the siblings. *)
RECURSIVE RebalanceNode(_), Rebalance(_)
RebalanceNode(node) ==
  IF node = Nil THEN Nil
  ELSE Node(node.sym, RebalanceNode(node.lo), Rebalance(node.eq),
            RebalanceNode(node.hi))
Rebalance(node) == VineToTree(TreeToVine(RebalanceNode(node)), SibCount(node))

-----------------------------------------------------------------------------
(* The keys a tree holds. *)
RECURSIVE Keys(_)
Keys(node) ==
  IF node = Nil THEN {}
  ELSE Keys(node.lo) \cup Keys(node.hi) \cup
       IF node.sym = NullSym THEN { <<>> }
       ELSE { <<node.sym>> \o k : k \in Keys(node.eq) }
=============================================================================
