-------------------------------- MODULE Treap --------------------------------
(***************************************************************************)
(* The treap of lib/treap-impl.h: a binary search tree on the keys which   *)
(* is a heap on the stamps of its nodes.  The library keeps one key per    *)
(* node, so a node is named by its key, and a treap is the record          *)
(*                                                                         *)
(*    root, last   a key, or Nil                                           *)
(*    priority     the stamp of the next node, a size_t                    *)
(*    nodes        key -> [stamp, left, right, val]                        *)
(*                                                                         *)
(* `last' is the node of the latest answer, asked before the tree.         *)
(***************************************************************************)
EXTENDS Integers

CONSTANTS FirstPriority,   \* the priority of an empty treap
          Golden,          \* what the priority grows by, node after node
          WordMod          \* 2^w, w the width of size_t

ASSUME TreapAssumption == /\ WordMod \in Nat \ {0}
                          /\ FirstPriority \in 0 .. WordMod - 1
                          /\ Golden \in 1 .. WordMod - 1

Nil == -1

\* TREAP_INIT
EmptyTreap == [root |-> Nil, last |-> Nil, priority |-> FirstPriority,
               nodes |-> <<>>]

\* The walk of TREAP_LOOKUP_KEY and of TREAP_INSERT_KEY from the root.
Search(t, key) ==
  LET Find[n \in DOMAIN t.nodes \cup {Nil}] ==
        IF n \in {Nil, key} THEN n
        ELSE Find[IF key < n THEN t.nodes[n].left ELSE t.nodes[n].right]
  IN  Find[t.root]

\* The last answer, or else the walk.
Find(t, key) == IF t.last # Nil /\ t.last = key THEN t.last ELSE Search(t, key)

\* TREAP_LOOKUP_KEY: the treap after it, and the node or Nil.
LookupKey(t, key) ==
  LET n == Find(t, key)
  IN  [treap |-> IF n = Nil THEN t ELSE [t EXCEPT !.last = n], node |-> n]

\* Deviation: the tree at `node' is hung whole on the side its root is of.
DivideOnce(nodes, node, key) ==
  IF node = Nil THEN [below |-> Nil, above |-> Nil, nodes |-> nodes]
  ELSE IF key < node THEN [below |-> Nil, above |-> node, nodes |-> nodes]
  ELSE [below |-> node, above |-> Nil, nodes |-> nodes]

\* The last loop of TREAP_INSERT_KEY: the tree at `node' comes apart into the
\* keys before `key' and those after it.
Divide(nodes, node, key) ==
  LET Part[n \in DOMAIN nodes \cup {Nil}] ==
        IF n = Nil
          THEN [below |-> Nil, above |-> Nil, nodes |-> nodes]
        ELSE IF key < n
          THEN LET p == Part[nodes[n].left]
               IN  [p EXCEPT !.above = n, !.nodes[n].left = p.above]
        ELSE LET p == Part[nodes[n].right]
             IN  [p EXCEPT !.below = n, !.nodes[n].right = p.below]
  IN  Part[node]

\* The loop that stops at the first node whose stamp is not below the
\* priority, and the new node in its place.
Graft(t, key) ==
  LET Put[n \in DOMAIN t.nodes \cup {Nil}] ==
        IF n = Nil \/ t.nodes[n].stamp >= t.priority
          THEN LET p == Divide(t.nodes, n, key)
               IN  [root  |-> key,
                    nodes |-> [m \in DOMAIN p.nodes \cup {key} |->
                                IF m # key THEN p.nodes[m]
                                ELSE [stamp |-> t.priority, val   |-> 0,
                                      left  |-> p.below,    right |-> p.above]]]
        ELSE LET side == IF key < n THEN "left" ELSE "right"
                 p    == Put[t.nodes[n][side]]
             IN  [root |-> n, nodes |-> [p.nodes EXCEPT ![n][side] = p.root]]
  IN  Put[t.root]

\* TREAP_INSERT_KEY: the treap after it, and whether the key is a new one.
InsertKey(t, key) ==
  IF Find(t, key) # Nil
    THEN [treap |-> [t EXCEPT !.last = key], isNew |-> FALSE]
  ELSE LET g == Graft(t, key)
       IN  [treap |-> [t EXCEPT !.root = g.root, !.nodes = g.nodes, !.last = key,
                                !.priority = (@ + Golden) % WordMod],
            isNew |-> TRUE]

SetVal(t, key, val) == [t EXCEPT !.nodes[key].val = val]

-----------------------------------------------------------------------------
\* What a treap is: every key is found from the root, `last' is a node of it,
\* and no node is above one with a smaller stamp.
IsTreap(t) ==
  /\ t.last \in DOMAIN t.nodes \cup {Nil}
  /\ \A n \in DOMAIN t.nodes :
       /\ Search(t, n) = n
       /\ \A c \in {t.nodes[n].left, t.nodes[n].right} \ {Nil} :
            t.nodes[n].stamp <= t.nodes[c].stamp
=============================================================================
