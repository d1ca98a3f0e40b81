----------------------------- MODULE TreapProofs -----------------------------
(***************************************************************************)
(* The treap (Treap) is a map: whatever the keys, the order they come in   *)
(* and the stamps their nodes are given, a walk from the root finds every  *)
(* key that was inserted and no other.                                     *)
(*                                                                         *)
(* The walks are recursive functions.  Each satisfies its equation because *)
(* some function does (ByChild), and what it answers is proved of a node   *)
(* with the fewest keys under it, among those it would not hold of.        *)
(***************************************************************************)
EXTENDS Treap, FiniteSets, WellFoundedInduction, FiniteSetTheorems, TLAPS

-----------------------------------------------------------------------------
(* Of the sets that a finite set has, under `rank', one has none within it. *)
LEMMA Deepest ==
  ASSUME NEW K, IsFiniteSet(K), NEW S, NEW rank \in [S -> SUBSET K],
         NEW T, T \subseteq S, T # {}
  PROVE  \E n \in T : \A m \in T : rank[m] \subseteq rank[n] => rank[m] = rank[n]
<1> DEFINE All == { rank[n] : n \in T }
<1>1. All \subseteq FiniteSubsetsOf(K) /\ All # {}
  <2>1. ASSUME NEW n \in T PROVE rank[n] \in FiniteSubsetsOf(K)
    <3>1. rank[n] \subseteq K
      OBVIOUS
    <3> QED BY <3>1, FS_Subset DEF FiniteSubsetsOf
  <2> QED BY <2>1
<1>2. PICK A \in All : \A B \in All : ~(<<B, A>> \in StrictSubsetOrdering(K))
  <2>1. IsWellFoundedOn(StrictSubsetOrdering(K), FiniteSubsetsOf(K))
    BY FS_StrictSubsetOrderingWellFounded
  <2> QED BY <1>1, <2>1, WFMin
<1>3. PICK n \in T : A = rank[n]
  OBVIOUS
<1>4. ASSUME NEW m \in T, rank[m] \subseteq rank[n] PROVE rank[m] = rank[n]
  <2>1. ~(<<rank[m], rank[n]>> \in StrictSubsetOrdering(K))
    BY <1>2, <1>3
  <2>2. rank[m] \subseteq K /\ rank[n] \subseteq K
    OBVIOUS
  <2> QED BY <2>1, <2>2, <1>4 DEF StrictSubsetOrdering
<1> QED BY <1>4

(***************************************************************************)
(* A recursive function whose calls go down a finite tree is a function:   *)
(* `step' makes its value at a node of its value at one child.  It is      *)
(* defined on more and more nodes, each after its child.                   *)
(***************************************************************************)
Solves(f, S, Stops, child, base, step, T) ==
  \A n \in T : f[n] = IF n \in Stops THEN base[n] ELSE step[<<n, f[child[n]]>>]

Descends(K, S, rank, Stops, child) ==
  /\ IsFiniteSet(K) /\ IsFiniteSet(S)
  /\ rank \in [S -> SUBSET K] /\ child \in [S -> S]
  /\ \A n \in S \ Stops : rank[child[n]] \subseteq rank[n] /\ rank[child[n]] # rank[n]

Makes(S, V, base, step) == base \in [S -> V] /\ step \in [S \X V -> V]

(* Such a function there is.                                               *)
LEMMA ByChild ==
  ASSUME NEW K, NEW S, NEW rank, NEW Stops, NEW child, NEW V, NEW base, NEW step,
         Descends(K, S, rank, Stops, child), Makes(S, V, base, step)
  PROVE  \E f \in [S -> V] : Solves(f, S, Stops, child, base, step, S)
<1>0. /\ IsFiniteSet(K) /\ IsFiniteSet(S)
      /\ rank \in [S -> SUBSET K] /\ child \in [S -> S]
      /\ \A n \in S \ Stops : rank[child[n]] \subseteq rank[n] /\ rank[child[n]] # rank[n]
      /\ base \in [S -> V] /\ step \in [S \X V -> V]
  BY DEF Descends, Makes
<1> USE <1>0
<1> DEFINE Can(T) == /\ \A n \in T \ Stops : child[n] \in T
                     /\ \E f \in [S -> V] : Solves(f, S, Stops, child, base, step, T)
           Left == { S \ T : T \in { U \in SUBSET S : Can(U) } }
<1>1. PICK T \in SUBSET S : Can(T) /\ \A U \in SUBSET S : Can(U) /\ T \subseteq U => U = T
  <2>1. Left # {}
    <3>1. Can({})
      <4>1. base \in [S -> V]
        OBVIOUS
      <4> QED BY <4>1 DEF Solves
    <3>2. {} \in { U \in SUBSET S : Can(U) }
      <4> HIDE DEF Can
      <4> QED BY <3>1
    <3>3. S \ {} \in Left
      <4> HIDE DEF Can
      <4> QED BY <3>2
    <3> HIDE DEF Left
    <3> QED BY <3>3
  <2>2. Left \subseteq FiniteSubsetsOf(S)
    <3>1. \A X \in Left : X \subseteq S
      OBVIOUS
    <3> HIDE DEF Left
    <3> QED BY <3>1, FS_Subset DEF FiniteSubsetsOf
  <2>3. IsWellFoundedOn(StrictSubsetOrdering(S), FiniteSubsetsOf(S))
    BY FS_StrictSubsetOrderingWellFounded
  <2>4. PICK X \in Left : \A Y \in Left : ~(<<Y, X>> \in StrictSubsetOrdering(S))
    <3> HIDE DEF Left
    <3> QED BY <2>1, <2>2, <2>3, WFMin
  <2>5. PICK T \in SUBSET S : Can(T) /\ X = S \ T
    <3> HIDE DEF Can
    <3> QED OBVIOUS
  <2>6. ASSUME NEW U \in SUBSET S, Can(U), T \subseteq U PROVE U = T
    <3> HIDE DEF Can
    <3>1. S \ U \in Left
      BY <2>6
    <3>2. ~(<<S \ U, S \ T>> \in StrictSubsetOrdering(S))
      BY <3>1, <2>4, <2>5
    <3>3. S \ U = S \ T
      BY <3>2, <2>6 DEF StrictSubsetOrdering
    <3> QED BY <3>3, <2>6
  <2> HIDE DEF Can
  <2> QED BY <2>5, <2>6
<1>2. PICK f \in [S -> V] : Solves(f, S, Stops, child, base, step, T)
  BY <1>1
<1>3. T = S
  <2>1. SUFFICES ASSUME T # S PROVE FALSE
    OBVIOUS
  <2>2. PICK n \in S \ T : \A m \in S \ T : rank[m] \subseteq rank[n] => rank[m] = rank[n]
    <3> DEFINE R == S \ T
    <3>1. R \subseteq S /\ R # {}
      BY <2>1
    <3> HIDE DEF R
    <3>2. IsFiniteSet(K) /\ rank \in [S -> SUBSET K]
      OBVIOUS
    <3>3. \E n \in R : \A m \in R : rank[m] \subseteq rank[n] => rank[m] = rank[n]
      BY ONLY <3>1, <3>2, Deepest
    <3> QED BY <3>3 DEF R
  <2>3. n \in Stops \/ child[n] \in T
    BY <2>2
  <2> DEFINE v == IF n \in Stops THEN base[n] ELSE step[<<n, f[child[n]]>>]
             g == [f EXCEPT ![n] = v]
  <2>4. v \in V
    OBVIOUS
  <2>5. g \in [S -> V] /\ g[n] = v /\ \A m \in T : g[m] = f[m]
    <3> HIDE DEF v
    <3> QED BY <2>4
  <2>6. Solves(g, S, Stops, child, base, step, T \cup {n})
    <3>1. ASSUME NEW m \in T
          PROVE  g[m] = IF m \in Stops THEN base[m] ELSE step[<<m, g[child[m]]>>]
      <4> HIDE DEF g, v
      <4> QED BY <3>1, <2>5, <1>1, <1>2 DEF Solves
    <3>2. g[n] = IF n \in Stops THEN base[n] ELSE step[<<n, g[child[n]]>>]
      <4> HIDE DEF g
      <4> QED BY <2>3, <2>5
    <3> HIDE DEF g, v
    <3> QED BY <3>1, <3>2 DEF Solves
  <2>7. Can(T \cup {n})
    <3> HIDE DEF g, v
    <3> QED BY <1>1, <2>3, <2>5, <2>6
  <2>8. T \cup {n} = T
    <3> HIDE DEF Can
    <3> QED BY <1>1, <2>2, <2>7
  <2> QED BY <2>2, <2>8
<1> QED BY <1>2, <1>3

-----------------------------------------------------------------------------
(* A tree on the keys K: `sub' has the keys at and under each node.        *)

At(sub, n) == IF n = Nil THEN {} ELSE sub[n]

NodeOver(K) ==
  [stamp : Nat, left : K \cup {Nil}, right : K \cup {Nil}, val : Nat]

Ordered(nodes, sub, n) ==
  /\ nodes[n].left \in sub[n] \cup {Nil} /\ nodes[n].right \in sub[n] \cup {Nil}
  /\ sub[n] = {n} \cup At(sub, nodes[n].left) \cup At(sub, nodes[n].right)
  /\ \A m \in At(sub, nodes[n].left) : m < n /\ sub[m] \subseteq At(sub, nodes[n].left)
  /\ \A m \in At(sub, nodes[n].right) : n < m /\ sub[m] \subseteq At(sub, nodes[n].right)
  /\ \A m \in sub[n] : nodes[n].stamp <= nodes[m].stamp

TreeOn(nodes, sub, R) == \A n \in R : Ordered(nodes, sub, n) /\ sub[n] \subseteq R

\* All of K hangs together, and the tree at each of its nodes is one.
Forest(nodes, sub, K) ==
  /\ K \subseteq Nat /\ IsFiniteSet(K)
  /\ nodes \in [K -> NodeOver(K)]
  /\ TreeOn(nodes, sub, K)

(* What is known of one node of it.                                        *)
LEMMA ForestNode ==
  ASSUME NEW nodes, NEW sub, NEW K, Forest(nodes, sub, K), NEW n \in K
  PROVE  /\ n \in Nat /\ n # Nil
         /\ nodes[n] \in NodeOver(K)
         /\ Ordered(nodes, sub, n) /\ sub[n] \subseteq K /\ n \in sub[n]
         /\ nodes[n].left \in K \cup {Nil} /\ nodes[n].right \in K \cup {Nil}
         /\ At(sub, n) = sub[n]
         /\ At(sub, nodes[n].left) \subseteq sub[n] /\ ~(n \in At(sub, nodes[n].left))
         /\ At(sub, nodes[n].right) \subseteq sub[n] /\ ~(n \in At(sub, nodes[n].right))
<1>1. n \in Nat /\ nodes[n] \in NodeOver(K)
  BY DEF Forest
<1>2. n # Nil
  BY <1>1 DEF Nil
<1>3. Ordered(nodes, sub, n) /\ sub[n] \subseteq K
  BY DEF Forest, TreeOn
<1>4. n \in sub[n] /\ At(sub, nodes[n].left) \subseteq sub[n]
      /\ At(sub, nodes[n].right) \subseteq sub[n]
  BY <1>3 DEF Ordered
<1>5. ~(n < n)
  BY <1>1
<1>6. ~(n \in At(sub, nodes[n].left)) /\ ~(n \in At(sub, nodes[n].right))
  BY <1>3, <1>5 DEF Ordered
<1>7. nodes[n].left \in K \cup {Nil} /\ nodes[n].right \in K \cup {Nil}
  BY <1>1 DEF NodeOver
<1> QED BY <1>1, <1>2, <1>3, <1>4, <1>6, <1>7 DEF At

(* What ByChild asks of the walks: each goes on to a child of the node.    *)
Ranks(nodes, sub, K) == [n \in K \cup {Nil} |-> At(sub, n)]

(* The keys under the nodes are a measure of them: there are finitely      *)
(* many.                                                                   *)
LEMMA RanksFall ==
  ASSUME NEW nodes, NEW sub, NEW K, Forest(nodes, sub, K)
  PROVE  /\ IsFiniteSet(K) /\ IsFiniteSet(K \cup {Nil})
         /\ Ranks(nodes, sub, K) \in [K \cup {Nil} -> SUBSET K]
<1>1. IsFiniteSet(K)
  BY DEF Forest
<1>2. IsFiniteSet(K \cup {Nil})
  BY <1>1, FS_AddElement
<1>3. \A n \in K \cup {Nil} : At(sub, n) \subseteq K
  <2>1. \A n \in K : At(sub, n) \subseteq K
    BY ForestNode
  <2> QED BY <2>1 DEF At
<1>4. Ranks(nodes, sub, K) \in [K \cup {Nil} -> SUBSET K]
  BY <1>3 DEF Ranks
<1> QED BY <1>1, <1>2, <1>4

(* Under a child there are fewer.                                          *)
LEMMA ChildRank ==
  ASSUME NEW nodes, NEW sub, NEW K, Forest(nodes, sub, K),
         NEW n \in K, NEW c, c \in {nodes[n].left, nodes[n].right}
  PROVE  /\ c \in K \cup {Nil}
         /\ Ranks(nodes, sub, K)[c] \subseteq Ranks(nodes, sub, K)[n]
         /\ Ranks(nodes, sub, K)[c] # Ranks(nodes, sub, K)[n]
<1>1. c \in K \cup {Nil} /\ At(sub, c) \subseteq At(sub, n)
      /\ n \in At(sub, n) /\ ~(n \in At(sub, c))
  BY ForestNode
<1> QED BY <1>1 DEF Ranks

(* A property of every node that has one when its children do.             *)
LEMMA AmongDeepest ==
  ASSUME NEW nodes, NEW sub, NEW K, Forest(nodes, sub, K),
         NEW Bad, Bad \subseteq K \cup {Nil}, ~(Nil \in Bad), Bad # {}
  PROVE  \E n \in Bad : /\ n \in K
                        /\ ~(nodes[n].left \in Bad) /\ ~(nodes[n].right \in Bad)
<1> DEFINE S == K \cup {Nil}
           rank == Ranks(nodes, sub, K)
<1>1. IsFiniteSet(K) /\ rank \in [S -> SUBSET K]
  BY RanksFall
<1>2. \E n \in Bad : \A m \in Bad : rank[m] \subseteq rank[n] => rank[m] = rank[n]
  <2> HIDE DEF rank
  <2> QED BY <1>1, Deepest
<1>3. PICK n \in Bad : \A m \in Bad : rank[m] \subseteq rank[n] => rank[m] = rank[n]
  BY <1>2
<1>4. n \in K
  OBVIOUS
<1>5. \A c \in {nodes[n].left, nodes[n].right} :
        rank[c] \subseteq rank[n] /\ rank[c] # rank[n]
  BY <1>4, ChildRank
<1> HIDE DEF rank
<1> QED BY <1>3, <1>4, <1>5

(* ByChild for a walk that stops at Nil, if not before.                    *)
LEMMA WalkIs ==
  ASSUME NEW nodes, NEW sub, NEW K, Forest(nodes, sub, K),
         NEW S, S = K \cup {Nil}, NEW Stops, Nil \in Stops, NEW child \in [S -> S],
         \A n \in K \ Stops : child[n] \in {nodes[n].left, nodes[n].right},
         NEW V, NEW base \in [S -> V], NEW step \in [S \X V -> V]
  PROVE  \E f \in [S -> V] : Solves(f, S, Stops, child, base, step, S)
<1> DEFINE rank == Ranks(nodes, sub, K)
<1>1. IsFiniteSet(K) /\ IsFiniteSet(S) /\ rank \in [S -> SUBSET K]
  BY RanksFall
<1>2. ASSUME NEW n \in S \ Stops
      PROVE  rank[child[n]] \subseteq rank[n] /\ rank[child[n]] # rank[n]
  <2>1. n \in K /\ child[n] \in {nodes[n].left, nodes[n].right}
    OBVIOUS
  <2> QED BY <2>1, ChildRank
<1>3. Descends(K, S, rank, Stops, child) /\ Makes(S, V, base, step)
  <2> HIDE DEF rank
  <2> QED BY <1>1, <1>2 DEF Descends, Makes
<1> HIDE DEF rank
<1> QED BY ONLY <1>3, ByChild

-----------------------------------------------------------------------------
(* The walk finds the key when it is there, and else nothing.              *)
LEMMA SearchIs ==
  ASSUME NEW t, NEW K, NEW sub, Forest(t.nodes, sub, K),
         t.root \in K \cup {Nil}, At(sub, t.root) = K, NEW key \in Nat
  PROVE  Search(t, key) = IF key \in K THEN key ELSE Nil
<1> DEFINE nodes == t.nodes
           S == K \cup {Nil}
           F(g) == [n \in DOMAIN t.nodes \cup {Nil} |->
                      IF n \in {Nil, key} THEN n
                      ELSE g[IF key < n THEN t.nodes[n].left ELSE t.nodes[n].right]]
           h == CHOOSE g : g = F(g)
           child == [n \in S |-> IF n = Nil THEN Nil
                                 ELSE IF key < n THEN nodes[n].left ELSE nodes[n].right]
           base == [n \in S |-> n]
           step == [x \in S \X S |-> x[2]]
           Stops == {Nil, key}
<1>1. DOMAIN t.nodes = K /\ \A n \in K : nodes[n].left \in S /\ nodes[n].right \in S
  <2>1. DOMAIN t.nodes = K
    BY DEF Forest
  <2> HIDE DEF F, h, child, base, step, Stops
  <2>2. \A n \in K : t.nodes[n].left \in K \cup {Nil} /\ t.nodes[n].right \in K \cup {Nil}
    BY ForestNode
  <2> QED BY ONLY <2>1, <2>2 DEF nodes, S
<1>2. \E f \in [S -> S] : Solves(f, S, Stops, child, base, step, S)
  <2>1. child \in [S -> S] /\ base \in [S -> S] /\ step \in [S \X S -> S]
    BY <1>1
  <2>2. \A n \in K \ Stops : child[n] \in {nodes[n].left, nodes[n].right}
    OBVIOUS
  <2>3. S = K \cup {Nil} /\ Nil \in Stops /\ Forest(nodes, sub, K)
    OBVIOUS
  <2> HIDE DEF S, Stops, child, base, step, nodes
  <2> QED BY ONLY <2>1, <2>2, <2>3, WalkIs
<1>3. PICK f \in [S -> S] : Solves(f, S, Stops, child, base, step, S)
  BY <1>2
<1>4. f = F(f)
  <2>1. ASSUME NEW n \in S
        PROVE  f[n] = IF n \in {Nil, key} THEN n
                      ELSE f[IF key < n THEN t.nodes[n].left ELSE t.nodes[n].right]
    <3>1. child[n] \in S /\ f[child[n]] \in S
      BY <1>1
    <3>2. f[n] = IF n \in {Nil, key} THEN n ELSE f[child[n]]
      <4>1. f[n] = IF n \in {Nil, key} THEN base[n] ELSE step[<<n, f[child[n]]>>]
        BY <1>3 DEF Solves
      <4>2. base[n] = n /\ step[<<n, f[child[n]]>>] = f[child[n]]
        <5> HIDE DEF child
        <5> QED BY <3>1
      <4> QED BY <4>1, <4>2
    <3> QED BY <3>2
  <2> QED BY <1>1, <2>1
<1>5. Search(t, key) = h[t.root]
  BY DEF Search
<1>6. h = F(h)
  <2> HIDE DEF F
  <2> QED BY <1>4
<1> HIDE DEF h
<1>7. \A n \in S : h[n] = IF n \in {Nil, key} THEN n
                          ELSE h[IF key < n THEN nodes[n].left ELSE nodes[n].right]
  BY <1>1, <1>6
<1> DEFINE Bad == { n \in S : h[n] # IF key \in At(sub, n) THEN key ELSE Nil }
<1>8. Bad = {}
  <2>1. ~(Nil \in Bad)
    BY <1>7 DEF At
  <2>2. SUFFICES ASSUME Bad # {} PROVE FALSE
    OBVIOUS
  <2>3. PICK n \in Bad : n \in K /\ ~(nodes[n].left \in Bad) /\ ~(nodes[n].right \in Bad)
    BY <2>1, <2>2, AmongDeepest
  <2>4. /\ n \in Nat /\ n # Nil /\ n \in sub[n] /\ At(sub, n) = sub[n]
        /\ nodes[n].left \in S /\ nodes[n].right \in S /\ Ordered(nodes, sub, n)
    BY <2>3, ForestNode
  <2>5. CASE n = key
    BY <2>3, <2>4, <2>5, <1>7
  <2>6. CASE key < n
    <3>1. h[n] = h[nodes[n].left]
      BY <2>4, <2>6, <1>7
    <3>2. key \in sub[n] <=> key \in At(sub, nodes[n].left)
      BY <2>4, <2>6 DEF Ordered
    <3> QED BY <2>3, <2>4, <3>1, <3>2
  <2>7. CASE n < key
    <3>1. h[n] = h[nodes[n].right]
      BY <2>4, <2>7, <1>7
    <3>2. key \in sub[n] <=> key \in At(sub, nodes[n].right)
      BY <2>4, <2>7 DEF Ordered
    <3> QED BY <2>3, <2>4, <3>1, <3>2
  <2> QED BY <2>4, <2>5, <2>6, <2>7
<1> QED BY <1>5, <1>8

-----------------------------------------------------------------------------
(* A tree comes apart: what was at and under a node is then what of it is  *)
(* on the node's own side of the key.                                      *)

Lower(A, key) == { m \in A : m < key }
Upper(A, key) == { m \in A : key < m }

Cut(sub, K, key) ==
  [n \in K |-> IF n < key THEN Lower(sub[n], key) ELSE Upper(sub[n], key)]

\* The node n is the same, and whatever is under it.
LEMMA OrderedFrame ==
  ASSUME NEW nodes1, NEW sub1, NEW n, Ordered(nodes1, sub1, n), NEW nodes2, NEW sub2,
         nodes2[n].left = nodes1[n].left, nodes2[n].right = nodes1[n].right,
         \A m \in sub1[n] : sub2[m] = sub1[m] /\ nodes2[m].stamp = nodes1[m].stamp
  PROVE  Ordered(nodes2, sub2, n)
<1>1. n \in sub1[n]
  BY DEF Ordered
<1>2. sub2[n] = sub1[n] /\ nodes2[n].stamp = nodes1[n].stamp
  BY <1>1
<1>3. At(sub2, nodes1[n].left) = At(sub1, nodes1[n].left)
  BY DEF Ordered, At
<1>4. At(sub2, nodes1[n].right) = At(sub1, nodes1[n].right)
  BY DEF Ordered, At
<1>5. At(sub1, nodes1[n].left) \subseteq sub1[n] /\ At(sub1, nodes1[n].right) \subseteq sub1[n]
  BY DEF Ordered
<1> QED BY <1>2, <1>3, <1>4, <1>5 DEF Ordered

Dividable(nodes, sub, K, key) == Forest(nodes, sub, K) /\ key \in Nat \ K

Halves(K) == [below : K \cup {Nil}, above : K \cup {Nil}, nodes : [K -> NodeOver(K)]]

KeepsStamps(nodes, other, K) ==
  \A m \in K : other[m].stamp = nodes[m].stamp /\ other[m].val = nodes[m].val

\* What has become of the tree at n.
Divided(nodes, sub, K, key, n, p) ==
  /\ p \in Halves(K)
  /\ \A m \in K \ At(sub, n) : p.nodes[m] = nodes[m]
  /\ KeepsStamps(nodes, p.nodes, K)
  /\ At(Cut(sub, K, key), p.below) = Lower(At(sub, n), key)
  /\ TreeOn(p.nodes, Cut(sub, K, key), Lower(At(sub, n), key))
  /\ At(Cut(sub, K, key), p.above) = Upper(At(sub, n), key)
  /\ TreeOn(p.nodes, Cut(sub, K, key), Upper(At(sub, n), key))

(* The key goes under n, on its left: n and all on its right are above it. *)
LEMMA DividedLeft ==
  ASSUME NEW nodes, NEW sub, NEW K, NEW key, Dividable(nodes, sub, K, key),
         NEW n \in K, key < n, NEW p, Divided(nodes, sub, K, key, nodes[n].left, p)
  PROVE  Divided(nodes, sub, K, key, n,
           [below |-> p.below, above |-> n,
            nodes |-> [p.nodes EXCEPT ![n] = [@ EXCEPT !.left = p.above]]])
<1> DEFINE L == nodes[n].left
           R == nodes[n].right
           cut == Cut(sub, K, key)
           new == [p.nodes EXCEPT ![n] = [@ EXCEPT !.left = p.above]]
           q == [below |-> p.below, above |-> n, nodes |-> new]
<1>1. /\ n \in Nat /\ n # Nil /\ Ordered(nodes, sub, n) /\ sub[n] \subseteq K
      /\ At(sub, n) = sub[n] /\ n \in sub[n] /\ ~(n \in At(sub, L))
      /\ nodes[n] \in NodeOver(K)
  BY ForestNode DEF Dividable
<1>2. key \in Nat /\ K \subseteq Nat /\ ~(key \in K)
  BY DEF Dividable, Forest
<1>3. /\ \A m \in At(sub, L) : m \in Nat /\ m < n /\ m \in K
      /\ \A m \in At(sub, R) : m \in Nat /\ n < m /\ key < m /\ m \in K /\ ~(m \in At(sub, L))
      /\ sub[n] = {n} \cup At(sub, L) \cup At(sub, R)
  <2>1. sub[n] = {n} \cup At(sub, L) \cup At(sub, R)
    BY <1>1 DEF Ordered
  <2>2. \A m \in At(sub, L) : m \in Nat /\ m < n /\ m \in K
    BY <1>1, <1>2, <2>1 DEF Ordered
  <2>3. \A m \in At(sub, R) : m \in Nat /\ n < m /\ m \in K
    BY <1>1, <1>2, <2>1 DEF Ordered
  <2> QED BY <1>1, <1>2, <2>1, <2>2, <2>3
<1>4. /\ p.below \in K \cup {Nil} /\ p.above \in K \cup {Nil}
      /\ p.nodes \in [K -> NodeOver(K)]
  BY DEF Divided, Halves
<1>5. p.nodes[n] = nodes[n]
  BY <1>1 DEF Divided
<1>6. /\ new \in [K -> NodeOver(K)]
      /\ new[n].left = p.above /\ new[n].right = R
      /\ new[n].stamp = nodes[n].stamp /\ new[n].val = nodes[n].val
      /\ \A m \in K \ {n} : new[m] = p.nodes[m]
  <2>1. [nodes[n] EXCEPT !.left = p.above] \in NodeOver(K)
    BY <1>1, <1>4 DEF NodeOver
  <2>2. nodes[n] \in [stamp : Nat, left : K \cup {Nil}, right : K \cup {Nil}, val : Nat]
    BY <1>1 DEF NodeOver
  <2> QED BY <2>1, <2>2, <1>4, <1>5
<1>7. KeepsStamps(nodes, new, K)
  <2>1. KeepsStamps(nodes, p.nodes, K)
    BY DEF Divided
  <2> HIDE DEF new
  <2> QED BY <2>1, <1>6 DEF KeepsStamps
<1>8. /\ Lower(sub[n], key) = Lower(At(sub, L), key)
      /\ Upper(sub[n], key) = {n} \cup Upper(At(sub, L), key) \cup At(sub, R)
  <2>1. ~(n < key)
    BY <1>1, <1>2
  <2>2. \A m \in At(sub, R) : ~(m < key)
    BY <1>2, <1>3
  <2> QED BY <1>3, <2>1, <2>2 DEF Lower, Upper
<1> HIDE DEF new, L, R
<1>9. /\ TreeOn(p.nodes, cut, Lower(At(sub, L), key))
      /\ TreeOn(p.nodes, cut, Upper(At(sub, L), key))
      /\ At(cut, p.below) = Lower(At(sub, L), key)
      /\ At(cut, p.above) = Upper(At(sub, L), key)
      /\ KeepsStamps(nodes, p.nodes, K)
      /\ \A m \in K \ At(sub, L) : p.nodes[m] = nodes[m]
  BY DEF Divided, L
<1>10. ASSUME NEW A, A \subseteq At(sub, L), TreeOn(p.nodes, cut, A)
       PROVE  TreeOn(new, cut, A)
  <2>1. ASSUME NEW m \in A PROVE Ordered(new, cut, m) /\ cut[m] \subseteq A
    <3>1. Ordered(p.nodes, cut, m) /\ cut[m] \subseteq A
      BY <1>10, <2>1 DEF TreeOn
    <3>2. new[m] = p.nodes[m]
      BY <1>1, <1>3, <1>6, <1>10
    <3>3. \A x \in cut[m] : new[x].stamp = p.nodes[x].stamp
      BY <3>1, <1>3, <1>7, <1>9, <1>10 DEF KeepsStamps
    <3> HIDE DEF cut
    <3> QED BY <3>1, <3>2, <3>3, OrderedFrame
  <2> QED BY <2>1 DEF TreeOn
<1>11. \A m \in At(sub, R) : cut[m] = sub[m] /\ sub[m] \subseteq At(sub, R)
  <2>1. ASSUME NEW m \in At(sub, R) PROVE cut[m] = sub[m] /\ sub[m] \subseteq At(sub, R)
    <3>1. sub[m] \subseteq At(sub, R)
      BY <1>1 DEF Ordered, R
    <3>2. Upper(sub[m], key) = sub[m] /\ ~(m < key)
      BY <1>2, <1>3, <3>1 DEF Upper
    <3> QED BY <1>3, <3>1, <3>2 DEF Cut
  <2> QED BY <2>1
<1>12. TreeOn(new, cut, At(sub, R))
  <2>1. ASSUME NEW m \in At(sub, R) PROVE Ordered(new, cut, m) /\ cut[m] \subseteq At(sub, R)
    <3>1. m \in K /\ m # n
      BY <1>1, <1>3
    <3>2. Ordered(nodes, sub, m)
      BY <3>1, ForestNode DEF Dividable
    <3>3. new[m] = nodes[m]
      BY <3>1, <1>3, <1>6, <1>9
    <3>4. \A x \in sub[m] : cut[x] = sub[x] /\ new[x].stamp = nodes[x].stamp
      BY <1>3, <1>7, <1>11 DEF KeepsStamps
    <3> HIDE DEF cut
    <3> QED BY <3>2, <3>3, <3>4, <1>11, OrderedFrame
  <2> QED BY <2>1 DEF TreeOn
<1>13. /\ cut[n] = Upper(sub[n], key) /\ At(cut, n) = cut[n]
       /\ At(cut, R) = At(sub, R)
  <2>1. ~(n < key)
    BY <1>1, <1>2
  <2>2. cut[n] = Upper(sub[n], key)
    BY <2>1 DEF Cut
  <2>3. R # Nil => R \in At(sub, R)
    <3>1. R # Nil => R \in K
      BY <1>1 DEF NodeOver, R
    <3> QED BY <3>1, ForestNode DEF At, Dividable
  <2>4. At(cut, R) = At(sub, R)
    <3>1. CASE R = Nil
      BY <3>1 DEF At
    <3>2. CASE R # Nil
      <4>1. cut[R] = sub[R]
        BY <2>3, <3>2, <1>11
      <4> QED BY <3>2, <4>1 DEF At
    <3> QED BY <3>1, <3>2
  <2> HIDE DEF cut
  <2> QED BY <2>2, <2>4, <1>1 DEF At
<1> HIDE DEF cut
<1>14. Ordered(new, cut, n)
  <2>1. new[n].left = p.above /\ new[n].right = R /\ new[n].stamp = nodes[n].stamp
    BY <1>6
  <2>2. cut[n] = {n} \cup At(cut, p.above) \cup At(cut, R)
    BY <1>8, <1>9, <1>13
  <2>3. p.above \in cut[n] \cup {Nil}
    <3>1. p.above # Nil => p.above \in At(cut, p.above)
      <4>1. p.above # Nil => p.above \in K
        BY <1>4
      <4>2. ASSUME NEW m \in K, At(cut, m) = Upper(At(sub, L), key) PROVE m \in At(cut, m)
        <5>1. m \in Nat /\ m # Nil /\ At(cut, m) = cut[m] /\ m \in sub[m]
          BY ForestNode DEF At, Dividable
        <5>2. m < key \/ key < m
          BY <5>1, <1>2
        <5>3. cut[m] = IF m < key THEN Lower(sub[m], key) ELSE Upper(sub[m], key)
          BY DEF cut, Cut
        <5> QED BY <5>1, <5>2, <5>3 DEF Lower, Upper
      <4> QED BY <4>1, <4>2, <1>9
    <3> QED BY <2>2, <3>1
  <2>4. R \in cut[n] \cup {Nil}
    <3>1. R \in sub[n] \cup {Nil}
      BY <1>1 DEF Ordered, R
    <3>2. R # Nil => R \in K
      BY <1>1 DEF NodeOver, R
    <3>3. R # Nil => R \in At(sub, R)
      BY <3>2, ForestNode DEF At, Dividable
    <3> QED BY <2>2, <3>3, <1>13
  <2>5. \A m \in At(cut, p.above) : m < n /\ cut[m] \subseteq At(cut, p.above)
    <3>1. \A m \in Upper(At(sub, L), key) : m \in At(sub, L)
      BY DEF Upper
    <3> QED BY <1>3, <1>9, <3>1 DEF TreeOn
  <2>6. \A m \in At(cut, R) : n < m /\ cut[m] \subseteq At(cut, R)
    BY <1>3, <1>11, <1>13
  <2>7. \A m \in cut[n] : new[n].stamp <= new[m].stamp
    <3>1. \A m \in cut[n] : m \in sub[n] /\ m \in K
      BY <1>1, <1>13 DEF Upper
    <3>2. \A m \in sub[n] : nodes[n].stamp <= nodes[m].stamp
      BY <1>1 DEF Ordered
    <3> QED BY <2>1, <3>1, <3>2, <1>7 DEF KeepsStamps
  <2> QED BY <2>1, <2>2, <2>3, <2>4, <2>5, <2>6, <2>7 DEF Ordered
<1>15. TreeOn(new, cut, Upper(sub[n], key))
  <2>1. TreeOn(new, cut, Upper(At(sub, L), key))
    <3>1. Upper(At(sub, L), key) \subseteq At(sub, L)
      BY DEF Upper
    <3> QED BY <1>9, <1>10, <3>1
  <2> QED BY <2>1, <1>8, <1>12, <1>13, <1>14 DEF TreeOn
<1>16. TreeOn(new, cut, Lower(sub[n], key))
  <2>1. Lower(At(sub, L), key) \subseteq At(sub, L)
    BY DEF Lower
  <2> QED BY <1>8, <1>9, <1>10, <2>1
<1>17. \A m \in K \ sub[n] : new[m] = nodes[m]
  BY <1>1, <1>3, <1>6, <1>9
<1>18. q \in Halves(K)
  BY <1>4, <1>6 DEF Halves
<1>19. q.below = p.below /\ q.above = n /\ q.nodes = new
  OBVIOUS
<1> HIDE DEF q
<1>20. Divided(nodes, sub, K, key, n, q)
  BY <1>1, <1>7, <1>8, <1>9, <1>13, <1>15, <1>16, <1>17, <1>18, <1>19 DEF Divided, cut
<1> QED BY <1>20 DEF q, new

(* The key goes under n, on its right: n and all on its left are below it. *)
LEMMA DividedRight ==
  ASSUME NEW nodes, NEW sub, NEW K, NEW key, Dividable(nodes, sub, K, key),
         NEW n \in K, n < key, NEW p, Divided(nodes, sub, K, key, nodes[n].right, p)
  PROVE  Divided(nodes, sub, K, key, n,
           [below |-> n, above |-> p.above,
            nodes |-> [p.nodes EXCEPT ![n] = [@ EXCEPT !.right = p.below]]])
<1> DEFINE R == nodes[n].right
           L == nodes[n].left
           cut == Cut(sub, K, key)
           new == [p.nodes EXCEPT ![n] = [@ EXCEPT !.right = p.below]]
           q == [below |-> n, above |-> p.above, nodes |-> new]
<1>1. /\ n \in Nat /\ n # Nil /\ Ordered(nodes, sub, n) /\ sub[n] \subseteq K
      /\ At(sub, n) = sub[n] /\ n \in sub[n] /\ ~(n \in At(sub, R))
      /\ nodes[n] \in NodeOver(K)
  BY ForestNode DEF Dividable
<1>2. key \in Nat /\ K \subseteq Nat /\ ~(key \in K)
  BY DEF Dividable, Forest
<1>3. /\ \A m \in At(sub, R) : m \in Nat /\ n < m /\ m \in K
      /\ \A m \in At(sub, L) : m \in Nat /\ m < n /\ m < key /\ m \in K /\ ~(m \in At(sub, R))
      /\ sub[n] = {n} \cup At(sub, R) \cup At(sub, L)
  <2>1. sub[n] = {n} \cup At(sub, R) \cup At(sub, L)
    BY <1>1 DEF Ordered
  <2>2. \A m \in At(sub, R) : m \in Nat /\ n < m /\ m \in K
    BY <1>1, <1>2, <2>1 DEF Ordered
  <2>3. \A m \in At(sub, L) : m \in Nat /\ m < n /\ m \in K
    BY <1>1, <1>2, <2>1 DEF Ordered
  <2> QED BY <1>1, <1>2, <2>1, <2>2, <2>3
<1>4. /\ p.above \in K \cup {Nil} /\ p.below \in K \cup {Nil}
      /\ p.nodes \in [K -> NodeOver(K)]
  BY DEF Divided, Halves
<1>5. p.nodes[n] = nodes[n]
  BY <1>1 DEF Divided
<1>6. /\ new \in [K -> NodeOver(K)]
      /\ new[n].right = p.below /\ new[n].left = L
      /\ new[n].stamp = nodes[n].stamp /\ new[n].val = nodes[n].val
      /\ \A m \in K \ {n} : new[m] = p.nodes[m]
  <2>1. [nodes[n] EXCEPT !.right = p.below] \in NodeOver(K)
    BY <1>1, <1>4 DEF NodeOver
  <2>2. nodes[n] \in [stamp : Nat, right : K \cup {Nil}, left : K \cup {Nil}, val : Nat]
    BY <1>1 DEF NodeOver
  <2> QED BY <2>1, <2>2, <1>4, <1>5
<1>7. KeepsStamps(nodes, new, K)
  <2>1. KeepsStamps(nodes, p.nodes, K)
    BY DEF Divided
  <2> HIDE DEF new
  <2> QED BY <2>1, <1>6 DEF KeepsStamps
<1>8. /\ Upper(sub[n], key) = Upper(At(sub, R), key)
      /\ Lower(sub[n], key) = {n} \cup Lower(At(sub, R), key) \cup At(sub, L)
  <2>1. n < key /\ ~(key < n)
    BY <1>1, <1>2
  <2>2. \A m \in At(sub, L) : ~(key < m)
    BY <1>2, <1>3
  <2> QED BY <1>3, <2>1, <2>2 DEF Upper, Lower
<1> HIDE DEF new, R, L
<1>9. /\ TreeOn(p.nodes, cut, Upper(At(sub, R), key))
      /\ TreeOn(p.nodes, cut, Lower(At(sub, R), key))
      /\ At(cut, p.above) = Upper(At(sub, R), key)
      /\ At(cut, p.below) = Lower(At(sub, R), key)
      /\ KeepsStamps(nodes, p.nodes, K)
      /\ \A m \in K \ At(sub, R) : p.nodes[m] = nodes[m]
  BY DEF Divided, R
<1>10. ASSUME NEW A, A \subseteq At(sub, R), TreeOn(p.nodes, cut, A)
       PROVE  TreeOn(new, cut, A)
  <2>1. ASSUME NEW m \in A PROVE Ordered(new, cut, m) /\ cut[m] \subseteq A
    <3>1. Ordered(p.nodes, cut, m) /\ cut[m] \subseteq A
      BY <1>10, <2>1 DEF TreeOn
    <3>2. new[m] = p.nodes[m]
      BY <1>1, <1>3, <1>6, <1>10
    <3>3. \A x \in cut[m] : new[x].stamp = p.nodes[x].stamp
      BY <3>1, <1>3, <1>7, <1>9, <1>10 DEF KeepsStamps
    <3> HIDE DEF cut
    <3> QED BY <3>1, <3>2, <3>3, OrderedFrame
  <2> QED BY <2>1 DEF TreeOn
<1>11. \A m \in At(sub, L) : cut[m] = sub[m] /\ sub[m] \subseteq At(sub, L)
  <2>1. ASSUME NEW m \in At(sub, L) PROVE cut[m] = sub[m] /\ sub[m] \subseteq At(sub, L)
    <3>1. sub[m] \subseteq At(sub, L)
      BY <1>1 DEF Ordered, L
    <3>2. Lower(sub[m], key) = sub[m] /\ m < key
      BY <1>2, <1>3, <3>1 DEF Lower
    <3> QED BY <1>3, <3>1, <3>2 DEF Cut
  <2> QED BY <2>1
<1>12. TreeOn(new, cut, At(sub, L))
  <2>1. ASSUME NEW m \in At(sub, L) PROVE Ordered(new, cut, m) /\ cut[m] \subseteq At(sub, L)
    <3>1. m \in K /\ m # n
      BY <1>1, <1>3
    <3>2. Ordered(nodes, sub, m)
      BY <3>1, ForestNode DEF Dividable
    <3>3. new[m] = nodes[m]
      BY <3>1, <1>3, <1>6, <1>9
    <3>4. \A x \in sub[m] : cut[x] = sub[x] /\ new[x].stamp = nodes[x].stamp
      BY <1>3, <1>7, <1>11 DEF KeepsStamps
    <3> HIDE DEF cut
    <3> QED BY <3>2, <3>3, <3>4, <1>11, OrderedFrame
  <2> QED BY <2>1 DEF TreeOn
<1>13. /\ cut[n] = Lower(sub[n], key) /\ At(cut, n) = cut[n]
       /\ At(cut, L) = At(sub, L)
  <2>1. n < key
    BY <1>1, <1>2
  <2>2. cut[n] = Lower(sub[n], key)
    BY <2>1 DEF Cut
  <2>3. L # Nil => L \in At(sub, L)
    <3>1. L # Nil => L \in K
      BY <1>1 DEF NodeOver, L
    <3> QED BY <3>1, ForestNode DEF At, Dividable
  <2>4. At(cut, L) = At(sub, L)
    <3>1. CASE L = Nil
      BY <3>1 DEF At
    <3>2. CASE L # Nil
      <4>1. cut[L] = sub[L]
        BY <2>3, <3>2, <1>11
      <4> QED BY <3>2, <4>1 DEF At
    <3> QED BY <3>1, <3>2
  <2> HIDE DEF cut
  <2> QED BY <2>2, <2>4, <1>1 DEF At
<1> HIDE DEF cut
<1>14. Ordered(new, cut, n)
  <2>1. new[n].right = p.below /\ new[n].left = L /\ new[n].stamp = nodes[n].stamp
    BY <1>6
  <2>2. cut[n] = {n} \cup At(cut, p.below) \cup At(cut, L)
    BY <1>8, <1>9, <1>13
  <2>3. p.below \in cut[n] \cup {Nil}
    <3>1. p.below # Nil => p.below \in At(cut, p.below)
      <4>1. p.below # Nil => p.below \in K
        BY <1>4
      <4>2. ASSUME NEW m \in K, At(cut, m) = Lower(At(sub, R), key) PROVE m \in At(cut, m)
        <5>1. m \in Nat /\ m # Nil /\ At(cut, m) = cut[m] /\ m \in sub[m]
          BY ForestNode DEF At, Dividable
        <5>2. key < m \/ m < key
          BY <5>1, <1>2
        <5>3. cut[m] = IF m < key THEN Lower(sub[m], key) ELSE Upper(sub[m], key)
          BY DEF cut, Cut
        <5> QED BY <5>1, <5>2, <5>3 DEF Upper, Lower
      <4> QED BY <4>1, <4>2, <1>9
    <3> QED BY <2>2, <3>1
  <2>4. L \in cut[n] \cup {Nil}
    <3>1. L \in sub[n] \cup {Nil}
      BY <1>1 DEF Ordered, L
    <3>2. L # Nil => L \in K
      BY <1>1 DEF NodeOver, L
    <3>3. L # Nil => L \in At(sub, L)
      BY <3>2, ForestNode DEF At, Dividable
    <3> QED BY <2>2, <3>3, <1>13
  <2>5. \A m \in At(cut, p.below) : n < m /\ cut[m] \subseteq At(cut, p.below)
    <3>1. \A m \in Lower(At(sub, R), key) : m \in At(sub, R)
      BY DEF Lower
    <3> QED BY <1>3, <1>9, <3>1 DEF TreeOn
  <2>6. \A m \in At(cut, L) : m < n /\ cut[m] \subseteq At(cut, L)
    BY <1>3, <1>11, <1>13
  <2>7. \A m \in cut[n] : new[n].stamp <= new[m].stamp
    <3>1. \A m \in cut[n] : m \in sub[n] /\ m \in K
      BY <1>1, <1>13 DEF Lower
    <3>2. \A m \in sub[n] : nodes[n].stamp <= nodes[m].stamp
      BY <1>1 DEF Ordered
    <3> QED BY <2>1, <3>1, <3>2, <1>7 DEF KeepsStamps
  <2> QED BY <2>1, <2>2, <2>3, <2>4, <2>5, <2>6, <2>7 DEF Ordered
<1>15. TreeOn(new, cut, Lower(sub[n], key))
  <2>1. TreeOn(new, cut, Lower(At(sub, R), key))
    <3>1. Lower(At(sub, R), key) \subseteq At(sub, R)
      BY DEF Lower
    <3> QED BY <1>9, <1>10, <3>1
  <2> QED BY <2>1, <1>8, <1>12, <1>13, <1>14 DEF TreeOn
<1>16. TreeOn(new, cut, Upper(sub[n], key))
  <2>1. Upper(At(sub, R), key) \subseteq At(sub, R)
    BY DEF Upper
  <2> QED BY <1>8, <1>9, <1>10, <2>1
<1>17. \A m \in K \ sub[n] : new[m] = nodes[m]
  BY <1>1, <1>3, <1>6, <1>9
<1>18. q \in Halves(K)
  BY <1>4, <1>6 DEF Halves
<1>19. q.above = p.above /\ q.below = n /\ q.nodes = new
  OBVIOUS
<1> HIDE DEF q
<1>20. Divided(nodes, sub, K, key, n, q)
  BY <1>1, <1>7, <1>8, <1>9, <1>13, <1>15, <1>16, <1>17, <1>18, <1>19 DEF Divided, cut
<1> QED BY <1>20 DEF q, new

\* What Part makes of the child's halves, in one piece.
HangAbove(p, n) ==
  [below |-> p.below, above |-> n,
   nodes |-> [p.nodes EXCEPT ![n] = [@ EXCEPT !.left = p.above]]]
HangBelow(p, n) ==
  [below |-> n, above |-> p.above,
   nodes |-> [p.nodes EXCEPT ![n] = [@ EXCEPT !.right = p.below]]]

PutAbove(p, n) == [p EXCEPT !.above = n, !.nodes[n].left = p.above]
PutBelow(p, n) == [p EXCEPT !.below = n, !.nodes[n].right = p.below]

(* Putting n on top of a half changes one child of n, and no more.         *)
LEMMA HangIs ==
  ASSUME NEW K, NEW p \in Halves(K), NEW n \in K
  PROVE  /\ PutAbove(p, n) = HangAbove(p, n)
         /\ PutBelow(p, n) = HangBelow(p, n)
         /\ HangAbove(p, n) \in Halves(K) /\ HangBelow(p, n) \in Halves(K)
<1>1. /\ p.below \in K \cup {Nil} /\ p.above \in K \cup {Nil}
      /\ p.nodes \in [K -> NodeOver(K)]
      /\ p = [below |-> p.below, above |-> p.above, nodes |-> p.nodes]
  BY DEF Halves
<1>2. /\ [p.nodes EXCEPT ![n] = [@ EXCEPT !.left = p.above]] \in [K -> NodeOver(K)]
      /\ [p.nodes EXCEPT ![n] = [@ EXCEPT !.right = p.below]] \in [K -> NodeOver(K)]
  <2>1. p.nodes[n] \in NodeOver(K)
    BY <1>1
  <2>2. [p.nodes[n] EXCEPT !.left = p.above] \in NodeOver(K)
    BY <1>1, <2>1 DEF NodeOver
  <2>3. [p.nodes[n] EXCEPT !.right = p.below] \in NodeOver(K)
    BY <1>1, <2>1 DEF NodeOver
  <2> QED BY <1>1, <2>2, <2>3
<1>3. PutAbove(p, n) = HangAbove(p, n)
      /\ HangAbove(p, n) \in Halves(K)
  <2> DEFINE q == [p EXCEPT !.above = n, !.nodes[n].left = p.above]
             new == [p.nodes EXCEPT ![n] = [@ EXCEPT !.left = p.above]]
  <2>1. q.below = p.below /\ q.above = n /\ q.nodes = new
    BY <1>1
  <2>2. q \in [below : K \cup {Nil}, above : K \cup {Nil}, nodes : [K -> NodeOver(K)]]
    <3>1. new \in [K -> NodeOver(K)]
      BY <1>2
    <3>2. q = [[p EXCEPT !.above = n] EXCEPT !.nodes = new]
      BY <1>1
    <3>3. [p EXCEPT !.above = n] \in Halves(K)
      BY <1>1 DEF Halves
    <3> HIDE DEF q, new
    <3> QED BY <3>1, <3>2, <3>3 DEF Halves
  <2> HIDE DEF q, new
  <2>3. q = [below |-> q.below, above |-> q.above, nodes |-> q.nodes]
    BY <2>2
  <2>4. q = HangAbove(p, n)
    BY <2>1, <2>3 DEF HangAbove, new
  <2> QED BY <2>2, <2>4 DEF q, Halves, PutAbove
<1>4. PutBelow(p, n) = HangBelow(p, n)
      /\ HangBelow(p, n) \in Halves(K)
  <2> DEFINE q == [p EXCEPT !.below = n, !.nodes[n].right = p.below]
             new == [p.nodes EXCEPT ![n] = [@ EXCEPT !.right = p.below]]
  <2>1. q.above = p.above /\ q.below = n /\ q.nodes = new
    BY <1>1
  <2>2. q \in [below : K \cup {Nil}, above : K \cup {Nil}, nodes : [K -> NodeOver(K)]]
    <3>1. new \in [K -> NodeOver(K)]
      BY <1>2
    <3>2. q = [[p EXCEPT !.below = n] EXCEPT !.nodes = new]
      BY <1>1
    <3>3. [p EXCEPT !.below = n] \in Halves(K)
      BY <1>1 DEF Halves
    <3> HIDE DEF q, new
    <3> QED BY <3>1, <3>2, <3>3 DEF Halves
  <2> HIDE DEF q, new
  <2>3. q = [below |-> q.below, above |-> q.above, nodes |-> q.nodes]
    BY <2>2
  <2>4. q = HangBelow(p, n)
    BY <2>1, <2>3 DEF HangBelow, new
  <2> QED BY <2>2, <2>4 DEF q, Halves, PutBelow
<1> QED BY <1>3, <1>4

(* The tree at a node is divided into the keys before a new one and those  *)
(* after it.                                                               *)
LEMMA DivideIs ==
  ASSUME NEW nodes, NEW sub, NEW K, NEW key, Dividable(nodes, sub, K, key),
         NEW node \in K \cup {Nil}
  PROVE  Divided(nodes, sub, K, key, node, Divide(nodes, node, key))
<1> DEFINE S == K \cup {Nil}
           V == Halves(K)
           none == [below |-> Nil, above |-> Nil, nodes |-> nodes]
           Body(n, g) == IF n = Nil
                           THEN [below |-> Nil, above |-> Nil, nodes |-> nodes]
                         ELSE IF key < n
                           THEN LET p == g[nodes[n].left]
                                IN  [p EXCEPT !.above = n, !.nodes[n].left = p.above]
                         ELSE LET p == g[nodes[n].right]
                              IN  [p EXCEPT !.below = n, !.nodes[n].right = p.below]
           F(g) == [n \in DOMAIN nodes \cup {Nil} |-> Body(n, g)]
           h == CHOOSE g : g = F(g)
           Next(n) == IF n = Nil THEN Nil
                      ELSE IF key < n THEN nodes[n].left ELSE nodes[n].right
           Hang(n, p) == IF n = Nil THEN none
                         ELSE IF key < n THEN HangAbove(p, n) ELSE HangBelow(p, n)
           child == [n \in S |-> Next(n)]
           base == [n \in S |-> none]
           step == [x \in S \X V |-> Hang(x[1], x[2])]
           Stops == {Nil}
<1>1. /\ DOMAIN nodes = K /\ nodes \in [K -> NodeOver(K)] /\ Forest(nodes, sub, K)
      /\ key \in Nat /\ ~(key \in K) /\ K \subseteq Nat
      /\ \A n \in K : n # Nil /\ nodes[n].left \in S /\ nodes[n].right \in S
  BY ForestNode DEF Forest, Dividable
<1>2. none \in V
  BY <1>1 DEF Halves
<1>3. \A n \in S : Next(n) \in S
  BY <1>1
<1>4. \A n \in S, p \in V : Hang(n, p) \in V
  <2> HIDE DEF none
  <2> QED BY <1>2, HangIs
<1>5. \E f \in [S -> V] : Solves(f, S, Stops, child, base, step, S)
  <2>1. child \in [S -> S] /\ base \in [S -> V]
    <3> HIDE DEF none, Next
    <3> QED BY <1>2, <1>3
  <2>2. step \in [S \X V -> V]
    <3>1. ASSUME NEW x \in S \X V PROVE Hang(x[1], x[2]) \in V
      <4>1. x[1] \in S /\ x[2] \in V
        <5> HIDE DEF S, V
        <5> QED OBVIOUS
      <4> HIDE DEF S, V, Hang
      <4> QED BY <4>1, <1>4
    <3> HIDE DEF S, V, Hang
    <3> QED BY <3>1
  <2>3. \A n \in K \ Stops : child[n] \in {nodes[n].left, nodes[n].right}
    OBVIOUS
  <2>4. S = K \cup {Nil} /\ Nil \in Stops /\ Forest(nodes, sub, K)
    BY <1>1
  <2> HIDE DEF S, V, Stops, child, base, step
  <2> QED BY ONLY <2>1, <2>2, <2>3, <2>4, WalkIs
<1>6. PICK f \in [S -> V] : Solves(f, S, Stops, child, base, step, S)
  BY <1>5
<1>7. \A n \in S : f[n] = Hang(n, f[Next(n)]) /\ f[Next(n)] \in V
  <2>1. ASSUME NEW n \in S PROVE f[n] = Hang(n, f[Next(n)]) /\ f[Next(n)] \in V
    <3> HIDE DEF none
    <3>1. f[n] = IF n \in Stops THEN base[n] ELSE step[<<n, f[child[n]]>>]
      BY <1>6 DEF Solves
    <3>2. child[n] = Next(n) /\ f[Next(n)] \in V /\ base[n] = none
      <4> HIDE DEF Next, V
      <4> QED BY <1>3
    <3>3. step[<<n, f[Next(n)]>>] = Hang(n, f[Next(n)])
      <4> HIDE DEF Next, Hang, V, S
      <4> QED BY <3>2
    <3>4. n = Nil => Hang(n, f[Next(n)]) = none
      OBVIOUS
    <3> HIDE DEF Hang, Next, step, base, child
    <3> QED BY <3>1, <3>2, <3>3, <3>4
  <2> QED BY <2>1
<1>8. ASSUME NEW g, NEW n \in S, g[Next(n)] \in V PROVE Body(n, g) = Hang(n, g[Next(n)])
  <2>1. CASE n = Nil
    BY <2>1
  <2>2. CASE n # Nil /\ key < n
    <3>1. /\ Next(n) = nodes[n].left /\ n \in K
          /\ Hang(n, g[Next(n)]) = HangAbove(g[nodes[n].left], n)
      BY <2>2
    <3>2. g[nodes[n].left] \in Halves(K)
      <4>1. Next(n) = nodes[n].left /\ n \in K
        BY <3>1
      <4> HIDE DEF Next, Hang, Body
      <4> QED BY <4>1, <1>8
    <3>3. Body(n, g) = PutAbove(g[nodes[n].left], n)
      BY <2>2, Zenon DEF PutAbove
    <3>4. PutAbove(g[nodes[n].left], n) = HangAbove(g[nodes[n].left], n)
      BY ONLY <3>1, <3>2, HangIs
    <3> HIDE DEF Body, Hang, Next
    <3> QED BY <3>1, <3>3, <3>4
  <2>3. CASE n # Nil /\ ~(key < n)
    <3>1. /\ Next(n) = nodes[n].right /\ n \in K
          /\ Hang(n, g[Next(n)]) = HangBelow(g[nodes[n].right], n)
      BY <2>3
    <3>2. g[nodes[n].right] \in Halves(K)
      <4>1. Next(n) = nodes[n].right /\ n \in K
        BY <3>1
      <4> HIDE DEF Next, Hang, Body
      <4> QED BY <4>1, <1>8
    <3>3. Body(n, g) = PutBelow(g[nodes[n].right], n)
      BY <2>3, Zenon DEF PutBelow
    <3>4. PutBelow(g[nodes[n].right], n) = HangBelow(g[nodes[n].right], n)
      BY ONLY <3>1, <3>2, HangIs
    <3> HIDE DEF Body, Hang, Next
    <3> QED BY <3>1, <3>3, <3>4
  <2> QED BY <2>1, <2>2, <2>3
<1>9. Divide(nodes, node, key) = h[node]
  BY DEF Divide
<1> HIDE DEF Body
<1>10. h = F(h)
  <2>1. f = F(f)
    <3>1. \A n \in S : f[n] = Body(n, f)
      <4> HIDE DEF Hang, Next, V, S
      <4> QED BY <1>7, <1>8
    <3> QED BY <3>1, <1>1
  <2> HIDE DEF F
  <2> QED BY <2>1
<1> HIDE DEF h
<1>11. \A n \in S : h[n] = Body(n, h)
  BY <1>1, <1>10
<1> DEFINE Bad == { n \in S : ~Divided(nodes, sub, K, key, n, h[n]) }
<1>12. Bad = {}
  <2>1. ~(Nil \in Bad)
    <3>1. /\ none.below = Nil /\ none.above = Nil /\ none.nodes = nodes
      BY DEF none
    <3>2. At(sub, Nil) = {} /\ At(Cut(sub, K, key), Nil) = {}
      BY DEF At
    <3>3. Lower({}, key) = {} /\ Upper({}, key) = {}
      BY DEF Lower, Upper
    <3>4. KeepsStamps(nodes, nodes, K)
      BY DEF KeepsStamps
    <3> HIDE DEF none
    <3>5. Divided(nodes, sub, K, key, Nil, none)
      BY <1>2, <3>1, <3>2, <3>3, <3>4 DEF Divided, TreeOn
    <3>6. h[Nil] = none
      BY <1>11 DEF Body, none
    <3> QED BY <3>5, <3>6
  <2>2. SUFFICES ASSUME Bad # {} PROVE FALSE
    OBVIOUS
  <2>3. PICK n \in Bad : n \in K /\ ~(nodes[n].left \in Bad) /\ ~(nodes[n].right \in Bad)
    BY <1>1, <2>1, <2>2, AmongDeepest
  <2>4. n \in Nat /\ n # Nil
    BY <2>3, <1>1
  <2>5. CASE key < n
    <3>1. Divided(nodes, sub, K, key, nodes[n].left, h[nodes[n].left])
      BY <1>1, <2>3
    <3>2. Divided(nodes, sub, K, key, n, HangAbove(h[nodes[n].left], n))
      BY <2>3, <2>5, <3>1, DividedLeft DEF HangAbove
    <3>3. h[nodes[n].left] \in Halves(K)
      BY <3>1 DEF Divided
    <3>4. h[n] = HangAbove(h[nodes[n].left], n)
      <4>1. Next(n) = nodes[n].left /\ Hang(n, h[Next(n)]) = HangAbove(h[nodes[n].left], n)
        BY <2>4, <2>5
      <4> HIDE DEF Hang, Next
      <4> QED BY <1>8, <1>11, <2>3, <3>3, <4>1
    <3> QED BY <2>3, <3>2, <3>4
  <2>6. CASE n < key
    <3>1. Divided(nodes, sub, K, key, nodes[n].right, h[nodes[n].right])
      BY <1>1, <2>3
    <3>2. Divided(nodes, sub, K, key, n, HangBelow(h[nodes[n].right], n))
      BY <2>3, <2>6, <3>1, DividedRight DEF HangBelow
    <3>3. h[nodes[n].right] \in Halves(K)
      BY <3>1 DEF Divided
    <3>4. h[n] = HangBelow(h[nodes[n].right], n)
      <4>1. ~(key < n)
        BY <1>1, <2>4, <2>6
      <4>2. Next(n) = nodes[n].right /\ Hang(n, h[Next(n)]) = HangBelow(h[nodes[n].right], n)
        BY <2>4, <4>1
      <4> HIDE DEF Hang, Next
      <4> QED BY <1>8, <1>11, <2>3, <3>3, <4>2
    <3> QED BY <2>3, <3>2, <3>4
  <2> QED BY <2>3, <2>4, <2>5, <2>6, <1>1
<1> QED BY <1>9, <1>12

-----------------------------------------------------------------------------
(* The new node goes where the stamps have it, over what is divided there. *)

Graftable(t, sub, K, key) == Dividable(t.nodes, sub, K, key) /\ t.priority \in Nat

Grafts(K, key) ==
  [root : K \cup {key}, nodes : [K \cup {key} -> NodeOver(K \cup {key})]]

\* What has become of the tree at n.
Grafted(t, sub, K, key, n, p) ==
  /\ p \in Grafts(K, key)
  /\ \A m \in K \ At(sub, n) : p.nodes[m] = t.nodes[m]
  /\ KeepsStamps(t.nodes, p.nodes, K)
  /\ p.nodes[key].stamp = t.priority /\ p.nodes[key].val = 0
  /\ \E s : /\ s[p.root] = At(sub, n) \cup {key} /\ p.root \in s[p.root]
            /\ TreeOn(p.nodes, s, At(sub, n) \cup {key})

NewNode(t, p) == [stamp |-> t.priority, val |-> 0, left |-> p.below, right |-> p.above]

Grow(K, key, node, nodes) ==
  [m \in K \cup {key} |-> IF m # key THEN nodes[m] ELSE node]

(* The walk ends at n: the new node takes its place, with the halves under *)
(* it.                                                                     *)
LEMMA GraftedHere ==
  ASSUME NEW t, NEW sub, NEW K, NEW key, Graftable(t, sub, K, key),
         NEW n \in K \cup {Nil}, n = Nil \/ t.nodes[n].stamp >= t.priority,
         NEW p, Divided(t.nodes, sub, K, key, n, p)
  PROVE  Grafted(t, sub, K, key, n,
           [root |-> key, nodes |-> Grow(K, key, NewNode(t, p), p.nodes)])
<1> DEFINE nodes == t.nodes
           A == At(sub, n)
           cut == Cut(sub, K, key)
           new == Grow(K, key, NewNode(t, p), p.nodes)
           q == [root |-> key, nodes |-> new]
           s == [m \in K \cup {key} |-> IF m = key THEN A \cup {key} ELSE cut[m]]
<1>1. /\ Forest(nodes, sub, K) /\ key \in Nat /\ ~(key \in K) /\ t.priority \in Nat
      /\ K \subseteq Nat /\ nodes \in [K -> NodeOver(K)]
  BY DEF Graftable, Dividable, Forest
<1>2. A \subseteq K
  BY <1>1, ForestNode DEF At
<1>3. /\ p.below \in K \cup {Nil} /\ p.above \in K \cup {Nil}
      /\ p.nodes \in [K -> NodeOver(K)]
  BY DEF Divided, Halves
<1>4. NewNode(t, p) \in NodeOver(K \cup {key})
      /\ NewNode(t, p).stamp = t.priority /\ NewNode(t, p).val = 0
      /\ NewNode(t, p).left = p.below /\ NewNode(t, p).right = p.above
  BY <1>1, <1>3 DEF NewNode, NodeOver
<1>5. /\ new \in [K \cup {key} -> NodeOver(K \cup {key})]
      /\ new[key] = NewNode(t, p)
      /\ \A m \in K : new[m] = p.nodes[m]
  <2>1. \A m \in K : p.nodes[m] \in NodeOver(K \cup {key})
    BY <1>3 DEF NodeOver
  <2> QED BY <2>1, <1>1, <1>4 DEF Grow
<1> HIDE DEF new
<1>6. /\ \A m \in K \ A : new[m] = nodes[m]
      /\ KeepsStamps(nodes, new, K)
      /\ TreeOn(p.nodes, cut, Lower(A, key)) /\ TreeOn(p.nodes, cut, Upper(A, key))
      /\ At(cut, p.below) = Lower(A, key) /\ At(cut, p.above) = Upper(A, key)
  BY <1>5 DEF Divided, KeepsStamps
<1>7. A = Lower(A, key) \cup Upper(A, key)
  BY <1>1, <1>2 DEF Lower, Upper
<1>8. ASSUME NEW B, B \subseteq A, TreeOn(p.nodes, cut, B) PROVE TreeOn(new, s, B)
  <2>1. ASSUME NEW m \in B PROVE Ordered(new, s, m) /\ s[m] \subseteq B
    <3>1. Ordered(p.nodes, cut, m) /\ cut[m] \subseteq B
      BY <1>8, <2>1 DEF TreeOn
    <3>2. m \in K /\ m # key
      BY <1>1, <1>2, <1>8
    <3>3. \A x \in cut[m] : x \in K /\ x # key
      BY <1>1, <1>2, <1>8, <3>1
    <3>4. \A x \in cut[m] : s[x] = cut[x] /\ new[x] = p.nodes[x]
      <4> HIDE DEF cut
      <4> QED BY <1>5, <3>3
    <3>5. s[m] = cut[m]
      <4> HIDE DEF cut
      <4> QED BY <3>2
    <3> HIDE DEF cut, s
    <3> QED BY <1>5, <3>1, <3>2, <3>4, <3>5, OrderedFrame
  <2> QED BY <2>1 DEF TreeOn
<1>9. TreeOn(new, s, Lower(A, key)) /\ TreeOn(new, s, Upper(A, key))
  <2>1. Lower(A, key) \subseteq A /\ Upper(A, key) \subseteq A
    BY DEF Lower, Upper
  <2> QED BY <1>6, <1>8, <2>1
<1>10. s[key] = A \cup {key}
  OBVIOUS
<1>11. At(s, p.below) = Lower(A, key) /\ At(s, p.above) = Upper(A, key)
  <2>1. \A c \in K \cup {Nil} : At(s, c) = At(cut, c)
    <3> HIDE DEF cut
    <3> QED BY <1>1 DEF At
  <2> HIDE DEF cut, s
  <2> QED BY <1>3, <1>6, <2>1
<1>12. /\ p.below \in (A \cup {key}) \cup {Nil}
       /\ p.above \in (A \cup {key}) \cup {Nil}
  <2>1. ASSUME NEW c \in K, At(cut, c) \subseteq A PROVE c \in A
    <3>1. c \in Nat /\ c # Nil /\ c \in sub[c]
      BY <1>1, ForestNode
    <3>2. c < key \/ key < c
      BY <1>1, <3>1
    <3>3. cut[c] = IF c < key THEN Lower(sub[c], key) ELSE Upper(sub[c], key)
      BY DEF Cut
    <3>4. c \in cut[c]
      BY <3>1, <3>2, <3>3 DEF Lower, Upper
    <3> HIDE DEF cut
    <3> QED BY <2>1, <3>1, <3>4 DEF At
  <2>2. At(cut, p.below) \subseteq A /\ At(cut, p.above) \subseteq A
    BY <1>6 DEF Lower, Upper
  <2> HIDE DEF cut
  <2> QED BY <1>3, <2>1, <2>2
<1> HIDE DEF cut, s
<1>13. Ordered(new, s, key)
  <2>1. \A m \in A : t.priority <= new[m].stamp
    <3>1. CASE n = Nil
      BY <3>1 DEF At
    <3>2. CASE n # Nil
      <4>1. n \in K /\ A = sub[n] /\ Ordered(nodes, sub, n)
        BY <1>1, <3>2, ForestNode DEF At
      <4>2. \A m \in A : nodes[n].stamp <= new[m].stamp
        BY <4>1, <1>2, <1>6 DEF Ordered, KeepsStamps
      <4>3. nodes[n].stamp \in Nat /\ \A m \in A : new[m].stamp \in Nat
        <5>1. nodes[n] \in NodeOver(K)
          BY <1>1, <4>1
        <5>2. \A m \in A : new[m] \in NodeOver(K \cup {key})
          BY <1>2, <1>5
        <5> QED BY <5>1, <5>2 DEF NodeOver
      <4> QED BY <1>1, <3>2, <4>2, <4>3
    <3> QED BY <3>1, <3>2
  <2>2. \A m \in s[key] : new[key].stamp <= new[m].stamp
    BY <1>1, <1>4, <1>5, <1>10, <2>1
  <2>3. new[key].left = p.below /\ new[key].right = p.above
    BY <1>4, <1>5
  <2>4. s[key] = {key} \cup At(s, p.below) \cup At(s, p.above)
    BY <1>7, <1>10, <1>11
  <2>5. \A m \in At(s, p.below) : m < key /\ s[m] \subseteq At(s, p.below)
    BY <1>9, <1>11 DEF TreeOn, Lower
  <2>6. \A m \in At(s, p.above) : key < m /\ s[m] \subseteq At(s, p.above)
    BY <1>9, <1>11 DEF TreeOn, Upper
  <2> QED BY <1>10, <1>12, <2>2, <2>3, <2>4, <2>5, <2>6 DEF Ordered
<1>14. TreeOn(new, s, A \cup {key})
  BY <1>7, <1>9, <1>10, <1>13 DEF TreeOn
<1>15. q \in Grafts(K, key) /\ q.root = key /\ q.nodes = new
  BY <1>5 DEF Grafts
<1> HIDE DEF q
<1>16. Grafted(t, sub, K, key, n, q)
  BY <1>4, <1>5, <1>6, <1>10, <1>14, <1>15 DEF Grafted
<1> QED BY <1>16 DEF q, new

\* The new node has gone under n, on its left.
LinkLeft(p, n) == [root |-> n, nodes |-> [p.nodes EXCEPT ![n] = [@ EXCEPT !.left = p.root]]]

(* The new node goes under n, on its left.                                 *)
LEMMA GraftedLeft ==
  ASSUME NEW t, NEW sub, NEW K, NEW key, Graftable(t, sub, K, key),
         NEW n \in K, key < n, t.nodes[n].stamp < t.priority,
         NEW p, Grafted(t, sub, K, key, t.nodes[n].left, p)
  PROVE  Grafted(t, sub, K, key, n, LinkLeft(p, n))
<1> DEFINE nodes == t.nodes
           L == nodes[n].left
           R == nodes[n].right
           new == [p.nodes EXCEPT ![n] = [@ EXCEPT !.left = p.root]]
           q == [root |-> n, nodes |-> new]
           AL == At(sub, L) \cup {key}
           AR == At(sub, R)
<1>1. /\ Forest(nodes, sub, K) /\ key \in Nat /\ ~(key \in K) /\ t.priority \in Nat
      /\ K \subseteq Nat /\ nodes \in [K -> NodeOver(K)]
  BY DEF Graftable, Dividable, Forest
<1>2. /\ n \in Nat /\ n # Nil /\ Ordered(nodes, sub, n) /\ sub[n] \subseteq K
      /\ At(sub, n) = sub[n] /\ n \in sub[n] /\ ~(n \in At(sub, L))
      /\ nodes[n] \in NodeOver(K)
  BY <1>1, ForestNode
<1>3. /\ \A m \in AL : m \in Nat /\ m < n /\ m # n /\ m \in K \cup {key}
      /\ \A m \in AR : m \in Nat /\ n < m /\ m \in K /\ m # n /\ ~(m \in AL)
      /\ sub[n] \cup {key} = {n} \cup AL \cup AR
  <2>1. sub[n] = {n} \cup At(sub, L) \cup AR
    BY <1>2 DEF Ordered
  <2>2. \A m \in AL : m \in Nat /\ m < n /\ m \in K \cup {key}
    BY <1>1, <1>2, <2>1 DEF Ordered
  <2>3. \A m \in AR : m \in Nat /\ n < m /\ m \in K
    BY <1>1, <1>2, <2>1 DEF Ordered
  <2> HIDE DEF AR
  <2>4. sub[n] \cup {key} = {n} \cup AL \cup AR
    BY <2>1
  <2> HIDE DEF AL
  <2> QED BY <1>2, <2>2, <2>3, <2>4
<1>4. /\ p.root \in K \cup {key} /\ p.nodes \in [K \cup {key} -> NodeOver(K \cup {key})]
      /\ \A m \in K \ At(sub, L) : p.nodes[m] = nodes[m]
      /\ KeepsStamps(nodes, p.nodes, K)
      /\ p.nodes[key].stamp = t.priority /\ p.nodes[key].val = 0
  BY DEF Grafted, Grafts
<1>5. PICK s : s[p.root] = AL /\ p.root \in AL /\ TreeOn(p.nodes, s, AL)
  BY DEF Grafted
<1>6. p.nodes[n] = nodes[n]
  BY <1>2, <1>4
<1>7. /\ new \in [K \cup {key} -> NodeOver(K \cup {key})]
      /\ new[n].left = p.root /\ new[n].right = R
      /\ new[n].stamp = nodes[n].stamp /\ new[n].val = nodes[n].val
      /\ \A m \in (K \cup {key}) \ {n} : new[m] = p.nodes[m]
  <2>1. [p.nodes[n] EXCEPT !.left = p.root] \in NodeOver(K \cup {key})
    <3>1. p.nodes[n] \in NodeOver(K \cup {key})
      BY <1>4
    <3> QED BY <1>4, <3>1 DEF NodeOver
  <2>2. nodes[n] \in [stamp : Nat, left : K \cup {Nil}, right : K \cup {Nil}, val : Nat]
    BY <1>2 DEF NodeOver
  <2> QED BY <2>1, <2>2, <1>4, <1>6
<1> DEFINE s2 == [m \in K \cup {key} |-> IF m = n THEN sub[n] \cup {key}
                                         ELSE IF m \in AL THEN s[m] ELSE sub[m]]
<1> HIDE DEF new, L, R, AL
<1>8. key \in AL /\ AL = At(sub, L) \cup {key} /\ AR = At(sub, R)
  BY DEF AL
<1>9. /\ \A m \in K \ sub[n] : new[m] = nodes[m]
      /\ KeepsStamps(nodes, new, K)
      /\ new[key].stamp = t.priority /\ new[key].val = 0
  <2>1. \A m \in K \ sub[n] : new[m] = nodes[m]
    <3>1. \A m \in K \ sub[n] : m # n /\ m # key /\ ~(m \in AL)
      BY <1>1, <1>2, <1>3
    <3> QED BY <3>1, <1>4, <1>7, <1>8
  <2>2. KeepsStamps(nodes, new, K)
    BY <1>4, <1>6, <1>7 DEF KeepsStamps
  <2>3. new[key] = p.nodes[key]
    BY <1>1, <1>7
  <2> QED BY <1>4, <2>1, <2>2, <2>3
<1> HIDE DEF AR
<1>10. /\ s2[n] = sub[n] \cup {key}
       /\ \A m \in AL : s2[m] = s[m]
       /\ \A m \in AR : s2[m] = sub[m]
  BY <1>2, <1>3
<1>11. TreeOn(new, s2, AL)
  <2>1. ASSUME NEW m \in AL PROVE Ordered(new, s2, m) /\ s2[m] \subseteq AL
    <3>1. Ordered(p.nodes, s, m) /\ s[m] \subseteq AL
      BY <1>5 DEF TreeOn
    <3>2. new[m] = p.nodes[m] /\ s2[m] = s[m]
      BY <1>3, <1>7, <1>10
    <3>3. \A x \in s[m] : s2[x] = s[x] /\ new[x].stamp = p.nodes[x].stamp
      BY <1>3, <1>7, <1>10, <3>1
    <3> HIDE DEF s2
    <3> QED BY <3>1, <3>2, <3>3, OrderedFrame
  <2> QED BY <2>1 DEF TreeOn
<1>12. \A m \in AR : sub[m] \subseteq AR /\ m \in K
  BY <1>2, <1>3, <1>8 DEF Ordered, R
<1>13. TreeOn(new, s2, AR)
  <2>1. ASSUME NEW m \in AR PROVE Ordered(new, s2, m) /\ s2[m] \subseteq AR
    <3>1. Ordered(nodes, sub, m)
      BY <1>1, <1>12, ForestNode
    <3>2. new[m] = nodes[m]
      BY <1>3, <1>4, <1>7, <1>8
    <3>3. \A x \in sub[m] : s2[x] = sub[x] /\ new[x].stamp = nodes[x].stamp
      BY <1>9, <1>10, <1>12 DEF KeepsStamps
    <3> HIDE DEF s2
    <3> QED BY <3>1, <3>2, <3>3, <1>10, <1>12, OrderedFrame
  <2> QED BY <2>1 DEF TreeOn
<1>14. At(s2, p.root) = AL
  <2>1. p.root # Nil
    BY <1>1, <1>4 DEF Nil
  <2> HIDE DEF s2
  <2> QED BY <1>5, <1>10, <2>1 DEF At
<1>15. At(s2, R) = AR /\ R \in AR \cup {Nil}
  <2>1. R # Nil => R \in AR
    <3>1. R # Nil => R \in K
      BY <1>2 DEF NodeOver, R
    <3> QED BY <1>1, <1>8, <3>1, ForestNode
  <2> HIDE DEF s2
  <2> QED BY <1>8, <1>10, <2>1 DEF At
<1> HIDE DEF s2
<1>16. Ordered(new, s2, n)
  <2>1. s2[n] = {n} \cup At(s2, p.root) \cup At(s2, R)
    BY <1>3, <1>10, <1>14, <1>15
  <2>2. p.root \in s2[n] /\ R \in s2[n] \cup {Nil}
    BY <1>5, <1>14, <1>15, <2>1
  <2>3. \A m \in At(s2, p.root) : m < n /\ s2[m] \subseteq At(s2, p.root)
    BY <1>3, <1>11, <1>14 DEF TreeOn
  <2>4. \A m \in At(s2, R) : n < m /\ s2[m] \subseteq At(s2, R)
    BY <1>3, <1>13, <1>15 DEF TreeOn
  <2>5. \A m \in s2[n] : new[n].stamp <= new[m].stamp
    <3>1. \A m \in sub[n] : nodes[n].stamp <= new[m].stamp
      BY <1>2, <1>9 DEF Ordered, KeepsStamps
    <3>2. nodes[n].stamp \in Nat
      BY <1>2 DEF NodeOver
    <3> QED BY <1>1, <1>7, <1>9, <1>10, <3>1, <3>2
  <2> QED BY <1>7, <2>1, <2>2, <2>3, <2>4, <2>5 DEF Ordered
<1>17. TreeOn(new, s2, sub[n] \cup {key}) /\ n \in s2[n]
  BY <1>3, <1>10, <1>11, <1>13, <1>16 DEF TreeOn
<1>18. q \in Grafts(K, key) /\ q.root = n /\ q.nodes = new
  BY <1>7 DEF Grafts
<1> HIDE DEF q
<1>19. Grafted(t, sub, K, key, n, q)
  BY <1>2, <1>9, <1>10, <1>17, <1>18 DEF Grafted
<1> QED BY <1>19 DEF q, new, LinkLeft

\* The new node has gone under n, on its right.
LinkRight(p, n) == [root |-> n, nodes |-> [p.nodes EXCEPT ![n] = [@ EXCEPT !.right = p.root]]]

(* The new node goes under n, on its right.                                *)
LEMMA GraftedRight ==
  ASSUME NEW t, NEW sub, NEW K, NEW key, Graftable(t, sub, K, key),
         NEW n \in K, n < key, t.nodes[n].stamp < t.priority,
         NEW p, Grafted(t, sub, K, key, t.nodes[n].right, p)
  PROVE  Grafted(t, sub, K, key, n, LinkRight(p, n))
<1> DEFINE nodes == t.nodes
           R == nodes[n].right
           L == nodes[n].left
           new == [p.nodes EXCEPT ![n] = [@ EXCEPT !.right = p.root]]
           q == [root |-> n, nodes |-> new]
           AR == At(sub, R) \cup {key}
           AL == At(sub, L)
<1>1. /\ Forest(nodes, sub, K) /\ key \in Nat /\ ~(key \in K) /\ t.priority \in Nat
      /\ K \subseteq Nat /\ nodes \in [K -> NodeOver(K)]
  BY DEF Graftable, Dividable, Forest
<1>2. /\ n \in Nat /\ n # Nil /\ Ordered(nodes, sub, n) /\ sub[n] \subseteq K
      /\ At(sub, n) = sub[n] /\ n \in sub[n] /\ ~(n \in At(sub, R))
      /\ nodes[n] \in NodeOver(K)
  BY <1>1, ForestNode
<1>3. /\ \A m \in AR : m \in Nat /\ n < m /\ m # n /\ m \in K \cup {key}
      /\ \A m \in AL : m \in Nat /\ m < n /\ m \in K /\ m # n /\ ~(m \in AR)
      /\ sub[n] \cup {key} = {n} \cup AR \cup AL
  <2>1. sub[n] = {n} \cup At(sub, R) \cup AL
    BY <1>2 DEF Ordered
  <2>2. \A m \in AR : m \in Nat /\ n < m /\ m \in K \cup {key}
    BY <1>1, <1>2, <2>1 DEF Ordered
  <2>3. \A m \in AL : m \in Nat /\ m < n /\ m \in K
    BY <1>1, <1>2, <2>1 DEF Ordered
  <2> HIDE DEF AL
  <2>4. sub[n] \cup {key} = {n} \cup AR \cup AL
    BY <2>1
  <2> HIDE DEF AR
  <2> QED BY <1>2, <2>2, <2>3, <2>4
<1>4. /\ p.root \in K \cup {key} /\ p.nodes \in [K \cup {key} -> NodeOver(K \cup {key})]
      /\ \A m \in K \ At(sub, R) : p.nodes[m] = nodes[m]
      /\ KeepsStamps(nodes, p.nodes, K)
      /\ p.nodes[key].stamp = t.priority /\ p.nodes[key].val = 0
  BY DEF Grafted, Grafts
<1>5. PICK s : s[p.root] = AR /\ p.root \in AR /\ TreeOn(p.nodes, s, AR)
  BY DEF Grafted
<1>6. p.nodes[n] = nodes[n]
  BY <1>2, <1>4
<1>7. /\ new \in [K \cup {key} -> NodeOver(K \cup {key})]
      /\ new[n].right = p.root /\ new[n].left = L
      /\ new[n].stamp = nodes[n].stamp /\ new[n].val = nodes[n].val
      /\ \A m \in (K \cup {key}) \ {n} : new[m] = p.nodes[m]
  <2>1. [p.nodes[n] EXCEPT !.right = p.root] \in NodeOver(K \cup {key})
    <3>1. p.nodes[n] \in NodeOver(K \cup {key})
      BY <1>4
    <3> QED BY <1>4, <3>1 DEF NodeOver
  <2>2. nodes[n] \in [stamp : Nat, right : K \cup {Nil}, left : K \cup {Nil}, val : Nat]
    BY <1>2 DEF NodeOver
  <2> QED BY <2>1, <2>2, <1>4, <1>6
<1> DEFINE s2 == [m \in K \cup {key} |-> IF m = n THEN sub[n] \cup {key}
                                         ELSE IF m \in AR THEN s[m] ELSE sub[m]]
<1> HIDE DEF new, R, L, AR
<1>8. key \in AR /\ AR = At(sub, R) \cup {key} /\ AL = At(sub, L)
  BY DEF AR
<1>9. /\ \A m \in K \ sub[n] : new[m] = nodes[m]
      /\ KeepsStamps(nodes, new, K)
      /\ new[key].stamp = t.priority /\ new[key].val = 0
  <2>1. \A m \in K \ sub[n] : new[m] = nodes[m]
    <3>1. \A m \in K \ sub[n] : m # n /\ m # key /\ ~(m \in AR)
      BY <1>1, <1>2, <1>3
    <3> QED BY <3>1, <1>4, <1>7, <1>8
  <2>2. KeepsStamps(nodes, new, K)
    BY <1>4, <1>6, <1>7 DEF KeepsStamps
  <2>3. new[key] = p.nodes[key]
    BY <1>1, <1>7
  <2> QED BY <1>4, <2>1, <2>2, <2>3
<1> HIDE DEF AL
<1>10. /\ s2[n] = sub[n] \cup {key}
       /\ \A m \in AR : s2[m] = s[m]
       /\ \A m \in AL : s2[m] = sub[m]
  BY <1>2, <1>3
<1>11. TreeOn(new, s2, AR)
  <2>1. ASSUME NEW m \in AR PROVE Ordered(new, s2, m) /\ s2[m] \subseteq AR
    <3>1. Ordered(p.nodes, s, m) /\ s[m] \subseteq AR
      BY <1>5 DEF TreeOn
    <3>2. new[m] = p.nodes[m] /\ s2[m] = s[m]
      BY <1>3, <1>7, <1>10
    <3>3. \A x \in s[m] : s2[x] = s[x] /\ new[x].stamp = p.nodes[x].stamp
      BY <1>3, <1>7, <1>10, <3>1
    <3> HIDE DEF s2
    <3> QED BY <3>1, <3>2, <3>3, OrderedFrame
  <2> QED BY <2>1 DEF TreeOn
<1>12. \A m \in AL : sub[m] \subseteq AL /\ m \in K
  BY <1>2, <1>3, <1>8 DEF Ordered, L
<1>13. TreeOn(new, s2, AL)
  <2>1. ASSUME NEW m \in AL PROVE Ordered(new, s2, m) /\ s2[m] \subseteq AL
    <3>1. Ordered(nodes, sub, m)
      BY <1>1, <1>12, ForestNode
    <3>2. new[m] = nodes[m]
      BY <1>3, <1>4, <1>7, <1>8
    <3>3. \A x \in sub[m] : s2[x] = sub[x] /\ new[x].stamp = nodes[x].stamp
      BY <1>9, <1>10, <1>12 DEF KeepsStamps
    <3> HIDE DEF s2
    <3> QED BY <3>1, <3>2, <3>3, <1>10, <1>12, OrderedFrame
  <2> QED BY <2>1 DEF TreeOn
<1>14. At(s2, p.root) = AR
  <2>1. p.root # Nil
    BY <1>1, <1>4 DEF Nil
  <2> HIDE DEF s2
  <2> QED BY <1>5, <1>10, <2>1 DEF At
<1>15. At(s2, L) = AL /\ L \in AL \cup {Nil}
  <2>1. L # Nil => L \in AL
    <3>1. L # Nil => L \in K
      BY <1>2 DEF NodeOver, L
    <3> QED BY <1>1, <1>8, <3>1, ForestNode
  <2> HIDE DEF s2
  <2> QED BY <1>8, <1>10, <2>1 DEF At
<1> HIDE DEF s2
<1>16. Ordered(new, s2, n)
  <2>1. s2[n] = {n} \cup At(s2, p.root) \cup At(s2, L)
    BY <1>3, <1>10, <1>14, <1>15
  <2>2. p.root \in s2[n] /\ L \in s2[n] \cup {Nil}
    BY <1>5, <1>14, <1>15, <2>1
  <2>3. \A m \in At(s2, p.root) : n < m /\ s2[m] \subseteq At(s2, p.root)
    BY <1>3, <1>11, <1>14 DEF TreeOn
  <2>4. \A m \in At(s2, L) : m < n /\ s2[m] \subseteq At(s2, L)
    BY <1>3, <1>13, <1>15 DEF TreeOn
  <2>5. \A m \in s2[n] : new[n].stamp <= new[m].stamp
    <3>1. \A m \in sub[n] : nodes[n].stamp <= new[m].stamp
      BY <1>2, <1>9 DEF Ordered, KeepsStamps
    <3>2. nodes[n].stamp \in Nat
      BY <1>2 DEF NodeOver
    <3> QED BY <1>1, <1>7, <1>9, <1>10, <3>1, <3>2
  <2> QED BY <1>7, <2>1, <2>2, <2>3, <2>4, <2>5 DEF Ordered
<1>17. TreeOn(new, s2, sub[n] \cup {key}) /\ n \in s2[n]
  BY <1>3, <1>10, <1>11, <1>13, <1>16 DEF TreeOn
<1>18. q \in Grafts(K, key) /\ q.root = n /\ q.nodes = new
  BY <1>7 DEF Grafts
<1> HIDE DEF q
<1>19. Grafted(t, sub, K, key, n, q)
  BY <1>2, <1>9, <1>10, <1>17, <1>18 DEF Grafted
<1> QED BY <1>19 DEF q, new, LinkRight

Linked(p, n, side) == [root |-> n, nodes |-> [p.nodes EXCEPT ![n][side] = p.root]]

(* Hanging a tree under n changes one child of n, and no more.             *)
LEMMA LinkIs ==
  ASSUME NEW K, K \subseteq Nat, NEW key, NEW p \in Grafts(K, key), NEW n \in K
  PROVE  /\ Linked(p, n, "left") = LinkLeft(p, n) /\ LinkLeft(p, n) \in Grafts(K, key)
         /\ Linked(p, n, "right") = LinkRight(p, n) /\ LinkRight(p, n) \in Grafts(K, key)
<1>1. p.root \in K \cup {key} /\ p.nodes \in [K \cup {key} -> NodeOver(K \cup {key})]
      /\ p.nodes[n] \in NodeOver(K \cup {key})
  BY DEF Grafts
<1>2. [p.nodes[n] EXCEPT !.left = p.root] \in NodeOver(K \cup {key})
      /\ [p.nodes[n] EXCEPT !.right = p.root] \in NodeOver(K \cup {key})
  BY <1>1 DEF NodeOver
<1>3. LinkLeft(p, n) \in Grafts(K, key)
  <2>1. [p.nodes EXCEPT ![n] = [@ EXCEPT !.left = p.root]]
          \in [K \cup {key} -> NodeOver(K \cup {key})]
    BY <1>1, <1>2
  <2> QED BY <2>1 DEF LinkLeft, Grafts
<1>4. LinkRight(p, n) \in Grafts(K, key)
  <2>1. [p.nodes EXCEPT ![n] = [@ EXCEPT !.right = p.root]]
          \in [K \cup {key} -> NodeOver(K \cup {key})]
    BY <1>1, <1>2
  <2> QED BY <2>1 DEF LinkRight, Grafts
<1>5. Linked(p, n, "left") = LinkLeft(p, n)
  BY Zenon DEF Linked, LinkLeft
<1>6. Linked(p, n, "right") = LinkRight(p, n)
  BY Zenon DEF Linked, LinkRight
<1> QED BY <1>3, <1>4, <1>5, <1>6

(* A key that a tree does not have goes into it, and the tree is one.      *)
LEMMA GraftIs ==
  ASSUME NEW t, NEW sub, NEW K, NEW key, Graftable(t, sub, K, key),
         t.root \in K \cup {Nil}
  PROVE  Grafted(t, sub, K, key, t.root, Graft(t, key))
<1> DEFINE nodes == t.nodes
           S == K \cup {Nil}
           V == Grafts(K, key)
           Stop(n) == n = Nil \/ nodes[n].stamp >= t.priority
           Here(n) == LET p == Divide(nodes, n, key)
                      IN  [root  |-> key,
                           nodes |-> [m \in DOMAIN p.nodes \cup {key} |->
                                        IF m # key THEN p.nodes[m]
                                        ELSE [stamp |-> t.priority, val   |-> 0,
                                              left  |-> p.below,    right |-> p.above]]]
           Body(n, g) == IF n = Nil \/ t.nodes[n].stamp >= t.priority
                           THEN LET p == Divide(t.nodes, n, key)
                                IN  [root  |-> key,
                                     nodes |-> [m \in DOMAIN p.nodes \cup {key} |->
                                                  IF m # key THEN p.nodes[m]
                                                  ELSE [stamp |-> t.priority, val   |-> 0,
                                                        left  |-> p.below, right |-> p.above]]]
                         ELSE LET side == IF key < n THEN "left" ELSE "right"
                                  p    == g[t.nodes[n][side]]
                              IN  [root |-> n, nodes |-> [p.nodes EXCEPT ![n][side] = p.root]]
           F(g) == [n \in DOMAIN t.nodes \cup {Nil} |-> Body(n, g)]
           h == CHOOSE g : g = F(g)
           Next(n) == IF n = Nil THEN Nil
                      ELSE IF key < n THEN nodes[n].left ELSE nodes[n].right
           Link(n, p) == IF n = Nil THEN p
                         ELSE IF key < n THEN LinkLeft(p, n) ELSE LinkRight(p, n)
           Stops == { n \in S : Stop(n) }
           child == [n \in S |-> Next(n)]
           base == [n \in S |-> IF Stop(n) THEN Here(n) ELSE Here(Nil)]
           step == [x \in S \X V |-> Link(x[1], x[2])]
<1>1. /\ DOMAIN nodes = K /\ nodes \in [K -> NodeOver(K)] /\ Forest(nodes, sub, K)
      /\ Dividable(nodes, sub, K, key)
      /\ key \in Nat /\ ~(key \in K) /\ K \subseteq Nat
      /\ \A n \in K : n # Nil /\ nodes[n].left \in S /\ nodes[n].right \in S
  <2>1. Dividable(nodes, sub, K, key) /\ Forest(nodes, sub, K) /\ key \in Nat /\ ~(key \in K)
    BY DEF Dividable, Graftable
  <2>2. DOMAIN nodes = K /\ nodes \in [K -> NodeOver(K)] /\ K \subseteq Nat
    BY <2>1 DEF Forest
  <2>3. \A n \in K : n # Nil /\ nodes[n].left \in S /\ nodes[n].right \in S
    BY <2>1, ForestNode
  <2> QED BY <2>1, <2>2, <2>3
<1>2. ASSUME NEW n \in S, Stop(n) PROVE Grafted(t, sub, K, key, n, Here(n)) /\ Here(n) \in V
  <2>1. Divided(nodes, sub, K, key, n, Divide(nodes, n, key))
    BY <1>1, DivideIs
  <2>2. Grafted(t, sub, K, key, n,
          [root |-> key,
           nodes |-> Grow(K, key, NewNode(t, Divide(nodes, n, key)), Divide(nodes, n, key).nodes)])
    BY <1>2, <2>1, GraftedHere
  <2>3. DOMAIN Divide(nodes, n, key).nodes = K
    BY <2>1 DEF Divided, Halves
  <2>4. Here(n) =
          [root |-> key,
           nodes |-> Grow(K, key, NewNode(t, Divide(nodes, n, key)), Divide(nodes, n, key).nodes)]
    BY <2>3 DEF Grow, NewNode
  <2> QED BY <2>2, <2>4 DEF Grafted
<1> HIDE DEF Here
<1>3. \A n \in S : Next(n) \in S
  BY <1>1
<1>4. \A n \in S, p \in V : Link(n, p) \in V
  BY <1>1, LinkIs
<1>5. \E f \in [S -> V] : Solves(f, S, Stops, child, base, step, S)
  <2>1. child \in [S -> S] /\ base \in [S -> V]
    <3>1. \A n \in S : (IF Stop(n) THEN Here(n) ELSE Here(Nil)) \in V
      <4>1. Stop(Nil) /\ Nil \in S
        OBVIOUS
      <4> HIDE DEF Stop, V, S
      <4> QED BY <4>1, <1>2
    <3> HIDE DEF Stop, Next, V, S
    <3> QED BY <1>3, <3>1
  <2>2. step \in [S \X V -> V]
    <3>1. ASSUME NEW x \in S \X V PROVE Link(x[1], x[2]) \in V
      <4>1. x[1] \in S /\ x[2] \in V
        <5> HIDE DEF S, V
        <5> QED OBVIOUS
      <4> HIDE DEF S, V, Link
      <4> QED BY <4>1, <1>4
    <3> HIDE DEF S, V, Link
    <3> QED BY <3>1
  <2>3. \A n \in K \ Stops : child[n] \in {nodes[n].left, nodes[n].right}
    <3> HIDE DEF Stop
    <3> QED BY <1>1
  <2>4. S = K \cup {Nil} /\ Nil \in Stops /\ Forest(nodes, sub, K)
    BY <1>1
  <2> HIDE DEF S, V, Stops, child, base, step
  <2> QED BY ONLY <2>1, <2>2, <2>3, <2>4, WalkIs
<1>6. PICK f \in [S -> V] : Solves(f, S, Stops, child, base, step, S)
  BY <1>5
<1>7. ASSUME NEW n \in S
      PROVE  /\ f[Next(n)] \in V
             /\ f[n] = IF Stop(n) THEN Here(n) ELSE Link(n, f[Next(n)])
  <2>1. f[n] = IF n \in Stops THEN base[n] ELSE step[<<n, f[child[n]]>>]
    BY <1>6 DEF Solves
  <2>2. child[n] = Next(n) /\ f[Next(n)] \in V
    <3> HIDE DEF Next, V
    <3> QED BY <1>3
  <2>3. step[<<n, f[Next(n)]>>] = Link(n, f[Next(n)])
    <3> HIDE DEF Next, Link, V, S
    <3> QED BY <2>2
  <2>4. Stop(n) => base[n] = Here(n)
    <3> HIDE DEF Stop
    <3> QED OBVIOUS
  <2>5. n \in Stops <=> Stop(n)
    <3> HIDE DEF Stop
    <3> QED OBVIOUS
  <2> HIDE DEF Link, Next, Stop, Stops, step, base, child
  <2> QED BY <2>1, <2>2, <2>3, <2>4, <2>5
<1>8. ASSUME NEW g, NEW n \in S, g[Next(n)] \in V
      PROVE  Body(n, g) = IF Stop(n) THEN Here(n) ELSE Link(n, g[Next(n)])
  <2>1. CASE Stop(n)
    <3>1. Body(n, g) = Here(n)
      BY <2>1, Zenon DEF Here
    <3> HIDE DEF Body, Stop
    <3> QED BY <2>1, <3>1
  <2>2. CASE ~Stop(n)
    <3>1. n \in K /\ n # Nil
      BY <2>2
    <3> DEFINE side == IF key < n THEN "left" ELSE "right"
    <3>2. Body(n, g) = Linked(g[nodes[n][side]], n, side)
      BY <2>2, Zenon DEF Linked
    <3>3. nodes[n][side] = Next(n) /\ side = IF key < n THEN "left" ELSE "right"
      BY <3>1
    <3>4. Linked(g[Next(n)], n, side) = Link(n, g[Next(n)])
      <4>1. /\ Linked(g[Next(n)], n, "left") = LinkLeft(g[Next(n)], n)
            /\ Linked(g[Next(n)], n, "right") = LinkRight(g[Next(n)], n)
        <5> DEFINE r == g[Next(n)]
        <5>1. r \in Grafts(K, key) /\ n \in K /\ K \subseteq Nat
          <6>1. K \subseteq Nat
            BY <1>1
          <6>2. g[Next(n)] \in V
            BY <1>8
          <6> HIDE DEF Next, Stop, Body, Link
          <6> QED BY <6>1, <6>2, <3>1
        <5> HIDE DEF r
        <5>2. /\ Linked(r, n, "left") = LinkLeft(r, n) /\ LinkLeft(r, n) \in Grafts(K, key)
              /\ Linked(r, n, "right") = LinkRight(r, n) /\ LinkRight(r, n) \in Grafts(K, key)
          BY ONLY <5>1, LinkIs
        <5> QED BY <5>2 DEF r
      <4>2. CASE key < n
        <5>1. side = "left" /\ Link(n, g[Next(n)]) = LinkLeft(g[Next(n)], n)
          BY <3>1, <4>2
        <5> HIDE DEF side, Link, Next
        <5> QED BY <4>1, <5>1
      <4>3. CASE ~(key < n)
        <5>1. side = "right" /\ Link(n, g[Next(n)]) = LinkRight(g[Next(n)], n)
          BY <3>1, <4>3
        <5> HIDE DEF side, Link, Next
        <5> QED BY <4>1, <5>1
      <4> QED BY <4>2, <4>3
    <3> HIDE DEF Body, Link, Next, Stop, side
    <3> QED BY <2>2, <3>2, <3>3, <3>4
  <2> QED BY <2>1, <2>2
<1>9. Graft(t, key) = h[t.root]
  BY DEF Graft
<1> HIDE DEF Body
<1>10. h = F(h)
  <2>1. f = F(f)
    <3>1. \A n \in S : f[n] = Body(n, f)
      <4> HIDE DEF Link, Next, V, S, Stop
      <4> QED BY <1>7, <1>8
    <3> QED BY <3>1, <1>1
  <2> HIDE DEF F
  <2> QED BY <2>1
<1> HIDE DEF h
<1>11. \A n \in S : h[n] = Body(n, h)
  BY <1>1, <1>10
<1> DEFINE Bad == { n \in S : ~Grafted(t, sub, K, key, n, h[n]) }
<1>12. Bad = {}
  <2>1. ASSUME NEW n \in S, Stop(n) PROVE h[n] = Here(n)
    <3>1. CASE n = Nil
      <4>1. Body(n, h) = Here(n)
        BY <3>1, Zenon DEF Body, Here
      <4> QED BY <1>11, <4>1
    <3>2. CASE n # Nil
      <4>1. Body(n, h) = Here(n)
        BY <2>1, Zenon DEF Body, Here
      <4> QED BY <1>11, <4>1
    <3> QED BY <3>1, <3>2
  <2>2. \A n \in S : Stop(n) => ~(n \in Bad)
    <3> HIDE DEF Stop, S
    <3> QED BY <1>2, <2>1
  <2>3. SUFFICES ASSUME Bad # {} PROVE FALSE
    OBVIOUS
  <2>4. PICK n \in Bad : n \in K /\ ~(nodes[n].left \in Bad) /\ ~(nodes[n].right \in Bad)
    BY <1>1, <2>2, <2>3, AmongDeepest
  <2>5. n \in Nat /\ n # Nil /\ ~Stop(n) /\ nodes[n].stamp < t.priority
    <3>1. n \in Nat /\ n # Nil /\ ~Stop(n)
      BY <1>1, <2>2, <2>4
    <3>2. nodes[n].stamp \in Nat /\ t.priority \in Nat
      BY <1>1, <2>4 DEF NodeOver, Graftable
    <3> QED BY <3>1, <3>2
  <2>6. CASE key < n
    <3>1. Grafted(t, sub, K, key, nodes[n].left, h[nodes[n].left])
      BY <1>1, <2>4
    <3>2. Grafted(t, sub, K, key, n, LinkLeft(h[nodes[n].left], n))
      BY <2>4, <2>5, <2>6, <3>1, GraftedLeft
    <3>3. h[nodes[n].left] \in V
      BY <3>1 DEF Grafted
    <3>4. Next(n) = nodes[n].left /\ Link(n, h[Next(n)]) = LinkLeft(h[nodes[n].left], n)
      BY <2>5, <2>6
    <3>5. h[n] = LinkLeft(h[nodes[n].left], n)
      <4> HIDE DEF Link, Next, Stop
      <4> QED BY <1>8, <1>11, <2>4, <2>5, <3>3, <3>4
    <3> QED BY <2>4, <3>2, <3>5
  <2>7. CASE n < key
    <3>1. Grafted(t, sub, K, key, nodes[n].right, h[nodes[n].right])
      BY <1>1, <2>4
    <3>2. Grafted(t, sub, K, key, n, LinkRight(h[nodes[n].right], n))
      BY <2>4, <2>5, <2>7, <3>1, GraftedRight
    <3>3. h[nodes[n].right] \in V
      BY <3>1 DEF Grafted
    <3>4. Next(n) = nodes[n].right /\ Link(n, h[Next(n)]) = LinkRight(h[nodes[n].right], n)
      <4>1. ~(key < n)
        BY <1>1, <2>5, <2>7
      <4> QED BY <2>5, <4>1
    <3>5. h[n] = LinkRight(h[nodes[n].right], n)
      <4> HIDE DEF Link, Next, Stop
      <4> QED BY <1>8, <1>11, <2>4, <2>5, <3>3, <3>4
    <3> QED BY <2>4, <3>2, <3>5
  <2> QED BY <2>4, <2>5, <2>6, <2>7, <1>1
<1> QED BY <1>9, <1>12

-----------------------------------------------------------------------------
(* The treap as a whole, and what its operations make of it.               *)

TreapOver(K) ==
  [root : K \cup {Nil}, last : K \cup {Nil}, priority : Nat, nodes : [K -> NodeOver(K)]]

IsMap(t, K) ==
  /\ t \in TreapOver(K)
  /\ \E sub : Forest(t.nodes, sub, K) /\ At(sub, t.root) = K

(* What is known of a map.                                                 *)
LEMMA MapKeys ==
  ASSUME NEW t, NEW K, IsMap(t, K)
  PROVE  /\ K \subseteq Nat /\ IsFiniteSet(K) /\ DOMAIN t.nodes = K
         /\ ~(Nil \in K)
         /\ t.root \in K \cup {Nil} /\ t.last \in K \cup {Nil} /\ t.priority \in Nat
         /\ t.nodes \in [K -> NodeOver(K)]
<1>1. K \subseteq Nat /\ IsFiniteSet(K)
  BY DEF IsMap, Forest
<1>2. ~(Nil \in K)
  BY <1>1 DEF Nil
<1>3. /\ t.root \in K \cup {Nil} /\ t.last \in K \cup {Nil} /\ t.priority \in Nat
      /\ t.nodes \in [K -> NodeOver(K)]
  BY DEF IsMap, TreapOver
<1> QED BY <1>1, <1>2, <1>3

(* A new treap has no keys.                                                *)
LEMMA EmptyIsMap == IsMap(EmptyTreap, {})
<1>1. EmptyTreap \in TreapOver({})
  <2>1. <<>> \in [{} -> NodeOver({})]
    OBVIOUS
  <2>2. FirstPriority \in Nat
    BY TreapAssumption
  <2> QED BY <2>1, <2>2 DEF EmptyTreap, TreapOver
<1>2. EmptyTreap.nodes = <<>> /\ EmptyTreap.root = Nil
  BY DEF EmptyTreap
<1>3. \A sub : Forest(<<>>, sub, {})
  <2>1. <<>> \in [{} -> NodeOver({})]
    OBVIOUS
  <2> QED BY <2>1, FS_EmptySet DEF Forest, TreeOn
<1>4. \A sub : At(sub, Nil) = {}
  BY DEF At
<1> QED BY <1>1, <1>2, <1>3, <1>4 DEF IsMap

(* A key is found when it is there, and only then.                         *)
LEMMA FindIs ==
  ASSUME NEW t, NEW K, IsMap(t, K), NEW key \in Nat
  PROVE  Find(t, key) = IF key \in K THEN key ELSE Nil
<1>1. PICK sub : Forest(t.nodes, sub, K) /\ At(sub, t.root) = K
  BY DEF IsMap
<1>2. t.root \in K \cup {Nil} /\ t.last \in K \cup {Nil}
  BY MapKeys
<1>3. Search(t, key) = IF key \in K THEN key ELSE Nil
  BY <1>1, <1>2, SearchIs
<1> QED BY <1>2, <1>3 DEF Find

(* The node of the latest answer is all that a lookup changes.             *)
LEMMA LastIs ==
  ASSUME NEW t, NEW K, IsMap(t, K), NEW key \in K
  PROVE  IsMap([t EXCEPT !.last = key], K) /\ [t EXCEPT !.last = key].nodes = t.nodes
<1> DEFINE u == [t EXCEPT !.last = key]
<1>1. u \in TreapOver(K) /\ u.nodes = t.nodes /\ u.root = t.root
  BY DEF IsMap, TreapOver
<1> HIDE DEF u
<1> QED BY <1>1 DEF IsMap, u

(* A lookup answers that, and changes no key and no value.                 *)
LEMMA LookupIs ==
  ASSUME NEW t, NEW K, IsMap(t, K), NEW key \in Nat
  PROVE  /\ LookupKey(t, key).node = IF key \in K THEN key ELSE Nil
         /\ IsMap(LookupKey(t, key).treap, K)
         /\ LookupKey(t, key).treap.nodes = t.nodes
<1>1. Find(t, key) = IF key \in K THEN key ELSE Nil
  BY FindIs
<1>2. ~(Nil \in K)
  BY MapKeys
<1>3. CASE key \in K
  BY <1>1, <1>2, <1>3, LastIs DEF LookupKey
<1>4. CASE ~(key \in K)
  BY <1>1, <1>4 DEF LookupKey
<1> QED BY <1>3, <1>4

(* An insertion tells whether the key is new, adds it if so, and changes   *)
(* no value.                                                               *)
LEMMA InsertIs ==
  ASSUME NEW t, NEW K, IsMap(t, K), NEW key \in Nat
  PROVE  /\ InsertKey(t, key).isNew = IF key \in K THEN FALSE ELSE TRUE
         /\ IsMap(InsertKey(t, key).treap, K \cup {key})
         /\ \A m \in K : InsertKey(t, key).treap.nodes[m].val = t.nodes[m].val
<1>1. Find(t, key) = IF key \in K THEN key ELSE Nil
  BY FindIs
<1>2. ~(Nil \in K)
  BY MapKeys
<1>3. CASE key \in K
  <2>1. InsertKey(t, key) = [treap |-> [t EXCEPT !.last = key], isNew |-> FALSE]
    BY <1>1, <1>2, <1>3 DEF InsertKey
  <2>2. K \cup {key} = K
    BY <1>3
  <2>3. /\ IsMap([t EXCEPT !.last = key], K)
        /\ [t EXCEPT !.last = key].nodes = t.nodes
    BY <1>3, LastIs
  <2> DEFINE u == [t EXCEPT !.last = key]
  <2>4. InsertKey(t, key).isNew = FALSE /\ InsertKey(t, key).treap = u
    BY <2>1
  <2> HIDE DEF u
  <2>5. IsMap(u, K \cup {key}) /\ u.nodes = t.nodes
    BY <2>2, <2>3 DEF u
  <2> QED BY <1>3, <2>4, <2>5
<1>4. CASE ~(key \in K)
  <2> DEFINE g == Graft(t, key)
             u == [t EXCEPT !.root = g.root, !.nodes = g.nodes, !.last = key,
                            !.priority = (@ + Golden) % WordMod]
  <2>1. InsertKey(t, key) = [treap |-> u, isNew |-> TRUE]
    BY <1>1, <1>4, Zenon DEF InsertKey
  <2>2. PICK sub : Forest(t.nodes, sub, K) /\ At(sub, t.root) = K
    BY DEF IsMap
  <2>3. Graftable(t, sub, K, key)
    BY <2>2, <1>4, MapKeys DEF Graftable, Dividable
  <2>4. Grafted(t, sub, K, key, t.root, g)
    BY <2>3, MapKeys, GraftIs
  <2> HIDE DEF g
  <2>5. g.root \in K \cup {key} /\ g.nodes \in [K \cup {key} -> NodeOver(K \cup {key})]
    BY <2>4 DEF Grafted, Grafts
  <2>6. PICK s : s[g.root] = K \cup {key} /\ TreeOn(g.nodes, s, K \cup {key})
    BY <2>2, <2>4 DEF Grafted
  <2>7. (t.priority + Golden) % WordMod \in Nat
    <3>1. t.priority \in Nat /\ Golden \in Nat /\ WordMod \in Nat /\ WordMod > 0
      BY MapKeys, TreapAssumption
    <3> QED BY <3>1
  <2>8. u \in TreapOver(K \cup {key}) /\ u.nodes = g.nodes /\ u.root = g.root
    <3>1. t \in [root : K \cup {Nil}, last : K \cup {Nil}, priority : Nat,
                 nodes : [K -> NodeOver(K)]]
      BY DEF IsMap, TreapOver
    <3> QED BY <2>5, <2>7, <3>1 DEF TreapOver
  <2> HIDE DEF u
  <2>9. IsFiniteSet(K \cup {key}) /\ K \cup {key} \subseteq Nat
    BY MapKeys, FS_AddElement
  <2>10. Forest(u.nodes, s, K \cup {key})
    BY <2>5, <2>6, <2>8, <2>9 DEF Forest
  <2>11. At(s, u.root) = K \cup {key}
    <3>1. u.root # Nil
      BY <2>5, <2>8, <1>2 DEF Nil
    <3> QED BY <2>6, <2>8, <3>1 DEF At
  <2>12. IsMap(u, K \cup {key})
    BY <2>8, <2>10, <2>11 DEF IsMap
  <2>13. \A m \in K : u.nodes[m].val = t.nodes[m].val
    BY <2>4, <2>8 DEF Grafted, KeepsStamps
  <2>14. InsertKey(t, key).isNew = TRUE /\ InsertKey(t, key).treap = u
    BY <2>1
  <2> QED BY <1>4, <2>12, <2>13, <2>14
<1> QED BY <1>3, <1>4

(* A value is set for the one key.                                         *)
LEMMA SetValIs ==
  ASSUME NEW t, NEW K, IsMap(t, K), NEW key \in K, NEW v \in Nat
  PROVE  /\ IsMap(SetVal(t, key, v), K)
         /\ SetVal(t, key, v).nodes[key].val = v
         /\ \A m \in K \ {key} : SetVal(t, key, v).nodes[m].val = t.nodes[m].val
<1> DEFINE new == [t.nodes EXCEPT ![key] = [@ EXCEPT !.val = v]]
           u == SetVal(t, key, v)
<1>1. PICK sub : Forest(t.nodes, sub, K) /\ At(sub, t.root) = K
  BY DEF IsMap
<1>2. t.nodes \in [K -> NodeOver(K)]
  BY MapKeys
<1>3. /\ new \in [K -> NodeOver(K)]
      /\ \A m \in K \ {key} : new[m] = t.nodes[m]
      /\ new[key].val = v /\ new[key].stamp = t.nodes[key].stamp
      /\ new[key].left = t.nodes[key].left /\ new[key].right = t.nodes[key].right
  <2>1. t.nodes[key] \in [stamp : Nat, left : K \cup {Nil}, right : K \cup {Nil}, val : Nat]
    BY <1>2 DEF NodeOver
  <2>2. [t.nodes[key] EXCEPT !.val = v] \in NodeOver(K)
    BY <2>1 DEF NodeOver
  <2> QED BY <1>2, <2>1, <2>2
<1>4. u = [t EXCEPT !.nodes = new]
  BY Zenon DEF SetVal
<1>5. u \in TreapOver(K) /\ u.nodes = new /\ u.root = t.root
  <2>1. t \in [root : K \cup {Nil}, last : K \cup {Nil}, priority : Nat,
               nodes : [K -> NodeOver(K)]]
    BY DEF IsMap, TreapOver
  <2> HIDE DEF u, new
  <2> QED BY <1>3, <1>4, <2>1 DEF TreapOver
<1> HIDE DEF u, new
<1>6. Forest(u.nodes, sub, K)
  <2>1. \A m \in K : /\ new[m].stamp = t.nodes[m].stamp
                     /\ new[m].left = t.nodes[m].left /\ new[m].right = t.nodes[m].right
    BY <1>3
  <2>2. ASSUME NEW n \in K PROVE Ordered(new, sub, n) /\ sub[n] \subseteq K
    <3>1. Ordered(t.nodes, sub, n) /\ sub[n] \subseteq K
      BY <1>1, ForestNode
    <3> QED BY <2>1, <3>1, OrderedFrame
  <2> QED BY <1>1, <1>3, <1>5, <2>2 DEF Forest, TreeOn
<1> QED BY <1>1, <1>3, <1>5, <1>6 DEF IsMap, u

(* What the module itself says of a treap.                                 *)
LEMMA MapIsTreap ==
  ASSUME NEW t, NEW K, IsMap(t, K)
  PROVE  IsTreap(t)
<1>1. PICK sub : Forest(t.nodes, sub, K) /\ At(sub, t.root) = K
  BY DEF IsMap
<1>2. t.last \in DOMAIN t.nodes \cup {Nil} /\ DOMAIN t.nodes = K
  BY MapKeys
<1>3. ASSUME NEW n \in K
      PROVE  /\ Search(t, n) = n
             /\ \A c \in {t.nodes[n].left, t.nodes[n].right} \ {Nil} :
                  t.nodes[n].stamp <= t.nodes[c].stamp
  <2>1. n \in Nat /\ t.root \in K \cup {Nil}
    BY MapKeys
  <2>2. Search(t, n) = n
    BY <1>1, <2>1, SearchIs
  <2>3. Ordered(t.nodes, sub, n)
    BY <1>1, ForestNode
  <2> QED BY <2>2, <2>3 DEF Ordered
<1> QED BY <1>2, <1>3 DEF IsTreap


-----------------------------------------------------------------------------
(* As many members as there are numbers, each being the member of one.     *)
LEMMA CountOf ==
  ASSUME NEW n \in Nat, NEW adr, NEW K,
         \A i \in 1 .. n : adr[i] \in K,
         \A k \in K : \E i \in 1 .. n : adr[i] = k,
         \A i, j \in 1 .. n : adr[i] = adr[j] => i = j
  PROVE  Cardinality(K) = n
<1> DEFINE f == [i \in 1 .. n |-> adr[i]]
<1>1. f \in [1 .. n -> K] /\ \A i \in 1 .. n : f[i] = adr[i]
  OBVIOUS
<1> HIDE DEF f
<1>2. IsInjective(f)
  <2>1. DOMAIN f = 1 .. n
    BY <1>1
  <2> QED BY <1>1, <2>1 DEF IsInjective
<1>3. f \in Bijection(1 .. n, K)
  BY <1>1, <1>2 DEF Bijection, Injection, Surjection
<1>4. ExistsBijection(1 .. n, K)
  BY <1>3 DEF ExistsBijection
<1> QED BY ONLY <1>4, n \in Nat, FS_CountingElements
=============================================================================
