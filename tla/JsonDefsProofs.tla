--------------------------- MODULE JsonDefsProofs ----------------------------
(***************************************************************************)
(* Proofs about the definitions of a type library (JsonDefs): validation   *)
(* accepts the objects of a shared object only when they are the tree of   *)
(* a library, what it refuses is wrong, what is written of a library is    *)
(* that library, and the assertions of the writer hold; whatever the       *)
(* objects, however many there are, wherever they lie and whatever they    *)
(* point to.                                                               *)
(*                                                                         *)
(* The invariant (DefsInv) says of the calls that validation has left that *)
(* they are those of the objects met, the latest first and each in the     *)
(* order of its fields, and of each field without such a call that what it *)
(* points to was met by it and by no other (VInv); of what has been        *)
(* written that it is what there is, with names given before (Written);    *)
(* and of the calls that counting or writing has left that they are for    *)
(* the objects that are left, each for its own, and that no object points  *)
(* to one that comes after it (InTurn).                                    *)
(***************************************************************************)
EXTENDS JsonDefs, TreapProofs

-----------------------------------------------------------------------------
(* Numbers up to a bound.                                                  *)
LEMMA FirstOf ==
  ASSUME NEW L \in Nat, NEW T, T \subseteq 0 .. L, T # {}
  PROVE  \E n \in T : \A m \in T : n <= m
<1> DEFINE rank == [n \in 0 .. L |-> 1 .. n]
           K == 1 .. L
           S == 0 .. L
<1>1. IsFiniteSet(K)
  BY FS_Interval
<1>2. rank \in [S -> SUBSET K]
  OBVIOUS
<1>3. T \subseteq S /\ T # {}
  OBVIOUS
<1>4. \E n \in T : \A m \in T : rank[m] \subseteq rank[n] => rank[m] = rank[n]
  <2> HIDE DEF rank, K, S
  <2> QED BY ONLY <1>1, <1>2, <1>3, Deepest
<1>5. PICK n \in T : \A m \in T : rank[m] \subseteq rank[n] => rank[m] = rank[n]
  BY <1>4
<1>6. ASSUME NEW m \in T PROVE n <= m
  <2>1. SUFFICES ASSUME m < n PROVE FALSE
    OBVIOUS
  <2>2. n \in 0 .. L /\ m \in 0 .. L
    BY <1>3
  <2>3. rank[m] = 1 .. m /\ rank[n] = 1 .. n
    BY <2>2
  <2>4. 1 .. m \subseteq 1 .. n /\ n \in 1 .. n /\ ~(n \in 1 .. m)
    BY <2>1, <2>2
  <2> HIDE DEF rank
  <2> QED BY <1>5, <2>3, <2>4
<1> QED BY <1>6

(* They have a greatest one, too.                                          *)
LEMMA LastOf ==
  ASSUME NEW L \in Nat, NEW T, T \subseteq 0 .. L, T # {}
  PROVE  \E n \in T : \A m \in T : m <= n
<1> DEFINE U == { L - n : n \in T }
<1>1. U \subseteq 0 .. L /\ U # {}
  <2>1. \A n \in T : n \in 0 .. L /\ L - n \in 0 .. L
    OBVIOUS
  <2>2. PICK n \in T : TRUE
    OBVIOUS
  <2>3. L - n \in U
    OBVIOUS
  <2> QED BY <2>1, <2>3
<1>2. PICK u \in U : \A v \in U : u <= v
  <2> HIDE DEF U
  <2> QED BY <1>1, FirstOf
<1>3. PICK n \in T : u = L - n
  OBVIOUS
<1>4. ASSUME NEW m \in T PROVE m <= n
  <2>1. u <= L - m
    BY <1>2
  <2>2. n \in 0 .. L /\ m \in 0 .. L
    OBVIOUS
  <2> QED BY <2>1, <2>2, <1>3
<1> QED BY <1>4

-----------------------------------------------------------------------------
(* Objects, whatever their fields point to.                                *)
Objs(h) == h \in Seq(Objects(Len(h)))

(* What is known of one of them.                                           *)
LEMMA ObjsFields ==
  ASSUME NEW h, Objs(h)
  PROVE  /\ Len(h) \in Nat /\ DOMAIN h = 1 .. Len(h)
         /\ \A id \in 1 .. Len(h) :
              /\ h[id].kind \in Kinds
              /\ h[id].ptr \in Seq(0 .. Len(h)) /\ h[id].data \in Seq(STRING)
              /\ Len(h[id].ptr) \in Nat /\ DOMAIN h[id].ptr = 1 .. Len(h[id].ptr)
              /\ \A k \in 1 .. Len(h[id].ptr) : h[id].ptr[k] \in 0 .. Len(h)
              /\ Owned(h, id) \subseteq 1 .. Len(h)
<1>1. Len(h) \in Nat /\ DOMAIN h = 1 .. Len(h)
  BY DEF Objs
<1>2. ASSUME NEW id \in 1 .. Len(h)
      PROVE  /\ h[id].kind \in Kinds
             /\ h[id].ptr \in Seq(0 .. Len(h)) /\ h[id].data \in Seq(STRING)
  <2>1. h[id] \in Objects(Len(h))
    BY DEF Objs
  <2> QED BY <2>1 DEF Objects
<1>3. ASSUME NEW id \in 1 .. Len(h)
      PROVE  /\ Len(h[id].ptr) \in Nat /\ DOMAIN h[id].ptr = 1 .. Len(h[id].ptr)
             /\ \A k \in 1 .. Len(h[id].ptr) : h[id].ptr[k] \in 0 .. Len(h)
  <2>1. h[id].ptr \in Seq(0 .. Len(h))
    BY <1>2
  <2> QED BY <2>1
<1>4. ASSUME NEW id \in 1 .. Len(h)
      PROVE  Owned(h, id) \subseteq 1 .. Len(h)
  <2>1. \A k \in 1 .. Len(h[id].ptr) : h[id].ptr[k] \in 0 .. Len(h)
    BY <1>3
  <2>2. \A p \in 0 .. Len(h) : p # Null => p \in 1 .. Len(h)
    BY <1>1 DEF Null
  <2> QED BY <2>1, <2>2 DEF Owned
<1> QED BY <1>1, <1>2, <1>3, <1>4

(* An object owns what a field of it points to that refers to nothing.     *)
LEMMA OwnedIs ==
  ASSUME NEW h, NEW id, NEW p
  PROVE  p \in Owned(h, id) <=>
           /\ p # Null
           /\ \E k \in 1 .. Len(h[id].ptr) : ~ Refers(h[id], k) /\ h[id].ptr[k] = p
BY DEF Owned

Widen(h, s) == s \cup UNION {Owned(h, q) : q \in s}

(* The recursive function is one.                                          *)
LEMMA ReachIs ==
  ASSUME NEW h, Objs(h), NEW id \in 0 .. Len(h)
  PROVE  \E reach \in [0 .. Len(h) -> SUBSET (1 .. Len(h))] :
           /\ reach[0] = {id} \ {Null}
           /\ \A n \in 1 .. Len(h) : reach[n] = Widen(h, reach[n - 1])
           /\ From(h, id) = reach[Len(h)]
<1> DEFINE L == Len(h)
           S == 0 .. L
           V == SUBSET (1 .. L)
           F(g) == [n \in 0 .. Len(h) |->
                      IF n = 0 THEN {id} \ {Null}
                      ELSE LET near == g[n - 1]
                           IN  near \cup UNION {Owned(h, q) : q \in near}]
           r == CHOOSE g : g = F(g)
           K == 1 .. L
           rank == [n \in S |-> 1 .. n]
           Stops == {0}
           child == [n \in S |-> IF n = 0 THEN 0 ELSE n - 1]
           base == [n \in S |-> {id} \ {Null}]
           step == [x \in S \X V |-> Widen(h, x[2])]
<1>1. L \in Nat
  BY ObjsFields
<1>2. Descends(K, S, rank, Stops, child)
  <2>1. IsFiniteSet(K) /\ IsFiniteSet(S)
    BY <1>1, FS_Interval
  <2>2. rank \in [S -> SUBSET K] /\ child \in [S -> S]
    BY <1>1
  <2>3. ASSUME NEW n \in S \ Stops
        PROVE  rank[child[n]] \subseteq rank[n] /\ rank[child[n]] # rank[n]
    <3>1. n \in 1 .. L /\ child[n] = n - 1 /\ n - 1 \in S
      BY <1>1
    <3>2. rank[child[n]] = 1 .. (n - 1) /\ rank[n] = 1 .. n
      BY <3>1
    <3>3. n \in 1 .. n /\ ~(n \in 1 .. (n - 1)) /\ 1 .. (n - 1) \subseteq 1 .. n
      BY <1>1, <3>1
    <3> HIDE DEF rank, child
    <3> QED BY <3>2, <3>3
  <2> HIDE DEF rank, child, K, S
  <2> QED BY <2>1, <2>2, <2>3 DEF Descends
<1>3. Makes(S, V, base, step)
  <2>1. base \in [S -> V]
    BY <1>1 DEF Null
  <2>2. ASSUME NEW s \in V PROVE Widen(h, s) \in V
    <3>1. \A q \in s : Owned(h, q) \subseteq 1 .. L
      BY ObjsFields
    <3> QED BY <3>1 DEF Widen
  <2>3. step \in [S \X V -> V]
    BY <2>2
  <2> HIDE DEF base, step, S, V
  <2> QED BY <2>1, <2>3 DEF Makes
<1>4. PICK f \in [S -> V] : Solves(f, S, Stops, child, base, step, S)
  <2> HIDE DEF rank, child, K, S, V, base, step, Stops
  <2> QED BY ONLY <1>2, <1>3, ByChild
<1>5. \A n \in S : f[n] = IF n = 0 THEN {id} \ {Null} ELSE Widen(h, f[n - 1])
  <2>1. ASSUME NEW n \in S
        PROVE  f[n] = IF n = 0 THEN {id} \ {Null} ELSE Widen(h, f[n - 1])
    <3>1. f[n] = IF n \in Stops THEN base[n] ELSE step[<<n, f[child[n]]>>]
      BY <1>4 DEF Solves
    <3>2. CASE n = 0
      BY <3>1, <3>2
    <3>3. CASE n # 0
      <4>1. child[n] = n - 1 /\ n - 1 \in S
        BY <1>1, <3>3
      <4>2. f[n - 1] \in V
        BY <4>1
      <4>3. step[<<n, f[n - 1]>>] = Widen(h, f[n - 1])
        BY <4>2
      <4> HIDE DEF child, step
      <4> QED BY <3>1, <3>3, <4>1, <4>3
    <3> QED BY <3>2, <3>3
  <2> QED BY <2>1
<1>6. From(h, id) = r[L]
  BY DEF From
<1>7. r = F(r)
  <2>1. f = F(f)
    BY <1>5 DEF Widen
  <2> HIDE DEF F
  <2> QED BY <2>1
<1> HIDE DEF r
<1>8. /\ r[0] = {id} \ {Null}
      /\ \A n \in 1 .. L : r[n] = Widen(h, r[n - 1])
  <2>1. \A n \in S : r[n] = IF n = 0 THEN {id} \ {Null} ELSE Widen(h, r[n - 1])
    BY <1>7 DEF Widen
  <2> QED BY <1>1, <2>1
<1>9. r \in [S -> V]
  <2> DEFINE Bad == { n \in S : ~(r[n] \in V) }
  <2>1. SUFFICES Bad = {}
    <3>1. DOMAIN r = S
      BY <1>7
    <3>2. r = [n \in S |-> r[n]]
      BY <1>7, <3>1
    <3> QED BY <2>1, <3>2
  <2>2. SUFFICES ASSUME Bad # {} PROVE FALSE
    OBVIOUS
  <2>3. PICK n \in Bad : \A m \in Bad : n <= m
    <3>1. Bad \subseteq 0 .. L
      OBVIOUS
    <3> HIDE DEF Bad
    <3> QED BY <1>1, <2>2, <3>1, FirstOf
  <2>4. n # 0
    BY <1>1, <1>8 DEF Null
  <2>5. n \in 1 .. L /\ n - 1 \in S /\ ~(n - 1 \in Bad)
    BY <1>1, <2>3, <2>4
  <2>6. r[n - 1] \in V /\ r[n] = Widen(h, r[n - 1])
    BY <1>8, <2>5
  <2>7. \A q \in r[n - 1] : Owned(h, q) \subseteq 1 .. L
    BY <2>6, ObjsFields
  <2> QED BY <2>3, <2>6, <2>7 DEF Widen
<1> QED BY <1>6, <1>8, <1>9

(* It is within every set that has the object and what its objects own.    *)
LEMMA FromLeast ==
  ASSUME NEW h, Objs(h), NEW id \in 0 .. Len(h), NEW S, id \in S \/ id = Null,
         \A q \in S : Owned(h, q) \subseteq S
  PROVE  From(h, id) \subseteq S
<1> DEFINE L == Len(h)
<1>1. PICK r \in [0 .. L -> SUBSET (1 .. L)] :
        /\ r[0] = {id} \ {Null}
        /\ \A n \in 1 .. L : r[n] = Widen(h, r[n - 1])
        /\ From(h, id) = r[L]
  BY ReachIs
<1>2. L \in Nat
  BY ObjsFields
<1> DEFINE Bad == { n \in 0 .. L : ~(r[n] \subseteq S) }
<1>3. Bad = {}
  <2>1. SUFFICES ASSUME Bad # {} PROVE FALSE
    OBVIOUS
  <2>2. PICK n \in Bad : \A m \in Bad : n <= m
    <3>1. Bad \subseteq 0 .. L
      OBVIOUS
    <3> HIDE DEF Bad
    <3> QED BY <1>2, <2>1, <3>1, FirstOf
  <2>3. n # 0
    BY <1>1
  <2>4. n \in 1 .. L /\ n - 1 \in 0 .. L /\ ~(n - 1 \in Bad)
    BY <1>2, <2>2, <2>3
  <2>5. r[n - 1] \subseteq S /\ r[n] = Widen(h, r[n - 1])
    BY <1>1, <2>4
  <2>6. r[n] \subseteq S
    BY <2>5 DEF Widen
  <2> QED BY <2>2, <2>6
<1>4. L \in 0 .. L
  BY <1>2
<1> QED BY <1>1, <1>3, <1>4

(* It is one of them: as long as it grows it has, after each step, another *)
(* object, and there are no more than all.                                 *)
LEMMA FromClosed ==
  ASSUME NEW h, Objs(h), NEW id \in 0 .. Len(h)
  PROVE  /\ From(h, id) \subseteq 1 .. Len(h)
         /\ id # Null => id \in From(h, id)
         /\ \A q \in From(h, id) : Owned(h, q) \subseteq From(h, id)
<1> DEFINE L == Len(h)
<1>1. PICK r \in [0 .. L -> SUBSET (1 .. L)] :
        /\ r[0] = {id} \ {Null}
        /\ \A n \in 1 .. L : r[n] = Widen(h, r[n - 1])
        /\ From(h, id) = r[L]
  BY ReachIs
<1>2. L \in Nat
  BY ObjsFields
<1>3. IsFiniteSet(1 .. L) /\ Cardinality(1 .. L) = L
  <2> HIDE DEF L
  <2>1. IsFiniteSet(1 .. L) /\ Cardinality(1 .. L) = IF 1 > L THEN 0 ELSE L - 1 + 1
    <3>1. 1 \in Int /\ L \in Int
      BY <1>2
    <3> QED BY ONLY <3>1, FS_Interval
  <2> QED BY <1>2, <2>1
<1>4. \A n \in 0 .. L : r[n] \subseteq 1 .. L /\ IsFiniteSet(r[n]) /\ Cardinality(r[n]) \in Nat
  <2>1. ASSUME NEW n \in 0 .. L PROVE r[n] \subseteq 1 .. L
    BY <1>1
  <2> QED BY <1>3, <2>1, FS_Subset, FS_CardinalityType
<1>5. id # Null => \A n \in 0 .. L : id \in r[n]
  <2>1. SUFFICES ASSUME id # Null PROVE \A n \in 0 .. L : id \in r[n]
    OBVIOUS
  <2> DEFINE Bad == { n \in 0 .. L : ~(id \in r[n]) }
  <2>2. SUFFICES ASSUME Bad # {} PROVE FALSE
    OBVIOUS
  <2>3. PICK n \in Bad : \A m \in Bad : n <= m
    <3>1. Bad \subseteq 0 .. L
      OBVIOUS
    <3> HIDE DEF Bad
    <3> QED BY <1>2, <2>2, <3>1, FirstOf
  <2>4. n # 0
    BY <1>1, <2>1
  <2>5. n \in 1 .. L /\ n - 1 \in 0 .. L /\ ~(n - 1 \in Bad)
    BY <1>2, <2>3, <2>4
  <2> QED BY <1>1, <2>3, <2>5 DEF Widen
<1> DEFINE Full(n) == Widen(h, r[n]) = r[n]
           Bad == { n \in 0 .. L : ~ Full(n) /\ Cardinality(r[n]) < n + 1 }
<1>6. CASE id = Null
  <2>1. \A n \in 0 .. L : r[n] = {}
    <3> DEFINE Some == { n \in 0 .. L : r[n] # {} }
    <3>1. SUFFICES ASSUME Some # {} PROVE FALSE
      OBVIOUS
    <3>2. PICK n \in Some : \A m \in Some : n <= m
      <4>1. Some \subseteq 0 .. L
        OBVIOUS
      <4> HIDE DEF Some
      <4> QED BY <1>2, <3>1, <4>1, FirstOf
    <3>3. n # 0
      BY <1>1, <1>6
    <3>4. n \in 1 .. L /\ n - 1 \in 0 .. L /\ ~(n - 1 \in Some)
      BY <1>2, <3>2, <3>3
    <3> QED BY <1>1, <3>2, <3>4 DEF Widen
  <2> QED BY <1>1, <1>2, <1>6, <2>1
<1>7. CASE id # Null
  <2>1. Bad = {}
    <3>1. SUFFICES ASSUME Bad # {} PROVE FALSE
      OBVIOUS
    <3>2. PICK n \in Bad : \A m \in Bad : n <= m
      <4>1. Bad \subseteq 0 .. L
        OBVIOUS
      <4> HIDE DEF Bad
      <4> QED BY <1>2, <3>1, <4>1, FirstOf
    <3>3. n # 0
      <4>1. SUFFICES ASSUME n = 0 PROVE FALSE
        OBVIOUS
      <4>2. r[0] = {id}
        BY <1>1, <1>7
      <4>3. Cardinality(r[0]) = 1
        BY <4>2, FS_Singleton
      <4> QED BY <3>2, <4>1, <4>3
    <3>4. n \in 1 .. L /\ n - 1 \in 0 .. L /\ ~(n - 1 \in Bad)
      BY <1>2, <3>2, <3>3
    <3>5. r[n] = Widen(h, r[n - 1])
      BY <1>1, <3>4
    <3>6. CASE Full(n - 1)
      BY <3>2, <3>5, <3>6
    <3>7. CASE ~ Full(n - 1)
      <4>1. Cardinality(r[n - 1]) >= n
        <5>1. n - 1 + 1 = n /\ ~(Cardinality(r[n - 1]) < n - 1 + 1)
          BY <1>2, <3>4, <3>7
        <5> QED BY <1>4, <3>4, <5>1
      <4>2. r[n - 1] \subseteq r[n] /\ r[n - 1] # r[n]
        BY <3>5, <3>7 DEF Widen
      <4>3. PICK p \in r[n] : ~(p \in r[n - 1])
        BY <4>2
      <4>4. Cardinality(r[n - 1] \cup {p}) = Cardinality(r[n - 1]) + 1
        BY <1>4, <3>4, <4>3, FS_AddElement
      <4>5. Cardinality(r[n - 1] \cup {p}) <= Cardinality(r[n])
        <5>1. r[n - 1] \cup {p} \subseteq r[n] /\ IsFiniteSet(r[n])
          BY <1>4, <3>2, <4>2, <4>3
        <5> QED BY <5>1, FS_Subset
      <4> QED BY <1>2, <1>4, <3>2, <3>4, <4>1, <4>4, <4>5
    <3> QED BY <3>6, <3>7
  <2>2. L \in 0 .. L /\ ~(L \in Bad)
    BY <1>2, <2>1
  <2>3. Full(L)
    <3>1. SUFFICES ASSUME ~ Full(L) PROVE FALSE
      OBVIOUS
    <3>2. ~(Cardinality(r[L]) < L + 1)
      BY <2>2, <3>1
    <3>3. Cardinality(r[L]) <= L
      BY <1>3, <1>4, <2>2, FS_Subset
    <3> QED BY <1>2, <1>4, <2>2, <3>2, <3>3
  <2>4. \A q \in r[L] : Owned(h, q) \subseteq r[L]
    BY <2>3 DEF Widen
  <2>5. r[L] \subseteq 1 .. L
    BY <1>4, <2>2
  <2> QED BY <1>1, <1>5, <1>7, <2>2, <2>4, <2>5
<1> QED BY <1>6, <1>7

-----------------------------------------------------------------------------
(* The pointers met (space): each address is a key of the map, and its     *)
(* number tells when it was met.                                           *)

AllOf(s) == {s[i] : i \in 1 .. Len(s)}

HoldsAt(sp, adr) ==
  /\ sp = [map |-> sp.map, index |-> sp.index]
  /\ adr \in Seq(Nat)
  /\ IsMap(sp.map, AllOf(adr))
  /\ sp.index = Len(adr)
  /\ \A i \in 1 .. Len(adr) : sp.map.nodes[adr[i]].val = i - 1

(* A new space has no pointers.                                            *)
LEMMA NewHolds == HoldsAt(NewSpace, <<>>)
<1>1. AllOf(<<>>) = {}
  BY DEF AllOf
<1>2. IsMap(NewSpace.map, AllOf(<<>>)) /\ NewSpace.index = 0
  BY <1>1, EmptyIsMap DEF NewSpace
<1>3. NewSpace = [map |-> NewSpace.map, index |-> NewSpace.index]
  BY DEF NewSpace
<1> QED BY <1>2, <1>3 DEF HoldsAt

(* A sequence with one element more.                                       *)
LEMMA AppendAll ==
  ASSUME NEW S, NEW s \in Seq(S), NEW x \in S
  PROVE  /\ Append(s, x) \in Seq(S) /\ Len(Append(s, x)) = Len(s) + 1
         /\ Append(s, x)[Len(s) + 1] = x
         /\ \A i \in 1 .. Len(s) : Append(s, x)[i] = s[i]
         /\ AllOf(Append(s, x)) = AllOf(s) \cup {x}
         /\ Len(s) \in Nat /\ Len(s) + 1 \in 1 .. Len(s) + 1
<1>1. /\ Append(s, x) \in Seq(S) /\ Len(Append(s, x)) = Len(s) + 1
      /\ Append(s, x)[Len(s) + 1] = x
      /\ \A i \in 1 .. Len(s) : Append(s, x)[i] = s[i]
      /\ Len(s) \in Nat /\ Len(s) + 1 \in 1 .. Len(s) + 1
  OBVIOUS
<1>2. \A i : i \in 1 .. Len(s) + 1 <=> i \in 1 .. Len(s) \/ i = Len(s) + 1
  BY <1>1
<1>3. AllOf(Append(s, x)) = AllOf(s) \cup {x}
  <2> DEFINE t == Append(s, x)
  <2> HIDE DEF t
  <2>1. /\ Len(t) = Len(s) + 1 /\ t[Len(s) + 1] = x
        /\ \A i \in 1 .. Len(s) : t[i] = s[i]
    BY <1>1 DEF t
  <2>2. \A y \in AllOf(t) : y \in AllOf(s) \cup {x}
    BY <2>1, <1>2 DEF AllOf
  <2>3. \A y \in AllOf(s) \cup {x} : y \in AllOf(t)
    <3>1. x \in AllOf(t)
      BY <2>1, <1>2 DEF AllOf
    <3>2. ASSUME NEW i \in 1 .. Len(s) PROVE s[i] \in AllOf(t)
      <4>1. i \in 1 .. Len(t) /\ t[i] = s[i]
        BY <2>1, <1>2
      <4> QED BY <4>1 DEF AllOf
    <3> QED BY <3>1, <3>2 DEF AllOf
  <2> QED BY <2>2, <2>3 DEF t
<1> QED BY <1>1, <1>3

(* JSON_TYPE_PTR_SPACE_VALIDATE_INSERT_: a pointer that is new gets the    *)
(* next number, and one met already is refused and stays as it was.        *)
LEMMA InsertHolds ==
  ASSUME NEW sp, NEW adr, HoldsAt(sp, adr), NEW key \in Nat
  PROVE  /\ InsertKey(sp.map, key).isNew = IF key \in AllOf(adr) THEN FALSE ELSE TRUE
         /\ key \in AllOf(adr) =>
              HoldsAt([sp EXCEPT !.map = InsertKey(sp.map, key).treap], adr)
         /\ ~(key \in AllOf(adr)) =>
              HoldsAt([map   |-> SetVal(InsertKey(sp.map, key).treap, key, sp.index),
                       index |-> sp.index + 1], Append(adr, key))
<1> DEFINE K == AllOf(adr)
           u == InsertKey(sp.map, key).treap
<1>1. /\ sp = [map |-> sp.map, index |-> sp.index]
      /\ adr \in Seq(Nat) /\ IsMap(sp.map, K) /\ sp.index = Len(adr)
      /\ \A i \in 1 .. Len(adr) : adr[i] \in K /\ sp.map.nodes[adr[i]].val = i - 1
  BY DEF HoldsAt, AllOf
<1>2. /\ InsertKey(sp.map, key).isNew = IF key \in K THEN FALSE ELSE TRUE
      /\ IsMap(u, K \cup {key})
      /\ \A m \in K : u.nodes[m].val = sp.map.nodes[m].val
  <2> HIDE DEF K
  <2> QED BY <1>1, InsertIs
<1> HIDE DEF u, K
<1>3. ASSUME key \in K PROVE HoldsAt([sp EXCEPT !.map = u], adr)
  <2> DEFINE v == [sp EXCEPT !.map = u]
  <2>1. v = [map |-> u, index |-> sp.index]
    BY <1>1
  <2> HIDE DEF v
  <2>2. v.map = u /\ v.index = sp.index /\ K \cup {key} = K
    BY <1>3, <2>1
  <2>3. v = [map |-> v.map, index |-> v.index]
    BY <2>1
  <2>4. HoldsAt(v, adr)
    BY <1>1, <1>2, <2>2, <2>3 DEF HoldsAt, K
  <2> QED BY <2>4 DEF v
<1>4. ASSUME ~(key \in K)
      PROVE  HoldsAt([map |-> SetVal(u, key, sp.index), index |-> sp.index + 1],
                     Append(adr, key))
  <2> DEFINE v == [map |-> SetVal(u, key, sp.index), index |-> sp.index + 1]
             new == Append(adr, key)
  <2>1. /\ new \in Seq(Nat) /\ Len(new) = Len(adr) + 1 /\ new[Len(adr) + 1] = key
        /\ \A i \in 1 .. Len(adr) : new[i] = adr[i]
        /\ AllOf(new) = K \cup {key} /\ Len(adr) \in Nat
    BY <1>1, AppendAll DEF K
  <2>2. /\ IsMap(v.map, K \cup {key})
        /\ v.map.nodes[key].val = sp.index
        /\ \A m \in (K \cup {key}) \ {key} : v.map.nodes[m].val = u.nodes[m].val
    <3>1. key \in K \cup {key} /\ sp.index \in Nat
      BY <1>1
    <3> QED BY <1>2, <3>1, SetValIs
  <2>3. v = [map |-> v.map, index |-> v.index] /\ v.index = Len(adr) + 1
    BY <1>1
  <2> HIDE DEF v, new
  <2>4. ASSUME NEW i \in 1 .. Len(new) PROVE v.map.nodes[new[i]].val = i - 1
    <3>1. CASE i \in 1 .. Len(adr)
      <4>1. new[i] = adr[i] /\ adr[i] \in K /\ adr[i] # key
        BY <1>1, <1>4, <2>1, <3>1
      <4> QED BY <1>1, <1>2, <2>2, <3>1, <4>1
    <3>2. CASE ~(i \in 1 .. Len(adr))
      <4>1. i = Len(adr) + 1
        BY <2>1, <3>2
      <4> QED BY <1>1, <2>1, <2>2, <4>1
    <3> QED BY <3>1, <3>2
  <2>5. HoldsAt(v, new)
    BY <2>1, <2>2, <2>3, <2>4 DEF HoldsAt
  <2> QED BY <2>5 DEF v, new
<1> QED BY <1>2, <1>3, <1>4 DEF u, K

(* JSON_TYPE_PTR_SPACE_VALIDATE: a pointer is found when it was met, and   *)
(* only then.                                                              *)
LEMMA LookupHolds ==
  ASSUME NEW sp, NEW adr, HoldsAt(sp, adr), NEW key \in Nat
  PROVE  /\ LookupKey(sp.map, key).node = IF key \in AllOf(adr) THEN key ELSE Nil
         /\ HoldsAt([map |-> LookupKey(sp.map, key).treap, index |-> sp.index], adr)
         /\ [sp EXCEPT !.map = LookupKey(sp.map, key).treap]
              = [map |-> LookupKey(sp.map, key).treap, index |-> sp.index]
<1> DEFINE K == AllOf(adr)
           u == LookupKey(sp.map, key).treap
           v == [map |-> u, index |-> sp.index]
<1>1. /\ sp = [map |-> sp.map, index |-> sp.index]
      /\ adr \in Seq(Nat) /\ IsMap(sp.map, K) /\ sp.index = Len(adr)
      /\ \A i \in 1 .. Len(adr) : sp.map.nodes[adr[i]].val = i - 1
  BY DEF HoldsAt
<1>2. /\ LookupKey(sp.map, key).node = IF key \in K THEN key ELSE Nil
      /\ IsMap(u, K) /\ u.nodes = sp.map.nodes
  <2> HIDE DEF K
  <2> QED BY <1>1, LookupIs
<1> HIDE DEF u
<1>3. [sp EXCEPT !.map = u] = v
  BY <1>1
<1>4. v.map = u /\ v.index = sp.index /\ v = [map |-> v.map, index |-> v.index]
  OBVIOUS
<1> HIDE DEF v
<1>5. HoldsAt(v, adr)
  BY <1>1, <1>2, <1>4 DEF HoldsAt
<1> QED BY <1>2, <1>3, <1>5 DEF u, v

(* A space holds as many pointers as it has numbers, each number being of  *)
(* one.                                                                    *)
LEMMA HoldsIsMap ==
  ASSUME NEW sp, NEW adr, HoldsAt(sp, adr)
  PROVE  /\ IsTreap(sp.map)
         /\ {sp.map.nodes[k].val : k \in DOMAIN sp.map.nodes} = 0 .. sp.index - 1
         /\ Cardinality(DOMAIN sp.map.nodes) = sp.index
<1> DEFINE K == AllOf(adr)
           nodes == sp.map.nodes
           n == Len(adr)
<1>1. /\ adr \in Seq(Nat) /\ IsMap(sp.map, K) /\ sp.index = n
      /\ \A i \in 1 .. n : adr[i] \in K /\ nodes[adr[i]].val = i - 1
      /\ n \in Nat
  BY DEF HoldsAt, AllOf
<1>2. DOMAIN nodes = K /\ IsTreap(sp.map)
  <2> HIDE DEF K
  <2> QED BY <1>1, MapKeys, MapIsTreap
<1> HIDE DEF nodes, n
<1>3. {nodes[k].val : k \in K} = 0 .. n - 1
  <2>1. ASSUME NEW k \in K PROVE nodes[k].val \in 0 .. n - 1
    <3>1. PICK i \in 1 .. n : k = adr[i]
      BY DEF AllOf, n
    <3> QED BY <1>1, <3>1
  <2>2. ASSUME NEW v \in 0 .. n - 1 PROVE \E k \in K : nodes[k].val = v
    <3>1. v + 1 \in 1 .. n /\ v + 1 - 1 = v
      BY <1>1
    <3>2. adr[v + 1] \in K /\ nodes[adr[v + 1]].val = v + 1 - 1
      <4> HIDE DEF K
      <4> QED BY <1>1, <3>1
    <3> QED BY <3>1, <3>2
  <2> HIDE DEF K
  <2> QED BY <2>1, <2>2
<1>4. Cardinality(K) = n
  <2>1. \A i, j \in 1 .. n : adr[i] = adr[j] => i = j
    <3>1. ASSUME NEW i \in 1 .. n, NEW j \in 1 .. n, adr[i] = adr[j] PROVE i = j
      <4>1. i - 1 = j - 1
        BY <1>1, <3>1
      <4> QED BY <4>1, <1>1
    <3> QED BY <3>1
  <2>2. \A k \in K : \E i \in 1 .. n : adr[i] = k
    BY DEF AllOf, n
  <2>3. n \in Nat /\ \A i \in 1 .. n : adr[i] \in K
    BY <1>1
  <2> HIDE DEF K
  <2> QED BY ONLY <2>1, <2>2, <2>3, CountOf
<1> QED BY <1>1, <1>2, <1>3, <1>4 DEF nodes

-----------------------------------------------------------------------------
(* The validation of objects h, of which r is the root and which lie at a: *)
(* those of `ent' have been met, in this order, and the calls of `ts' are  *)
(* left.                                                                   *)

TaskSet(h) == [op    : {"asked", "trusted", "optional", "known", "dups"},
               obj   : 0 .. Len(h), field : Nat]

\* Some call is left for the field.
Pending(ts, id, k) ==
  \E i \in 1 .. Len(ts) : ts[i].obj = id /\ ts[i].field = k /\ ts[i].op # "dups"

\* The calls are those of the objects met, or else the first.
TaskOk(h, ent, t) ==
  IF t.obj = Null THEN t = Task("asked", Null, 1) /\ ent = <<>>
  ELSE /\ t.obj \in AllOf(ent)
       /\ t.field \in 1 .. Len(h[t.obj].ptr)
       /\ \/ t.op = What(h[t.obj], t.field)
          \/ t.op = "dups" /\ t.field = 1 /\ h[t.obj].kind = "defs"

TasksOk(h, ent, ts) ==
  ts \in Seq(TaskSet(h)) /\ \A i \in 1 .. Len(ts) : TaskOk(h, ent, ts[i])

\* Those of the object met last come first, in the order of its fields.
ComesFirst(ent, t, u) ==
  /\ \A p, q \in 1 .. Len(ent) : ent[p] = t.obj /\ ent[q] = u.obj => q <= p
  /\ t.obj = u.obj => t.op # "dups" /\ (u.op = "dups" \/ t.field < u.field)

InOrder(ent, ts) ==
  \A i, j \in 1 .. Len(ts) : i < j => ComesFirst(ent, ts[i], ts[j])

\* No two objects met lie at one place.
Apart(a, ent) == \A i, j \in 1 .. Len(ent) : a[ent[i]] = a[ent[j]] => i = j

\* What has become of a field for which no call is left.
FieldDone(h, a, ent, p, k) ==
  LET o == h[ent[p]]
  IN  IF Refers(o, k)
        THEN o.ptr[k] # Null /\ \E q \in 1 .. Len(ent) : a[ent[q]] = a[o.ptr[k]]
      ELSE \/ o.ptr[k] = Null /\ What(o, k) = "optional"
           \/ \E q \in 1 .. Len(ent) : p < q /\ ent[q] = o.ptr[k]

FieldsDone(h, a, ent, ts) ==
  \A p \in 1 .. Len(ent) : \A k \in 1 .. Len(h[ent[p]].ptr) :
    ~ Pending(ts, ent[p], k) => FieldDone(h, a, ent, p, k)

\* An object met by one field was not by another.
Once(h, ent, ts) ==
  \A d, e \in AllOf(ent) :
    \A k \in 1 .. Len(h[d].ptr), l \in 1 .. Len(h[e].ptr) :
      (/\ ~ Refers(h[d], k) /\ ~ Pending(ts, d, k)
       /\ ~ Refers(h[e], l) /\ ~ Pending(ts, e, l)
       /\ h[d].ptr[k] = h[e].ptr[l] /\ h[d].ptr[k] # Null)
        => d = e /\ k = l

Starts(r, ent, ts) ==
  \/ ent = <<>> /\ ts = <<Task("asked", Null, 1)>>
  \/ ent # <<>> /\ ent[1] = r

\* Every object but the first was met by a field.
Found(h, ent, ts) ==
  \A p \in 1 .. Len(ent) : p = 1 \/
    \E d \in AllOf(ent) : \E k \in 1 .. Len(h[d].ptr) :
      ~ Refers(h[d], k) /\ ~ Pending(ts, d, k) /\ h[d].ptr[k] = ent[p]

\* The types of a list are all met before what is about them.
ArgsFirst(h, ent, ts) ==
  \A l \in AllOf(ent) :
    h[l].kind = "list" /\ ~ Pending(ts, l, 2) => From(h, h[l].ptr[1]) \subseteq AllOf(ent)

\* What is about the types of a list is met from it.
OfList(h, e) ==
  \/ h[e].kind \in {"attrs", "cell", "objcell"}
  \/ h[e].kind = "trie" /\ h[e].ptr[1] # Null /\ h[h[e].ptr[1]].kind # "dictcell"

AtHome(h, ent, ts, e) ==
  \E l \in AllOf(ent) :
    h[l].kind = "list" /\ ~ Pending(ts, l, 2) /\ e \in From(h, h[l].ptr[2])

AllAtHome(h, ent, ts) == \A e \in AllOf(ent) : OfList(h, e) => AtHome(h, ent, ts, e)

\* The names are compared once they are met.
Distinct(data) == \A i, j \in DOMAIN data : data[i] = data[j] => i = j
NamesChecked(h, ent, ts) ==
  \A e \in AllOf(ent) : h[e].kind = "defs" =>
    \/ \E i \in 1 .. Len(ts) : ts[i].obj = e /\ ts[i].op = "dups"
    \/ Distinct(h[h[e].ptr[1]].data)

VInv(h, r, a, ent, ts) ==
  /\ ent \in Seq(1 .. Len(h)) /\ Apart(a, ent)
  /\ TasksOk(h, ent, ts) /\ InOrder(ent, ts)
  /\ FieldsDone(h, a, ent, ts) /\ Once(h, ent, ts)
  /\ Starts(r, ent, ts) /\ AllOf(ent) \subseteq From(h, r) /\ Found(h, ent, ts)
  /\ ArgsFirst(h, ent, ts) /\ AllAtHome(h, ent, ts) /\ NamesChecked(h, ent, ts)

-----------------------------------------------------------------------------
(* A sequence without its first element.                                   *)
LEMMA TailIs ==
  ASSUME NEW S, NEW s \in Seq(S), s # <<>>
  PROVE  /\ Tail(s) \in Seq(S) /\ Len(s) \in Nat /\ Len(s) > 0
         /\ Len(Tail(s)) = Len(s) - 1
         /\ \A i \in 1 .. Len(Tail(s)) : Tail(s)[i] = s[i + 1] /\ i + 1 \in 1 .. Len(s)
         /\ 1 \in 1 .. Len(s) /\ Head(s) = s[1] /\ Head(s) \in S
OBVIOUS

(* The elements of a sequence.                                             *)
LEMMA AtIn ==
  ASSUME NEW S, NEW s \in Seq(S)
  PROVE  /\ \A i \in 1 .. Len(s) : s[i] \in AllOf(s) /\ s[i] \in S
         /\ \A x \in AllOf(s) : \E i \in 1 .. Len(s) : s[i] = x
         /\ AllOf(s) \subseteq S
         /\ Len(s) \in Nat
<1>1. \A i \in 1 .. Len(s) : s[i] \in S
  OBVIOUS
<1> QED BY <1>1 DEF AllOf

\* Without the first call, only what it is about is no longer asked about.
Lessens(ts) ==
  /\ \A id, k : Pending(Tail(ts), id, k) => Pending(ts, id, k)
  /\ \A id, k : Pending(ts, id, k) =>
       \/ Pending(Tail(ts), id, k)
       \/ Head(ts).obj = id /\ Head(ts).field = k /\ Head(ts).op # "dups"
  /\ \A e : (\E i \in 1 .. Len(ts) : ts[i].obj = e /\ ts[i].op = "dups") =>
       \/ \E i \in 1 .. Len(Tail(ts)) : Tail(ts)[i].obj = e /\ Tail(ts)[i].op = "dups"
       \/ Head(ts).obj = e /\ Head(ts).op = "dups"

(* The first call, taken off, leaves calls that are in order.              *)
LEMMA Popped ==
  ASSUME NEW h, NEW ent, NEW ts, TasksOk(h, ent, ts), InOrder(ent, ts), ts # <<>>
  PROVE  /\ TasksOk(h, ent, Tail(ts)) /\ InOrder(ent, Tail(ts))
         /\ TaskOk(h, ent, Head(ts)) /\ Head(ts) \in TaskSet(h)
         /\ \A i \in 1 .. Len(Tail(ts)) :
              Tail(ts)[i] \in TaskSet(h) /\ ComesFirst(ent, Head(ts), Tail(ts)[i])
         /\ Lessens(ts)
<1> DEFINE T == Tail(ts)
           S == TaskSet(h)
<1>1. ts \in Seq(S) /\ \A i \in 1 .. Len(ts) : TaskOk(h, ent, ts[i])
  BY DEF TasksOk
<1>2. /\ T \in Seq(S) /\ Len(ts) \in Nat /\ Len(ts) > 0 /\ Len(T) = Len(ts) - 1
      /\ \A i \in 1 .. Len(T) : T[i] = ts[i + 1] /\ i + 1 \in 1 .. Len(ts)
      /\ 1 \in 1 .. Len(ts) /\ Head(ts) = ts[1] /\ Head(ts) \in S
  <2> HIDE DEF S
  <2> QED BY <1>1, TailIs
<1> HIDE DEF T, S
<1>3. TasksOk(h, ent, T)
  BY <1>1, <1>2 DEF TasksOk, S
<1>4. InOrder(ent, T)
  <2>1. ASSUME NEW i \in 1 .. Len(T), NEW j \in 1 .. Len(T), i < j
        PROVE  ComesFirst(ent, T[i], T[j])
    <3>1. i + 1 < j + 1 /\ i + 1 \in 1 .. Len(ts) /\ j + 1 \in 1 .. Len(ts)
      BY <1>2, <2>1
    <3> QED BY <1>2, <3>1 DEF InOrder
  <2> QED BY <2>1 DEF InOrder
<1>5. \A i \in 1 .. Len(T) : T[i] \in S /\ ComesFirst(ent, ts[1], T[i])
  <2>1. ASSUME NEW i \in 1 .. Len(T) PROVE T[i] \in S /\ ComesFirst(ent, ts[1], T[i])
    <3>1. 1 < i + 1 /\ i + 1 \in 1 .. Len(ts)
      BY <1>2
    <3> QED BY <1>2, <3>1 DEF InOrder
  <2> QED BY <2>1
<1>6. \A i \in 1 .. Len(ts) : i = 1 \/ \E j \in 1 .. Len(T) : T[j] = ts[i]
  <2>1. ASSUME NEW i \in 1 .. Len(ts), i # 1 PROVE \E j \in 1 .. Len(T) : T[j] = ts[i]
    <3>1. i - 1 \in 1 .. Len(T) /\ i - 1 + 1 = i
      BY <1>2, <2>1
    <3> QED BY <1>2, <3>1
  <2> QED BY <2>1
<1>7. \A i \in 1 .. Len(T) : \E j \in 1 .. Len(ts) : T[i] = ts[j]
  BY <1>2
<1> QED BY <1>1, <1>2, <1>3, <1>4, <1>5, <1>6, <1>7 DEF Lessens, Pending, T, S

(* A field is asked about once.                                            *)
LEMMA HeadAlone ==
  ASSUME NEW h, NEW ent, NEW ts, TasksOk(h, ent, ts), InOrder(ent, ts), ts # <<>>
  PROVE  /\ Head(ts).op # "dups" => ~ Pending(Tail(ts), Head(ts).obj, Head(ts).field)
         /\ Head(ts).op = "dups" => ~ Pending(ts, Head(ts).obj, Head(ts).field)
         /\ \A k \in Nat : k < Head(ts).field => ~ Pending(ts, Head(ts).obj, k)
<1>1. /\ \A i \in 1 .. Len(Tail(ts)) :
              Tail(ts)[i] \in TaskSet(h) /\ ComesFirst(ent, Head(ts), Tail(ts)[i])
      /\ \A id, k : Pending(ts, id, k) =>
              \/ Pending(Tail(ts), id, k)
              \/ Head(ts).obj = id /\ Head(ts).field = k /\ Head(ts).op # "dups"
      /\ Head(ts) \in TaskSet(h)
  BY Popped DEF Lessens
<1> DEFINE t == Head(ts)
           T == Tail(ts)
<1>2. t.field \in Nat /\ \A i \in 1 .. Len(T) : T[i].field \in Nat
  BY <1>1 DEF TaskSet
<1> HIDE DEF t, T
<1>3. \A i \in 1 .. Len(T) : T[i].obj = t.obj =>
        t.op # "dups" /\ (T[i].op = "dups" \/ t.field < T[i].field)
  BY <1>1 DEF ComesFirst, t, T
<1>4. \A k : ~ Pending(T, t.obj, k) \/ (t.op # "dups" /\ k \in Nat /\ t.field < k)
  BY <1>2, <1>3 DEF Pending
<1>5. \A k : Pending(ts, t.obj, k) =>
        Pending(T, t.obj, k) \/ (t.field = k /\ t.op # "dups")
  BY <1>1 DEF t, T
<1>6. t.op # "dups" => ~ Pending(T, t.obj, t.field)
  BY <1>2, <1>4
<1>7. t.op = "dups" => ~ Pending(ts, t.obj, t.field)
  BY <1>4, <1>5
<1>8. \A k \in Nat : k < t.field => ~ Pending(ts, t.obj, k)
  BY <1>2, <1>4, <1>5
<1> QED BY <1>6, <1>7, <1>8 DEF t, T


-----------------------------------------------------------------------------
(* How a field is asked about, and what it may point to.                   *)
LEMMA WhatIs ==
  ASSUME NEW o, NEW k
  PROVE  /\ What(o, k) = "known" <=> Refers(o, k)
         /\ What(o, k) = "asked" => Required(o, k) /\ ~ Refers(o, k)
         /\ Required(o, k) => What(o, k) = "asked"
         /\ What(o, k) = "trusted" => ~ Refers(o, k) /\ o.kind \in {"list", "dict"}
         /\ o.kind \in {"list", "dict"} /\ k # 1 => What(o, k) = "trusted"
         /\ What(o, k) # "dups"
<1>1. Required(o, k) => ~ Refers(o, k)
  BY DEF Required, Refers, NodeKinds
<1>2. o.kind \in {"list", "dict"} /\ k # 1 => ~ Refers(o, k) /\ ~ Required(o, k)
  BY DEF Required, Refers, NodeKinds
<1> QED BY <1>1, <1>2 DEF What

Tgt(h, r, t) == IF t.obj = Null THEN r ELSE h[t.obj].ptr[t.field]

\* A call that goes no further has found nothing wrong.
Answered(h, r, a, ent, t) ==
  \/ t.op = "optional" /\ Tgt(h, r, t) = Null
  \/ /\ t.op = "known" /\ Tgt(h, r, t) # Null
     /\ \E q \in 1 .. Len(ent) : a[ent[q]] = a[Tgt(h, r, t)]
  \/ t.op = "dups" /\ Distinct(h[Tgt(h, r, t)].data)

(* A call that finds nothing wrong and meets no object is done with.       *)
LEMMA PopHolds ==
  ASSUME NEW h, NEW r, NEW a, NEW ent, NEW ts, VInv(h, r, a, ent, ts), ts # <<>>,
         Answered(h, r, a, ent, Head(ts))
  PROVE  VInv(h, r, a, ent, Tail(ts))
<1> DEFINE t == Head(ts)
           T == Tail(ts)
<1>1. /\ ent \in Seq(1 .. Len(h)) /\ Apart(a, ent)
      /\ TasksOk(h, ent, ts) /\ InOrder(ent, ts)
      /\ FieldsDone(h, a, ent, ts) /\ Once(h, ent, ts)
      /\ Starts(r, ent, ts) /\ AllOf(ent) \subseteq From(h, r) /\ Found(h, ent, ts)
      /\ ArgsFirst(h, ent, ts) /\ AllAtHome(h, ent, ts) /\ NamesChecked(h, ent, ts)
  BY DEF VInv
<1>2. /\ TasksOk(h, ent, T) /\ InOrder(ent, T) /\ TaskOk(h, ent, t)
      /\ \A id, k : Pending(T, id, k) => Pending(ts, id, k)
      /\ \A id, k : Pending(ts, id, k) =>
           Pending(T, id, k) \/ (t.obj = id /\ t.field = k /\ t.op # "dups")
      /\ \A e : (\E i \in 1 .. Len(ts) : ts[i].obj = e /\ ts[i].op = "dups") =>
              \/ \E i \in 1 .. Len(T) : T[i].obj = e /\ T[i].op = "dups"
              \/ t.obj = e /\ t.op = "dups"
  <2>1. TasksOk(h, ent, ts) /\ InOrder(ent, ts) /\ ts # <<>>
    BY <1>1
  <2>2. /\ TasksOk(h, ent, T) /\ InOrder(ent, T) /\ TaskOk(h, ent, t) /\ Lessens(ts)
    BY ONLY <2>1, Popped
  <2> QED BY <2>2 DEF Lessens
<1>3. Answered(h, r, a, ent, t)
  OBVIOUS
<1> HIDE DEF t, T
<1>4. t.obj # Null
  BY <1>2, <1>3 DEF TaskOk, Task, Answered
<1>5. /\ t.obj \in AllOf(ent)
      /\ t.op = What(h[t.obj], t.field) \/ (t.op = "dups" /\ t.field = 1)
      /\ Tgt(h, r, t) = h[t.obj].ptr[t.field]
  BY <1>2, <1>4 DEF TaskOk, Tgt
<1>6. \A id, k : Pending(ts, id, k) /\ ~ Pending(T, id, k) =>
        /\ t.obj = id /\ t.field = k /\ t.op = What(h[id], k)
        /\ \/ What(h[id], k) = "optional" /\ h[id].ptr[k] = Null
           \/ /\ What(h[id], k) = "known" /\ h[id].ptr[k] # Null
              /\ \E q \in 1 .. Len(ent) : a[ent[q]] = a[h[id].ptr[k]]
  BY <1>2, <1>3, <1>5 DEF Answered
<1>7. FieldsDone(h, a, ent, T)
  <2>1. ASSUME NEW p \in 1 .. Len(ent), NEW k \in 1 .. Len(h[ent[p]].ptr),
               ~ Pending(T, ent[p], k)
        PROVE  FieldDone(h, a, ent, p, k)
    <3>1. CASE ~ Pending(ts, ent[p], k)
      BY <1>1, <3>1 DEF FieldsDone
    <3>2. CASE Pending(ts, ent[p], k)
      BY <1>6, <2>1, <3>2, WhatIs DEF FieldDone
    <3> QED BY <3>1, <3>2
  <2> QED BY <2>1 DEF FieldsDone
<1>8. Once(h, ent, T)
  <2>1. \A d, k : ~ Refers(h[d], k) /\ ~ Pending(T, d, k) /\ h[d].ptr[k] # Null
                    => ~ Pending(ts, d, k)
    BY <1>6, WhatIs
  <2> QED BY <1>1, <2>1 DEF Once
<1>9. Starts(r, ent, T)
  <2>1. ent # <<>>
    BY <1>5 DEF AllOf
  <2> QED BY <1>1, <2>1 DEF Starts
<1>10. ArgsFirst(h, ent, T)
  <2>1. \A l : h[l].kind = "list" /\ ~ Pending(T, l, 2) => ~ Pending(ts, l, 2)
    BY <1>6, WhatIs
  <2> QED BY <1>1, <2>1 DEF ArgsFirst
<1>11. AllAtHome(h, ent, T)
  BY <1>1, <1>2 DEF AllAtHome, AtHome
<1>12. NamesChecked(h, ent, T)
  <2>1. t.op = "dups" => t.field = 1 /\ Distinct(h[h[t.obj].ptr[1]].data)
    BY <1>3, <1>5, WhatIs DEF Answered
  <2> QED BY <1>1, <1>2, <2>1 DEF NamesChecked
<1>13. Found(h, ent, T)
  BY <1>1, <1>2 DEF Found
<1> QED BY <1>1, <1>2, <1>7, <1>8, <1>9, <1>10, <1>11, <1>12, <1>13 DEF VInv, T


-----------------------------------------------------------------------------
(* What the types of C say of the fields.                                  *)
LEMMA TypedIs ==
  ASSUME NEW h, NEW r, IsTyped(h, r)
  PROVE  /\ Objs(h) /\ r \in 0 .. Len(h)
         /\ r # Null => r \in 1 .. Len(h) /\ h[r].kind \in NodeKinds \cup {"defs"}
         /\ \A id \in 1 .. Len(h) :
              /\ h[id].kind \in {"list", "dict"} => Len(h[id].ptr) = 2
              /\ h[id].kind \in {"defs", "trie"} => Len(h[id].ptr) = 1
              /\ \A k \in 1 .. Len(h[id].ptr) : h[id].ptr[k] # Null =>
                   /\ h[id].ptr[k] \in 1 .. Len(h)
                   /\ h[h[id].ptr[k]].kind \in Pointees(h[id], k)
                   /\ h[id].kind = "dict" => OfChars(h, h[id].ptr[k])
                   /\ h[id].kind # "dict" => OfTypes(h, h[id].ptr[k])
<1>1. Objs(h) /\ r \in 0 .. Len(h) /\ Len(h) \in Nat
  BY DEF IsTyped, Objs
<1>2. r # Null => r \in 1 .. Len(h) /\ h[r].kind \in NodeKinds \cup {"defs"}
  BY <1>1 DEF IsTyped, Null
<1>3. ASSUME NEW id \in 1 .. Len(h)
      PROVE  /\ h[id].kind \in {"list", "dict"} => Len(h[id].ptr) = 2
             /\ h[id].kind \in {"defs", "trie"} => Len(h[id].ptr) = 1
  <2>1. Len(h[id].ptr) \in Arity(h[id])
    BY DEF IsTyped
  <2>2. h[id].kind \in {"list", "dict"} => Arity(h[id]) = {2}
    BY DEF Arity, Cells
  <2>3. h[id].kind \in {"defs", "trie"} => Arity(h[id]) = {1}
    BY DEF Arity, Cells
  <2> QED BY <2>1, <2>2, <2>3
<1>4. ASSUME NEW id \in 1 .. Len(h), NEW k \in 1 .. Len(h[id].ptr), h[id].ptr[k] # Null
      PROVE  /\ h[id].ptr[k] \in 1 .. Len(h)
             /\ h[h[id].ptr[k]].kind \in Pointees(h[id], k)
             /\ h[id].kind = "dict" => OfChars(h, h[id].ptr[k])
             /\ h[id].kind # "dict" => OfTypes(h, h[id].ptr[k])
  <2>1. h[id].ptr[k] \in 0 .. Len(h)
    BY <1>1, ObjsFields
  <2>2. h[id].ptr[k] \in 1 .. Len(h)
    BY <1>1, <1>4, <2>1 DEF Null
  <2> QED BY <1>4, <2>2 DEF IsTyped
<1> QED BY <1>1, <1>2, <1>3, <1>4

(* Who points to a part of an attr, and to definitions.                    *)
LEMMA PointersTo ==
  ASSUME NEW h, NEW r, IsTyped(h, r), NEW id \in 1 .. Len(h),
         NEW k \in 1 .. Len(h[id].ptr), h[id].ptr[k] # Null
  PROVE  LET x == h[id].ptr[k]
         IN  /\ h[x].kind # "defs"
             /\ h[x].kind = "attrs" => h[id].kind = "list" /\ k = 2
             /\ h[x].kind \in {"cell", "objcell"} =>
                  \/ h[id].kind = h[x].kind
                  \/ /\ h[id].kind = "trie" /\ k = 1
             /\ h[x].kind = "trie" => h[id].kind \in {"dict", "attrs"}
<1> DEFINE x == h[id].ptr[k]
           o == h[id]
<1>1. h[x].kind \in Pointees(o, k) /\ o.kind \in Kinds
  BY TypedIs, ObjsFields
<1>2. h[id].kind = "trie" => k = 1
  <2>1. h[id].kind = "trie" => Len(h[id].ptr) = 1
    BY TypedIs
  <2> QED BY <2>1
<1> HIDE DEF x, o
<1>3. Pointees(o, k) \in {{"args"}, {"array"}, {"trie"}, NodeKinds, {}}
        \/ (Pointees(o, k) = {"attrs"} /\ o.kind = "list" /\ k = 2)
        \/ (Pointees(o, k) = Cells /\ o.kind = "trie")
        \/ (Pointees(o, k) = {o.kind} /\ o.kind \in Cells)
  BY DEF Pointees
<1>4. h[x].kind = "trie" => o.kind \in {"dict", "attrs"}
  BY <1>1 DEF Pointees, NodeKinds, Cells
<1> QED BY <1>1, <1>2, <1>3, <1>4 DEF Cells, NodeKinds, o, x

(* All that was met after an object has been looked through when the next  *)
(* call is one of that object: with it, what it owns was met too.          *)
LEMMA LaterIsClosed ==
  ASSUME NEW h, NEW r, NEW a, NEW ent, NEW ts, VInv(h, r, a, ent, ts), ts # <<>>,
         NEW p \in 1 .. Len(ent), ent[p] = Head(ts).obj
  PROVE  LET later == {ent[q] : q \in {s \in 1 .. Len(ent) : p < s}}
         IN  \A e \in later : Owned(h, e) \subseteq later
<1> DEFINE later == {ent[q] : q \in {s \in 1 .. Len(ent) : p < s}}
           t == Head(ts)
           T == Tail(ts)
<1>1. SUFFICES ASSUME NEW q \in 1 .. Len(ent), p < q,
                      NEW k \in 1 .. Len(h[ent[q]].ptr), ~ Refers(h[ent[q]], k),
                      h[ent[q]].ptr[k] # Null
               PROVE  h[ent[q]].ptr[k] \in later
  BY OwnedIs
<1>2. /\ TasksOk(h, ent, ts) /\ InOrder(ent, ts) /\ Apart(a, ent)
      /\ FieldsDone(h, a, ent, ts) /\ ent \in Seq(1 .. Len(h))
  BY DEF VInv
<1>3. /\ \A i \in 1 .. Len(T) : ComesFirst(ent, t, T[i])
      /\ Lessens(ts)
  <2>1. TasksOk(h, ent, ts) /\ InOrder(ent, ts) /\ ts # <<>>
    BY <1>2
  <2> QED BY ONLY <2>1, Popped
<1>4. Len(ent) \in Nat /\ p \in Nat /\ q \in Nat
  BY <1>2
<1>5. ent[q] # t.obj
  <2>1. SUFFICES ASSUME ent[q] = ent[p] PROVE FALSE
    OBVIOUS
  <2>2. p = q
    BY <1>2, <2>1 DEF Apart
  <2> QED BY <2>2, <1>1, <1>4
<1>6. ~ Pending(T, ent[q], k)
  <2>1. SUFFICES ASSUME NEW i \in 1 .. Len(T), T[i].obj = ent[q] PROVE FALSE
    BY DEF Pending
  <2>2. q <= p
    BY <1>3, <2>1 DEF ComesFirst
  <2> QED BY <1>1, <1>4, <2>2
<1>7. ~ Pending(ts, ent[q], k)
  BY <1>3, <1>5, <1>6 DEF Lessens
<1>8. FieldDone(h, a, ent, q, k)
  BY <1>2, <1>7 DEF FieldsDone
<1>9. PICK s \in 1 .. Len(ent) : q < s /\ ent[s] = h[ent[q]].ptr[k]
  BY <1>1, <1>8 DEF FieldDone
<1>10. p < s
  BY <1>1, <1>4, <1>9
<1> QED BY <1>9, <1>10

(* So the types of a list are all met when its attr is to be.              *)
LEMMA ArgsAreMet ==
  ASSUME NEW h, NEW r, NEW a, NEW ent, NEW ts, IsTyped(h, r), VInv(h, r, a, ent, ts),
         ts # <<>>, Head(ts).op = "trusted", h[Head(ts).obj].kind = "list"
  PROVE  From(h, h[Head(ts).obj].ptr[1]) \subseteq AllOf(ent)
<1> DEFINE t == Head(ts)
           l == t.obj
<1>1. /\ TasksOk(h, ent, ts) /\ InOrder(ent, ts)
      /\ FieldsDone(h, a, ent, ts) /\ ent \in Seq(1 .. Len(h))
  BY DEF VInv
<1>2. TaskOk(h, ent, t) /\ t \in TaskSet(h)
  BY <1>1, Popped
<1>3. l \in AllOf(ent) /\ t.op = What(h[l], t.field) /\ t.field \in 1 .. Len(h[l].ptr)
  BY <1>2 DEF TaskOk, Task
<1>4. PICK p \in 1 .. Len(ent) : ent[p] = l
  BY <1>3 DEF AllOf
<1>5. l \in 1 .. Len(h) /\ Len(h[l].ptr) = 2
  BY <1>1, <1>4, TypedIs
<1>6. What(h[l], 1) = "asked" /\ ~ Refers(h[l], 1)
  BY DEF What, Required, Refers, NodeKinds
<1>7. t.field = 2
  BY <1>3, <1>5, <1>6
<1>8. ~ Pending(ts, l, 1)
  <2>1. \A k \in Nat : k < t.field => ~ Pending(ts, t.obj, k)
    BY <1>1, HeadAlone
  <2> QED BY <2>1, <1>7
<1>9. FieldDone(h, a, ent, p, 1)
  <2>1. 1 \in 1 .. Len(h[ent[p]].ptr) /\ ~ Pending(ts, ent[p], 1)
    BY <1>4, <1>5, <1>8
  <2>2. FieldsDone(h, a, ent, ts)
    BY <1>1
  <2> QED BY ONLY <2>1, <2>2, p \in 1 .. Len(ent) DEF FieldsDone
<1>10. PICK q \in 1 .. Len(ent) : p < q /\ ent[q] = h[l].ptr[1]
  BY <1>4, <1>6, <1>9 DEF FieldDone
<1> DEFINE later == {ent[s] : s \in {u \in 1 .. Len(ent) : p < u}}
<1>11. \A e \in later : Owned(h, e) \subseteq later
  <2>1. VInv(h, r, a, ent, ts) /\ ts # <<>> /\ p \in 1 .. Len(ent) /\ ent[p] = Head(ts).obj
    BY <1>4
  <2> QED BY ONLY <2>1, LaterIsClosed
<1>12. h[l].ptr[1] \in later /\ later \subseteq AllOf(ent)
  BY <1>10 DEF AllOf
<1>13. Objs(h) /\ h[l].ptr[1] \in 0 .. Len(h)
  BY <1>5, TypedIs, ObjsFields
<1>14. From(h, h[l].ptr[1]) \subseteq later
  <2> HIDE DEF later
  <2> QED BY <1>11, <1>12, <1>13, FromLeast
<1> QED BY <1>12, <1>14


-----------------------------------------------------------------------------
(* An object is met: the calls of its parts come before all others.        *)
Joined(s, t, u) ==
  /\ \A i \in 1 .. Len(u) :
       \/ i \in 1 .. Len(s) /\ u[i] = s[i]
       \/ Len(s) < i /\ i - Len(s) \in 1 .. Len(t) /\ u[i] = t[i - Len(s)]
  /\ \A i \in 1 .. Len(s) : i \in 1 .. Len(u) /\ u[i] = s[i]
  /\ \A i \in 1 .. Len(t) : i + Len(s) \in 1 .. Len(u) /\ u[i + Len(s)] = t[i]

(* Two sequences, one after the other.                                     *)
LEMMA JoinIs ==
  ASSUME NEW S, NEW s \in Seq(S), NEW t \in Seq(S)
  PROVE  s \o t \in Seq(S) /\ Len(s) \in Nat /\ Joined(s, t, s \o t)
BY DEF Joined

(* The parts of a call.                                                    *)
LEMMA TaskIs ==
  ASSUME NEW op, NEW obj, NEW field
  PROVE  /\ Task(op, obj, field).op = op /\ Task(op, obj, field).obj = obj
         /\ Task(op, obj, field).field = field
BY DEF Task

PartsOf(h, id) ==
  [k \in 1 .. Len(h[id].ptr) |-> Task(What(h[id], k), id, k)]
  \o (IF h[id].kind = "defs" THEN <<Task("dups", id, 1)>> ELSE <<>>)

(* What validates after an object is one call for each of its fields, in   *)
(* order, and for the types of a library one more for their names.         *)
LEMMA PartsIs ==
  ASSUME NEW h, Objs(h), NEW id \in 1 .. Len(h)
  PROVE  /\ PartsOf(h, id) \in Seq(TaskSet(h))
         /\ \A i \in 1 .. Len(PartsOf(h, id)) :
              \/ /\ i \in 1 .. Len(h[id].ptr)
                 /\ PartsOf(h, id)[i] = Task(What(h[id], i), id, i)
              \/ /\ Len(h[id].ptr) < i /\ h[id].kind = "defs" /\ i = Len(h[id].ptr) + 1
                 /\ PartsOf(h, id)[i] = Task("dups", id, 1)
         /\ \A k \in 1 .. Len(h[id].ptr) :
              k \in 1 .. Len(PartsOf(h, id)) /\ PartsOf(h, id)[k] = Task(What(h[id], k), id, k)
         /\ h[id].kind = "defs" => \E i \in 1 .. Len(PartsOf(h, id)) :
              PartsOf(h, id)[i] = Task("dups", id, 1)
<1> DEFINE n == Len(h[id].ptr)
           s == [k \in 1 .. n |-> Task(What(h[id], k), id, k)]
           d == IF h[id].kind = "defs" THEN <<Task("dups", id, 1)>> ELSE <<>>
           S == TaskSet(h)
<1>1. n \in Nat /\ id \in 0 .. Len(h)
  BY ObjsFields
<1>2. s \in Seq(S) /\ Len(s) = n /\ \A k \in 1 .. n : s[k] = Task(What(h[id], k), id, k)
  <2>1. \A k \in 1 .. n : Task(What(h[id], k), id, k) \in S
    BY <1>1 DEF Task, What, TaskSet
  <2> HIDE DEF n, S
  <2> QED BY <1>1, <2>1
<1>3. d \in Seq(S) /\ (h[id].kind = "defs" => Len(d) = 1 /\ d[1] = Task("dups", id, 1))
      /\ (h[id].kind # "defs" => Len(d) = 0)
  <2>1. Task("dups", id, 1) \in S
    BY <1>1 DEF Task, TaskSet
  <2> HIDE DEF S
  <2> QED BY <2>1
<1>4. PartsOf(h, id) = s \o d
  BY DEF PartsOf
<1> HIDE DEF n, s, d, S
<1>5. s \o d \in Seq(S) /\ Joined(s, d, s \o d)
  <2>1. s \in Seq(S) /\ d \in Seq(S)
    BY <1>2, <1>3
  <2> QED BY ONLY <2>1, JoinIs
<1> DEFINE P == PartsOf(h, id)
<1>6. P \in Seq(S) /\ Joined(s, d, P)
  BY <1>4, <1>5
<1> HIDE DEF P
<1>7. ASSUME NEW i \in 1 .. Len(P)
      PROVE  \/ i \in 1 .. n /\ P[i] = Task(What(h[id], i), id, i)
             \/ /\ n < i /\ h[id].kind = "defs" /\ i = n + 1
                /\ P[i] = Task("dups", id, 1)
  <2>1. CASE i \in 1 .. n /\ P[i] = s[i]
    BY <1>2, <2>1
  <2>2. CASE n < i /\ i - n \in 1 .. Len(d) /\ P[i] = d[i - n]
    <3>1. h[id].kind = "defs"
      <4>1. Len(d) # 0
        BY <2>2
      <4> QED BY <1>3, <4>1
    <3>2. Len(d) = 1 /\ d[1] = Task("dups", id, 1)
      BY <1>3, <3>1
    <3>3. i - n = 1 /\ i \in Nat
      <4>1. i - n \in 1 .. 1
        BY <2>2, <3>2
      <4> QED BY <1>6, <4>1
    <3>4. i = n + 1
      BY <1>1, <3>3
    <3> QED BY <2>2, <3>1, <3>2, <3>3, <3>4
  <2>3. \/ i \in 1 .. n /\ P[i] = s[i]
        \/ n < i /\ i - n \in 1 .. Len(d) /\ P[i] = d[i - n]
    BY <1>2, <1>6 DEF Joined
  <2> QED BY <2>1, <2>2, <2>3
<1>8. \A k \in 1 .. n : k \in 1 .. Len(P) /\ P[k] = Task(What(h[id], k), id, k)
  BY <1>2, <1>6 DEF Joined
<1>9. h[id].kind = "defs" => \E i \in 1 .. Len(P) : P[i] = Task("dups", id, 1)
  <2>1. SUFFICES ASSUME h[id].kind = "defs"
                 PROVE  \E i \in 1 .. Len(P) : P[i] = Task("dups", id, 1)
    OBVIOUS
  <2>2. 1 \in 1 .. Len(d) /\ d[1] = Task("dups", id, 1)
    BY <1>3, <2>1
  <2>3. 1 + Len(s) \in 1 .. Len(P) /\ P[1 + Len(s)] = d[1]
    BY <1>6, <2>2 DEF Joined
  <2> QED BY <2>2, <2>3
<1> QED BY <1>6, <1>7, <1>8, <1>9 DEF n, S, P

\* What is left to ask, with the parts of an object before it.
Grows(h, x, T) ==
  /\ \A id, k : Pending(PartsOf(h, x) \o T, id, k) <=>
       Pending(T, id, k) \/ (id = x /\ k \in 1 .. Len(h[x].ptr))
  /\ \A i \in 1 .. Len(T) : \E j \in 1 .. Len(PartsOf(h, x) \o T) :
       (PartsOf(h, x) \o T)[j] = T[i]
  /\ h[x].kind = "defs" => \E j \in 1 .. Len(PartsOf(h, x) \o T) :
       (PartsOf(h, x) \o T)[j] = Task("dups", x, 1)

(* The calls of an object just met come before those left, and all are in  *)
(* order.                                                                  *)
LEMMA Pushed ==
  ASSUME NEW h, NEW r, IsTyped(h, r), NEW x \in 1 .. Len(h), NEW ent \in Seq(1 .. Len(h)),
         ~(x \in AllOf(ent)), NEW T, TasksOk(h, ent, T), InOrder(ent, T),
         \A i \in 1 .. Len(T) : T[i].obj # Null
  PROVE  /\ TasksOk(h, Append(ent, x), PartsOf(h, x) \o T)
         /\ InOrder(Append(ent, x), PartsOf(h, x) \o T)
         /\ Grows(h, x, T)
<1> DEFINE P == PartsOf(h, x)
           S == TaskSet(h)
           new == Append(ent, x)
           n == Len(h[x].ptr)
<1>1. /\ T \in Seq(S)
      /\ \A i \in 1 .. Len(T) : TaskOk(h, ent, T[i]) /\ T[i].obj \in AllOf(ent)
  BY DEF TasksOk, TaskOk
<1>2. Objs(h) /\ n \in Nat
  BY TypedIs, ObjsFields
<1>3. /\ P \in Seq(S)
      /\ \A i \in 1 .. Len(P) :
           \/ i \in 1 .. n /\ P[i] = Task(What(h[x], i), x, i)
           \/ n < i /\ h[x].kind = "defs" /\ i = n + 1 /\ P[i] = Task("dups", x, 1)
      /\ \A k \in 1 .. n : k \in 1 .. Len(P) /\ P[k] = Task(What(h[x], k), x, k)
      /\ h[x].kind = "defs" => \E i \in 1 .. Len(P) : P[i] = Task("dups", x, 1)
  BY <1>2, PartsIs
<1>4. /\ new \in Seq(1 .. Len(h)) /\ Len(new) = Len(ent) + 1
      /\ new[Len(ent) + 1] = x /\ \A i \in 1 .. Len(ent) : new[i] = ent[i]
      /\ AllOf(new) = AllOf(ent) \cup {x} /\ Len(ent) \in Nat
  BY AppendAll
<1> HIDE DEF P, S, new
<1> DEFINE U == P \o T
<1>5. /\ U \in Seq(S)
      /\ \A i \in 1 .. Len(U) :
              \/ i \in 1 .. Len(P) /\ U[i] = P[i]
              \/ Len(P) < i /\ i - Len(P) \in 1 .. Len(T) /\ U[i] = T[i - Len(P)]
      /\ \A i \in 1 .. Len(P) : i \in 1 .. Len(U) /\ U[i] = P[i]
      /\ \A i \in 1 .. Len(T) : i + Len(P) \in 1 .. Len(U) /\ U[i + Len(P)] = T[i]
  <2>1. P \in Seq(S) /\ T \in Seq(S)
    BY <1>1, <1>3
  <2>2. U \in Seq(S) /\ Joined(P, T, U)
    BY ONLY <2>1, JoinIs
  <2> QED BY <2>2 DEF Joined
<1> HIDE DEF U
<1>d. h[x].kind = "defs" => 1 \in 1 .. n
  <2>1. SUFFICES ASSUME h[x].kind = "defs" PROVE n = 1
    <3> HIDE DEF n
    <3> QED OBVIOUS
  <2> QED BY <2>1, TypedIs
<1> HIDE DEF n
<1>e. \A i \in 1 .. Len(P) : P[i].op = "dups" \/ P[i].field = i
  BY <1>3, TaskIs
<1>6. Len(P) \in Nat /\ Len(T) \in Nat /\ Len(U) \in Nat /\ x # Null
  BY <1>1, <1>3, <1>5 DEF Null
<1>7. \A i \in 1 .. Len(P) : P[i].obj = x /\ TaskOk(h, new, P[i])
  <2>1. x \in AllOf(new)
    BY <1>4
  <2>2. ASSUME NEW i \in 1 .. Len(P) PROVE P[i].obj = x /\ TaskOk(h, new, P[i])
    <3>1. \/ i \in 1 .. n /\ P[i] = Task(What(h[x], i), x, i)
          \/ h[x].kind = "defs" /\ P[i] = Task("dups", x, 1)
      BY <1>3
    <3>2. CASE i \in 1 .. n /\ P[i] = Task(What(h[x], i), x, i)
      <4>1. P[i].op = What(h[x], i) /\ P[i].obj = x /\ P[i].field = i
        BY <3>2, TaskIs
      <4> QED BY <1>6, <2>1, <3>2, <4>1 DEF TaskOk, n
    <3>3. CASE h[x].kind = "defs" /\ P[i] = Task("dups", x, 1)
      <4>1. P[i].op = "dups" /\ P[i].obj = x /\ P[i].field = 1
        BY <3>3, TaskIs
      <4> QED BY <1>6, <1>d, <2>1, <3>3, <4>1 DEF TaskOk, n
    <3> QED BY <3>1, <3>2, <3>3
  <2> QED BY <2>2
<1>8. TasksOk(h, new, U)
  <2>1. ASSUME NEW i \in 1 .. Len(T) PROVE TaskOk(h, new, T[i])
    <3>1. TaskOk(h, ent, T[i]) /\ T[i].obj \in AllOf(ent) /\ T[i].obj # Null
      BY <1>1
    <3> QED BY <1>4, <3>1 DEF TaskOk
  <2> QED BY <1>5, <1>7, <2>1 DEF TasksOk, S
<1>9. \A p \in 1 .. Len(new) : /\ new[p] = x <=> p = Len(ent) + 1
                               /\ p \in 1 .. Len(ent) \/ p = Len(ent) + 1
  <2>1. \A p \in 1 .. Len(new) : p \in 1 .. Len(ent) \/ p = Len(ent) + 1
    BY <1>4
  <2>2. \A p \in 1 .. Len(ent) : new[p] # x /\ p # Len(ent) + 1
    BY <1>4 DEF AllOf
  <2> QED BY <1>4, <2>1, <2>2
<1>10. InOrder(new, U)
  <2>1. ASSUME NEW i \in 1 .. Len(U), NEW j \in 1 .. Len(U), i < j
        PROVE  ComesFirst(new, U[i], U[j])
    <3>1. CASE i \in 1 .. Len(P) /\ j \in 1 .. Len(P)
      <4>1. U[i] = P[i] /\ U[j] = P[j] /\ P[i].obj = x /\ P[j].obj = x
        BY <1>5, <1>7, <3>1
      <4>2. i \in 1 .. n /\ P[i] = Task(What(h[x], i), x, i)
        BY <1>2, <1>3, <1>6, <2>1, <3>1
      <4>3. P[i].op # "dups" /\ P[i].field = i
        BY <4>2, WhatIs, TaskIs
      <4>4. P[j].op = "dups" \/ P[j].field = j
        BY <1>e, <3>1
      <4> QED BY <1>4, <1>9, <2>1, <4>1, <4>3, <4>4 DEF ComesFirst
    <3>2. CASE i \in 1 .. Len(P) /\ ~(j \in 1 .. Len(P))
      <4>1. j - Len(P) \in 1 .. Len(T) /\ U[j] = T[j - Len(P)] /\ U[i] = P[i]
        BY <1>5, <3>2
      <4>2. U[j].obj \in AllOf(ent) /\ U[i].obj = x
        BY <1>1, <1>7, <3>2, <4>1
      <4>3. U[i].obj # U[j].obj
        BY <4>2
      <4>4. ASSUME NEW p \in 1 .. Len(new), NEW q \in 1 .. Len(new),
                   new[p] = U[i].obj, new[q] = U[j].obj
            PROVE  q <= p
        BY <1>4, <1>9, <4>2, <4>4
      <4> QED BY <4>3, <4>4 DEF ComesFirst
    <3>3. CASE ~(i \in 1 .. Len(P))
      <4>1. /\ i - Len(P) \in 1 .. Len(T) /\ U[i] = T[i - Len(P)]
            /\ j - Len(P) \in 1 .. Len(T) /\ U[j] = T[j - Len(P)]
            /\ i - Len(P) < j - Len(P)
        <5>1. ~(j \in 1 .. Len(P)) /\ i - Len(P) < j - Len(P)
          BY <1>6, <2>1, <3>3
        <5> QED BY <1>5, <3>3, <5>1
      <4>2. ComesFirst(ent, U[i], U[j])
        BY <4>1 DEF InOrder
      <4>3. U[i].obj \in AllOf(ent) /\ U[j].obj \in AllOf(ent)
        BY <1>1, <4>1
      <4>4. ASSUME NEW p \in 1 .. Len(new), NEW q \in 1 .. Len(new),
                   new[p] = U[i].obj, new[q] = U[j].obj
            PROVE  q <= p
        <5>1. p \in 1 .. Len(ent) /\ q \in 1 .. Len(ent)
          BY <1>9, <4>3, <4>4
        <5> QED BY <1>4, <4>2, <4>4, <5>1 DEF ComesFirst
      <4> QED BY <4>2, <4>4 DEF ComesFirst
    <3> QED BY <3>1, <3>2, <3>3
  <2> QED BY <2>1 DEF InOrder
<1>11. ASSUME NEW id, NEW k
       PROVE  Pending(U, id, k) <=> Pending(T, id, k) \/ (id = x /\ k \in 1 .. n)
  <2>1. ASSUME NEW i \in 1 .. Len(U), U[i].obj = id, U[i].field = k, U[i].op # "dups"
        PROVE  Pending(T, id, k) \/ (id = x /\ k \in 1 .. n)
    <3>1. CASE i \in 1 .. Len(P) /\ U[i] = P[i]
      <4>1. i \in 1 .. n /\ P[i] = Task(What(h[x], i), x, i)
        BY <1>3, <2>1, <3>1, TaskIs
      <4> QED BY <2>1, <3>1, <4>1, TaskIs
    <3>2. CASE i - Len(P) \in 1 .. Len(T) /\ U[i] = T[i - Len(P)]
      BY <2>1, <3>2 DEF Pending
    <3> QED BY <1>5, <3>1, <3>2
  <2>2. ASSUME Pending(T, id, k) PROVE Pending(U, id, k)
    <3>1. PICK i \in 1 .. Len(T) : T[i].obj = id /\ T[i].field = k /\ T[i].op # "dups"
      BY <2>2 DEF Pending
    <3>2. i + Len(P) \in 1 .. Len(U) /\ U[i + Len(P)] = T[i]
      BY <1>5
    <3> QED BY <3>1, <3>2 DEF Pending
  <2>3. ASSUME id = x, k \in 1 .. n PROVE Pending(U, id, k)
    <3>1. k \in 1 .. Len(U) /\ U[k] = Task(What(h[x], k), x, k)
      BY <1>3, <1>5, <2>3
    <3>2. U[k].obj = id /\ U[k].field = k /\ U[k].op # "dups"
      BY <2>3, <3>1, WhatIs, TaskIs
    <3> QED BY <3>1, <3>2 DEF Pending
  <2> QED BY <2>1, <2>2, <2>3 DEF Pending
<1>12. Grows(h, x, T)
  <2>1. \A i \in 1 .. Len(T) : \E j \in 1 .. Len(U) : U[j] = T[i]
    BY <1>5
  <2>2. h[x].kind = "defs" => \E j \in 1 .. Len(U) : U[j] = Task("dups", x, 1)
    BY <1>3, <1>5
  <2> QED BY <1>11, <2>1, <2>2 DEF Grows, U, P, n
<1> QED BY <1>8, <1>10, <1>12 DEF U, P, new

-----------------------------------------------------------------------------
(* The calls of a pointer that is followed.                                *)
Follows(t) == t.op \in {"asked", "optional", "trusted"}

(* What the first call is about, when it follows a pointer.                *)
LEMMA FollowedIs ==
  ASSUME NEW h, NEW r, IsTyped(h, r), NEW a, NEW ent, NEW ts, VInv(h, r, a, ent, ts),
         ts # <<>>, Follows(Head(ts))
  PROVE  /\ \A i \in 1 .. Len(Tail(ts)) : Tail(ts)[i].obj # Null
         /\ Tgt(h, r, Head(ts)) \in 0 .. Len(h)
         /\ \/ /\ Head(ts).obj = Null /\ ent = <<>> /\ Tail(ts) = <<>>
               /\ Head(ts).op = "asked" /\ Tgt(h, r, Head(ts)) = r
            \/ /\ Head(ts).obj \in AllOf(ent) /\ Head(ts).obj \in 1 .. Len(h)
               /\ Head(ts).obj # Null /\ ent # <<>>
               /\ Head(ts).field \in 1 .. Len(h[Head(ts).obj].ptr)
               /\ Head(ts).op = What(h[Head(ts).obj], Head(ts).field)
               /\ ~ Refers(h[Head(ts).obj], Head(ts).field)
               /\ Tgt(h, r, Head(ts)) = h[Head(ts).obj].ptr[Head(ts).field]
<1> DEFINE t == Head(ts)
           T == Tail(ts)
<1>1. /\ TasksOk(h, ent, ts) /\ InOrder(ent, ts) /\ ent \in Seq(1 .. Len(h))
      /\ Starts(r, ent, ts)
  BY DEF VInv
<1>2. TasksOk(h, ent, T) /\ TaskOk(h, ent, t) /\ t.op \in {"asked", "optional", "trusted"}
  <2>1. TasksOk(h, ent, ts) /\ InOrder(ent, ts) /\ ts # <<>>
    BY <1>1
  <2>2. TasksOk(h, ent, T) /\ TaskOk(h, ent, t)
    BY ONLY <2>1, Popped
  <2> QED BY <2>2 DEF Follows
<1>3. Objs(h) /\ r \in 0 .. Len(h) /\ AllOf(ent) \subseteq 1 .. Len(h) /\ Len(h) \in Nat
  BY <1>1, TypedIs, AtIn, ObjsFields
<1>4. CASE ent = <<>>
  <2>1. ts = <<Task("asked", Null, 1)>>
    BY <1>1, <1>4 DEF Starts
  <2>2. T = <<>> /\ t = Task("asked", Null, 1)
    BY <2>1
  <2>3. t.op = "asked" /\ t.obj = Null
    BY <2>2, TaskIs
  <2>4. Tgt(h, r, t) = r /\ Len(T) = 0
    BY <2>2, <2>3 DEF Tgt
  <2> QED BY <1>3, <1>4, <2>2, <2>3, <2>4
<1>5. CASE ent # <<>>
  <2> HIDE DEF t, T
  <2>1. \A i \in 1 .. Len(T) : T[i].obj # Null
    BY <1>2, <1>5 DEF TasksOk, TaskOk
  <2>2. /\ t.obj \in AllOf(ent) /\ t.obj # Null
        /\ t.field \in 1 .. Len(h[t.obj].ptr) /\ t.op = What(h[t.obj], t.field)
    BY <1>2, <1>5 DEF TaskOk
  <2>3. ~ Refers(h[t.obj], t.field)
    BY <1>2, <2>2, WhatIs
  <2>4. t.obj \in 1 .. Len(h) /\ Tgt(h, r, t) = h[t.obj].ptr[t.field]
    BY <1>3, <2>2 DEF Tgt
  <2>5. Tgt(h, r, t) \in 0 .. Len(h)
    BY <1>3, <2>2, <2>4, ObjsFields
  <2> QED BY <1>5, <2>1, <2>2, <2>3, <2>4, <2>5 DEF t, T
<1> QED BY <1>4, <1>5

(* What it leaves to ask, when its object is met.                          *)
LEMMA EnterHolds ==
  ASSUME NEW h, NEW r, IsTyped(h, r), NEW a, NEW ent, NEW ts, VInv(h, r, a, ent, ts),
         ts # <<>>, Follows(Head(ts)), Tgt(h, r, Head(ts)) # Null,
         \A i \in 1 .. Len(ent) : a[ent[i]] # a[Tgt(h, r, Head(ts))]
  PROVE  VInv(h, r, a, Append(ent, Tgt(h, r, Head(ts))),
              PartsOf(h, Tgt(h, r, Head(ts))) \o Tail(ts))
<1> DEFINE t == Head(ts)
           T == Tail(ts)
           x == Tgt(h, r, t)
           new == Append(ent, x)
           U == PartsOf(h, x) \o T
           o == t.obj
           f == t.field
           m == Len(ent)
<1>1. /\ ent \in Seq(1 .. Len(h)) /\ Apart(a, ent)
      /\ TasksOk(h, ent, ts) /\ InOrder(ent, ts)
      /\ FieldsDone(h, a, ent, ts) /\ Once(h, ent, ts)
      /\ Starts(r, ent, ts) /\ AllOf(ent) \subseteq From(h, r) /\ Found(h, ent, ts)
      /\ ArgsFirst(h, ent, ts) /\ AllAtHome(h, ent, ts) /\ NamesChecked(h, ent, ts)
  BY DEF VInv
<1>2. /\ TasksOk(h, ent, T) /\ InOrder(ent, T)
      /\ \A id, k : Pending(ts, id, k) =>
           Pending(T, id, k) \/ (o = id /\ f = k /\ t.op # "dups")
      /\ \A e : (\E i \in 1 .. Len(ts) : ts[i].obj = e /\ ts[i].op = "dups") =>
              \/ \E i \in 1 .. Len(T) : T[i].obj = e /\ T[i].op = "dups"
              \/ o = e /\ t.op = "dups"
      /\ t.op # "dups" => ~ Pending(T, o, f)
  <2>1. TasksOk(h, ent, ts) /\ InOrder(ent, ts) /\ ts # <<>>
    BY <1>1
  <2>2. /\ TasksOk(h, ent, T) /\ InOrder(ent, T) /\ Lessens(ts)
        /\ t.op # "dups" => ~ Pending(T, o, f)
    BY ONLY <2>1, Popped, HeadAlone
  <2> QED BY <2>2 DEF Lessens
<1>3. /\ \A i \in 1 .. Len(T) : T[i].obj # Null
      /\ x \in 0 .. Len(h)
      /\ \/ o = Null /\ ent = <<>> /\ x = r
         \/ /\ o \in AllOf(ent) /\ o \in 1 .. Len(h) /\ ent # <<>>
            /\ f \in 1 .. Len(h[o].ptr) /\ t.op = What(h[o], f)
            /\ ~ Refers(h[o], f) /\ x = h[o].ptr[f]
  BY FollowedIs
<1>4. /\ x # Null /\ \A i \in 1 .. m : a[ent[i]] # a[x]
      /\ t.op \in {"asked", "optional", "trusted"} /\ ts # <<>>
  BY DEF Follows
<1>5. /\ Objs(h) /\ r \in 0 .. Len(h) /\ Len(h) \in Nat
      /\ AllOf(ent) \subseteq 1 .. Len(h)
  BY <1>1, TypedIs, ObjsFields, AtIn
<1>s. t.op = "trusted" /\ h[o].kind = "list" => From(h, h[o].ptr[1]) \subseteq AllOf(ent)
  BY ArgsAreMet
<1> HIDE DEF t, T, x
<1>6. x \in 1 .. Len(h) /\ x \notin AllOf(ent)
  BY <1>3, <1>4, <1>5 DEF AllOf, Null
<1>7. TasksOk(h, new, U) /\ InOrder(new, U) /\ Grows(h, x, T)
  BY <1>1, <1>2, <1>3, <1>6, Pushed
<1>8. /\ new \in Seq(1 .. Len(h)) /\ Len(new) = m + 1 /\ new[m + 1] = x
      /\ \A i \in 1 .. m : new[i] = ent[i]
      /\ AllOf(new) = AllOf(ent) \cup {x} /\ m \in Nat
  BY <1>1, <1>6, AppendAll
<1> HIDE DEF new
<1>9. /\ \A id, k : Pending(U, id, k) <=> Pending(T, id, k) \/ (id = x /\ k \in 1 .. Len(h[x].ptr))
      /\ \A i \in 1 .. Len(T) : \E j \in 1 .. Len(U) : U[j] = T[i]
      /\ h[x].kind = "defs" => \E j \in 1 .. Len(U) : U[j] = Task("dups", x, 1)
  BY <1>7 DEF Grows
<1> HIDE DEF U
<1>10. \A i \in 1 .. Len(new) : i \in 1 .. m \/ i = m + 1
  BY <1>8
<1>11. \A id, k : ~ Pending(U, id, k) => ~ Pending(ts, id, k) \/ (id = o /\ k = f)
  BY <1>2, <1>9
<1>12. \A d \in AllOf(new) : \A k \in 1 .. Len(h[d].ptr) : ~ Pending(U, d, k) =>
         /\ d \in AllOf(ent)
         /\ \/ ~ Pending(ts, d, k)
            \/ d = o /\ k = f /\ ~ Refers(h[d], k) /\ h[d].ptr[k] = x
  <2>1. ASSUME NEW d \in AllOf(new), NEW k \in 1 .. Len(h[d].ptr), ~ Pending(U, d, k)
        PROVE  /\ d \in AllOf(ent)
               /\ \/ ~ Pending(ts, d, k)
                  \/ d = o /\ k = f /\ ~ Refers(h[d], k) /\ h[d].ptr[k] = x
    <3>1. d \in AllOf(ent)
      BY <1>8, <1>9, <2>1
    <3>2. d # Null
      BY <1>5, <3>1 DEF Null
    <3>3. ~ Pending(ts, d, k) \/ (d = o /\ k = f)
      BY <1>11, <2>1
    <3>4. d = o => ~ Refers(h[o], f) /\ x = h[o].ptr[f]
      BY <1>3, <3>2
    <3> QED BY <3>1, <3>3, <3>4
  <2> QED BY <2>1
<1>13. Apart(a, new)
  <2>1. ASSUME NEW i \in 1 .. Len(new), NEW j \in 1 .. Len(new), a[new[i]] = a[new[j]]
        PROVE  i = j
    <3>1. CASE i \in 1 .. m /\ j \in 1 .. m
      BY <1>1, <1>8, <2>1, <3>1 DEF Apart
    <3>2. CASE i = m + 1 \/ j = m + 1
      BY <1>4, <1>8, <1>10, <2>1, <3>2
    <3> QED BY <1>10, <3>1, <3>2
  <2> QED BY <2>1 DEF Apart
<1>14. FieldsDone(h, a, new, U)
  <2>1. ASSUME NEW p \in 1 .. Len(new), NEW k \in 1 .. Len(h[new[p]].ptr),
               ~ Pending(U, new[p], k)
        PROVE  FieldDone(h, a, new, p, k)
    <3>1. new[p] # x
      BY <1>9, <2>1
    <3>2. p \in 1 .. m /\ new[p] = ent[p] /\ p < m + 1
      BY <1>8, <1>10, <3>1
    <3>3. new[p] \in AllOf(new)
      BY DEF AllOf
    <3>4. CASE ~ Pending(ts, ent[p], k)
      <4>1. FieldDone(h, a, ent, p, k)
        BY <1>1, <2>1, <3>2, <3>4 DEF FieldsDone
      <4>2. \A q \in 1 .. m : q \in 1 .. Len(new) /\ new[q] = ent[q]
        BY <1>8
      <4> QED BY <3>2, <4>1, <4>2 DEF FieldDone
    <3>5. CASE ~ Refers(h[ent[p]], k) /\ h[ent[p]].ptr[k] = x
      <4>1. m + 1 \in 1 .. Len(new)
        BY <1>8
      <4> QED BY <1>8, <3>2, <3>5, <4>1 DEF FieldDone
    <3> QED BY <1>12, <2>1, <3>2, <3>3, <3>4, <3>5
  <2> QED BY <2>1 DEF FieldsDone
<1>15. Once(h, new, U)
  <2>1. \A d \in AllOf(ent) : \A k \in 1 .. Len(h[d].ptr) :
          ~ Refers(h[d], k) /\ ~ Pending(ts, d, k) => h[d].ptr[k] # x
    <3>1. ASSUME NEW d \in AllOf(ent), NEW k \in 1 .. Len(h[d].ptr),
                 ~ Refers(h[d], k), ~ Pending(ts, d, k)
          PROVE  h[d].ptr[k] # x
      <4>1. PICK p \in 1 .. m : ent[p] = d
        BY DEF AllOf
      <4>2. FieldDone(h, a, ent, p, k)
        BY <1>1, <3>1, <4>1 DEF FieldsDone
      <4> QED BY <1>4, <1>6, <3>1, <4>1, <4>2 DEF FieldDone, AllOf
    <3> QED BY <3>1
  <2>2. ASSUME NEW d \in AllOf(new), NEW e \in AllOf(new),
               NEW k \in 1 .. Len(h[d].ptr), NEW l \in 1 .. Len(h[e].ptr),
               ~ Refers(h[d], k), ~ Pending(U, d, k),
               ~ Refers(h[e], l), ~ Pending(U, e, l),
               h[d].ptr[k] = h[e].ptr[l], h[d].ptr[k] # Null
        PROVE  d = e /\ k = l
    <3>1. /\ d \in AllOf(ent) /\ e \in AllOf(ent)
          /\ ~ Pending(ts, d, k) \/ (d = o /\ k = f /\ h[d].ptr[k] = x)
          /\ ~ Pending(ts, e, l) \/ (e = o /\ l = f /\ h[e].ptr[l] = x)
      BY <1>12, <2>2
    <3>2. CASE ~ Pending(ts, d, k) /\ ~ Pending(ts, e, l)
      BY <1>1, <2>2, <3>1, <3>2 DEF Once
    <3>3. CASE Pending(ts, d, k) /\ Pending(ts, e, l)
      BY <3>1, <3>3
    <3> QED BY <2>1, <2>2, <3>1, <3>2, <3>3
  <2> QED BY <2>2 DEF Once
<1>16. Starts(r, new, U)
  <2>1. new # <<>>
    BY <1>8
  <2>2. CASE ent # <<>>
    <3>1. 1 \in 1 .. m
      BY <1>1, <2>2
    <3> QED BY <1>1, <1>8, <2>1, <2>2, <3>1 DEF Starts
  <2>3. CASE ent = <<>>
    <3>1. m = 0 /\ x = r
      BY <1>3, <2>3
    <3> QED BY <1>8, <2>1, <3>1 DEF Starts
  <2> QED BY <2>2, <2>3
<1>17. AllOf(new) \subseteq From(h, r)
  <2>1. x \in From(h, r)
    <3>1. CASE x = r
      BY <1>4, <1>5, <3>1, FromClosed
    <3>2. CASE o \in AllOf(ent) /\ f \in 1 .. Len(h[o].ptr) /\ ~ Refers(h[o], f) /\ x = h[o].ptr[f]
      <4>1. o \in From(h, r) /\ x \in Owned(h, o)
        BY <1>1, <1>4, <3>2, OwnedIs
      <4> QED BY <1>5, <4>1, FromClosed
    <3> QED BY <1>3, <3>1, <3>2
  <2> QED BY <1>1, <1>8, <2>1
<1>18. ArgsFirst(h, new, U)
  <2>1. ASSUME NEW l \in AllOf(new), h[l].kind = "list", ~ Pending(U, l, 2)
        PROVE  From(h, h[l].ptr[1]) \subseteq AllOf(ent)
    <3>1. l \in 1 .. Len(h)
      BY <1>5, <1>6, <1>8
    <3>2. 2 \in 1 .. Len(h[l].ptr)
      <4>1. Len(h[l].ptr) = 2
        BY <2>1, <3>1, TypedIs
      <4> QED BY <4>1
    <3>3. l \in AllOf(ent) /\ (~ Pending(ts, l, 2) \/ (l = o /\ f = 2))
      BY <1>12, <2>1, <3>2
    <3>4. CASE ~ Pending(ts, l, 2)
      BY <1>1, <2>1, <3>3, <3>4 DEF ArgsFirst
    <3>5. CASE l = o /\ f = 2
      <4>1. t.op = What(h[o], f)
        BY <1>3, <1>5, <3>1, <3>5 DEF Null
      <4>2. t.op = "trusted"
        BY <2>1, <3>5, <4>1, WhatIs
      <4> QED BY <1>s, <2>1, <3>5, <4>2
    <3> QED BY <3>3, <3>4, <3>5
  <2> QED BY <1>8, <2>1 DEF ArgsFirst
<1>19. AllAtHome(h, new, U)
  <2>1. ASSUME NEW e \in AllOf(ent), AtHome(h, ent, ts, e) PROVE AtHome(h, new, U, e)
    <3>1. PICK l \in AllOf(ent) :
            h[l].kind = "list" /\ ~ Pending(ts, l, 2) /\ e \in From(h, h[l].ptr[2])
      BY <2>1 DEF AtHome
    <3>2. ~ Pending(T, l, 2)
      <4>1. \A id, k : Pending(T, id, k) => Pending(ts, id, k)
        <5>1. TasksOk(h, ent, ts) /\ InOrder(ent, ts) /\ ts # <<>>
          BY <1>1, <1>4
        <5> QED BY ONLY <5>1, Popped DEF Lessens, T
      <4> QED BY <3>1, <4>1
    <3>3. ~ Pending(U, l, 2) /\ l \in AllOf(new)
      BY <1>6, <1>8, <1>9, <3>2
    <3> QED BY <3>1, <3>3 DEF AtHome
  <2>2. ASSUME OfList(h, x) PROVE AtHome(h, new, U, x)
    <3>1. x # r
      <4>1. SUFFICES ASSUME x = r PROVE FALSE
        OBVIOUS
      <4>2. h[x].kind \in NodeKinds \cup {"defs"}
        BY <1>4, <4>1, TypedIs
      <4> QED BY <2>2, <4>2 DEF OfList, NodeKinds
    <3>2. /\ o \in AllOf(ent) /\ o \in 1 .. Len(h) /\ f \in 1 .. Len(h[o].ptr)
          /\ ~ Refers(h[o], f) /\ x = h[o].ptr[f]
      BY <1>3, <3>1
    <3>3. /\ h[x].kind = "attrs" => h[o].kind = "list" /\ f = 2
          /\ h[x].kind \in {"cell", "objcell"} =>
               h[o].kind = h[x].kind \/ (h[o].kind = "trie" /\ f = 1)
          /\ h[x].kind = "trie" => h[o].kind \in {"dict", "attrs"}
      BY <1>4, <3>2, PointersTo
    <3>4. CASE h[o].kind = "list" /\ f = 2
      <4>1. ~ Pending(U, o, 2) /\ o \in AllOf(new)
        BY <1>2, <1>4, <1>6, <1>8, <1>9, <3>2, <3>4
      <4>2. x \in From(h, x)
        BY <1>4, <1>5, <1>6, FromClosed
      <4> QED BY <3>2, <3>4, <4>1, <4>2 DEF AtHome
    <3>5. CASE OfList(h, o)
      <4>1. PICK l \in AllOf(ent) :
              h[l].kind = "list" /\ ~ Pending(ts, l, 2) /\ o \in From(h, h[l].ptr[2])
        BY <1>1, <3>2, <3>5 DEF AllAtHome, AtHome
      <4>2. h[l].ptr[2] \in 0 .. Len(h)
        <5>1. l \in 1 .. Len(h)
          BY <1>5
        <5>2. Len(h[l].ptr) = 2
          BY <4>1, <5>1, TypedIs
        <5> QED BY <1>5, <5>1, <5>2, ObjsFields
      <4>3. x \in Owned(h, o)
        BY <1>4, <3>2, OwnedIs
      <4>4. x \in From(h, h[l].ptr[2])
        BY <1>5, <4>1, <4>2, <4>3, FromClosed
      <4>5. l \in AllOf(new) /\ ~ Pending(U, l, 2)
        <5>1. \A id, k : Pending(T, id, k) => Pending(ts, id, k)
          <6>1. TasksOk(h, ent, ts) /\ InOrder(ent, ts) /\ ts # <<>>
            BY <1>1, <1>4
          <6> QED BY ONLY <6>1, Popped DEF Lessens, T
        <5> QED BY <1>6, <1>8, <1>9, <4>1, <5>1
      <4> QED BY <4>1, <4>4, <4>5 DEF AtHome
    <3>6. CASE h[x].kind \in {"cell", "objcell"}
      <4>1. h[x].kind # "dictcell"
        BY <3>6
      <4> QED BY <1>4, <3>2, <3>3, <3>5, <3>6, <4>1 DEF OfList
    <3>7. CASE h[x].kind = "trie" /\ h[x].ptr[1] # Null /\ h[h[x].ptr[1]].kind # "dictcell"
      <4>1. h[o].kind # "dict"
        <5>1. h[o].kind = "dict" => OfChars(h, x)
          BY <1>4, <3>2, TypedIs
        <5> QED BY <3>7, <5>1 DEF OfChars
      <4>2. h[o].kind = "attrs"
        BY <3>3, <3>7, <4>1
      <4> QED BY <3>5, <4>2 DEF OfList
    <3>8. CASE h[x].kind = "attrs"
      BY <3>3, <3>4, <3>8
    <3> QED BY <2>2, <3>6, <3>7, <3>8 DEF OfList
  <2> QED BY <1>1, <1>8, <2>1, <2>2 DEF AllAtHome
<1>20. NamesChecked(h, new, U)
  <2>1. ASSUME NEW e \in AllOf(new), h[e].kind = "defs", ~ Distinct(h[h[e].ptr[1]].data)
        PROVE  \E i \in 1 .. Len(U) : U[i].obj = e /\ U[i].op = "dups"
    <3>1. CASE e = x
      BY <1>9, <2>1, <3>1, TaskIs
    <3>2. CASE e \in AllOf(ent)
      <4>1. \E i \in 1 .. Len(ts) : ts[i].obj = e /\ ts[i].op = "dups"
        BY <1>1, <2>1, <3>2 DEF NamesChecked
      <4>2. PICK i \in 1 .. Len(T) : T[i].obj = e /\ T[i].op = "dups"
        BY <1>2, <1>4, <4>1
      <4> QED BY <1>9, <4>2
    <3> QED BY <1>8, <3>1, <3>2
  <2> QED BY <2>1 DEF NamesChecked
<1>22. Found(h, new, U)
  <2>1. \A id, k : Pending(T, id, k) => Pending(ts, id, k)
    <3>1. TasksOk(h, ent, ts) /\ InOrder(ent, ts) /\ ts # <<>>
      BY <1>1, <1>4
    <3> QED BY ONLY <3>1, Popped DEF Lessens, T
  <2>2. ASSUME NEW p \in 1 .. Len(new), p # 1
        PROVE  \E d \in AllOf(new) : \E k \in 1 .. Len(h[d].ptr) :
                 ~ Refers(h[d], k) /\ ~ Pending(U, d, k) /\ h[d].ptr[k] = new[p]
    <3>1. CASE p \in 1 .. m
      <4>1. PICK d \in AllOf(ent) : \E k \in 1 .. Len(h[d].ptr) :
              ~ Refers(h[d], k) /\ ~ Pending(ts, d, k) /\ h[d].ptr[k] = ent[p]
        BY <1>1, <2>2, <3>1 DEF Found
      <4>2. d # x /\ d \in AllOf(new)
        BY <1>6, <1>8
      <4> QED BY <1>8, <1>9, <2>1, <3>1, <4>1, <4>2
    <3>2. CASE p = m + 1
      <4>1. ent # <<>>
        <5>1. SUFFICES ASSUME ent = <<>> PROVE FALSE
          OBVIOUS
        <5>2. m = 0
          BY <5>1
        <5> QED BY <2>2, <3>2, <5>2
      <4>2. /\ o \in AllOf(ent) /\ f \in 1 .. Len(h[o].ptr)
            /\ ~ Refers(h[o], f) /\ x = h[o].ptr[f]
        BY <1>3, <4>1
      <4>3. o # x /\ o \in AllOf(new)
        BY ONLY <1>6, <1>8, <4>2
      <4>5. ~ Pending(T, o, f)
        <5>1. t.op # "dups"
          BY <1>4
        <5> QED BY ONLY <1>2, <5>1
      <4>6. ~ Pending(U, o, f)
        BY ONLY <1>9, <4>3, <4>5
      <4> QED BY <1>8, <3>2, <4>2, <4>3, <4>6
    <3> QED BY <1>10, <3>1, <3>2
  <2> QED BY <2>2 DEF Found
<1>21. VInv(h, r, a, new, U)
  BY <1>22, <1>7, <1>8, <1>13, <1>14, <1>15, <1>16, <1>17, <1>18, <1>19, <1>20 DEF VInv
<1> QED BY <1>21 DEF new, U, T, x, t

-----------------------------------------------------------------------------
(* Nothing is met at first.                                                *)
LEMMA StartHolds ==
  ASSUME NEW h, NEW r, NEW a, IsTyped(h, r)
  PROVE  VInv(h, r, a, <<>>, <<Task("asked", Null, 1)>>)
<1> DEFINE t == Task("asked", Null, 1)
           ts == <<t>>
<1>1. Len(h) \in Nat
  BY TypedIs, ObjsFields
<1>2. t \in TaskSet(h) /\ t.obj = Null
  BY <1>1 DEF Task, TaskSet, Null
<1> HIDE DEF t
<1>3. ts \in Seq(TaskSet(h)) /\ Len(ts) = 1 /\ ts[1] = t
  BY <1>2
<1>4. AllOf(<<>>) = {}
  BY DEF AllOf
<1>5. TasksOk(h, <<>>, ts)
  <2>1. TaskOk(h, <<>>, t)
    BY <1>2 DEF TaskOk, t
  <2> QED BY <1>3, <2>1 DEF TasksOk
<1>6. InOrder(<<>>, ts)
  BY <1>3 DEF InOrder
<1>7. /\ <<>> \in Seq(1 .. Len(h)) /\ Apart(a, <<>>)
      /\ FieldsDone(h, a, <<>>, ts) /\ Found(h, <<>>, ts) /\ Starts(r, <<>>, ts)
  BY DEF Apart, FieldsDone, Found, Starts, t
<1> QED BY <1>4, <1>5, <1>6, <1>7 DEF VInv, Once, ArgsFirst, AllAtHome, NamesChecked, t

(* A field that owns and is asked about no more, and one that does not own.*)
LEMMA DoneIs ==
  ASSUME NEW h, NEW r, NEW a, NEW ent, NEW ts, IsTyped(h, r), VInv(h, r, a, ent, ts),
         NEW id \in AllOf(ent), NEW k \in 1 .. Len(h[id].ptr), ~ Pending(ts, id, k)
  PROVE  /\ ~ Refers(h[id], k) =>
              \/ h[id].ptr[k] = Null /\ What(h[id], k) = "optional"
              \/ /\ h[id].ptr[k] \in AllOf(ent) /\ h[id].ptr[k] # Null
                 /\ h[id].ptr[k] # r
         /\ Refers(h[id], k) =>
              /\ h[id].ptr[k] # Null
              /\ \E q \in AllOf(ent) : a[q] = a[h[id].ptr[k]]
<1>1. /\ ent \in Seq(1 .. Len(h)) /\ Apart(a, ent) /\ FieldsDone(h, a, ent, ts)
      /\ Starts(r, ent, ts)
  BY DEF VInv
<1>2. PICK p \in 1 .. Len(ent) : ent[p] = id
  BY DEF AllOf
<1>3. FieldDone(h, a, ent, p, k)
  BY <1>1, <1>2 DEF FieldsDone
<1>4. \A q \in 1 .. Len(ent) : ent[q] \in AllOf(ent) /\ ent[q] \in 1 .. Len(h)
  BY <1>1, AtIn
<1>5. \A q \in 1 .. Len(ent) : p < q => ent[q] # r
  <2>1. SUFFICES ASSUME NEW q \in 1 .. Len(ent), p < q, ent[q] = r PROVE FALSE
    OBVIOUS
  <2>2. ent # <<>> /\ Len(ent) \in Nat
    BY <1>1
  <2>3. 1 \in 1 .. Len(ent) /\ ent[1] = r
    BY <1>1, <2>2 DEF Starts
  <2>4. q = 1
    BY <1>1, <2>1, <2>3 DEF Apart
  <2> QED BY <2>1, <2>2, <2>4
<1>6. CASE Refers(h[id], k)
  BY <1>2, <1>3, <1>4, <1>6 DEF FieldDone
<1>7. CASE ~ Refers(h[id], k)
  <2>1. \/ h[id].ptr[k] = Null /\ What(h[id], k) = "optional"
        \/ \E q \in 1 .. Len(ent) : p < q /\ ent[q] = h[id].ptr[k]
    BY <1>2, <1>3, <1>7 DEF FieldDone
  <2>2. Len(h) \in Nat
    BY TypedIs, ObjsFields
  <2>3. ASSUME NEW q \in 1 .. Len(ent), p < q, ent[q] = h[id].ptr[k]
        PROVE  h[id].ptr[k] \in AllOf(ent) /\ h[id].ptr[k] # Null /\ h[id].ptr[k] # r
    BY <1>4, <1>5, <2>2, <2>3 DEF Null
  <2> QED BY <1>7, <2>1, <2>3
<1> QED BY <1>6, <1>7

(* Nothing lies where something else does, or all objects are the library's.*)
Placed(h, r, a) ==
  \/ \A p, q \in 1 .. Len(h) : a[p] = a[q] => p = q
  \/ 1 .. Len(h) \subseteq From(h, r)

(* What the fields of a library are.                                       *)
LEMMA FieldIs ==
  ASSUME NEW h, NEW r, NEW f
  PROVE  f \in Fields(h, r) <=>
           \/ f = <<Null, 1>>
           \/ \E id \in From(h, r) : \E k \in 1 .. Len(h[id].ptr) :
                ~ Refers(h[id], k) /\ f = <<id, k>>
BY DEF Fields

(* When no call is left, the objects are a library.                        *)
LEMMA AcceptedIsValid ==
  ASSUME NEW h, NEW r, NEW a, NEW ent, IsTyped(h, r), VInv(h, r, a, ent, <<>>),
         Placed(h, r, a)
  PROVE  IsValid(h, r, a) /\ AllOf(ent) = From(h, r)
<1>1. /\ ent \in Seq(1 .. Len(h)) /\ Apart(a, ent)
      /\ Once(h, ent, <<>>) /\ Starts(r, ent, <<>>) /\ AllOf(ent) \subseteq From(h, r)
      /\ NamesChecked(h, ent, <<>>)
  BY DEF VInv
<1>2. Objs(h) /\ r \in 0 .. Len(h) /\ AllOf(ent) \subseteq 1 .. Len(h) /\ Len(h) \in Nat
  BY <1>1, TypedIs, ObjsFields, AtIn
<1>3. \A id, k : ~ Pending(<<>>, id, k)
  BY DEF Pending
<1>4. r \in AllOf(ent) /\ r # Null
  <2>1. ent # <<>> /\ ent[1] = r
    BY <1>1 DEF Starts
  <2>2. 1 \in 1 .. Len(ent)
    BY <1>1, <2>1
  <2> QED BY <1>1, <1>2, <2>1, <2>2, AtIn DEF Null
<1>5. \A id \in AllOf(ent) : \A k \in 1 .. Len(h[id].ptr) :
        /\ ~ Refers(h[id], k) =>
              \/ h[id].ptr[k] = Null /\ What(h[id], k) = "optional"
              \/ /\ h[id].ptr[k] \in AllOf(ent) /\ h[id].ptr[k] # Null
                 /\ h[id].ptr[k] # r
        /\ Refers(h[id], k) =>
              /\ h[id].ptr[k] # Null
              /\ \E q \in AllOf(ent) : a[q] = a[h[id].ptr[k]]
  BY <1>3, DoneIs
<1>6. AllOf(ent) = From(h, r)
  <2>1. \A q \in AllOf(ent) : Owned(h, q) \subseteq AllOf(ent)
    BY <1>5, OwnedIs
  <2>2. From(h, r) \subseteq AllOf(ent)
    BY <1>2, <1>4, <2>1, FromLeast
  <2> QED BY <1>1, <2>2
<1>7. \A p, q \in From(h, r) : a[p] = a[q] => p = q
  BY <1>1, <1>6 DEF Apart, AllOf
<1>8. ASSUME NEW f \in Fields(h, r), NEW g \in Fields(h, r),
             PointedTo(h, r, f) = PointedTo(h, r, g), PointedTo(h, r, f) # Null
      PROVE  f = g
  <2>1. \A x \in Fields(h, r) :
          \/ x = <<Null, 1>> /\ PointedTo(h, r, x) = r
          \/ \E id \in From(h, r) : \E k \in 1 .. Len(h[id].ptr) :
               /\ ~ Refers(h[id], k) /\ x = <<id, k>>
               /\ PointedTo(h, r, x) = h[id].ptr[k]
    <3>1. ASSUME NEW x, x = <<Null, 1>> PROVE PointedTo(h, r, x) = r
      BY <3>1 DEF PointedTo
    <3>2. ASSUME NEW x, NEW id \in From(h, r), NEW k \in 1 .. Len(h[id].ptr), x = <<id, k>>
          PROVE  PointedTo(h, r, x) = h[id].ptr[k]
      BY <1>2, <1>6, <3>2 DEF PointedTo, Null
    <3> QED BY <3>1, <3>2, FieldIs
  <2>2. ASSUME NEW id \in From(h, r), NEW k \in 1 .. Len(h[id].ptr), ~ Refers(h[id], k),
               h[id].ptr[k] # Null
        PROVE  h[id].ptr[k] # r
    BY <1>5, <1>6, <2>2
  <2>3. ASSUME NEW d \in From(h, r), NEW k \in 1 .. Len(h[d].ptr), ~ Refers(h[d], k),
               NEW e \in From(h, r), NEW l \in 1 .. Len(h[e].ptr), ~ Refers(h[e], l),
               h[d].ptr[k] = h[e].ptr[l], h[d].ptr[k] # Null
        PROVE  <<d, k>> = <<e, l>>
    <3>1. Once(h, ent, <<>>) /\ d \in AllOf(ent) /\ e \in AllOf(ent)
      BY <1>1, <1>6
    <3>2. ~ Pending(<<>>, d, k) /\ ~ Pending(<<>>, e, l)
      BY <1>3
    <3>3. d = e /\ k = l
      BY <2>3, <3>1, <3>2 DEF Once
    <3> QED BY <3>3
  <2> QED BY <1>8, <2>1, <2>2, <2>3
<1>9. IsTree(h, r, a)
  BY <1>7, <1>8 DEF IsTree
<1>10. LacksNothing(h, r)
  <2>1. \A id \in From(h, r) : \A k \in 1 .. Len(h[id].ptr) :
          Required(h[id], k) => h[id].ptr[k] # Null
    BY <1>5, <1>6, WhatIs
  <2> QED BY <1>4, <2>1 DEF LacksNothing, Lacks
<1>11. ~ LacksAttr(h, r)
  <2>1. ASSUME NEW id \in From(h, r), h[id].kind \in {"list", "dict"}
        PROVE  h[id].ptr[2] # Null
    <3>1. Len(h[id].ptr) = 2
      BY <1>2, <1>6, <2>1, TypedIs
    <3>2. 2 \in 1 .. Len(h[id].ptr)
      BY <3>1
    <3>3. What(h[id], 2) = "trusted" /\ ~ Refers(h[id], 2)
      BY <2>1, WhatIs
    <3> QED BY <1>5, <1>6, <3>2, <3>3
  <2> QED BY <2>1 DEF LacksAttr
<1>12. RefsKnown(h, r)
  <2>1. ASSUME NEW id \in From(h, r), NEW k \in 1 .. Len(h[id].ptr), Refers(h[id], k)
        PROVE  h[id].ptr[k] \in From(h, r)
    <3>1. id \in 1 .. Len(h)
      BY <1>2, <1>6
    <3>2. h[id].ptr[k] # Null /\ \E q \in AllOf(ent) : a[q] = a[h[id].ptr[k]]
      BY <1>5, <1>6, <2>1
    <3>3. h[id].ptr[k] \in 1 .. Len(h)
      BY <3>1, <3>2, TypedIs
    <3> QED BY <1>2, <1>6, <3>2, <3>3 DEF Placed
  <2> QED BY <2>1 DEF RefsKnown, Refs
<1>13. NamesDiffer(h, r)
  <2>1. CASE h[r].kind = "defs" /\ h[r].ptr[1] # Null
    <3>1. Distinct(h[h[r].ptr[1]].data)
      BY <1>1, <1>4, <2>1 DEF NamesChecked
    <3> QED BY <2>1, <3>1 DEF Distinct, NamesDiffer, Names
  <2>2. CASE ~(h[r].kind = "defs" /\ h[r].ptr[1] # Null)
    BY <2>2 DEF NamesDiffer, Names
  <2> QED BY <2>1, <2>2
<1> QED BY <1>6, <1>9, <1>10, <1>11, <1>12, <1>13 DEF IsValid

-----------------------------------------------------------------------------
(* The objects are not a library that validation should take.              *)
Faulty(h, r, a) ==
  ~ (IsTree(h, r, a) /\ LacksNothing(h, r) /\ RefsAtHome(h, r) /\ NamesDiffer(h, r))

MetTwice(h, r, a, id) ==
  \/ \E f, g \in Fields(h, r) :
       f # g /\ PointedTo(h, r, f) = id /\ PointedTo(h, r, g) = id
  \/ \E q \in From(h, r) \ {id} : a[q] = a[id]

(* A pointer asked is NULL.                                                *)
LEMMA NullIsFault ==
  ASSUME NEW h, NEW r, NEW a, NEW ent, NEW ts, IsTyped(h, r), VInv(h, r, a, ent, ts),
         ts # <<>>, Head(ts).op = "asked", Tgt(h, r, Head(ts)) = Null
  PROVE  /\ Faulty(h, r, a)
         /\ Head(ts).obj = Null => r = Null
         /\ Head(ts).obj # Null =>
              Head(ts).obj \in From(h, r) /\ Lacks(h, Head(ts).obj)
<1> DEFINE t == Head(ts)
<1>1. Follows(t) /\ AllOf(ent) \subseteq From(h, r)
  BY DEF VInv, Follows
<1>2. \/ t.obj = Null /\ Tgt(h, r, t) = r
      \/ /\ t.obj \in AllOf(ent) /\ t.obj # Null
         /\ t.field \in 1 .. Len(h[t.obj].ptr) /\ t.op = What(h[t.obj], t.field)
         /\ Tgt(h, r, t) = h[t.obj].ptr[t.field]
  BY <1>1, FollowedIs
<1> HIDE DEF t
<1>3. t.op = "asked" /\ Tgt(h, r, t) = Null
  BY DEF t
<1>4. CASE t.obj = Null
  BY <1>2, <1>3, <1>4 DEF t, Faulty, LacksNothing
<1>5. CASE t.obj # Null
  <2>1. Lacks(h, t.obj) /\ t.obj \in From(h, r)
    BY <1>1, <1>2, <1>3, <1>5, WhatIs DEF Lacks
  <2> QED BY <1>5, <2>1 DEF t, Faulty, LacksNothing
<1> QED BY <1>4, <1>5

(* An object is met again, or another where it lies.                       *)
LEMMA AgainIsFault ==
  ASSUME NEW h, NEW r, NEW a, NEW ent, NEW ts, IsTyped(h, r), VInv(h, r, a, ent, ts),
         ts # <<>>, Follows(Head(ts)), Tgt(h, r, Head(ts)) # Null,
         NEW q \in AllOf(ent), a[q] = a[Tgt(h, r, Head(ts))]
  PROVE  /\ Faulty(h, r, a) /\ Tgt(h, r, Head(ts)) \in From(h, r)
         /\ MetTwice(h, r, a, Tgt(h, r, Head(ts)))
<1> DEFINE t == Head(ts)
           x == Tgt(h, r, t)
           o == t.obj
           f == t.field
<1>1. /\ ent \in Seq(1 .. Len(h)) /\ AllOf(ent) \subseteq From(h, r)
      /\ Found(h, ent, ts) /\ Starts(r, ent, ts) /\ TasksOk(h, ent, ts)
  BY DEF VInv
<1>2. ent # <<>>
  BY DEF AllOf
<1>3. /\ o \in AllOf(ent) /\ o # Null
      /\ f \in 1 .. Len(h[o].ptr) /\ ~ Refers(h[o], f) /\ x = h[o].ptr[f]
  BY <1>2, FollowedIs
<1>4. Pending(ts, o, f)
  <2>1. 1 \in 1 .. Len(ts) /\ t = ts[1] /\ t.op # "dups"
    BY <1>1, TailIs DEF TasksOk, Follows
  <2> QED BY <2>1 DEF Pending
<1>5. x # Null /\ a[q] = a[x]
  OBVIOUS
<1> HIDE DEF t, x
<1>6. Objs(h) /\ r \in 0 .. Len(h) /\ AllOf(ent) \subseteq 1 .. Len(h) /\ Len(h) \in Nat
  BY <1>1, TypedIs, ObjsFields, AtIn
<1>7. x \in From(h, r)
  <2>1. o \in From(h, r) /\ x \in Owned(h, o)
    BY <1>1, <1>3, <1>5, OwnedIs
  <2> QED BY <1>6, <2>1, FromClosed
<1>8. <<o, f>> \in Fields(h, r) /\ PointedTo(h, r, <<o, f>>) = x
  BY <1>1, <1>3, FieldIs DEF PointedTo
<1>9. MetTwice(h, r, a, x) /\ ~ IsTree(h, r, a)
  <2>1. CASE q # x
    <3>1. q \in From(h, r)
      BY <1>1
    <3> QED BY <1>5, <1>7, <2>1, <3>1 DEF MetTwice, IsTree
  <2>2. CASE q = x
    <3>1. SUFFICES \E g \in Fields(h, r) : g # <<o, f>> /\ PointedTo(h, r, g) = x
      BY <1>5, <1>8, <3>1 DEF MetTwice, IsTree
    <3>2. PICK p \in 1 .. Len(ent) : ent[p] = x
      BY <2>2 DEF AllOf
    <3>3. CASE p = 1
      <4>1. x = r /\ <<Null, 1>> \in Fields(h, r)
        BY <1>1, <1>2, <3>2, <3>3, FieldIs DEF Starts
      <4>2. PointedTo(h, r, <<Null, 1>>) = x /\ <<Null, 1>> # <<o, f>>
        BY <1>3, <4>1 DEF PointedTo
      <4> QED BY <4>1, <4>2
    <3>4. CASE p # 1
      <4>5. PICK d \in AllOf(ent) : \E k \in 1 .. Len(h[d].ptr) :
              ~ Refers(h[d], k) /\ ~ Pending(ts, d, k) /\ h[d].ptr[k] = ent[p]
        BY <1>1, <3>4 DEF Found
      <4>1. PICK k \in 1 .. Len(h[d].ptr) :
              ~ Refers(h[d], k) /\ ~ Pending(ts, d, k) /\ h[d].ptr[k] = ent[p]
        BY <4>5
      <4>2. <<d, k>> \in Fields(h, r) /\ <<d, k>> # <<o, f>>
        BY <1>1, <1>4, <4>1, FieldIs
      <4>3. PointedTo(h, r, <<d, k>>) = x
        BY <1>6, <3>2, <4>1 DEF PointedTo, Null
      <4> QED BY <4>2, <4>3
    <3> QED BY <3>3, <3>4
  <2> QED BY <2>1, <2>2
<1> QED BY <1>7, <1>9 DEF t, x, Faulty

(* A type that a trie is about has not been met.                           *)
LEMMA StrangerIsFault ==
  ASSUME NEW h, NEW r, NEW a, NEW ent, NEW ts, IsTyped(h, r), VInv(h, r, a, ent, ts),
         ts # <<>>, Head(ts).op = "known",
         Tgt(h, r, Head(ts)) = Null \/ ~(Tgt(h, r, Head(ts)) \in AllOf(ent))
  PROVE  /\ Faulty(h, r, a) /\ ~ RefsAtHome(h, r)
         /\ \E q \in From(h, r) : Tgt(h, r, Head(ts)) \in Refs(h, q)
<1> DEFINE t == Head(ts)
           x == Tgt(h, r, t)
           o == t.obj
           f == t.field
<1>1. /\ ent \in Seq(1 .. Len(h)) /\ AllOf(ent) \subseteq From(h, r)
      /\ TasksOk(h, ent, ts) /\ InOrder(ent, ts)
      /\ ArgsFirst(h, ent, ts) /\ AllAtHome(h, ent, ts)
  BY DEF VInv
<1>2. TaskOk(h, ent, t)
  <2>1. TasksOk(h, ent, ts) /\ InOrder(ent, ts) /\ ts # <<>>
    BY <1>1
  <2> QED BY ONLY <2>1, Popped
<1>3. /\ o \in AllOf(ent) /\ o # Null /\ f \in 1 .. Len(h[o].ptr)
      /\ Refers(h[o], f) /\ x = h[o].ptr[f]
  <2>1. t.op = "known"
    OBVIOUS
  <2> HIDE DEF t
  <2>2. o # Null
    BY <1>2, <2>1, TaskIs DEF TaskOk
  <2>3. o \in AllOf(ent) /\ f \in 1 .. Len(h[o].ptr) /\ t.op = What(h[o], f)
    BY <1>2, <2>1, <2>2 DEF TaskOk
  <2> QED BY <2>1, <2>2, <2>3, WhatIs DEF Tgt
<1>4. Objs(h) /\ AllOf(ent) \subseteq 1 .. Len(h) /\ Len(h) \in Nat
  BY <1>1, TypedIs, ObjsFields, AtIn
<1>5. OfList(h, o)
  BY <1>3 DEF OfList, Refers
<1>6. PICK l \in AllOf(ent) :
        h[l].kind = "list" /\ ~ Pending(ts, l, 2) /\ o \in From(h, h[l].ptr[2])
  BY <1>1, <1>3, <1>5 DEF AllAtHome, AtHome
<1>7. From(h, h[l].ptr[1]) \subseteq AllOf(ent)
  BY <1>1, <1>6 DEF ArgsFirst
<1>8. x \in Refs(h, o) /\ l \in From(h, r) /\ o \in From(h, r)
  BY <1>1, <1>3, <1>6 DEF Refs
<1>9. x \in AllOf(ent) => x # Null
  BY <1>4 DEF Null
<1>10. ~(x \in AllOf(ent))
  BY <1>9
<1> HIDE DEF x, t
<1>11. ~ RefsAtHome(h, r)
  BY <1>6, <1>7, <1>8, <1>10 DEF RefsAtHome
<1> QED BY <1>8, <1>11 DEF x, t, Faulty

(* The names that are compared are those of the library.                   *)
LEMMA NamesAre ==
  ASSUME NEW h, NEW r, NEW a, NEW ent, NEW ts, IsTyped(h, r), VInv(h, r, a, ent, ts),
         ts # <<>>, Head(ts).op = "dups"
  PROVE  /\ r # Null /\ h[r].kind = "defs"
         /\ Names(h, r) = h[Tgt(h, r, Head(ts))].data
<1> DEFINE t == Head(ts)
           x == Tgt(h, r, t)
           o == t.obj
<1>1. /\ ent \in Seq(1 .. Len(h)) /\ AllOf(ent) \subseteq From(h, r)
      /\ TasksOk(h, ent, ts) /\ InOrder(ent, ts) /\ Starts(r, ent, ts)
      /\ Found(h, ent, ts)
  BY DEF VInv
<1>2. TaskOk(h, ent, t) /\ ~ Pending(ts, t.obj, t.field)
  <2>1. TasksOk(h, ent, ts) /\ InOrder(ent, ts) /\ ts # <<>> /\ Head(ts).op = "dups"
    BY <1>1
  <2> QED BY ONLY <2>1, Popped, HeadAlone
<1>3. t.op = "dups"
  OBVIOUS
<1> HIDE DEF t
<1>4. o # Null
  BY <1>2, <1>3, TaskIs DEF TaskOk
<1>5. /\ o \in AllOf(ent) /\ t.field = 1 /\ 1 \in 1 .. Len(h[o].ptr)
      /\ h[o].kind = "defs" /\ x = h[o].ptr[1] /\ ~ Pending(ts, o, 1)
  BY <1>2, <1>3, <1>4, WhatIs DEF TaskOk, Tgt
<1>6. x # Null
  <2>1. Required(h[o], 1) /\ ~ Refers(h[o], 1)
    BY <1>5 DEF Required, Refers
  <2>2. What(h[o], 1) = "asked"
    BY <2>1, WhatIs
  <2> QED BY <1>5, <2>1, <2>2, DoneIs
<1>7. AllOf(ent) \subseteq 1 .. Len(h) /\ Len(h) \in Nat
  BY <1>1, TypedIs, ObjsFields, AtIn
<1>8. o = r
  <2>1. PICK p \in 1 .. Len(ent) : ent[p] = o
    BY <1>5 DEF AllOf
  <2>2. CASE p = 1
    <3>1. ent # <<>>
      BY <2>1
    <3> QED BY <1>1, <2>1, <2>2, <3>1 DEF Starts
  <2>3. CASE p # 1
    <3>3. PICK d \in AllOf(ent) : \E k \in 1 .. Len(h[d].ptr) : h[d].ptr[k] = ent[p]
      BY <1>1, <2>3 DEF Found
    <3>1. PICK k \in 1 .. Len(h[d].ptr) : h[d].ptr[k] = ent[p]
      BY <3>3
    <3>2. h[ent[p]].kind # "defs"
      BY <1>4, <1>7, <2>1, <3>1, PointersTo
    <3> QED BY <1>5, <2>1, <3>2
  <2> QED BY <2>2, <2>3
<1>9. Names(h, r) = h[x].data /\ r # Null /\ h[r].kind = "defs"
  BY <1>4, <1>5, <1>6, <1>8 DEF Names
<1> QED BY <1>9 DEF t

(* A name is met again.                                                    *)
LEMMA NameIsFault ==
  ASSUME NEW h, NEW r, NEW a, NEW ent, NEW ts, IsTyped(h, r), VInv(h, r, a, ent, ts),
         ts # <<>>, Head(ts).op = "dups", ~ Distinct(h[Tgt(h, r, Head(ts))].data)
  PROVE  Faulty(h, r, a) /\ ~ NamesDiffer(h, r)
<1>1. r # Null /\ Names(h, r) = h[Tgt(h, r, Head(ts))].data
  BY NamesAre
<1>2. ~ NamesDiffer(h, r)
  BY <1>1 DEF NamesDiffer, Distinct
<1> QED BY <1>2 DEF Faulty

(* A NULL that is followed unasked is the attr of a list or a dict.        *)
LEMMA AttrIsLacking ==
  ASSUME NEW h, NEW r, NEW a, NEW ent, NEW ts, IsTyped(h, r), VInv(h, r, a, ent, ts),
         ts # <<>>, Head(ts).op = "trusted", Tgt(h, r, Head(ts)) = Null
  PROVE  LacksAttr(h, r)
<1> DEFINE t == Head(ts)
           o == t.obj
           f == t.field
<1>1. Follows(t) /\ AllOf(ent) \subseteq From(h, r) /\ ent \in Seq(1 .. Len(h))
  BY DEF VInv, Follows
<1>2. /\ o \in AllOf(ent)
      /\ f \in 1 .. Len(h[o].ptr) /\ t.op = What(h[o], f)
      /\ h[o].ptr[f] = Null
  BY <1>1, FollowedIs
<1>3. t.op = "trusted"
  OBVIOUS
<1> HIDE DEF t
<1>4. h[o].kind \in {"list", "dict"}
  BY <1>2, <1>3, WhatIs
<1>5. f # 1
  BY <1>2, <1>3, <1>4, WhatIs DEF Required, NodeKinds
<1>6. o \in 1 .. Len(h)
  BY <1>1, <1>2, AtIn
<1>7. f = 2
  <2>1. Len(h[o].ptr) = 2
    BY <1>4, <1>6, TypedIs
  <2> QED BY <1>2, <1>5, <2>1
<1> QED BY <1>1, <1>2, <1>4, <1>7 DEF LacksAttr

-----------------------------------------------------------------------------
(* What a library that is valid holds: no field points to its own object,  *)
(* and those that may not be NULL are not.                                 *)
LEMMA ValidIs ==
  ASSUME NEW h, NEW r, NEW a, IsTyped(h, r), IsValid(h, r, a)
  PROVE  /\ r \in From(h, r) /\ r # Null /\ From(h, r) \subseteq 1 .. Len(h)
         /\ \A p, q \in From(h, r) : a[p] = a[q] => p = q
         /\ \A id \in From(h, r) : \A k \in 1 .. Len(h[id].ptr) :
              /\ h[id].ptr[k] # Null => h[id].ptr[k] \in From(h, r) /\ h[id].ptr[k] # id
              /\ Required(h[id], k) => h[id].ptr[k] # Null
         /\ \A id \in From(h, r) :
              /\ HasArgs(h[id]) => 1 \in 1 .. Len(h[id].ptr) /\ h[id].ptr[1] \in From(h, r)
                                     /\ h[id].ptr[1] # Null
              /\ h[id].kind \in {"list", "dict"} => 2 \in 1 .. Len(h[id].ptr)
<1> DEFINE R == From(h, r)
<1>1. /\ IsTree(h, r, a) /\ LacksNothing(h, r) /\ RefsKnown(h, r)
  BY DEF IsValid
<1>2. Objs(h) /\ r \in 0 .. Len(h) /\ Len(h) \in Nat
  BY TypedIs, ObjsFields
<1>3. /\ r \in R /\ r # Null /\ R \subseteq 1 .. Len(h)
      /\ \A q \in R : Owned(h, q) \subseteq R
  BY <1>1, <1>2, FromClosed DEF LacksNothing
<1>4. ASSUME NEW id \in R, NEW k \in 1 .. Len(h[id].ptr), h[id].ptr[k] # Null
      PROVE  h[id].ptr[k] \in R
  <2>1. CASE Refers(h[id], k)
    BY <1>1, <2>1 DEF RefsKnown, Refs
  <2>2. CASE ~ Refers(h[id], k)
    BY <1>3, <1>4, <2>2, OwnedIs
  <2> QED BY <2>1, <2>2
<1>5. ASSUME NEW id \in R, NEW k \in 1 .. Len(h[id].ptr), h[id].ptr[k] = id
      PROVE  FALSE
  <2>1. id # Null /\ id \in 1 .. Len(h)
    BY <1>2, <1>3 DEF Null
  <2>2. CASE Refers(h[id], k)
    <3>1. h[id].kind \in {"cell", "objcell"} /\ h[id].kind \in Pointees(h[id], k)
      BY <1>5, <2>1, <2>2, TypedIs DEF Refers
    <3>2. Pointees(h[id], k) = NodeKinds
      BY <2>2, <3>1 DEF Pointees, Cells, Refers
    <3> QED BY <3>1, <3>2 DEF NodeKinds
  <2>3. CASE ~ Refers(h[id], k)
    <3>1. <<id, k>> \in Fields(h, r) /\ PointedTo(h, r, <<id, k>>) = id
      BY <1>5, <2>1, <2>3, FieldIs DEF PointedTo
    <3>2. id # r
      <4>1. SUFFICES ASSUME id = r PROVE FALSE
        OBVIOUS
      <4>2. <<Null, 1>> \in Fields(h, r) /\ PointedTo(h, r, <<Null, 1>>) = id
        BY <4>1, FieldIs DEF PointedTo
      <4>3. <<Null, 1>> = <<id, k>>
        BY <1>1, <2>1, <3>1, <4>2 DEF IsTree
      <4> QED BY <2>1, <4>3
    <3>3. ASSUME NEW q \in R \ {id} PROVE Owned(h, q) \subseteq R \ {id}
      <4>1. SUFFICES ASSUME id \in Owned(h, q) PROVE FALSE
        BY <1>3
      <4>2. PICK l \in 1 .. Len(h[q].ptr) : ~ Refers(h[q], l) /\ h[q].ptr[l] = id
        BY <4>1, OwnedIs
      <4>3. q # Null
        BY <1>2, <1>3 DEF Null
      <4>4. <<q, l>> \in Fields(h, r) /\ PointedTo(h, r, <<q, l>>) = id
        BY <4>2, <4>3, FieldIs DEF PointedTo
      <4>5. <<q, l>> = <<id, k>>
        BY <1>1, <2>1, <3>1, <4>4 DEF IsTree
      <4> QED BY <4>5
    <3>4. R \subseteq R \ {id}
      <4> HIDE DEF R
      <4>1. r \in R \ {id}
        BY <1>3, <3>2
      <4>2. From(h, r) \subseteq R \ {id}
        BY <1>2, <3>3, <4>1, FromLeast
      <4> QED BY <4>2 DEF R
    <3> QED BY <3>4
  <2> QED BY <2>2, <2>3
<1>6. \A id \in R : \A k \in 1 .. Len(h[id].ptr) : Required(h[id], k) => h[id].ptr[k] # Null
  BY <1>1 DEF LacksNothing, Lacks
<1>7. ASSUME NEW id \in R, HasArgs(h[id])
      PROVE  1 \in 1 .. Len(h[id].ptr) /\ h[id].ptr[1] \in R /\ h[id].ptr[1] # Null
  <2>1. Len(h[id].ptr) \in Arity(h[id])
    BY <1>3 DEF IsTyped
  <2>2. h[id].kind \in {"object", "closed", "defs"} => Arity(h[id]) = {1}
    BY DEF Arity, Cells
  <2>3. h[id].kind \in {"list", "dict"} => Arity(h[id]) = {2}
    BY DEF Arity, Cells
  <2>4. Len(h[id].ptr) \in {1, 2}
    BY <1>7, <2>1, <2>2, <2>3 DEF HasArgs
  <2>5. 1 \in 1 .. Len(h[id].ptr)
    <3>1. \A n \in {1, 2} : 1 \in 1 .. n
      OBVIOUS
    <3> QED BY <2>4, <3>1
  <2>6. Required(h[id], 1)
    BY ONLY <1>7 DEF HasArgs, Required, NodeKinds
  <2> QED BY <1>4, <1>6, <2>5, <2>6
<1>8. \A id \in R : h[id].kind \in {"list", "dict"} => 2 \in 1 .. Len(h[id].ptr)
  <2>1. \A id \in R : h[id].kind \in {"list", "dict"} => Len(h[id].ptr) = 2
    BY <1>3, TypedIs
  <2> QED BY <2>1
<1>9. \A p, q \in R : a[p] = a[q] => p = q
  BY <1>1 DEF IsTree
<1> QED BY <1>3, <1>4, <1>5, <1>6, <1>7, <1>8, <1>9

-----------------------------------------------------------------------------
(* The calls that write the objects of R.                                  *)
WriteSet(h) == [op : {"gen", "pass", "write"}, obj : 0 .. Len(h), field : Nat]

\* About a field of an object of R; there is something where it is written.
IsWrite(h, R, t) ==
  /\ t.obj \in R /\ t.field \in 1 .. Len(h[t.obj].ptr)
  /\ t.op = "write" => h[t.obj].ptr[t.field] # Null

OfRoot(t) == t.obj = Null /\ t.field = 1 /\ t.op \in {"gen", "write"}

\* The last of them is about the root.
Writes(h, R, ts) ==
  /\ ts \in Seq(WriteSet(h))
  /\ \A i \in 1 .. Len(ts) : i < Len(ts) => IsWrite(h, R, ts[i])
  /\ ts # <<>> => OfRoot(ts[Len(ts)])

CallsOf(h, op, id) ==
  [k \in 1 .. Len(h[id].ptr) |->
     Task(IF Refers(h[id], k) THEN "pass" ELSE op, id, k)]

BeforeOf(h, id) ==
  LET o == h[id]
  IN  IF ~ HasArgs(o) THEN CallsOf(h, "gen", id)
      ELSE CallsOf(h, "gen", o.ptr[1])
           \o (IF o.kind \in {"list", "dict"} THEN <<Task("gen", id, 2)>> ELSE <<>>)
           \o <<Task("write", id, 1)>>

\* Calls of this kind only.
AllWrites(h, R, s) ==
  s \in Seq(WriteSet(h)) /\ \A i \in 1 .. Len(s) : IsWrite(h, R, s[i])

(* Calls joined are calls.                                                 *)
LEMMA WritesJoin ==
  ASSUME NEW h, NEW R, NEW s, AllWrites(h, R, s)
  PROVE  /\ \A t : AllWrites(h, R, t) => AllWrites(h, R, s \o t)
         /\ \A t : Writes(h, R, t) /\ t # <<>> => Writes(h, R, s \o t)
<1> DEFINE S == WriteSet(h)
<1>1. ASSUME NEW t \in Seq(S) PROVE s \o t \in Seq(S) /\ Joined(s, t, s \o t)
  <2>1. s \in Seq(S)
    BY DEF AllWrites
  <2> HIDE DEF S
  <2> QED BY <2>1, JoinIs
<1>2. ASSUME NEW t, AllWrites(h, R, t) PROVE AllWrites(h, R, s \o t)
  <2>1. t \in Seq(S)
    BY <1>2 DEF AllWrites
  <2>2. s \o t \in Seq(S) /\ Joined(s, t, s \o t)
    BY <1>1, <2>1
  <2> DEFINE u == s \o t
  <2>3. u \in Seq(S) /\ Joined(s, t, u)
    BY <2>2
  <2> HIDE DEF u, S
  <2>4. \A i \in 1 .. Len(u) : IsWrite(h, R, u[i])
    BY <1>2, <2>3 DEF Joined, AllWrites
  <2> QED BY <2>3, <2>4 DEF AllWrites, S, u
<1>3. ASSUME NEW t, Writes(h, R, t), t # <<>> PROVE Writes(h, R, s \o t)
  <2>1. t \in Seq(S)
    BY <1>3 DEF Writes
  <2>2. s \o t \in Seq(S) /\ Joined(s, t, s \o t)
    BY <1>1, <2>1
  <2>5. Len(s \o t) = Len(s) + Len(t) /\ Len(s) \in Nat /\ Len(t) \in Nat /\ Len(t) # 0
    <3>1. s \in Seq(S)
      BY DEF AllWrites
    <3> HIDE DEF S
    <3> QED BY <1>3, <2>1, <3>1
  <2> DEFINE u == s \o t
  <2>3. u \in Seq(S) /\ Joined(s, t, u) /\ Len(u) = Len(s) + Len(t)
    BY <2>2, <2>5
  <2> HIDE DEF u, S
  <2>4. ASSUME NEW i \in 1 .. Len(u), i < Len(u) PROVE IsWrite(h, R, u[i])
    <3>1. CASE i \in 1 .. Len(s) /\ u[i] = s[i]
      BY <3>1 DEF AllWrites
    <3>2. CASE i - Len(s) \in 1 .. Len(t) /\ u[i] = t[i - Len(s)]
      <4>1. i - Len(s) < Len(t)
        BY <2>3, <2>4, <2>5
      <4> QED BY <1>3, <3>2, <4>1 DEF Writes
    <3> QED BY <2>3, <3>1, <3>2 DEF Joined
  <2>6. OfRoot(u[Len(u)])
    <3>1. Len(t) \in 1 .. Len(t) /\ Len(u) = Len(t) + Len(s)
      BY <2>3, <2>5
    <3>2. u[Len(u)] = t[Len(t)]
      BY <2>3, <3>1 DEF Joined
    <3> QED BY <1>3, <3>2 DEF Writes
  <2> QED BY <2>3, <2>4, <2>6 DEF Writes, S, u
<1> QED BY <1>2, <1>3

(* What is written before an object is about objects of the library.       *)
LEMMA BeforeIs ==
  ASSUME NEW h, NEW r, NEW a, IsTyped(h, r), IsValid(h, r, a), NEW id \in From(h, r)
  PROVE  AllWrites(h, From(h, r), BeforeOf(h, id))
<1> DEFINE R == From(h, r)
           S == WriteSet(h)
<1>1. /\ R \subseteq 1 .. Len(h) /\ Objs(h) /\ Len(h) \in Nat
      /\ HasArgs(h[id]) => 1 \in 1 .. Len(h[id].ptr) /\ h[id].ptr[1] \in R
                             /\ h[id].ptr[1] # Null
      /\ h[id].kind \in {"list", "dict"} => 2 \in 1 .. Len(h[id].ptr)
  BY ValidIs, TypedIs, ObjsFields
<1>2. ASSUME NEW x \in R PROVE AllWrites(h, R, CallsOf(h, "gen", x))
  <2> DEFINE n == Len(h[x].ptr)
             g == [k \in 1 .. n |-> Task(IF Refers(h[x], k) THEN "pass" ELSE "gen", x, k)]
  <2>1. x \in 1 .. Len(h) /\ n \in Nat
    BY <1>1, ObjsFields
  <2>2. \A k \in 1 .. n : g[k] \in S /\ IsWrite(h, R, g[k])
    <3>1. ASSUME NEW k \in 1 .. n, NEW op \in {"pass", "gen"}
          PROVE  Task(op, x, k) \in S /\ IsWrite(h, R, Task(op, x, k))
      BY <2>1 DEF Task, WriteSet, IsWrite
    <3> QED BY <3>1
  <2>3. g \in Seq(S) /\ Len(g) = n
    <3>1. \A k \in 1 .. n : g[k] \in S
      BY <2>2
    <3> HIDE DEF S, n
    <3> QED BY <2>1, <3>1
  <2>4. CallsOf(h, "gen", x) = g
    BY DEF CallsOf
  <2> HIDE DEF g, n
  <2> QED BY <2>2, <2>3, <2>4 DEF AllWrites
<1>3. ASSUME NEW op \in {"gen", "write"}, NEW k \in 1 .. Len(h[id].ptr),
             op = "write" => h[id].ptr[k] # Null
      PROVE  AllWrites(h, R, <<Task(op, id, k)>>)
  <2>1. Task(op, id, k) \in S /\ IsWrite(h, R, Task(op, id, k))
    <3>1. k \in Nat
      BY <1>1, ObjsFields
    <3> QED BY <1>1, <1>3, <3>1 DEF Task, WriteSet, IsWrite
  <2> HIDE DEF S
  <2>2. <<Task(op, id, k)>> \in Seq(S) /\ Len(<<Task(op, id, k)>>) = 1
        /\ <<Task(op, id, k)>>[1] = Task(op, id, k)
    BY <2>1
  <2> QED BY <2>1, <2>2 DEF AllWrites, S
<1>4. AllWrites(h, R, <<>>)
  BY DEF AllWrites
<1> HIDE DEF R
<1>5. CASE ~ HasArgs(h[id])
  BY <1>2, <1>5 DEF BeforeOf, R
<1>6. CASE HasArgs(h[id])
  <2> DEFINE g == CallsOf(h, "gen", h[id].ptr[1])
             b == IF h[id].kind \in {"list", "dict"} THEN <<Task("gen", id, 2)>> ELSE <<>>
             w == <<Task("write", id, 1)>>
  <2>1. AllWrites(h, R, g) /\ AllWrites(h, R, b) /\ AllWrites(h, R, w)
    BY <1>1, <1>2, <1>3, <1>4, <1>6
  <2>2. BeforeOf(h, id) = g \o b \o w
    BY <1>6 DEF BeforeOf
  <2> HIDE DEF g, b, w
  <2>3. AllWrites(h, R, g \o b)
    BY <2>1, WritesJoin
  <2>4. AllWrites(h, R, (g \o b) \o w)
    BY <2>1, <2>3, WritesJoin
  <2> QED BY <2>2, <2>4 DEF R
<1> QED BY <1>5, <1>6

(* The first call is taken off.                                            *)
LEMMA WritesTail ==
  ASSUME NEW h, NEW R, NEW ts, Writes(h, R, ts), ts # <<>>
  PROVE  /\ Writes(h, R, Tail(ts)) /\ Head(ts) \in WriteSet(h)
         /\ IF Tail(ts) = <<>> THEN OfRoot(Head(ts)) ELSE IsWrite(h, R, Head(ts))
<1> DEFINE S == WriteSet(h)
           T == Tail(ts)
<1>1. ts \in Seq(S)
  BY DEF Writes
<1>2. /\ T \in Seq(S) /\ Len(ts) \in Nat /\ Len(ts) > 0
      /\ Len(T) = Len(ts) - 1
      /\ \A i \in 1 .. Len(T) : T[i] = ts[i + 1] /\ i + 1 \in 1 .. Len(ts)
      /\ 1 \in 1 .. Len(ts) /\ Head(ts) = ts[1] /\ Head(ts) \in S
  <2> HIDE DEF S
  <2> QED BY <1>1, TailIs
<1>3. T = <<>> <=> Len(ts) = 1
  <2> HIDE DEF S, T
  <2>1. T = <<>> <=> Len(T) = 0
    BY <1>2
  <2> QED BY <1>2, <2>1
<1> HIDE DEF T, S
<1>4. ASSUME NEW i \in 1 .. Len(T), i < Len(T) PROVE IsWrite(h, R, T[i])
  <2>1. i + 1 < Len(ts) /\ i + 1 \in 1 .. Len(ts) /\ T[i] = ts[i + 1]
    BY <1>2, <1>4
  <2> QED BY <2>1 DEF Writes
<1>5. T # <<>> => OfRoot(T[Len(T)])
  <2>1. SUFFICES ASSUME T # <<>> PROVE OfRoot(T[Len(T)])
    OBVIOUS
  <2>2. Len(T) \in 1 .. Len(T) /\ Len(T) + 1 = Len(ts)
    BY <1>2, <1>3, <2>1
  <2>3. T[Len(T)] = ts[Len(ts)]
    BY <1>2, <2>2
  <2> QED BY <2>3 DEF Writes
<1>6. IF T = <<>> THEN OfRoot(Head(ts)) ELSE IsWrite(h, R, Head(ts))
  <2>1. CASE T = <<>>
    BY <1>2, <1>3, <2>1 DEF Writes
  <2>2. CASE T # <<>>
    <3>1. 1 < Len(ts)
      BY <1>2, <1>3, <2>2
    <3> QED BY <1>2, <2>2, <3>1 DEF Writes
  <2> QED BY <2>1, <2>2
<1> QED BY <1>2, <1>4, <1>5, <1>6 DEF Writes, S, T

-----------------------------------------------------------------------------
(* What is reached in a library that is valid.                             *)

\* The field k of x owns the object c.
Owns(h, x, k, c) ==
  /\ k \in 1 .. Len(h[x].ptr) /\ ~ Refers(h[x], k)
  /\ h[x].ptr[k] = c /\ c # Null

(* What an object owns is not the root, and nothing else owns it.          *)
LEMMA OwnsIs ==
  ASSUME NEW h, NEW r, NEW a, IsTyped(h, r), IsValid(h, r, a), NEW x \in From(h, r),
         NEW k, NEW c, Owns(h, x, k, c)
  PROVE  /\ c \in From(h, r) /\ c # r /\ c # x /\ c \in 1 .. Len(h) /\ x \in 1 .. Len(h)
         /\ \A y \in From(h, r) : \A l : Owns(h, y, l, c) => y = x /\ l = k
<1> DEFINE R == From(h, r)
<1>1. /\ R \subseteq 1 .. Len(h) /\ r # Null
      /\ h[x].ptr[k] \in R /\ h[x].ptr[k] # x
  BY ValidIs DEF Owns
<1>2. Len(h) \in Nat
  BY TypedIs, ObjsFields
<1>3. IsTree(h, r, a)
  BY DEF IsValid
<1>4. \A y \in R : \A l : Owns(h, y, l, c) =>
        <<y, l>> \in Fields(h, r) /\ PointedTo(h, r, <<y, l>>) = c /\ y # Null
  <2>1. ASSUME NEW y \in R, NEW l, Owns(h, y, l, c)
        PROVE  <<y, l>> \in Fields(h, r) /\ PointedTo(h, r, <<y, l>>) = c /\ y # Null
    <3>1. y # Null
      BY <1>1, <1>2 DEF Null
    <3>2. <<y, l>> \in Fields(h, r)
      BY <2>1, FieldIs DEF Owns
    <3> QED BY <2>1, <3>1, <3>2 DEF Owns, PointedTo
  <2> QED BY <2>1
<1>5. c # r
  <2>1. SUFFICES ASSUME c = r PROVE FALSE
    OBVIOUS
  <2>2. <<Null, 1>> \in Fields(h, r) /\ PointedTo(h, r, <<Null, 1>>) = c
    BY <2>1, FieldIs DEF PointedTo
  <2>3. <<x, k>> \in Fields(h, r) /\ PointedTo(h, r, <<x, k>>) = c /\ x # Null
    BY <1>4
  <2>4. <<Null, 1>> = <<x, k>>
    BY <1>3, <2>2, <2>3 DEF IsTree, Owns
  <2> QED BY <2>3, <2>4
<1>6. ASSUME NEW y \in R, NEW l, Owns(h, y, l, c) PROVE y = x /\ l = k
  <2>1. <<x, k>> = <<y, l>>
    <3>1. c # Null
      BY DEF Owns
    <3>2. /\ <<x, k>> \in Fields(h, r) /\ PointedTo(h, r, <<x, k>>) = c
          /\ <<y, l>> \in Fields(h, r) /\ PointedTo(h, r, <<y, l>>) = c
      BY <1>4, <1>6
    <3> QED BY ONLY <1>3, <3>1, <3>2 DEF IsTree
  <2> QED BY <2>1
<1>7. c = h[x].ptr[k]
  BY DEF Owns
<1> QED BY <1>1, <1>5, <1>6, <1>7

(* What is owned by an object reached is reached.                          *)
LEMMA OwnsFrom ==
  ASSUME NEW h, NEW r, IsTyped(h, r), NEW q \in 0 .. Len(h),
         NEW x \in From(h, q), NEW k, NEW c, Owns(h, x, k, c)
  PROVE  c \in From(h, q)
<1>1. Objs(h)
  BY TypedIs
<1>2. c \in Owned(h, x)
  BY OwnedIs DEF Owns
<1> QED BY <1>1, <1>2, FromClosed

(* What is reached from an object is itself, or is owned by another that   *)
(* is reached.                                                             *)
LEMMA FromParent ==
  ASSUME NEW h, NEW r, IsTyped(h, r), NEW q \in 0 .. Len(h), NEW y \in From(h, q), y # q
  PROVE  \E p \in From(h, q) : \E k : Owns(h, p, k, y)
<1> DEFINE F == From(h, q)
           S == {z \in F : z = q \/ \E p \in F : \E k : Owns(h, p, k, z)}
<1>1. Objs(h)
  BY TypedIs
<1>2. q # Null => q \in S
  BY <1>1, FromClosed
<1>3. ASSUME NEW z \in S, NEW w \in Owned(h, z) PROVE w \in S
  <2>1. w \in F
    BY <1>1, FromClosed
  <2>2. \E k : Owns(h, z, k, w)
    BY OwnedIs DEF Owns
  <2> QED BY <2>1, <2>2
<1>4. F \subseteq S
  <2>1. \A z \in S : Owned(h, z) \subseteq S
    BY <1>3
  <2> HIDE DEF S, F
  <2> QED BY <1>1, <1>2, <2>1, FromLeast DEF F
<1> QED BY <1>4

(* What is reached from an object reached is reached.                      *)
LEMMA FromWithin ==
  ASSUME NEW h, NEW r, IsTyped(h, r), NEW q \in 0 .. Len(h), NEW z \in From(h, q)
  PROVE  From(h, z) \subseteq From(h, q) /\ z \in 1 .. Len(h) /\ z \in From(h, z)
<1>1. Objs(h) /\ Len(h) \in Nat
  BY TypedIs, ObjsFields
<1>2. z \in 1 .. Len(h) /\ z \in 0 .. Len(h) /\ z # Null
  BY <1>1, FromClosed DEF Null
<1>3. \A w \in From(h, q) : Owned(h, w) \subseteq From(h, q)
  BY <1>1, FromClosed
<1> QED BY <1>1, <1>2, <1>3, FromLeast, FromClosed

(* Nothing is reached from NULL.                                           *)
LEMMA FromNull ==
  ASSUME NEW h, NEW r, IsTyped(h, r)
  PROVE  From(h, Null) = {}
<1>1. Objs(h) /\ Len(h) \in Nat
  BY TypedIs, ObjsFields
<1>2. Null \in 0 .. Len(h)
  BY <1>1 DEF Null
<1>3. From(h, Null) \subseteq {}
  BY <1>1, <1>2, FromLeast
<1> QED BY <1>3

(* An object is not reached from what it owns.                             *)
LEMMA NoWayBack ==
  ASSUME NEW h, NEW r, NEW a, IsTyped(h, r), IsValid(h, r, a), NEW x \in From(h, r),
         NEW k, NEW c, Owns(h, x, k, c)
  PROVE  ~(x \in From(h, c))
<1> DEFINE R == From(h, r)
           F == From(h, c)
           S == R \ F
<1>1. SUFFICES ASSUME x \in F PROVE FALSE
  OBVIOUS
<1>2. Objs(h) /\ r \in 0 .. Len(h) /\ r \in R
  BY TypedIs, ValidIs
<1>3. /\ c \in R /\ c # r /\ c \in 0 .. Len(h)
      /\ \A y \in R : \A l : Owns(h, y, l, c) => y = x
  <2>1. c \in 1 .. Len(h) /\ Len(h) \in Nat
    BY <1>2, OwnsIs, ObjsFields
  <2> QED BY <2>1, OwnsIs
<1>4. F \subseteq R /\ c \in F
  BY <1>2, <1>3, FromWithin
<1>5. ASSUME NEW z \in S, NEW w \in Owned(h, z) PROVE w \in S
  <2>1. w \in R
    BY <1>2, FromClosed
  <2>2. PICK l : Owns(h, z, l, w)
    BY OwnedIs DEF Owns
  <2>3. SUFFICES ASSUME w \in F PROVE FALSE
    BY <2>1
  <2>4. CASE w = c
    BY <1>1, <1>3, <2>2, <2>4
  <2>5. CASE w # c
    <3>1. PICK p \in F : \E m : Owns(h, p, m, w)
      BY <1>3, <2>3, <2>5, FromParent
    <3>2. p = z
      BY <1>4, <2>2, <3>1, OwnsIs
    <3> QED BY <3>1, <3>2
  <2> QED BY <2>4, <2>5
<1>6. r \in S
  <2>1. SUFFICES ASSUME r \in F PROVE FALSE
    BY <1>2
  <2>2. PICK p \in F : \E m : Owns(h, p, m, r)
    BY <1>3, <2>1, FromParent
  <2>3. p \in R
    BY <1>4
  <2> QED BY <2>2, <2>3, OwnsIs
<1>7. R \subseteq S
  <2>1. \A z \in S : Owned(h, z) \subseteq S
    BY <1>5
  <2>2. From(h, r) \subseteq S
    <3> HIDE DEF S
    <3> QED BY <1>2, <1>6, <2>1, FromLeast
  <2> QED BY <2>2
<1> QED BY <1>3, <1>4, <1>7

(* Nothing is reached from two of the objects that one owns.               *)
LEMMA ApartBelow ==
  ASSUME NEW h, NEW r, NEW a, IsTyped(h, r), IsValid(h, r, a), NEW x \in From(h, r),
         NEW k, NEW c, Owns(h, x, k, c), NEW l, NEW d, Owns(h, x, l, d), k # l
  PROVE  From(h, c) \cap From(h, d) = {}
<1> DEFINE R == From(h, r)
           F == From(h, d)
           S == From(h, c) \ F
<1>1. /\ c \in R /\ d \in R /\ c # d
      /\ \A y \in R : \A m : Owns(h, y, m, c) => y = x
      /\ \A y \in R : \A m : Owns(h, y, m, d) => y = x
  BY OwnsIs
<1>2. /\ Objs(h) /\ c \in 0 .. Len(h) /\ d \in 0 .. Len(h) /\ r \in 0 .. Len(h)
  <2>1. c \in 1 .. Len(h) /\ d \in 1 .. Len(h) /\ Len(h) \in Nat
    BY OwnsIs, TypedIs, ObjsFields
  <2> QED BY <2>1, TypedIs
<1>3. F \subseteq R /\ From(h, c) \subseteq R /\ c \in From(h, c)
  BY <1>1, <1>2, FromWithin
<1>4. ~(x \in F) /\ ~(x \in From(h, c))
  BY NoWayBack
<1>5. c \in S
  <2>1. SUFFICES ASSUME c \in F PROVE FALSE
    BY <1>3
  <2>2. PICK p \in F : \E m : Owns(h, p, m, c)
    BY <1>1, <1>2, <2>1, FromParent
  <2> QED BY <1>1, <1>3, <1>4, <2>2
<1>6. ASSUME NEW z \in S, NEW w \in Owned(h, z) PROVE w \in S
  <2>1. w \in From(h, c)
    BY <1>2, FromClosed
  <2>2. PICK m : Owns(h, z, m, w)
    BY OwnedIs DEF Owns
  <2>3. SUFFICES ASSUME w \in F PROVE FALSE
    BY <2>1
  <2>4. CASE w = d
    BY <1>1, <1>3, <1>4, <2>2, <2>4
  <2>5. CASE w # d
    <3>1. PICK p \in F : \E n : Owns(h, p, n, w)
      BY <1>2, <2>3, <2>5, FromParent
    <3>2. p = z
      BY <1>3, <2>2, <3>1, OwnsIs
    <3> QED BY <3>1, <3>2
  <2> QED BY <2>4, <2>5
<1>7. From(h, c) \subseteq S
  <2>1. \A z \in S : Owned(h, z) \subseteq S
    BY <1>6
  <2> HIDE DEF S
  <2> QED BY <1>2, <1>5, <2>1, FromLeast
<1> QED BY <1>7

(* All that is reached from an object is itself and what is reached from   *)
(* what it owns.                                                           *)
LEMMA FromIs ==
  ASSUME NEW h, NEW r, NEW a, IsTyped(h, r), IsValid(h, r, a), NEW x \in From(h, r)
  PROVE  /\ x \in From(h, x)
         /\ \A k, c : Owns(h, x, k, c) => From(h, c) \subseteq From(h, x) \ {x}
         /\ \A y \in From(h, x) : y = x \/ \E k, c : Owns(h, x, k, c) /\ y \in From(h, c)
<1> DEFINE S == {y \in From(h, x) :
                   y = x \/ \E k, c : Owns(h, x, k, c) /\ y \in From(h, c)}
<1>1. /\ Objs(h) /\ r \in 0 .. Len(h) /\ x \in From(h, x) /\ x \in 0 .. Len(h)
      /\ From(h, x) \subseteq From(h, r)
  <2>1. r \in 0 .. Len(h)
    BY TypedIs
  <2>2. x \in 1 .. Len(h) /\ Len(h) \in Nat
    BY <2>1, FromWithin, TypedIs, ObjsFields
  <2> QED BY <2>1, <2>2, FromWithin, TypedIs
<1>2. ASSUME NEW k, NEW c, Owns(h, x, k, c)
      PROVE  c \in From(h, x) /\ c \in 0 .. Len(h) /\ From(h, c) \subseteq From(h, x) \ {x}
             /\ c \in From(h, c)
  <2>1. c \in From(h, x)
    BY <1>1, <1>2, OwnsFrom
  <2>2. From(h, c) \subseteq From(h, x) /\ c \in From(h, c) /\ c \in 1 .. Len(h)
    BY <1>1, <2>1, FromWithin
  <2>3. ~(x \in From(h, c))
    BY <1>2, NoWayBack
  <2>4. Len(h) \in Nat
    BY <1>1, ObjsFields
  <2> QED BY <2>1, <2>2, <2>3, <2>4
<1>3. ASSUME NEW y \in S, NEW w \in Owned(h, y) PROVE w \in S
  <2>1. w \in From(h, x)
    BY <1>1, FromClosed
  <2>2. PICK m : Owns(h, y, m, w)
    BY OwnedIs DEF Owns
  <2>3. CASE y = x
    BY <1>2, <2>1, <2>2, <2>3
  <2>4. CASE y # x
    <3>1. PICK k, c : Owns(h, x, k, c) /\ y \in From(h, c)
      BY <2>4
    <3>2. w \in From(h, c)
      BY <1>2, <2>2, <3>1, OwnsFrom
    <3> QED BY <2>1, <3>1, <3>2
  <2> QED BY <2>3, <2>4
<1>4. From(h, x) \subseteq S
  <2>1. \A z \in S : Owned(h, z) \subseteq S
    BY <1>3
  <2>2. x \in S
    BY <1>1
  <2> HIDE DEF S
  <2> QED BY <1>1, <2>1, <2>2, FromLeast
<1> QED BY <1>1, <1>2, <1>4

-----------------------------------------------------------------------------
(* What refers to what.                                                    *)
AttrKinds == {"attrs", "trie"} \cup Cells
TypeKinds == NodeKinds \cup {"defs", "args", "array"}

(* Only nodes of tries refer to types, and what they refer to is one.      *)
LEMMA RefersIs ==
  ASSUME NEW h, NEW r, IsTyped(h, r), NEW id \in 1 .. Len(h),
         NEW k \in 1 .. Len(h[id].ptr), Refers(h[id], k)
  PROVE  /\ h[id].kind \in {"cell", "objcell"}
         /\ h[id].ptr[k] # Null => h[h[id].ptr[k]].kind \in NodeKinds
<1>1. h[id].kind \in {"cell", "objcell"}
  BY DEF Refers
<1>2. Pointees(h[id], k) = NodeKinds
  BY <1>1 DEF Pointees, Cells, Refers
<1> QED BY <1>1, <1>2, TypedIs

(* What the types of C let an object own: types own types and attributes,  *)
(* and attributes own attributes; those of a dict have no types in their   *)
(* tries.                                                                  *)
LEMMA OwnedKinds ==
  ASSUME NEW h, NEW r, IsTyped(h, r), NEW id \in 1 .. Len(h), NEW k, NEW c, Owns(h, id, k, c)
  PROVE  /\ c \in 1 .. Len(h)
         /\ h[id].kind \in AttrKinds => h[c].kind \in AttrKinds
         /\ h[id].kind \in TypeKinds => h[c].kind \in TypeKinds
                                          \/ (h[id].kind \in {"list", "dict"} /\ k = 2)
         /\ h[id].kind \in {"list", "dict"} /\ k = 2 => h[c].kind \in {"attrs", "trie"}
         /\ h[id].kind = "dict" /\ k = 2 => h[c].kind = "trie" /\ OfChars(h, c)
         /\ h[id].kind = "dictcell" => h[c].kind = "dictcell"
         /\ h[id].kind = "trie" => k = 1
<1> DEFINE o == h[id]
<1>1. /\ k \in 1 .. Len(h[id].ptr) /\ ~ Refers(o, k) /\ h[id].ptr[k] = c /\ c # Null
  BY DEF Owns
<1>2. /\ c \in 1 .. Len(h) /\ h[c].kind \in Pointees(o, k) /\ o.kind \in Kinds
      /\ o.kind = "dict" => OfChars(h, c)
      /\ (o.kind = "trie" => Len(o.ptr) = 1) /\ (o.kind \in {"list", "dict"} => Len(o.ptr) = 2)
  BY <1>1, TypedIs, ObjsFields
<1>3. (o.kind = "trie" => k = 1) /\ (o.kind \in {"list", "dict"} => k = 1 \/ k = 2)
  BY <1>1, <1>2
<1> HIDE DEF o
<1>4. o.kind = "attrs" => Pointees(o, k) \subseteq {"trie"}
  BY DEF Pointees, NodeKinds, Cells, Refers, Required
<1>5. o.kind = "trie" => Pointees(o, k) = Cells
  BY DEF Pointees, Cells, NodeKinds, Refers, Required
<1>6. o.kind \in Cells => Pointees(o, k) \subseteq {o.kind}
  BY <1>1 DEF Pointees, Cells, Required, NodeKinds
<1>7. o.kind \in {"list", "dict"} /\ k = 2 =>
        Pointees(o, k) = IF o.kind = "list" THEN {"attrs"} ELSE {"trie"}
  <2>1. 2 \in 1 .. 5
    OBVIOUS
  <2> QED BY <2>1 DEF Pointees, Cells, NodeKinds, Refers, Required
<1>8. o.kind \in TypeKinds /\ ~(o.kind \in {"list", "dict"} /\ k = 2) =>
        Pointees(o, k) \subseteq TypeKinds
  <2>1. CASE o.kind \in {"list", "dict"} /\ k = 1
    <3>1. Pointees(o, k) \in {{"args"}, {"array"}}
      BY <2>1 DEF Pointees, Cells, NodeKinds, Refers, Required
    <3> QED BY <3>1 DEF TypeKinds
  <2>2. CASE o.kind \in TypeKinds /\ ~(o.kind \in {"list", "dict"})
    BY <2>2 DEF Pointees, TypeKinds, NodeKinds, Cells
  <2>3. o.kind \in {"list", "dict"} => k = 1 \/ k = 2
    BY <1>3
  <2> QED BY <2>1, <2>2, <2>3
<1>9. Cells \subseteq AttrKinds /\ "trie" \in AttrKinds /\ "dictcell" \in Cells
  BY DEF AttrKinds, Cells
<1>10. o.kind \in AttrKinds => o.kind = "attrs" \/ o.kind = "trie" \/ o.kind \in Cells
  BY DEF AttrKinds
<1> QED BY <1>1, <1>2, <1>3, <1>4, <1>5, <1>6, <1>7, <1>8, <1>9, <1>10 DEF o

(* The tries of an attr have no types in them.                             *)
LEMMA AttrBelow ==
  ASSUME NEW h, NEW r, IsTyped(h, r), NEW x \in 1 .. Len(h), h[x].kind \in AttrKinds
  PROVE  \A y \in From(h, x) : y \in 1 .. Len(h) /\ h[y].kind \in AttrKinds
<1> DEFINE S == {y \in 1 .. Len(h) : h[y].kind \in AttrKinds}
<1>1. Objs(h) /\ Len(h) \in Nat
  BY TypedIs, ObjsFields
<1>2. x \in 0 .. Len(h)
  BY <1>1
<1>3. ASSUME NEW y \in S, NEW w \in Owned(h, y) PROVE w \in S
  <2>1. PICK k : Owns(h, y, k, w)
    BY OwnedIs DEF Owns
  <2> QED BY <2>1, OwnedKinds
<1>4. From(h, x) \subseteq S
  <2>1. \A z \in S : Owned(h, z) \subseteq S
    BY <1>3
  <2>2. x \in S
    OBVIOUS
  <2> HIDE DEF S
  <2> QED BY <1>1, <1>2, <2>1, <2>2, FromLeast
<1> QED BY <1>4

(* The trie of a dict refers to nothing.                                   *)
LEMMA CharsBelow ==
  ASSUME NEW h, NEW r, IsTyped(h, r), NEW d \in 1 .. Len(h), h[d].kind = "dict",
         NEW x, Owns(h, d, 2, x)
  PROVE  \A y \in From(h, x) : Refs(h, y) = {}
<1> DEFINE S == {y \in 1 .. Len(h) : y = x \/ h[y].kind = "dictcell"}
<1>1. Objs(h) /\ Len(h) \in Nat
  BY TypedIs, ObjsFields
<1>2. x \in 1 .. Len(h) /\ h[x].kind = "trie" /\ OfChars(h, x)
  BY OwnedKinds
<1>3. ASSUME NEW y \in S, NEW w \in Owned(h, y) PROVE w \in S
  <2>1. PICK k : Owns(h, y, k, w)
    BY OwnedIs DEF Owns
  <2>2. w \in 1 .. Len(h)
    BY <2>1, OwnedKinds
  <2>3. CASE y = x
    <3>1. k = 1
      BY <1>2, <2>1, <2>3, OwnedKinds
    <3>2. h[x].ptr[1] = w /\ w # Null
      BY <2>1, <2>3, <3>1 DEF Owns
    <3> QED BY <1>2, <2>2, <3>2 DEF OfChars
  <2>4. CASE h[y].kind = "dictcell"
    BY <2>1, <2>2, <2>4, OwnedKinds
  <2> QED BY <2>3, <2>4
<1>4. From(h, x) \subseteq S
  <2>1. \A z \in S : Owned(h, z) \subseteq S
    BY <1>3
  <2>2. x \in S /\ x \in 0 .. Len(h)
    BY <1>1, <1>2
  <2> HIDE DEF S
  <2> QED BY <1>1, <2>1, <2>2, FromLeast
<1>5. \A y \in S : Refs(h, y) = {}
  <2>1. ASSUME NEW y \in S PROVE Refs(h, y) = {}
    <3>1. h[y].kind \in {"trie", "dictcell"}
      BY <1>2
    <3> QED BY <3>1 DEF Refs, Refers
  <2> QED BY <2>1
<1> QED BY <1>4, <1>5

(* The tries of the lists in a type are about types in it.                 *)
LEMMA TypesBelow ==
  ASSUME NEW h, NEW r, NEW a, IsTyped(h, r), IsValid(h, r, a), RefsAtHome(h, r),
         NEW x \in From(h, r), h[x].kind \in TypeKinds
  PROVE  \A y \in From(h, x) : Refs(h, y) \subseteq From(h, x)
<1> DEFINE F == From(h, x)
           S == {y \in F : \/ h[y].kind \in TypeKinds
                           \/ \E l \in F : \E c : /\ h[l].kind \in {"list", "dict"}
                                                  /\ Owns(h, l, 2, c) /\ y \in From(h, c)}
<1>1. /\ Objs(h) /\ Len(h) \in Nat /\ r \in 0 .. Len(h) /\ x \in 1 .. Len(h)
      /\ x \in 0 .. Len(h) /\ F \subseteq From(h, r) /\ x \in F
      /\ From(h, r) \subseteq 1 .. Len(h)
  <2>1. Objs(h) /\ Len(h) \in Nat /\ r \in 0 .. Len(h)
    BY TypedIs, ObjsFields
  <2>2. x \in 1 .. Len(h) /\ F \subseteq From(h, r) /\ x \in F
    BY <2>1, FromWithin
  <2>3. From(h, r) \subseteq 1 .. Len(h)
    BY ValidIs
  <2> QED BY <2>1, <2>2, <2>3
<1>2. \A l \in F : l \in 1 .. Len(h) /\ l \in From(h, r)
  BY <1>1
<1>3. ASSUME NEW l \in F, NEW k, NEW c, Owns(h, l, k, c)
      PROVE  c \in F /\ c \in 0 .. Len(h) /\ c \in From(h, c) /\ From(h, c) \subseteq F
  <2>1. c \in F
    BY <1>1, <1>3, OwnsFrom
  <2>2. c \in 1 .. Len(h) /\ From(h, c) \subseteq F /\ c \in From(h, c)
    BY <1>1, <2>1, FromWithin
  <2> QED BY <1>1, <2>1, <2>2
<1>4. ASSUME NEW y \in S, NEW w \in Owned(h, y) PROVE w \in S
  <2>1. PICK k : Owns(h, y, k, w)
    BY OwnedIs DEF Owns
  <2>2. w \in F /\ y \in 1 .. Len(h)
    BY <1>2, <1>3, <2>1
  <2>3. CASE h[y].kind \in TypeKinds
    <3>1. CASE h[w].kind \in TypeKinds
      BY <2>2, <3>1
    <3>2. CASE h[y].kind \in {"list", "dict"} /\ k = 2
      <4>1. w \in From(h, w) /\ Owns(h, y, 2, w)
        BY <1>3, <2>1, <3>2
      <4> QED BY <2>2, <3>2, <4>1
    <3> QED BY <2>1, <2>2, <2>3, <3>1, <3>2, OwnedKinds
  <2>4. CASE \E l \in F : \E c : /\ h[l].kind \in {"list", "dict"}
                                 /\ Owns(h, l, 2, c) /\ y \in From(h, c)
    <3>1. PICK l \in F : \E c : /\ h[l].kind \in {"list", "dict"}
                                /\ Owns(h, l, 2, c) /\ y \in From(h, c)
      BY <2>4
    <3>2. PICK c : /\ h[l].kind \in {"list", "dict"}
                   /\ Owns(h, l, 2, c) /\ y \in From(h, c)
      BY <3>1
    <3>3. c \in 0 .. Len(h)
      BY <1>3, <3>2
    <3>4. w \in From(h, c)
      BY <2>1, <3>2, <3>3, OwnsFrom
    <3> QED BY <2>2, <3>2, <3>4
  <2> QED BY <2>3, <2>4
<1>5. F \subseteq S
  <2>1. \A z \in S : Owned(h, z) \subseteq S
    BY <1>4
  <2>2. x \in S
    BY <1>1
  <2> HIDE DEF S, F
  <2> QED BY <1>1, <2>1, <2>2, FromLeast DEF F
<1>6. ASSUME NEW y \in F PROVE Refs(h, y) \subseteq F
  <2>1. CASE h[y].kind \in TypeKinds
    <3>1. Refs(h, y) = {}
      <4>1. ~(h[y].kind \in {"cell", "objcell"})
        BY <2>1 DEF TypeKinds, NodeKinds
      <4> QED BY <4>1 DEF Refs, Refers
    <3> QED BY <3>1
  <2>2. CASE \E l \in F : \E c : /\ h[l].kind \in {"list", "dict"}
                                 /\ Owns(h, l, 2, c) /\ y \in From(h, c)
    <3>1. PICK l \in F : \E c : /\ h[l].kind \in {"list", "dict"}
                                /\ Owns(h, l, 2, c) /\ y \in From(h, c)
      BY <2>2
    <3>2. PICK c : /\ h[l].kind \in {"list", "dict"}
                   /\ Owns(h, l, 2, c) /\ y \in From(h, c)
      BY <3>1
    <3>3. CASE h[l].kind = "dict"
      BY <1>2, <3>2, <3>3, CharsBelow
    <3>4. CASE h[l].kind = "list"
      <4>1. /\ l \in From(h, r) /\ h[l].ptr[2] = c
        BY <1>2, <3>2 DEF Owns
      <4>2. Refs(h, y) \subseteq From(h, h[l].ptr[1])
        BY <3>2, <3>4, <4>1 DEF RefsAtHome
      <4>3. Owns(h, l, 1, h[l].ptr[1])
        <5>1. HasArgs(h[l])
          BY <3>4 DEF HasArgs
        <5>2. 1 \in 1 .. Len(h[l].ptr) /\ h[l].ptr[1] # Null
          BY <4>1, <5>1, ValidIs
        <5>3. ~ Refers(h[l], 1)
          BY <3>4 DEF Refers
        <5> QED BY <5>2, <5>3 DEF Owns
      <4> QED BY <1>3, <4>2, <4>3
    <3> QED BY <3>2, <3>3, <3>4
  <2> QED BY <1>5, <2>1, <2>2
<1> QED BY <1>6

-----------------------------------------------------------------------------
(* What is to be written first points to nothing of what is to be written  *)
(* later.                                                                  *)
Ahead(h, r, A, B) ==
  /\ A \cap B = {}
  /\ RefsAtHome(h, r) => \A y \in A : \A k \in 1 .. Len(h[y].ptr) : ~(h[y].ptr[k] \in B)

(* Parts of what comes first and of what comes later.                      *)
LEMMA AheadWithin ==
  ASSUME NEW h, NEW r, NEW A, NEW B, NEW C, NEW D, Ahead(h, r, A, B), C \subseteq A, D \subseteq B
  PROVE  Ahead(h, r, C, D)
BY DEF Ahead

(* What comes first, or later, in two parts.                               *)
LEMMA AheadJoin ==
  ASSUME NEW h, NEW r, NEW A, NEW B
  PROVE  /\ \A C : Ahead(h, r, A, C) /\ Ahead(h, r, B, C) => Ahead(h, r, A \cup B, C)
         /\ \A C : Ahead(h, r, A, B) /\ Ahead(h, r, A, C) => Ahead(h, r, A, B \cup C)
BY DEF Ahead

(* Where a pointer of an object may lead.                                  *)
LEMMA PointerIs ==
  ASSUME NEW h, NEW r, IsTyped(h, r), NEW q \in 0 .. Len(h), NEW y \in From(h, q),
         NEW k \in 1 .. Len(h[y].ptr), h[y].ptr[k] # Null
  PROVE  \/ h[y].ptr[k] \in From(h, q)
         \/ /\ h[y].ptr[k] \in Refs(h, y)
            /\ h[h[y].ptr[k]].kind \in NodeKinds
<1>1. y \in 1 .. Len(h)
  BY FromWithin
<1>2. CASE Refers(h[y], k)
  <2>1. h[y].ptr[k] \in Refs(h, y)
    BY <1>2 DEF Refs
  <2> QED BY <1>1, <1>2, <2>1, RefersIs
<1>3. CASE ~ Refers(h[y], k)
  <2>1. Owns(h, y, k, h[y].ptr[k])
    BY <1>3 DEF Owns
  <2> QED BY <2>1, OwnsFrom
<1> QED BY <1>2, <1>3

(* What is known of an object and of one that it owns.                     *)
LEMMA ChildIs ==
  ASSUME NEW h, NEW r, NEW a, IsTyped(h, r), IsValid(h, r, a), NEW x \in From(h, r),
         NEW k, NEW c, Owns(h, x, k, c)
  PROVE  /\ c \in 0 .. Len(h) /\ c \in 1 .. Len(h) /\ c \in From(h, r) /\ x \in 1 .. Len(h)
         /\ ~(x \in From(h, c)) /\ c \in From(h, c) /\ From(h, c) \subseteq 1 .. Len(h)
         /\ Len(h) \in Nat /\ ~(Null \in From(h, c)) /\ x # Null
         /\ h[x].kind \in TypeKinds \cup AttrKinds
<1>1. c \in 1 .. Len(h) /\ c \in From(h, r) /\ x \in 1 .. Len(h)
  BY OwnsIs
<1>2. Objs(h) /\ Len(h) \in Nat
  BY TypedIs, ObjsFields
<1>3. c \in 0 .. Len(h) /\ r \in 0 .. Len(h)
  BY <1>1, <1>2, TypedIs
<1>4. ~(x \in From(h, c))
  BY NoWayBack
<1>5. From(h, c) \subseteq 1 .. Len(h) /\ c \in From(h, c)
  BY <1>1, <1>2, <1>3, FromClosed, FromWithin
<1>6. ~(Null \in From(h, c)) /\ x # Null
  BY <1>1, <1>2, <1>5 DEF Null
<1>7. h[x].kind \in Kinds
  BY <1>1, <1>2, ObjsFields
<1>8. Kinds \subseteq TypeKinds \cup AttrKinds
  BY DEF Kinds, TypeKinds, AttrKinds
<1> QED BY <1>1, <1>2, <1>3, <1>4, <1>5, <1>6, <1>7, <1>8

(* An object is written after what it owns.                                *)
LEMMA ChildAhead ==
  ASSUME NEW h, NEW r, NEW a, IsTyped(h, r), IsValid(h, r, a), NEW x \in From(h, r),
         NEW k, NEW c, Owns(h, x, k, c)
  PROVE  Ahead(h, r, From(h, c), {x})
<1>1. /\ c \in 0 .. Len(h) /\ c \in From(h, r) /\ x \in 1 .. Len(h)
      /\ ~(x \in From(h, c)) /\ x # Null /\ h[x].kind \in TypeKinds \cup AttrKinds
  BY ChildIs
<1>2. SUFFICES ASSUME RefsAtHome(h, r), NEW y \in From(h, c), NEW m \in 1 .. Len(h[y].ptr),
                      h[y].ptr[m] = x
               PROVE  FALSE
  BY <1>1 DEF Ahead
<1>3. x \in Refs(h, y) /\ h[x].kind \in NodeKinds
  BY <1>1, <1>2, PointerIs
<1>4. CASE h[c].kind \in TypeKinds
  BY <1>1, <1>2, <1>3, <1>4, TypesBelow
<1>5. CASE h[x].kind \in AttrKinds
  BY <1>3, <1>5 DEF AttrKinds, NodeKinds, Cells
<1>6. CASE h[x].kind \in {"list", "dict"} /\ k = 2
  <2>1. CASE h[x].kind = "dict"
    BY <1>1, <1>2, <1>3, <1>6, <2>1, CharsBelow
  <2>2. CASE h[x].kind = "list"
    <3>1. h[x].ptr[2] = c
      BY <1>6 DEF Owns
    <3>2. x \in From(h, h[x].ptr[1])
      BY <1>2, <1>3, <2>2, <3>1 DEF RefsAtHome
    <3>3. Owns(h, x, 1, h[x].ptr[1])
      <4>1. HasArgs(h[x])
        BY <2>2 DEF HasArgs
      <4>2. 1 \in 1 .. Len(h[x].ptr) /\ h[x].ptr[1] # Null
        BY <4>1, ValidIs
      <4>3. ~ Refers(h[x], 1)
        BY <2>2 DEF Refers
      <4> QED BY <4>2, <4>3 DEF Owns
    <3> QED BY <3>2, <3>3, NoWayBack
  <2> QED BY <1>6, <2>1, <2>2
<1> QED BY <1>1, <1>4, <1>5, <1>6, OwnedKinds

(* What an object owns is written in any order, but for the attributes of  *)
(* a list, that follow its types.                                          *)
LEMMA SiblingAhead ==
  ASSUME NEW h, NEW r, NEW a, IsTyped(h, r), IsValid(h, r, a), NEW x \in From(h, r),
         NEW k, NEW c, Owns(h, x, k, c), NEW l, NEW d, Owns(h, x, l, d), k # l,
         h[x].kind \in {"list", "dict"} => k # 2
  PROVE  Ahead(h, r, From(h, c), From(h, d))
<1>1. /\ c \in 0 .. Len(h) /\ c \in From(h, r) /\ x \in 1 .. Len(h)
      /\ d \in 1 .. Len(h) /\ ~(Null \in From(h, d))
      /\ h[x].kind \in TypeKinds \cup AttrKinds
  BY ChildIs
<1>2. From(h, c) \cap From(h, d) = {}
  BY ApartBelow
<1>3. SUFFICES ASSUME RefsAtHome(h, r), NEW y \in From(h, c), NEW m \in 1 .. Len(h[y].ptr),
                      h[y].ptr[m] \in From(h, d)
               PROVE  FALSE
  BY <1>2 DEF Ahead
<1> DEFINE p == h[y].ptr[m]
<1>4. p # Null
  BY <1>1, <1>3
<1>5. p \in Refs(h, y) /\ h[p].kind \in NodeKinds
  BY <1>1, <1>2, <1>3, <1>4, PointerIs
<1>6. CASE h[x].kind \in TypeKinds
  <2>1. h[c].kind \in TypeKinds
    BY <1>1, <1>6, OwnedKinds
  <2>2. p \in From(h, c)
    BY <1>1, <1>3, <1>5, <2>1, TypesBelow
  <2> QED BY <1>2, <1>3, <2>2
<1>7. CASE h[x].kind \in AttrKinds
  <2>1. h[d].kind \in AttrKinds
    BY <1>1, <1>7, OwnedKinds
  <2>2. h[p].kind \in AttrKinds
    BY <1>1, <1>3, <2>1, AttrBelow
  <2> QED BY <1>5, <2>2 DEF AttrKinds, NodeKinds, Cells
<1> QED BY <1>1, <1>6, <1>7

(* The attributes of a list do not refer to the array of its types.        *)
LEMMA AttrAhead ==
  ASSUME NEW h, NEW r, NEW a, IsTyped(h, r), IsValid(h, r, a), NEW x \in From(h, r),
         h[x].kind \in {"list", "dict"}, NEW c, Owns(h, x, 1, c), NEW d, Owns(h, x, 2, d)
  PROVE  Ahead(h, r, From(h, d), {c})
<1>1. /\ d \in 0 .. Len(h) /\ x \in 1 .. Len(h) /\ c \in From(h, c) /\ c \in 1 .. Len(h)
  BY ChildIs
<1>2. From(h, c) \cap From(h, d) = {}
  BY ApartBelow
<1>3. ~(c \in From(h, d)) /\ c # Null
  BY <1>1, <1>2 DEF Owns
<1>4. ~(h[c].kind \in NodeKinds)
  <2>1. h[c].kind \in Pointees(h[x], 1)
    BY <1>1, TypedIs DEF Owns
  <2>2. Pointees(h[x], 1) \in {{"args"}, {"array"}}
    BY DEF Pointees, Cells, NodeKinds, Refers, Required
  <2> QED BY <2>1, <2>2 DEF NodeKinds
<1>5. SUFFICES ASSUME NEW y \in From(h, d), NEW m \in 1 .. Len(h[y].ptr), h[y].ptr[m] = c
               PROVE  FALSE
  BY <1>3 DEF Ahead
<1> QED BY <1>1, <1>3, <1>4, <1>5, PointerIs

-----------------------------------------------------------------------------
(* The calls that count the objects, or write them.                        *)
TurnSet(h) ==
  [op : {"gen", "pass", "write", "count", "attr", "cells"}, obj : 0 .. Len(h), field : Nat]

\* The objects that a call counts, or writes.
Scope(h, r, t) ==
  IF t.op \in {"gen", "count", "attr"} THEN From(h, Tgt(h, r, t))
  ELSE IF t.op = "write" THEN {Tgt(h, r, t)}
  ELSE {}

Scopes(h, r, ts) == UNION {Scope(h, r, ts[i]) : i \in 1 .. Len(ts)}

\* Each object is of one call, and what it points to of none that comes later.
InTurn(h, r, ts) ==
  \A i, j \in 1 .. Len(ts) : i < j => Ahead(h, r, Scope(h, r, ts[i]), Scope(h, r, ts[j]))

(* The objects of some call.                                               *)
LEMMA ScopesIs ==
  ASSUME NEW h, NEW r, NEW ts, NEW y
  PROVE  y \in Scopes(h, r, ts) <=> \E i \in 1 .. Len(ts) : y \in Scope(h, r, ts[i])
BY DEF Scopes

(* When no call is left, there are no objects to count or to write.        *)
LEMMA NoTurn ==
  ASSUME NEW h, NEW r
  PROVE  InTurn(h, r, <<>>) /\ Scopes(h, r, <<>>) = {}
<1>1. 1 .. Len(<<>>) = {}
  OBVIOUS
<1> QED BY <1>1 DEF InTurn, Scopes

(* One call.                                                               *)
LEMMA OneTurn ==
  ASSUME NEW h, NEW r, NEW t
  PROVE  InTurn(h, r, <<t>>) /\ Scopes(h, r, <<t>>) = Scope(h, r, t)
<1> DEFINE ts == <<t>>
<1>1. 1 .. Len(ts) = {1} /\ ts[1] = t
  OBVIOUS
<1> HIDE DEF ts
<1>2. InTurn(h, r, ts)
  <2>1. ~(1 < 1)
    OBVIOUS
  <2> QED BY <1>1, <2>1 DEF InTurn
<1>3. Scopes(h, r, ts) = Scope(h, r, t)
  BY <1>1 DEF Scopes
<1> QED BY <1>2, <1>3 DEF ts

(* The first call taken off.                                               *)
LEMMA TurnTail ==
  ASSUME NEW h, NEW r, NEW ts \in Seq(TurnSet(h)), ts # <<>>
  PROVE  /\ Scopes(h, r, ts) = Scope(h, r, Head(ts)) \cup Scopes(h, r, Tail(ts))
         /\ InTurn(h, r, ts) =>
              /\ InTurn(h, r, Tail(ts))
              /\ Ahead(h, r, Scope(h, r, Head(ts)), Scopes(h, r, Tail(ts)))
         /\ Tail(ts) \in Seq(TurnSet(h)) /\ Head(ts) \in TurnSet(h)
<1> DEFINE S == TurnSet(h)
           T == Tail(ts)
<1>0. ts \in Seq(S)
  OBVIOUS
<1>1. /\ T \in Seq(S) /\ Len(ts) \in Nat /\ Len(ts) > 0 /\ Len(T) = Len(ts) - 1
      /\ \A i \in 1 .. Len(T) : T[i] = ts[i + 1] /\ i + 1 \in 1 .. Len(ts)
      /\ 1 \in 1 .. Len(ts) /\ Head(ts) = ts[1] /\ Head(ts) \in S
  <2> HIDE DEF S
  <2> QED BY <1>0, TailIs
<1> HIDE DEF T, S
<1>2. \A i \in 1 .. Len(ts) : i = 1 \/ (i - 1 \in 1 .. Len(T) /\ T[i - 1] = ts[i])
  <2>1. ASSUME NEW i \in 1 .. Len(ts), i # 1
        PROVE  i - 1 \in 1 .. Len(T) /\ T[i - 1] = ts[i]
    <3>1. i - 1 \in 1 .. Len(T) /\ i - 1 + 1 = i
      BY <1>1, <2>1
    <3> QED BY <1>1, <3>1
  <2> QED BY <2>1
<1>3. Scopes(h, r, ts) = Scope(h, r, ts[1]) \cup Scopes(h, r, T)
  <2>1. ASSUME NEW y \in Scopes(h, r, ts) PROVE y \in Scope(h, r, ts[1]) \/ y \in Scopes(h, r, T)
    <3>1. PICK i \in 1 .. Len(ts) : y \in Scope(h, r, ts[i])
      BY ScopesIs
    <3> QED BY <1>2, <3>1, ScopesIs
  <2>2. ASSUME NEW y \in Scopes(h, r, T) PROVE y \in Scopes(h, r, ts)
    <3>1. PICK i \in 1 .. Len(T) : y \in Scope(h, r, T[i])
      BY ScopesIs
    <3> QED BY <1>1, <3>1, ScopesIs
  <2>3. Scope(h, r, ts[1]) \subseteq Scopes(h, r, ts)
    BY <1>1, ScopesIs
  <2> QED BY <2>1, <2>2, <2>3
<1>4. ASSUME InTurn(h, r, ts)
      PROVE  InTurn(h, r, T) /\ Ahead(h, r, Scope(h, r, ts[1]), Scopes(h, r, T))
  <2>1. ASSUME NEW i \in 1 .. Len(T), NEW j \in 1 .. Len(T), i < j
        PROVE  Ahead(h, r, Scope(h, r, T[i]), Scope(h, r, T[j]))
    <3>1. i + 1 < j + 1 /\ i + 1 \in 1 .. Len(ts) /\ j + 1 \in 1 .. Len(ts)
      BY <1>1, <2>1
    <3> QED BY <1>1, <1>4, <3>1 DEF InTurn
  <2>2. \A i \in 1 .. Len(T) : Ahead(h, r, Scope(h, r, ts[1]), Scope(h, r, T[i]))
    <3>1. ASSUME NEW i \in 1 .. Len(T)
          PROVE  Ahead(h, r, Scope(h, r, ts[1]), Scope(h, r, T[i]))
      <4>1. 1 < i + 1 /\ i + 1 \in 1 .. Len(ts)
        BY <1>1
      <4> QED BY <1>1, <1>4, <4>1 DEF InTurn
    <3> QED BY <3>1
  <2>3. \A y \in Scopes(h, r, T) : \E i \in 1 .. Len(T) : y \in Scope(h, r, T[i])
    BY ScopesIs
  <2>4. Ahead(h, r, Scope(h, r, ts[1]), Scopes(h, r, T))
    BY <2>2, <2>3 DEF Ahead
  <2> QED BY <2>1, <2>4 DEF InTurn
<1> QED BY <1>1, <1>3, <1>4 DEF T, S

(* Calls, and calls after them.                                            *)
LEMMA TurnJoin ==
  ASSUME NEW h, NEW r, NEW s \in Seq(TurnSet(h)), NEW t \in Seq(TurnSet(h))
  PROVE  /\ Scopes(h, r, s \o t) = Scopes(h, r, s) \cup Scopes(h, r, t)
         /\ (/\ InTurn(h, r, s) /\ InTurn(h, r, t)
             /\ Ahead(h, r, Scopes(h, r, s), Scopes(h, r, t))) => InTurn(h, r, s \o t)
         /\ s \o t \in Seq(TurnSet(h))
<1> DEFINE S == TurnSet(h)
           u == s \o t
           n == Len(s)
           m == Len(t)
<1>0. s \in Seq(S) /\ t \in Seq(S)
  OBVIOUS
<1>1. u \in Seq(S) /\ n \in Nat /\ m \in Nat /\ Len(u) = n + m
  <2> HIDE DEF S
  <2> QED BY <1>0
<1>2. /\ \A i \in 1 .. n : i \in 1 .. Len(u) /\ u[i] = s[i]
      /\ \A i \in 1 .. m : n + i \in 1 .. Len(u) /\ u[n + i] = t[i]
  <2> HIDE DEF S
  <2> QED BY <1>0
<1> HIDE DEF u, n, m, S
<1>3. \A i \in 1 .. Len(u) : i \in 1 .. n \/ (i - n \in 1 .. m /\ u[i] = t[i - n] /\ n < i)
  <2>1. ASSUME NEW i \in 1 .. Len(u), ~(i \in 1 .. n)
        PROVE  i - n \in 1 .. m /\ u[i] = t[i - n] /\ n < i
    <3>1. i - n \in 1 .. m /\ n + (i - n) = i /\ n < i
      BY <1>1, <2>1
    <3> QED BY <1>2, <3>1
  <2> QED BY <2>1
<1>4. Scopes(h, r, u) = Scopes(h, r, s) \cup Scopes(h, r, t)
  <2>1. ASSUME NEW y \in Scopes(h, r, u) PROVE y \in Scopes(h, r, s) \/ y \in Scopes(h, r, t)
    <3>1. PICK i \in 1 .. Len(u) : y \in Scope(h, r, u[i])
      BY ScopesIs
    <3> QED BY <1>2, <1>3, <3>1, ScopesIs DEF n, m
  <2>2. ASSUME NEW y \in Scopes(h, r, s) PROVE y \in Scopes(h, r, u)
    <3>1. PICK i \in 1 .. n : y \in Scope(h, r, s[i])
      BY ScopesIs DEF n
    <3> QED BY <1>2, <3>1, ScopesIs
  <2>3. ASSUME NEW y \in Scopes(h, r, t) PROVE y \in Scopes(h, r, u)
    <3>1. PICK i \in 1 .. m : y \in Scope(h, r, t[i])
      BY ScopesIs DEF m
    <3>2. n + i \in 1 .. Len(u) /\ u[n + i] = t[i]
      BY <1>2
    <3> QED BY <3>1, <3>2, ScopesIs
  <2> QED BY <2>1, <2>2, <2>3
<1>5. ASSUME InTurn(h, r, s), InTurn(h, r, t), Ahead(h, r, Scopes(h, r, s), Scopes(h, r, t))
      PROVE  InTurn(h, r, u)
  <2>1. ASSUME NEW i \in 1 .. Len(u), NEW j \in 1 .. Len(u), i < j
        PROVE  Ahead(h, r, Scope(h, r, u[i]), Scope(h, r, u[j]))
    <3>1. CASE i \in 1 .. n /\ j \in 1 .. n
      BY <1>2, <1>5, <2>1, <3>1 DEF InTurn, n
    <3>2. CASE i \in 1 .. n /\ ~(j \in 1 .. n)
      <4>1. j - n \in 1 .. m /\ u[j] = t[j - n] /\ u[i] = s[i]
        BY <1>2, <1>3, <3>2
      <4>2. Scope(h, r, s[i]) \subseteq Scopes(h, r, s)
        BY <3>2, ScopesIs DEF n
      <4>3. Scope(h, r, t[j - n]) \subseteq Scopes(h, r, t)
        BY <4>1, ScopesIs DEF m
      <4> QED BY <1>5, <4>1, <4>2, <4>3, AheadWithin
    <3>3. CASE ~(i \in 1 .. n)
      <4>1. i - n \in 1 .. m /\ u[i] = t[i - n] /\ n < i
        BY <1>3, <3>3
      <4>2. ~(j \in 1 .. n)
        BY <1>1, <2>1, <4>1
      <4>3. j - n \in 1 .. m /\ u[j] = t[j - n]
        BY <1>3, <4>2
      <4>4. i - n < j - n
        BY <1>1, <2>1
      <4> QED BY <1>5, <4>1, <4>3, <4>4 DEF InTurn, m
    <3> QED BY <3>1, <3>2, <3>3
  <2> QED BY <2>1 DEF InTurn
<1> QED BY <1>1, <1>4, <1>5 DEF u, S

-----------------------------------------------------------------------------
\* Calls for the objects of A, in order.
Covers(h, r, ts, A) ==
  ts \in Seq(TurnSet(h)) /\ InTurn(h, r, ts) /\ Scopes(h, r, ts) = A

(* Calls for some objects, and then calls for others that the first do not *)
(* point to.                                                               *)
LEMMA CoversJoin ==
  ASSUME NEW h, NEW r, NEW s, NEW A, Covers(h, r, s, A), NEW t, NEW B, Covers(h, r, t, B),
         Ahead(h, r, A, B)
  PROVE  Covers(h, r, s \o t, A \cup B)
BY TurnJoin DEF Covers

(* One call, and none.                                                     *)
LEMMA CoversOne ==
  ASSUME NEW h, NEW r, NEW t \in TurnSet(h)
  PROVE  Covers(h, r, <<t>>, Scope(h, r, t)) /\ Covers(h, r, <<>>, {})
<1> DEFINE S == TurnSet(h)
<1>1. <<t>> \in Seq(S) /\ <<>> \in Seq(S)
  <2>1. t \in S
    OBVIOUS
  <2> HIDE DEF S
  <2> QED BY <2>1
<1> QED BY <1>1, OneTurn, NoTurn DEF Covers

(* The calls for what an object owns.                                      *)
LEMMA CallsCover ==
  ASSUME NEW h, NEW r, NEW a, IsTyped(h, r), IsValid(h, r, a), NEW x \in From(h, r),
         ~(h[x].kind \in {"list", "dict"}), NEW op \in {"gen", "count"}
  PROVE  Covers(h, r, CallsOf(h, op, x), From(h, x) \ {x})
<1> DEFINE n == Len(h[x].ptr)
           g == CallsOf(h, op, x)
           S == TurnSet(h)
           t(k) == Task(IF Refers(h[x], k) THEN "pass" ELSE op, x, k)
<1>1. /\ x \in 1 .. Len(h) /\ n \in Nat /\ Len(h) \in Nat /\ x # Null
  <2>1. x \in 1 .. Len(h)
    BY ValidIs
  <2>2. Objs(h) /\ Len(h) \in Nat
    BY TypedIs, ObjsFields
  <2> QED BY <2>1, <2>2, ObjsFields DEF Null
<1>2. ASSUME NEW k \in 1 .. n
      PROVE  /\ t(k) \in S
             /\ Refers(h[x], k) \/ h[x].ptr[k] = Null => Scope(h, r, t(k)) = {}
             /\ ~ Refers(h[x], k) => Scope(h, r, t(k)) = From(h, h[x].ptr[k])
  <2>1. t(k).obj = x /\ t(k).field = k /\ t(k).op = IF Refers(h[x], k) THEN "pass" ELSE op
    BY TaskIs
  <2>2. t(k) = [op |-> t(k).op, obj |-> t(k).obj, field |-> t(k).field]
    BY DEF Task
  <2>3. k \in Nat /\ x \in 0 .. Len(h)
    BY <1>1
  <2> HIDE DEF t
  <2>4. t(k) \in S
    <3>1. t(k).op \in {"gen", "pass", "write", "count", "attr", "cells"}
      BY <2>1
    <3> QED BY <2>1, <2>2, <2>3, <3>1 DEF TurnSet
  <2>5. Tgt(h, r, t(k)) = h[x].ptr[k]
    BY <1>1, <2>1 DEF Tgt
  <2>6. ~ Refers(h[x], k) => Scope(h, r, t(k)) = From(h, h[x].ptr[k])
    BY <2>1, <2>5 DEF Scope
  <2>7. Refers(h[x], k) => Scope(h, r, t(k)) = {}
    BY <2>1 DEF Scope
  <2> QED BY <2>4, <2>6, <2>7, FromNull
<1>3. g \in Seq(S) /\ Len(g) = n /\ \A k \in 1 .. n : g[k] = t(k)
  <2>1. g = [k \in 1 .. n |-> t(k)]
    BY DEF CallsOf
  <2>2. \A k \in 1 .. n : t(k) \in S
    BY <1>2
  <2> HIDE DEF g, t, n, S
  <2> QED BY <1>1, <2>1, <2>2
<1> HIDE DEF g, t
<1>4. \A k \in 1 .. n : \/ Scope(h, r, g[k]) = {}
                        \/ /\ Owns(h, x, k, h[x].ptr[k])
                           /\ Scope(h, r, g[k]) = From(h, h[x].ptr[k])
  BY <1>2, <1>3 DEF Owns
<1>5. InTurn(h, r, g)
  <2>1. ASSUME NEW i \in 1 .. n, NEW j \in 1 .. n, i < j
        PROVE  Ahead(h, r, Scope(h, r, g[i]), Scope(h, r, g[j]))
    <3>1. CASE Scope(h, r, g[i]) = {} \/ Scope(h, r, g[j]) = {}
      BY <3>1 DEF Ahead
    <3>2. CASE ~(Scope(h, r, g[i]) = {} \/ Scope(h, r, g[j]) = {})
      <4>1. /\ Owns(h, x, i, h[x].ptr[i]) /\ Scope(h, r, g[i]) = From(h, h[x].ptr[i])
            /\ Owns(h, x, j, h[x].ptr[j]) /\ Scope(h, r, g[j]) = From(h, h[x].ptr[j])
        BY <1>4, <3>2
      <4>2. i # j
        BY <1>1, <2>1
      <4> QED BY <4>1, <4>2, SiblingAhead
    <3> QED BY <3>1, <3>2
  <2> QED BY <1>3, <2>1 DEF InTurn
<1>6. Scopes(h, r, g) = From(h, x) \ {x}
  <2>1. /\ \A k, c : Owns(h, x, k, c) => From(h, c) \subseteq From(h, x) \ {x}
        /\ \A y \in From(h, x) : y = x \/ \E k, c : Owns(h, x, k, c) /\ y \in From(h, c)
    BY FromIs
  <2>2. ASSUME NEW y \in Scopes(h, r, g) PROVE y \in From(h, x) \ {x}
    <3>1. PICK i \in 1 .. n : y \in Scope(h, r, g[i])
      BY <1>3, ScopesIs
    <3> QED BY <1>4, <2>1, <3>1
  <2>3. ASSUME NEW y \in From(h, x) \ {x} PROVE y \in Scopes(h, r, g)
    <3>1. PICK k, c : Owns(h, x, k, c) /\ y \in From(h, c)
      BY <2>1
    <3>2. k \in 1 .. n /\ ~ Refers(h[x], k) /\ h[x].ptr[k] = c
      BY <3>1 DEF Owns
    <3>3. Scope(h, r, g[k]) = From(h, c)
      BY <1>2, <1>3, <3>2
    <3> QED BY <1>3, <3>1, <3>2, <3>3, ScopesIs
  <2> QED BY <2>2, <2>3
<1> QED BY <1>3, <1>5, <1>6 DEF Covers, g, S

-----------------------------------------------------------------------------
\* The calls for what an object with arguments owns, those excepted.
ArgsOf(h, op, op2, x) ==
  CallsOf(h, op, h[x].ptr[1])
  \o (IF h[x].kind \in {"list", "dict"} THEN <<Task(op2, x, 2)>> ELSE <<>>)

CountsOf(h, x) ==
  LET o == h[x]
  IN  IF ~ HasArgs(o) THEN CallsOf(h, "count", x)
      ELSE CallsOf(h, "count", o.ptr[1])
           \o (IF o.kind \in {"list", "dict"} THEN <<Task("attr", x, 2)>> ELSE <<>>)

(* An object is written after all that is reached from it.                 *)
LEMMA SelfAhead ==
  ASSUME NEW h, NEW r, NEW a, IsTyped(h, r), IsValid(h, r, a), NEW x \in From(h, r)
  PROVE  Ahead(h, r, From(h, x) \ {x}, {x})
<1>1. ASSUME NEW y \in From(h, x) \ {x}
      PROVE  Ahead(h, r, {y}, {x})
  <2>1. PICK k, c : Owns(h, x, k, c) /\ y \in From(h, c)
    BY FromIs
  <2>2. Ahead(h, r, From(h, c), {x})
    BY <2>1, ChildAhead
  <2> QED BY <2>1, <2>2, AheadWithin
<1> QED BY <1>1 DEF Ahead

(* An object with arguments owns them in its first field, and a list or a  *)
(* dict its attributes in the second.                                      *)
LEMMA ArgsIs ==
  ASSUME NEW h, NEW r, NEW a, IsTyped(h, r), IsValid(h, r, a), NEW x \in From(h, r),
         HasArgs(h[x])
  PROVE  /\ Owns(h, x, 1, h[x].ptr[1])
         /\ h[h[x].ptr[1]].kind \in {"args", "array"}
         /\ h[x].kind \in {"list", "dict"} => Owns(h, x, 2, h[x].ptr[2])
         /\ ~(h[x].kind \in {"list", "dict"}) => Len(h[x].ptr) = 1
         /\ h[x].kind \in {"list", "dict"} => Len(h[x].ptr) = 2
<1>1. /\ 1 \in 1 .. Len(h[x].ptr) /\ h[x].ptr[1] # Null
      /\ h[x].kind \in {"list", "dict"} => 2 \in 1 .. Len(h[x].ptr)
      /\ x \in 1 .. Len(h)
  BY ValidIs
<1>2. \A k : ~ Refers(h[x], k)
  BY DEF HasArgs, Refers
<1>3. Pointees(h[x], 1) \in {{"args"}, {"array"}}
  BY DEF HasArgs, Pointees, Cells, NodeKinds, Refers, Required
<1>4. h[h[x].ptr[1]].kind \in Pointees(h[x], 1)
  BY <1>1, TypedIs
<1>5. h[x].kind \in {"list", "dict"} => h[x].ptr[2] # Null
  BY DEF IsValid, LacksAttr
<1>6. Len(h[x].ptr) \in Arity(h[x])
  BY <1>1 DEF IsTyped
<1>7. ~(h[x].kind \in {"list", "dict"}) => Arity(h[x]) = {1}
  BY DEF HasArgs, Arity, Cells
<1>8. h[x].kind \in {"list", "dict"} => Arity(h[x]) = {2}
  BY DEF HasArgs, Arity, Cells
<1> QED BY <1>1, <1>2, <1>3, <1>4, <1>5, <1>6, <1>7, <1>8 DEF Owns

(* The calls for what an object with arguments owns are for all that is    *)
(* reached from it but for the arguments themselves, that nothing of that  *)
(* points to.                                                              *)
LEMMA ArgsCover ==
  ASSUME NEW h, NEW r, NEW a, IsTyped(h, r), IsValid(h, r, a), NEW x \in From(h, r),
         HasArgs(h[x]), NEW op \in {"gen", "count"}, NEW op2 \in {"gen", "attr"}
  PROVE  /\ Covers(h, r, ArgsOf(h, op, op2, x), From(h, x) \ {x, h[x].ptr[1]})
         /\ Ahead(h, r, From(h, x) \ {x, h[x].ptr[1]}, {h[x].ptr[1]})
         /\ h[x].ptr[1] \in From(h, x) /\ h[x].ptr[1] # x
<1> DEFINE c == h[x].ptr[1]
           d == h[x].ptr[2]
           T == Task(op2, x, 2)
<1>1. /\ Owns(h, x, 1, c) /\ h[c].kind \in {"args", "array"}
      /\ h[x].kind \in {"list", "dict"} => Owns(h, x, 2, d)
      /\ ~(h[x].kind \in {"list", "dict"}) => Len(h[x].ptr) = 1
      /\ h[x].kind \in {"list", "dict"} => Len(h[x].ptr) = 2
  BY ArgsIs
<1>2. /\ c \in From(h, r) /\ x # Null /\ x \in 0 .. Len(h) /\ c \in From(h, c)
      /\ ~(x \in From(h, c))
  <2>1. /\ c \in From(h, r) /\ x # Null /\ x \in 1 .. Len(h) /\ c \in From(h, c)
        /\ ~(x \in From(h, c)) /\ Len(h) \in Nat
    BY <1>1, ChildIs
  <2> QED BY <2>1
<1>3. Covers(h, r, CallsOf(h, op, c), From(h, c) \ {c})
  BY <1>1, <1>2, CallsCover
<1>4. /\ \A k, e : Owns(h, x, k, e) => From(h, e) \subseteq From(h, x) \ {x}
      /\ \A y \in From(h, x) : y = x \/ \E k, e : Owns(h, x, k, e) /\ y \in From(h, e)
  BY FromIs
<1>5. Ahead(h, r, From(h, c) \ {c}, {c})
  BY <1>2, SelfAhead
<1>6. c \in From(h, x) /\ c # x
  BY <1>1, <1>2, <1>4
<1> HIDE DEF c, d
<1>7. CASE ~(h[x].kind \in {"list", "dict"})
  <2>1. \A k, e : Owns(h, x, k, e) => e = c
    <3>1. \A k : k \in 1 .. 1 => k = 1
      OBVIOUS
    <3> QED BY <1>1, <1>7, <3>1 DEF Owns
  <2>2. From(h, x) \ {x, c} = From(h, c) \ {c}
    BY <1>1, <1>2, <1>4, <2>1
  <2>3. ArgsOf(h, op, op2, x) = CallsOf(h, op, c) \o <<>>
    BY <1>7 DEF ArgsOf, c
  <2>4. Covers(h, r, <<>>, {}) /\ Ahead(h, r, From(h, c) \ {c}, {})
    <3>1. T \in TurnSet(h)
      BY <1>2 DEF Task, TurnSet
    <3> QED BY <3>1, CoversOne DEF Ahead
  <2>5. Covers(h, r, ArgsOf(h, op, op2, x), (From(h, c) \ {c}) \cup {})
    BY <1>3, <2>3, <2>4, CoversJoin
  <2>6. (From(h, c) \ {c}) \cup {} = From(h, c) \ {c}
    OBVIOUS
  <2> QED BY <1>5, <1>6, <2>2, <2>5, <2>6 DEF c
<1>8. CASE h[x].kind \in {"list", "dict"}
  <2>1. Owns(h, x, 2, d) /\ Owns(h, x, 1, c)
    BY <1>1, <1>8
  <2>2. \A k, e : Owns(h, x, k, e) => e = c \/ e = d
    <3>1. \A k : k \in 1 .. 2 => k = 1 \/ k = 2
      OBVIOUS
    <3> QED BY <1>1, <1>8, <2>1, <3>1 DEF Owns
  <2>3. T \in TurnSet(h) /\ Scope(h, r, T) = From(h, d)
    <3>1. T.op = op2 /\ T.obj = x /\ T.field = 2
      BY TaskIs
    <3>2. Tgt(h, r, T) = d
      BY <1>2, <3>1 DEF Tgt, d
    <3>3. T \in TurnSet(h)
      BY <1>2 DEF Task, TurnSet
    <3> HIDE DEF T
    <3> QED BY <3>1, <3>2, <3>3 DEF Scope
  <2>4. Covers(h, r, <<T>>, From(h, d))
    BY <2>3, CoversOne
  <2>5. Ahead(h, r, From(h, c), From(h, d))
    <3>1. 1 # 2
      OBVIOUS
    <3> QED BY <2>1, <3>1, SiblingAhead
  <2>6. Ahead(h, r, From(h, c) \ {c}, From(h, d))
    BY <2>5, AheadWithin
  <2>7. ArgsOf(h, op, op2, x) = CallsOf(h, op, c) \o <<T>>
    BY <1>8 DEF ArgsOf, c
  <2>8. Covers(h, r, ArgsOf(h, op, op2, x), (From(h, c) \ {c}) \cup From(h, d))
    BY <1>3, <2>4, <2>6, <2>7, CoversJoin
  <2>9. From(h, c) \cap From(h, d) = {}
    BY <2>5 DEF Ahead
  <2>10. From(h, x) \ {x, c} = (From(h, c) \ {c}) \cup From(h, d)
    <3>1. From(h, c) \subseteq From(h, x) \ {x} /\ From(h, d) \subseteq From(h, x) \ {x}
      BY <1>4, <2>1
    <3>2. \A y \in From(h, x) : y = x \/ y \in From(h, c) \/ y \in From(h, d)
      BY <1>4, <2>2
    <3>3. c \in From(h, c)
      BY <1>2
    <3> QED BY ONLY <2>9, <3>1, <3>2, <3>3
  <2>11. Ahead(h, r, From(h, d), {c})
    BY <1>8, <2>1, AttrAhead
  <2>12. Ahead(h, r, (From(h, c) \ {c}) \cup From(h, d), {c})
    BY <1>5, <2>11, AheadJoin
  <2> QED BY <1>6, <2>8, <2>10, <2>12 DEF c
<1> QED BY <1>7, <1>8

(* What is written before an object is all that is reached from it.        *)
LEMMA BeforeCover ==
  ASSUME NEW h, NEW r, NEW a, IsTyped(h, r), IsValid(h, r, a), NEW x \in From(h, r)
  PROVE  Covers(h, r, BeforeOf(h, x), From(h, x) \ {x})
<1>1. CASE ~ HasArgs(h[x])
  <2>1. ~(h[x].kind \in {"list", "dict"})
    BY <1>1 DEF HasArgs
  <2>2. BeforeOf(h, x) = CallsOf(h, "gen", x)
    BY <1>1 DEF BeforeOf
  <2> QED BY <2>1, <2>2, CallsCover
<1>2. CASE HasArgs(h[x])
  <2> DEFINE c == h[x].ptr[1]
             w == Task("write", x, 1)
             g == ArgsOf(h, "gen", "gen", x)
             A == From(h, x) \ {x, c}
  <2>1. Covers(h, r, g, A) /\ Ahead(h, r, A, {c}) /\ c \in From(h, x) /\ c # x
    BY <1>2, ArgsCover
  <2>2. BeforeOf(h, x) = g \o <<w>>
    BY <1>2 DEF BeforeOf, ArgsOf
  <2>3. w \in TurnSet(h) /\ Scope(h, r, w) = {c}
    <3>1. w.op = "write" /\ w.obj = x /\ w.field = 1
      BY TaskIs
    <3>2. x # Null /\ x \in 0 .. Len(h)
      <4>1. Owns(h, x, 1, h[x].ptr[1])
        BY <1>2, ArgsIs
      <4>2. x # Null /\ x \in 1 .. Len(h) /\ Len(h) \in Nat
        BY <4>1, ChildIs
      <4> QED BY <4>2
    <3>3. Tgt(h, r, w) = c
      BY <3>1, <3>2 DEF Tgt
    <3>4. w \in TurnSet(h)
      BY <3>2 DEF Task, TurnSet
    <3> HIDE DEF w
    <3> QED BY <3>1, <3>3, <3>4 DEF Scope
  <2>4. Covers(h, r, <<w>>, {c})
    BY <2>3, CoversOne
  <2>5. A \cup {c} = From(h, x) \ {x}
    BY <2>1
  <2> HIDE DEF g, w, A
  <2>6. Covers(h, r, g \o <<w>>, A \cup {c})
    BY <2>1, <2>4, CoversJoin
  <2> QED BY <2>2, <2>5, <2>6
<1> QED BY <1>1, <1>2

(* What is left to count of an object counted is all that is reached from  *)
(* it, but for its arguments, that are counted with it.                    *)
LEMMA CountsCover ==
  ASSUME NEW h, NEW r, NEW a, IsTyped(h, r), IsValid(h, r, a), NEW x \in From(h, r)
  PROVE  /\ HasArgs(h[x]) =>
              /\ Covers(h, r, CountsOf(h, x), From(h, x) \ {x, h[x].ptr[1]})
              /\ h[x].ptr[1] \in From(h, x) /\ h[x].ptr[1] # x
         /\ ~ HasArgs(h[x]) => Covers(h, r, CountsOf(h, x), From(h, x) \ {x})
<1>1. CASE ~ HasArgs(h[x])
  <2>1. ~(h[x].kind \in {"list", "dict"})
    BY <1>1 DEF HasArgs
  <2>2. CountsOf(h, x) = CallsOf(h, "count", x)
    BY <1>1 DEF CountsOf
  <2> QED BY <1>1, <2>1, <2>2, CallsCover
<1>2. CASE HasArgs(h[x])
  <2>1. CountsOf(h, x) = ArgsOf(h, "count", "attr", x)
    BY <1>2 DEF CountsOf, ArgsOf
  <2> QED BY <1>2, <2>1, ArgsCover
<1> QED BY <1>1, <1>2

-----------------------------------------------------------------------------
(* The first call gives way to calls for some of its objects.              *)
LEMMA TurnReplace ==
  ASSUME NEW h, NEW r, NEW ts \in Seq(TurnSet(h)), ts # <<>>, InTurn(h, r, ts),
         NEW s, NEW A, Covers(h, r, s, A), A \subseteq Scope(h, r, Head(ts))
  PROVE  /\ s \o Tail(ts) \in Seq(TurnSet(h)) /\ InTurn(h, r, s \o Tail(ts))
         /\ Scopes(h, r, s \o Tail(ts)) = Scopes(h, r, ts) \ (Scope(h, r, Head(ts)) \ A)
<1> DEFINE T == Tail(ts)
           H == Scope(h, r, Head(ts))
<1>1. /\ Scopes(h, r, ts) = H \cup Scopes(h, r, T) /\ InTurn(h, r, T)
      /\ Ahead(h, r, H, Scopes(h, r, T)) /\ T \in Seq(TurnSet(h))
  BY TurnTail
<1> HIDE DEF T, H
<1>2. Covers(h, r, T, Scopes(h, r, T))
  BY <1>1 DEF Covers
<1>3. A \subseteq H
  BY DEF H
<1>4. Ahead(h, r, A, Scopes(h, r, T))
  BY <1>1, <1>3, AheadWithin
<1>5. Covers(h, r, s \o T, A \cup Scopes(h, r, T))
  BY <1>2, <1>4, CoversJoin
<1>6. H \cap Scopes(h, r, T) = {}
  BY <1>1 DEF Ahead
<1>7. A \cup Scopes(h, r, T) = Scopes(h, r, ts) \ (H \ A)
  BY <1>1, <1>3, <1>6
<1> QED BY <1>5, <1>7 DEF Covers, T, H

-----------------------------------------------------------------------------
\* The calls that count: about the root, or a field of an object of R.
IsCount(h, R, t) ==
  /\ t.op \in {"count", "pass", "attr", "cells"}
  /\ t.op \in {"count", "pass"} =>
       t.obj = Null \/ (t.obj \in R /\ t.field \in 1 .. Len(h[t.obj].ptr))
  /\ t.op = "attr" => t.obj \in R /\ h[t.obj].kind \in {"list", "dict"} /\ t.field = 2

AllCount(h, R, ts) ==
  ts \in Seq(TurnSet(h)) /\ \A i \in 1 .. Len(ts) : IsCount(h, R, ts[i])

(* The first call of the counting taken off.                               *)
LEMMA CountTail ==
  ASSUME NEW h, NEW R, NEW ts, AllCount(h, R, ts), ts # <<>>
  PROVE  AllCount(h, R, Tail(ts)) /\ IsCount(h, R, Head(ts)) /\ Head(ts) \in TurnSet(h)
<1> DEFINE S == TurnSet(h)
           T == Tail(ts)
<1>1. ts \in Seq(S)
  BY DEF AllCount
<1>2. /\ T \in Seq(S) /\ Head(ts) = ts[1] /\ 1 \in 1 .. Len(ts) /\ Head(ts) \in S
      /\ \A i \in 1 .. Len(T) : T[i] = ts[i + 1] /\ i + 1 \in 1 .. Len(ts)
  <2> HIDE DEF S
  <2> QED BY <1>1, TailIs
<1> HIDE DEF T
<1> QED BY <1>2 DEF AllCount, T

(* Calls of the counting joined.                                           *)
LEMMA CountJoin ==
  ASSUME NEW h, NEW R, NEW s, NEW t, AllCount(h, R, s), AllCount(h, R, t)
  PROVE  AllCount(h, R, s \o t)
<1> DEFINE S == TurnSet(h)
           u == s \o t
<1>1. s \in Seq(S) /\ t \in Seq(S)
  BY DEF AllCount
<1>2. u \in Seq(S) /\ Joined(s, t, u)
  <2> HIDE DEF S
  <2> QED BY <1>1, JoinIs
<1> HIDE DEF u
<1> QED BY <1>2 DEF AllCount, Joined, u

(* One call of the counting, and none.                                     *)
LEMMA CountOne ==
  ASSUME NEW h, NEW R, NEW t \in TurnSet(h), IsCount(h, R, t)
  PROVE  AllCount(h, R, <<t>>) /\ AllCount(h, R, <<>>)
<1> DEFINE S == TurnSet(h)
           ts == <<t>>
<1>1. t \in S
  OBVIOUS
<1>2. ts \in Seq(S) /\ <<>> \in Seq(S) /\ ts[1] = t
      /\ (\A i \in 1 .. Len(ts) : i = 1) /\ 1 .. Len(<<>>) = {}
  <2> HIDE DEF S
  <2> QED BY <1>1
<1> HIDE DEF ts
<1> QED BY <1>2 DEF AllCount, ts

(* The calls for the fields of an object are calls of the counting.        *)
LEMMA CallsCount ==
  ASSUME NEW h, NEW r, NEW a, IsTyped(h, r), IsValid(h, r, a), NEW x \in From(h, r)
  PROVE  AllCount(h, From(h, r), CallsOf(h, "count", x))
<1> DEFINE R == From(h, r)
           S == TurnSet(h)
           n == Len(h[x].ptr)
           t(k) == Task(IF Refers(h[x], k) THEN "pass" ELSE "count", x, k)
           g == CallsOf(h, "count", x)
<1>1. x \in 1 .. Len(h) /\ n \in Nat /\ Len(h) \in Nat
  <2>1. x \in 1 .. Len(h)
    BY ValidIs
  <2> QED BY <2>1, TypedIs, ObjsFields
<1>2. ASSUME NEW k \in 1 .. n PROVE t(k) \in S /\ IsCount(h, R, t(k))
  <2>1. ASSUME NEW op \in {"pass", "count"}
        PROVE  Task(op, x, k) \in S /\ IsCount(h, R, Task(op, x, k))
    BY <1>1 DEF Task, TurnSet, IsCount
  <2> QED BY <2>1
<1>3. g \in Seq(S) /\ Len(g) = n /\ \A k \in 1 .. n : g[k] = t(k)
  <2>1. g = [k \in 1 .. n |-> t(k)]
    BY DEF CallsOf
  <2>2. \A k \in 1 .. n : t(k) \in S
    BY <1>2
  <2> HIDE DEF g, t, n, S
  <2> QED BY <1>1, <2>1, <2>2
<1> HIDE DEF g, t, n
<1>4. \A k \in 1 .. Len(g) : IsCount(h, R, g[k])
  BY <1>2, <1>3
<1> QED BY <1>3, <1>4 DEF AllCount, g

(* An object is counted, and what is left of it is to be counted.          *)
LEMMA CountsAre ==
  ASSUME NEW h, NEW r, NEW a, IsTyped(h, r), IsValid(h, r, a), NEW x \in From(h, r)
  PROVE  AllCount(h, From(h, r), CountsOf(h, x))
<1> DEFINE R == From(h, r)
           t == Task("attr", x, 2)
<1>1. CASE ~ HasArgs(h[x])
  BY <1>1, CallsCount DEF CountsOf
<1>2. CASE HasArgs(h[x])
  <2>1. /\ h[x].ptr[1] \in From(h, r) /\ x \in 0 .. Len(h)
    <3>1. h[x].ptr[1] \in From(h, r) /\ x \in 1 .. Len(h)
      BY <1>2, ValidIs
    <3>2. Len(h) \in Nat
      BY TypedIs, ObjsFields
    <3> QED BY <3>1, <3>2
  <2>2. AllCount(h, R, CallsOf(h, "count", h[x].ptr[1]))
    BY <2>1, CallsCount
  <2>3. h[x].kind \in {"list", "dict"} => AllCount(h, R, <<t>>)
    <3>1. SUFFICES ASSUME h[x].kind \in {"list", "dict"} PROVE AllCount(h, R, <<t>>)
      OBVIOUS
    <3>2. t \in TurnSet(h) /\ IsCount(h, R, t)
      BY <2>1, <3>1 DEF Task, TurnSet, IsCount
    <3> QED BY <3>2, CountOne
  <2>4. AllCount(h, R, <<>>)
    BY DEF AllCount
  <2>5. CountsOf(h, x) = CallsOf(h, "count", h[x].ptr[1])
          \o (IF h[x].kind \in {"list", "dict"} THEN <<t>> ELSE <<>>)
    BY <1>2 DEF CountsOf
  <2> HIDE DEF t, R
  <2>6. CASE h[x].kind \in {"list", "dict"}
    BY <2>2, <2>3, <2>5, <2>6, CountJoin DEF R
  <2>7. CASE ~(h[x].kind \in {"list", "dict"})
    BY <2>2, <2>4, <2>5, <2>7, CountJoin DEF R
  <2> QED BY <2>6, <2>7
<1> QED BY <1>1, <1>2

-----------------------------------------------------------------------------
\* n objects have been counted, and those of the calls are left.
Counting(h, r, ts, n) ==
  /\ AllCount(h, From(h, r), ts) /\ InTurn(h, r, ts)
  /\ Scopes(h, r, ts) \subseteq From(h, r)
  /\ n \in Nat /\ n + Cardinality(Scopes(h, r, ts)) = Cardinality(From(h, r))

(* A library has finitely many objects.                                    *)
LEMMA FromFinite ==
  ASSUME NEW h, NEW r, IsTyped(h, r)
  PROVE  /\ IsFiniteSet(From(h, r))
         /\ \A S : S \subseteq From(h, r) => IsFiniteSet(S) /\ Cardinality(S) \in Nat
<1>1. Objs(h) /\ r \in 0 .. Len(h) /\ Len(h) \in Nat
  BY TypedIs, ObjsFields
<1>2. From(h, r) \subseteq 1 .. Len(h)
  BY <1>1, FromClosed
<1>3. IsFiniteSet(1 .. Len(h))
  <2>1. 1 \in Int /\ Len(h) \in Int
    BY <1>1
  <2> QED BY <2>1, FS_Interval
<1>4. IsFiniteSet(From(h, r))
  BY <1>2, <1>3, FS_Subset
<1> QED BY <1>4, FS_Subset, FS_CardinalityType

(* Objects of the first call are counted: those that the calls in its      *)
(* place are not for.                                                      *)
LEMMA CountingOn ==
  ASSUME NEW h, NEW r, IsTyped(h, r), NEW ts, NEW n, Counting(h, r, ts, n), ts # <<>>,
         NEW s, NEW A, Covers(h, r, s, A), AllCount(h, From(h, r), s),
         A \subseteq Scope(h, r, Head(ts)),
         NEW m \in Nat, m = Cardinality(Scope(h, r, Head(ts)) \ A)
  PROVE  Counting(h, r, s \o Tail(ts), n + m)
<1> DEFINE R == From(h, r)
           H == Scope(h, r, Head(ts))
           S == Scopes(h, r, ts)
           u == s \o Tail(ts)
           D == H \ A
<1>1. /\ AllCount(h, R, ts) /\ InTurn(h, r, ts) /\ S \subseteq R /\ n \in Nat
      /\ n + Cardinality(S) = Cardinality(R) /\ ts \in Seq(TurnSet(h))
  BY DEF Counting, AllCount
<1>2. u \in Seq(TurnSet(h)) /\ InTurn(h, r, u) /\ Scopes(h, r, u) = S \ D
  BY <1>1, TurnReplace
<1>3. AllCount(h, R, u)
  <2>1. AllCount(h, R, Tail(ts))
    BY <1>1, CountTail
  <2> QED BY <2>1, CountJoin
<1>4. D \subseteq S
  <2>1. S = H \cup Scopes(h, r, Tail(ts))
    BY <1>1, TurnTail
  <2> HIDE DEF S, H
  <2> QED BY <2>1
<1> HIDE DEF S, u
<1>5. IsFiniteSet(S) /\ IsFiniteSet(D) /\ Cardinality(S) \in Nat /\ Cardinality(S \ D) \in Nat
      /\ Cardinality(R) \in Nat
  <2>1. D \subseteq R /\ S \ D \subseteq R
    BY <1>1, <1>4
  <2> HIDE DEF D
  <2> QED BY <1>1, <2>1, FromFinite
<1>6. Cardinality(S \ D) = Cardinality(S) - Cardinality(S \cap D)
  BY <1>5, FS_Difference
<1>7. S \cap D = D
  BY <1>4
<1>8. n + m + Cardinality(S \ D) = Cardinality(R)
  <2>1. Cardinality(D) = m
    OBVIOUS
  <2>2. Cardinality(S \ D) = Cardinality(S) - m
    BY <1>6, <1>7, <2>1
  <2>3. n \in Nat /\ m \in Nat /\ Cardinality(S) \in Nat
        /\ n + Cardinality(S) = Cardinality(R)
    BY <1>1, <1>5
  <2> HIDE DEF D, R
  <2> QED BY ONLY <2>2, <2>3
<1>9. S \ D \subseteq R /\ n + m \in Nat
  BY <1>1
<1> QED BY <1>2, <1>3, <1>8, <1>9 DEF Counting, u

-----------------------------------------------------------------------------
(* The objects written of R.                                               *)
OutSet(R) == [ptr : R, obj : [kind : Kinds, ptr : Seq(Nat), data : Seq(STRING)]]

\* The pointers of an object are names of objects written before it.
Copies(h, o, i) ==
  LET is == h[o[i].ptr]
  IN  /\ o[i].obj.kind = is.kind /\ o[i].obj.data = is.data
      /\ Len(o[i].obj.ptr) = Len(is.ptr)
      /\ \A k \in 1 .. Len(is.ptr) :
           IF is.ptr[k] = Null THEN o[i].obj.ptr[k] = Null
           ELSE o[i].obj.ptr[k] \in 1 .. i - 1 /\ o[o[i].obj.ptr[k]].ptr = is.ptr[k]

Written(h, R, o) ==
  /\ o \in Seq(OutSet(R))
  /\ \A i, j \in 1 .. Len(o) : o[i].ptr = o[j].ptr => i = j
  /\ \A i \in 1 .. Len(o) : Copies(h, o, i)

Places(a, o) == [i \in 1 .. Len(o) |-> a[o[i].ptr]]

\* An object with the names of what it points to in a space of pointers
NamedIn(h, a, map, id) ==
  [h[id] EXCEPT !.ptr =
     [k \in DOMAIN h[id].ptr |->
        IF h[id].ptr[k] = Null THEN Null ELSE map.nodes[a[h[id].ptr[k]]].val + 1]]

(* Where the objects written lie, and one more.                            *)
LEMMA PlacesIs ==
  ASSUME NEW R, NEW a, \A id \in R : a[id] \in Nat, NEW o \in Seq(OutSet(R))
  PROVE  /\ Places(a, o) \in Seq(Nat) /\ Len(Places(a, o)) = Len(o) /\ Len(o) \in Nat
         /\ \A i \in 1 .. Len(o) : Places(a, o)[i] = a[o[i].ptr] /\ o[i].ptr \in R
<1> DEFINE S == OutSet(R)
           n == Len(o)
<1>1. \A x \in S : x.ptr \in R
  BY DEF OutSet
<1> HIDE DEF S
<1>2. o \in Seq(S) /\ n \in Nat /\ \A i \in 1 .. n : o[i] \in S
  BY DEF S
<1>3. \A i \in 1 .. n : a[o[i].ptr] \in Nat /\ o[i].ptr \in R
  BY <1>1, <1>2
<1>4. Places(a, o) \in Seq(Nat) /\ Len(Places(a, o)) = n
  <2>1. Places(a, o) = [i \in 1 .. n |-> a[o[i].ptr]]
    BY DEF Places
  <2> HIDE DEF n
  <2> QED BY <1>2, <1>3, <2>1
<1>5. \A i \in 1 .. n : Places(a, o)[i] = a[o[i].ptr]
  BY DEF Places
<1> QED BY <1>2, <1>3, <1>4, <1>5

(* One object more is written, and lies where it does.                     *)
LEMMA PlacesAppend ==
  ASSUME NEW R, NEW a, \A id \in R : a[id] \in Nat, NEW o \in Seq(OutSet(R)),
         NEW e \in OutSet(R)
  PROVE  Places(a, Append(o, e)) = Append(Places(a, o), a[e.ptr])
<1> DEFINE S == OutSet(R)
           u == Append(o, e)
           n == Len(o)
           P == Places(a, o)
           q == Append(P, a[e.ptr])
<1>1. /\ P \in Seq(Nat) /\ Len(P) = n /\ n \in Nat
      /\ \A i \in 1 .. n : P[i] = a[o[i].ptr]
  BY PlacesIs
<1>2. e \in S /\ o \in Seq(S) /\ a[e.ptr] \in Nat
  BY DEF OutSet
<1> HIDE DEF S
<1>3. Len(u) = n + 1 /\ u[n + 1] = e /\ \A i \in 1 .. n : u[i] = o[i]
  BY <1>2
<1> HIDE DEF P
<1>4. /\ Len(q) = n + 1 /\ q[n + 1] = a[e.ptr] /\ q \in Seq(Nat)
      /\ \A i \in 1 .. n : q[i] = P[i]
  <2> HIDE DEF n
  <2> QED BY <1>1, <1>2
<1>5. Places(a, u) = [i \in 1 .. n + 1 |-> a[u[i].ptr]]
  BY <1>3 DEF Places
<1>6. \A i \in 1 .. n + 1 : q[i] = a[u[i].ptr]
  <2>1. \A i \in 1 .. n + 1 : i \in 1 .. n \/ i = n + 1
    BY <1>1
  <2> QED BY <1>1, <1>3, <1>4, <2>1
<1>7. q = [i \in 1 .. n + 1 |-> q[i]]
  <2> HIDE DEF q, n
  <2> QED BY <1>4
<1> HIDE DEF u, q, n
<1>8. Places(a, u) = q
  BY <1>5, <1>6, <1>7
<1> QED BY <1>8 DEF u, q, P

(* One object more is written.                                             *)
LEMMA CopyHolds ==
  ASSUME NEW h, NEW R, NEW o, Written(h, R, o), NEW e \in OutSet(R),
         \A i \in 1 .. Len(o) : o[i].ptr # e.ptr,
         e.obj.kind = h[e.ptr].kind, e.obj.data = h[e.ptr].data,
         Len(e.obj.ptr) = Len(h[e.ptr].ptr),
         \A k \in 1 .. Len(h[e.ptr].ptr) :
           IF h[e.ptr].ptr[k] = Null THEN e.obj.ptr[k] = Null
           ELSE e.obj.ptr[k] \in 1 .. Len(o) /\ o[e.obj.ptr[k]].ptr = h[e.ptr].ptr[k]
  PROVE  Written(h, R, Append(o, e))
<1> DEFINE u == Append(o, e)
           n == Len(o)
           S == OutSet(R)
<1>1. /\ o \in Seq(S)
      /\ \A i, j \in 1 .. n : o[i].ptr = o[j].ptr => i = j
      /\ \A i \in 1 .. n : Copies(h, o, i)
  BY DEF Written
<1>2. /\ u \in Seq(S) /\ Len(u) = n + 1 /\ u[n + 1] = e /\ n \in Nat
      /\ \A i \in 1 .. n : u[i] = o[i] /\ o[i] \in S
  <2>1. e \in S
    OBVIOUS
  <2> HIDE DEF S
  <2> QED BY <1>1, <2>1
<1> HIDE DEF u
<1>3. \A i \in 1 .. Len(u) : i \in 1 .. n \/ i = n + 1
  BY <1>2
<1> HIDE DEF n
<1>4. ASSUME NEW i \in 1 .. Len(u), NEW j \in 1 .. Len(u), u[i].ptr = u[j].ptr PROVE i = j
  <2>1. CASE i \in 1 .. n /\ j \in 1 .. n
    BY <1>1, <1>2, <1>4, <2>1
  <2>2. CASE i = n + 1 \/ j = n + 1
    BY <1>2, <1>3, <1>4, <2>2 DEF n
  <2> QED BY <1>3, <2>1, <2>2
<1>5. ASSUME NEW i \in 1 .. n PROVE Copies(h, u, i)
  <2>1. Copies(h, o, i) /\ u[i] = o[i]
    BY <1>1, <1>2
  <2>2. \A j \in 1 .. i - 1 : u[j] = o[j]
    <3>1. \A j \in 1 .. i - 1 : j \in 1 .. n
      BY <1>2
    <3> QED BY <1>2, <3>1
  <2> QED BY ONLY <2>1, <2>2 DEF Copies
<1>6. Copies(h, u, n + 1)
  <2>1. n + 1 - 1 = n
    BY <1>2
  <2>2. \A k \in 1 .. Len(h[e.ptr].ptr) :
          IF h[e.ptr].ptr[k] = Null THEN e.obj.ptr[k] = Null
          ELSE e.obj.ptr[k] \in 1 .. n /\ u[e.obj.ptr[k]].ptr = h[e.ptr].ptr[k]
    BY <1>2 DEF n
  <2> QED BY <1>2, <2>1, <2>2 DEF Copies
<1> QED BY <1>2, <1>3, <1>4, <1>5, <1>6 DEF Written, u, S

(* A space finds the name of what was written.                             *)
LEMMA NameIs ==
  ASSUME NEW R, NEW a, \A p, q \in R : a[p] = a[q] => p = q,
         \A p \in R : a[p] \in Nat,
         NEW o \in Seq(OutSet(R)), NEW id \in R, NEW map, NEW index,
         HoldsAt([map |-> map, index |-> index], Append(Places(a, o), a[id])),
         NEW p \in R, p # id, LookupKey(map, a[p]).node # Nil
  PROVE  \E j \in 1 .. Len(o) : o[j].ptr = p /\ map.nodes[a[p]].val + 1 = j
<1> DEFINE P == Places(a, o)
           adr == Append(P, a[id])
           n == Len(o)
           sp == [map |-> map, index |-> index]
           key == a[p]
<1>1. a[id] \in Nat /\ key \in Nat /\ key # a[id]
  OBVIOUS
<1>3. Len(P) = n /\ n \in Nat /\ \A i \in 1 .. n : P[i] = a[o[i].ptr] /\ o[i].ptr \in R
  BY PlacesIs
<1>4. P \in Seq(Nat)
  BY PlacesIs
<1>5. sp.map = map /\ LookupKey(map, key).node # Nil /\ HoldsAt(sp, adr)
  OBVIOUS
<1> HIDE DEF P, sp, key
<1>6. /\ Len(adr) = n + 1 /\ adr[n + 1] = a[id] /\ \A i \in 1 .. n : adr[i] = P[i]
      /\ AllOf(adr) = AllOf(P) \cup {a[id]}
  BY ONLY <1>1, <1>3, <1>4, AppendAll
<1> HIDE DEF adr
<1>7. key \in AllOf(adr)
  <2>1. LookupKey(sp.map, key).node = IF key \in AllOf(adr) THEN key ELSE Nil
    BY ONLY <1>1, <1>5, LookupHolds
  <2> QED BY <1>5, <2>1
<1>8. PICK j \in 1 .. n : P[j] = key
  BY <1>1, <1>3, <1>6, <1>7 DEF AllOf
<1>9. map.nodes[key].val = j - 1
  BY <1>3, <1>5, <1>6, <1>8 DEF HoldsAt
<1>10. o[j].ptr = p
  <2>1. a[o[j].ptr] = a[p] /\ o[j].ptr \in R
    BY <1>3, <1>8 DEF key
  <2> QED BY <2>1
<1>11. map.nodes[key].val + 1 = j
  BY <1>3, <1>9
<1> QED BY <1>10, <1>11 DEF key

(* An object is written, and each name is one that was given.              *)
LEMMA WriteHolds ==
  ASSUME NEW h, NEW r, NEW a, IsTyped(h, r), IsValid(h, r, a),
         a \in [1 .. Len(h) -> Nat \ {0}],
         NEW o, Written(h, From(h, r), o), NEW sp, HoldsAt(sp, Places(a, o)),
         NEW id \in From(h, r), InsertKey(sp.map, a[id]).isNew,
         NEW map, map = SetVal(InsertKey(sp.map, a[id]).treap, a[id], sp.index),
         \A k \in 1 .. Len(h[id].ptr) :
           h[id].ptr[k] # Null => LookupKey(map, a[h[id].ptr[k]]).node # Nil,
         NEW e, e = [ptr |-> id, obj |-> NamedIn(h, a, map, id)]
  PROVE  /\ Written(h, From(h, r), Append(o, e))
         /\ HoldsAt([map |-> map, index |-> sp.index + 1], Places(a, Append(o, e)))
         /\ \A k \in 1 .. Len(h[id].ptr) : h[id].ptr[k] # Null =>
              HoldsAt([map   |-> LookupKey(map, a[h[id].ptr[k]]).treap,
                       index |-> sp.index + 1], Places(a, Append(o, e)))
<1> DEFINE R == From(h, r)
           n == Len(o)
           P == Places(a, o)
           ptr == h[id].ptr
           new == [map |-> map, index |-> sp.index + 1]
           ins == InsertKey(sp.map, a[id])
           Holding(x) == HoldsAt(x, Append(P, a[id]))
<1>1. /\ R \subseteq 1 .. Len(h) /\ Objs(h) /\ Len(h) \in Nat
      /\ \A p, q \in R : a[p] = a[q] => p = q
      /\ \A k \in 1 .. Len(ptr) : ptr[k] # Null => ptr[k] \in R /\ ptr[k] # id
  <2>1. IsTyped(h, r) /\ IsValid(h, r, a) /\ id \in From(h, r)
    OBVIOUS
  <2>2. Objs(h) /\ Len(h) \in Nat
    BY ONLY <2>1, TypedIs, ObjsFields
  <2> QED BY ONLY <2>1, <2>2, ValidIs
<1>2. \A p \in R : a[p] \in Nat
  BY <1>1
<1>3. ~(a[id] \in AllOf(P)) /\ Holding(new)
  <2>1. HoldsAt(sp, P) /\ a[id] \in Nat
    BY <1>2
  <2>2. ins.isNew = IF a[id] \in AllOf(P) THEN FALSE ELSE TRUE
    BY ONLY <2>1, InsertHolds
  <2>3. ~(a[id] \in AllOf(P))
    BY <2>2
  <2>4. Holding([map |-> SetVal(ins.treap, a[id], sp.index), index |-> sp.index + 1])
    BY ONLY <2>1, <2>3, InsertHolds
  <2> QED BY <2>3, <2>4
<1>4. /\ id \in 1 .. Len(h) /\ h[id].kind \in Kinds /\ h[id].data \in Seq(STRING)
      /\ h[id] \in Objects(Len(h)) /\ DOMAIN ptr = 1 .. Len(ptr) /\ Len(ptr) \in Nat
  <2>1. id \in 1 .. Len(h)
    BY <1>1
  <2>2. h[id] \in Objects(Len(h))
    BY <1>1, <2>1 DEF Objs
  <2> QED BY ONLY <1>1, <2>1, <2>2, ObjsFields
<1>5. /\ e.ptr = id /\ e.obj.kind = h[id].kind /\ e.obj.data = h[id].data
      /\ e.obj = [kind |-> e.obj.kind, ptr |-> e.obj.ptr, data |-> e.obj.data]
      /\ e.obj.ptr = [k \in 1 .. Len(ptr) |->
            IF ptr[k] = Null THEN Null ELSE map.nodes[a[ptr[k]]].val + 1]
      /\ e = [ptr |-> e.ptr, obj |-> e.obj]
  BY <1>4 DEF NamedIn, Objects
<1>6. o \in Seq(OutSet(R))
  BY DEF Written
<1>7. ASSUME NEW k \in 1 .. Len(ptr), ptr[k] # Null
      PROVE  /\ e.obj.ptr[k] \in 1 .. n /\ o[e.obj.ptr[k]].ptr = ptr[k]
             /\ Holding([map |-> LookupKey(map, a[ptr[k]]).treap, index |-> sp.index + 1])
  <2> DEFINE p == ptr[k]
             adr == Append(P, a[id])
             key == a[p]
  <2>1. p \in R /\ p # id /\ LookupKey(map, key).node # Nil /\ key \in Nat
    BY <1>1, <1>2, <1>7
  <2>2. e.obj.ptr[k] = map.nodes[key].val + 1
    <3>1. k \in 1 .. Len(ptr) /\ p # Null
      BY <1>7
    <3> QED BY ONLY <1>5, <3>1
  <2>3. \A x, y \in R : a[x] = a[y] => x = y
    BY <1>1
  <2>4. HoldsAt(new, Append(Places(a, o), a[id])) /\ id \in R
    BY <1>3
  <2> HIDE DEF R, p
  <2>5. \E j \in 1 .. n : o[j].ptr = p /\ map.nodes[key].val + 1 = j
    BY ONLY <1>2, <1>6, <2>1, <2>3, <2>4, NameIs
  <2>6. HoldsAt(new, adr) /\ new.map = map /\ new.index = sp.index + 1
    BY <1>3
  <2> HIDE DEF new, adr, key
  <2>7. HoldsAt([map |-> LookupKey(new.map, key).treap, index |-> new.index], adr)
    BY ONLY <2>1, <2>6, LookupHolds
  <2> QED BY <2>2, <2>5, <2>6, <2>7 DEF p, key, adr
<1>8. e \in OutSet(R) /\ Len(e.obj.ptr) = Len(ptr)
  <2> DEFINE f == e.obj.ptr
             m == Len(ptr)
             g(k) == IF ptr[k] = Null THEN Null ELSE map.nodes[a[ptr[k]]].val + 1
  <2>1. f = [k \in 1 .. m |-> g(k)] /\ m \in Nat
    BY <1>4, <1>5
  <2>2. \A k \in 1 .. m : f[k] \in Nat
    <3>1. ASSUME NEW k \in 1 .. m PROVE f[k] \in Nat
      <4>1. CASE ptr[k] = Null
        <5>1. k \in 1 .. m
          OBVIOUS
        <5>2. e.obj.ptr[k] = Null
          BY ONLY <1>5, <4>1, <5>1
        <5>3. Null \in Nat
          BY DEF Null
        <5> QED BY ONLY <5>2, <5>3
      <4>2. CASE ptr[k] # Null
        <5>1. f[k] \in 1 .. n
          BY <1>7, <4>2
        <5>2. n \in Nat
          BY ONLY <1>6
        <5> QED BY ONLY <5>1, <5>2
      <4> QED BY <4>1, <4>2
    <3> QED BY <3>1
  <2>3. f \in Seq(Nat) /\ Len(f) = m
    <3> HIDE DEF f, m, g
    <3>1. f = [k \in 1 .. m |-> f[k]] /\ m \in Nat
      BY ONLY <2>1
    <3> QED BY ONLY <2>2, <3>1
  <2>4. e.obj \in [kind : Kinds, ptr : Seq(Nat), data : Seq(STRING)]
    BY ONLY <1>4, <1>5, <2>3
  <2>5. id \in R
    OBVIOUS
  <2> QED BY ONLY <1>5, <2>3, <2>4, <2>5 DEF OutSet
<1>9. \A i \in 1 .. n : o[i].ptr # id
  <2>1. \A i \in 1 .. n : P[i] = a[o[i].ptr] /\ P[i] \in AllOf(P)
    <3>1. \A i \in 1 .. n : P[i] = a[o[i].ptr]
      BY DEF Places
    <3>2. Len(P) = n
      BY <1>6 DEF Places
    <3> QED BY <3>1, <3>2 DEF AllOf
  <2> QED BY <1>3, <2>1
<1>10. \A k \in 1 .. Len(ptr) :
         IF ptr[k] = Null THEN e.obj.ptr[k] = Null
         ELSE e.obj.ptr[k] \in 1 .. n /\ o[e.obj.ptr[k]].ptr = ptr[k]
  <2>1. \A k \in 1 .. Len(ptr) : ptr[k] = Null => e.obj.ptr[k] = Null
    BY ONLY <1>5
  <2>2. \A k \in 1 .. Len(ptr) : ptr[k] # Null =>
          e.obj.ptr[k] \in 1 .. n /\ o[e.obj.ptr[k]].ptr = ptr[k]
    BY <1>7
  <2> QED BY ONLY <2>1, <2>2
<1>11. Written(h, R, Append(o, e))
  <2>1. Written(h, R, o) /\ ptr = h[e.ptr].ptr
    BY <1>5
  <2>2. /\ \A i \in 1 .. n : o[i].ptr # e.ptr
        /\ e.obj.kind = h[e.ptr].kind /\ e.obj.data = h[e.ptr].data
    BY <1>5, <1>9
  <2> HIDE DEF R
  <2> QED BY ONLY <1>8, <1>10, <2>1, <2>2, CopyHolds
<1>12. Places(a, Append(o, e)) = Append(P, a[id])
  <2> HIDE DEF R
  <2>2. e \in OutSet(R)
    BY <1>8
  <2>1. Places(a, Append(o, e)) = Append(P, a[e.ptr])
    BY ONLY <1>2, <1>6, <2>2, PlacesAppend
  <2> QED BY <1>5, <2>1
<1> QED BY <1>3, <1>7, <1>11, <1>12

-----------------------------------------------------------------------------
(* All has been written, the root last.                                    *)
Complete(h, r, o) ==
  Written(h, From(h, r), o) /\ o # <<>> /\ o[Len(o)].ptr = r

(* A sequence of what is within a set.                                     *)
LEMMA SeqWithin ==
  ASSUME NEW S, NEW T, NEW f \in Seq(S), \A k \in 1 .. Len(f) : f[k] \in T
  PROVE  f \in Seq(T)
<1> DEFINE n == Len(f)
<1>1. n \in Nat /\ f = [k \in 1 .. n |-> f[k]] /\ \A k \in 1 .. n : f[k] \in T
  OBVIOUS
<1> HIDE DEF n
<1> QED BY ONLY <1>1

(* What is written of an object has as many fields as it, NULL where they  *)
(* are NULL.                                                               *)
LEMMA CopyIs ==
  ASSUME NEW h, NEW R, NEW o, Written(h, R, o), NEW i \in 1 .. Len(o)
  PROVE  /\ Len(o) \in Nat /\ o[i].ptr \in R /\ o[i] \in OutSet(R)
         /\ o[i].obj.kind = h[o[i].ptr].kind /\ o[i].obj.data = h[o[i].ptr].data
         /\ Len(o[i].obj.ptr) = Len(h[o[i].ptr].ptr)
         /\ \A k \in 1 .. Len(o[i].obj.ptr) :
              \/ o[i].obj.ptr[k] = Null /\ h[o[i].ptr].ptr[k] = Null
              \/ /\ o[i].obj.ptr[k] # Null /\ h[o[i].ptr].ptr[k] # Null
                 /\ o[i].obj.ptr[k] \in 1 .. i - 1 /\ o[i].obj.ptr[k] \in 1 .. Len(o)
                 /\ o[o[i].obj.ptr[k]].ptr = h[o[i].ptr].ptr[k]
<1>1. o \in Seq(OutSet(R)) /\ Copies(h, o, i)
  BY DEF Written
<1>2. o[i] \in OutSet(R) /\ Len(o) \in Nat /\ i \in 1 .. Len(o)
  BY <1>1
<1>3. o[i].ptr \in R
  BY <1>2 DEF OutSet
<1>4. \A name : name \in 1 .. i - 1 => name \in 1 .. Len(o) /\ name # Null
  BY <1>2 DEF Null
<1> QED BY <1>1, <1>2, <1>3, <1>4 DEF Copies

(* All that is reached is written, each object once.                       *)
LEMMA CompleteIs ==
  ASSUME NEW h, NEW r, NEW a, IsTyped(h, r), IsValid(h, r, a), NEW o, Complete(h, r, o)
  PROVE  /\ DOMAIN o = 1 .. Len(o) /\ Len(o) \in Nat
         /\ {o[i].ptr : i \in DOMAIN o} = From(h, r)
         /\ Len(o) = Cardinality(From(h, r))
         /\ \A p \in From(h, r) : \E i \in 1 .. Len(o) : o[i].ptr = p
<1> DEFINE R == From(h, r)
           W == {o[i].ptr : i \in 1 .. Len(o)}
<1>1. Written(h, R, o) /\ o # <<>> /\ o[Len(o)].ptr = r
  BY DEF Complete
<1>2. /\ DOMAIN o = 1 .. Len(o) /\ Len(o) \in Nat /\ Len(o) \in 1 .. Len(o)
      /\ \A i, j \in 1 .. Len(o) : o[i].ptr = o[j].ptr => i = j
  BY <1>1 DEF Written
<1>3. Objs(h) /\ r \in 0 .. Len(h)
  BY TypedIs
<1> HIDE DEF R, W
<1>3a. ASSUME NEW i \in 1 .. Len(o)
      PROVE  /\ Len(o[i].obj.ptr) = Len(h[o[i].ptr].ptr)
             /\ \A l \in 1 .. Len(o[i].obj.ptr) :
                  \/ h[o[i].ptr].ptr[l] = Null
                  \/ /\ o[i].obj.ptr[l] \in 1 .. Len(o)
                     /\ o[o[i].obj.ptr[l]].ptr = h[o[i].ptr].ptr[l]
  BY <1>1, CopyIs
<1> USE DEF W
<1>4. ASSUME NEW q \in W PROVE Owned(h, q) \subseteq W
  <2>1. PICK i \in 1 .. Len(o) : o[i].ptr = q
    OBVIOUS
  <2>2. ASSUME NEW k \in 1 .. Len(h[q].ptr), h[q].ptr[k] # Null PROVE h[q].ptr[k] \in W
    <3>1. \E j \in 1 .. Len(o) : o[j].ptr = h[q].ptr[k]
      BY <1>3a, <2>1, <2>2
    <3> QED BY <3>1
  <2> QED BY <2>2, OwnedIs
<1>5. r \in W
  BY <1>1, <1>2
<1>6. R \subseteq W
  <2> HIDE DEF W
  <2> QED BY <1>3, <1>4, <1>5, FromLeast DEF R
<1>7. \A i \in 1 .. Len(o) : o[i].ptr \in R
  BY <1>1, CopyIs
<1>8. \A p \in R : \E i \in 1 .. Len(o) : o[i].ptr = p
  BY <1>6
<1>9. Cardinality(R) = Len(o)
  <2> DEFINE adr == [i \in 1 .. Len(o) |-> o[i].ptr]
             n == Len(o)
  <2>1. /\ n \in Nat /\ \A i \in 1 .. n : adr[i] \in R
        /\ \A p \in R : \E i \in 1 .. n : adr[i] = p
        /\ \A i, j \in 1 .. n : adr[i] = adr[j] => i = j
    BY <1>2, <1>7, <1>8
  <2> HIDE DEF adr, n
  <2>2. Cardinality(R) = n
    BY ONLY <2>1, CountOf
  <2> QED BY <2>2 DEF n
<1>10. {o[i].ptr : i \in DOMAIN o} = R
  BY <1>2, <1>7, <1>8
<1> QED BY <1>2, <1>8, <1>9, <1>10 DEF R

(* What an object is does not hang on where its fields point, but for NULL.*)
LEMMA SameShape ==
  ASSUME NEW o, NEW q, o.kind = q.kind, o.data = q.data, Len(o.ptr) = Len(q.ptr),
         o.kind = "cell" => (o.ptr[1] = Null <=> q.ptr[1] = Null)
  PROVE  /\ \A k : Refers(o, k) <=> Refers(q, k)
         /\ \A k : Pointees(o, k) = Pointees(q, k)
         /\ Arity(o) = Arity(q)
<1>1. NullSym(o) <=> NullSym(q)
  BY DEF NullSym, Sym
<1>2. \A k : Refers(o, k) <=> Refers(q, k)
  BY <1>1 DEF Refers
<1>3. \A k : Required(o, k) <=> Required(q, k)
  BY DEF Required
<1>4. \A k : Pointees(o, k) = Pointees(q, k)
  BY <1>2, <1>3 DEF Pointees
<1>5. Arity(o) = Arity(q)
  BY DEF Arity
<1> QED BY <1>2, <1>4, <1>5

(* The objects written are of the types they say they are, and all of them *)
(* are reached from the last.                                              *)
LEMMA ReloadIs ==
  ASSUME NEW h, NEW r, NEW a, IsTyped(h, r), IsValid(h, r, a), NEW o, Complete(h, r, o),
         NEW g, g = [i \in DOMAIN o |-> o[i].obj]
  PROVE  /\ IsTyped(g, Len(o)) /\ 1 .. Len(g) \subseteq From(g, Len(o))
         /\ Len(g) = Len(o) /\ Len(o) \in Nat
<1> DEFINE R == From(h, r)
           n == Len(o)
<1>1. Written(h, R, o) /\ o # <<>> /\ o[n].ptr = r
  BY DEF Complete
<1>2. /\ DOMAIN o = 1 .. n /\ n \in Nat /\ n \in 1 .. n
      /\ \A p \in R : \E i \in 1 .. n : o[i].ptr = p
  <2>1. DOMAIN o = 1 .. n /\ n \in Nat /\ \A p \in R : \E i \in 1 .. n : o[i].ptr = p
    BY CompleteIs
  <2>2. n # 0
    BY <1>1 DEF Written
  <2> QED BY <2>1, <2>2
<1>3. /\ r \in R /\ R \subseteq 1 .. Len(h)
      /\ h[r].kind \in NodeKinds \cup {"defs"}
  BY ValidIs, TypedIs
<1>4. \A i \in 1 .. n : g[i] = o[i].obj /\ o[i].ptr \in 1 .. Len(h)
  BY <1>1, <1>2, <1>3, CopyIs
<1>g. g = [i \in 1 .. n |-> o[i].obj]
  BY <1>2
<1>w. /\ IsTyped(h, r) /\ Len(h) \in Nat
      /\ \A q \in 1 .. Len(h) : DOMAIN h[q].ptr = 1 .. Len(h[q].ptr) /\ Len(h[q].ptr) \in Nat
  <2>1. Objs(h)
    BY TypedIs
  <2> QED BY <2>1, ObjsFields
<1>o. o \in Seq(OutSet(R))
  BY <1>1 DEF Written
<1> HIDE DEF R, n
\* The fields of an object and of what was written of it.
<1>5. ASSUME NEW i \in 1 .. n
      PROVE  /\ g[i].kind = h[o[i].ptr].kind /\ g[i].data = h[o[i].ptr].data
             /\ Len(g[i].ptr) = Len(h[o[i].ptr].ptr)
             /\ \A k \in 1 .. Len(g[i].ptr) :
                  \/ g[i].ptr[k] = Null /\ h[o[i].ptr].ptr[k] = Null
                  \/ /\ g[i].ptr[k] # Null /\ h[o[i].ptr].ptr[k] # Null
                     /\ g[i].ptr[k] \in 1 .. n
                     /\ o[g[i].ptr[k]].ptr = h[o[i].ptr].ptr[k]
             /\ g[i] \in Objects(n)
  <2>1. i \in 1 .. Len(o) /\ g[i] = o[i].obj
    BY <1>4 DEF n
  <2>2. /\ o[i] \in OutSet(R)
        /\ g[i].kind = h[o[i].ptr].kind /\ g[i].data = h[o[i].ptr].data
        /\ Len(g[i].ptr) = Len(h[o[i].ptr].ptr)
        /\ \A k \in 1 .. Len(g[i].ptr) :
                  \/ g[i].ptr[k] = Null /\ h[o[i].ptr].ptr[k] = Null
                  \/ /\ g[i].ptr[k] # Null /\ h[o[i].ptr].ptr[k] # Null
                     /\ g[i].ptr[k] \in 1 .. n
                     /\ o[g[i].ptr[k]].ptr = h[o[i].ptr].ptr[k]
    <3>1. Written(h, R, o)
      BY <1>1
    <3> HIDE DEF n
    <3>2. /\ o[i] \in OutSet(R)
          /\ o[i].obj.kind = h[o[i].ptr].kind /\ o[i].obj.data = h[o[i].ptr].data
          /\ Len(o[i].obj.ptr) = Len(h[o[i].ptr].ptr)
          /\ \A k \in 1 .. Len(o[i].obj.ptr) :
               \/ o[i].obj.ptr[k] = Null /\ h[o[i].ptr].ptr[k] = Null
               \/ /\ o[i].obj.ptr[k] # Null /\ h[o[i].ptr].ptr[k] # Null
                  /\ o[i].obj.ptr[k] \in 1 .. Len(o)
                  /\ o[o[i].obj.ptr[k]].ptr = h[o[i].ptr].ptr[k]
      BY ONLY <2>1, <3>1, CopyIs
    <3> QED BY ONLY <2>1, <3>2 DEF n
  <2>3. g[i] \in [kind : Kinds, ptr : Seq(Nat), data : Seq(STRING)]
    BY <2>1, <2>2 DEF OutSet
  <2>4. g[i].ptr \in Seq(0 .. n)
    <3> DEFINE f == g[i].ptr
    <3>1. f \in Seq(Nat) /\ \A k \in 1 .. Len(f) : f[k] \in 0 .. n
      <4>1. f \in Seq(Nat)
        BY <2>3
      <4>2. \A k \in 1 .. Len(f) : f[k] = Null \/ f[k] \in 1 .. n
        BY <2>2
      <4> QED BY <1>2, <4>1, <4>2 DEF Null
    <3> HIDE DEF f
    <3>2. f \in Seq(0 .. n)
      BY ONLY <3>1, SeqWithin
    <3> QED BY <3>2 DEF f
  <2>5. g[i] \in Objects(n)
    BY <2>3, <2>4 DEF Objects
  <2> QED BY <2>2, <2>5
<1>6. g \in Seq(Objects(n)) /\ Len(g) = n
  <2>1. \A i \in 1 .. n : o[i].obj \in Objects(n)
    BY <1>4, <1>5
  <2>2. n \in Nat
    BY <1>2
  <2> QED BY ONLY <1>g, <2>1, <2>2
<1>7. ASSUME NEW i \in 1 .. n
      PROVE  /\ \A k : Refers(g[i], k) <=> Refers(h[o[i].ptr], k)
             /\ \A k : Pointees(g[i], k) = Pointees(h[o[i].ptr], k)
             /\ Len(g[i].ptr) \in Arity(g[i])
  <2>1. /\ g[i].kind = h[o[i].ptr].kind /\ g[i].data = h[o[i].ptr].data
        /\ Len(g[i].ptr) = Len(h[o[i].ptr].ptr)
    BY <1>5
  <2>2. Len(h[o[i].ptr].ptr) \in Arity(h[o[i].ptr])
    BY <1>4, <1>w DEF IsTyped
  <2>3. g[i].kind = "cell" => (g[i].ptr[1] = Null <=> h[o[i].ptr].ptr[1] = Null)
    <3>1. SUFFICES ASSUME g[i].kind = "cell"
                   PROVE  g[i].ptr[1] = Null <=> h[o[i].ptr].ptr[1] = Null
      OBVIOUS
    <3>2. Arity(h[o[i].ptr]) = {4}
      BY <2>1, <3>1 DEF Arity, Cells
    <3>4. Len(g[i].ptr) = 4
      BY ONLY <2>1, <2>2, <3>2
    <3>3. 1 \in 1 .. Len(g[i].ptr)
      BY ONLY <3>4
    <3> QED BY <1>5, <3>3
  <2> QED BY ONLY <2>1, <2>2, <2>3, SameShape
<1>8. ASSUME NEW i \in 1 .. n, NEW k \in 1 .. Len(g[i].ptr), g[i].ptr[k] # Null
      PROVE  LET p == g[i].ptr[k]
             IN  /\ p \in 1 .. n
                 /\ g[p].kind \in Pointees(g[i], k)
                 /\ IF g[i].kind = "dict" THEN OfChars(g, p) ELSE OfTypes(g, p)
  <2> DEFINE id == o[i].ptr
             p == g[i].ptr[k]
             q == h[id].ptr[k]
  <2>1. /\ g[i].kind = h[id].kind /\ q # Null /\ p \in 1 .. n /\ o[p].ptr = q
        /\ Len(g[i].ptr) = Len(h[id].ptr)
        /\ Pointees(g[i], k) = Pointees(h[id], k)
    BY <1>5, <1>7, <1>8
  <2>2. id \in 1 .. Len(h) /\ k \in 1 .. Len(h[id].ptr)
    BY <1>4, <2>1
  <2>3. /\ h[q].kind \in Pointees(h[id], k) /\ q \in 1 .. Len(h)
        /\ IF h[id].kind = "dict" THEN OfChars(h, q) ELSE OfTypes(h, q)
    <3>1. q # Null
      BY <2>1
    <3> QED BY <1>w, <2>2, <3>1, TypedIs
  <2>4. /\ g[p].kind = h[q].kind /\ Len(g[p].ptr) = Len(h[q].ptr)
        /\ \A l \in 1 .. Len(g[p].ptr) :
                  \/ g[p].ptr[l] = Null /\ h[q].ptr[l] = Null
                  \/ /\ g[p].ptr[l] # Null /\ h[q].ptr[l] # Null
                     /\ g[p].ptr[l] \in 1 .. n
                     /\ o[g[p].ptr[l]].ptr = h[q].ptr[l]
    <3>1. p \in 1 .. n /\ o[p].ptr = q
      BY <2>1
    <3> HIDE DEF p, q
    <3> QED BY ONLY <1>5, <3>1
  <2> HIDE DEF p, q, id
  <2>5. h[q].kind = "trie" => 1 \in 1 .. Len(g[p].ptr)
    <3>1. SUFFICES ASSUME h[q].kind = "trie" PROVE 1 \in 1 .. Len(g[p].ptr)
      OBVIOUS
    <3>2. Len(h[q].ptr) = 1
      BY <1>w, <2>3, <3>1, TypedIs
    <3>3. Len(g[p].ptr) = 1
      BY ONLY <2>4, <3>2
    <3> QED BY ONLY <3>3
  <2>6. h[q].kind = "trie" /\ g[p].ptr[1] # Null =>
          /\ h[q].ptr[1] # Null
          /\ g[g[p].ptr[1]].kind = h[h[q].ptr[1]].kind
    <3>1. SUFFICES ASSUME h[q].kind = "trie", g[p].ptr[1] # Null
                   PROVE  /\ h[q].ptr[1] # Null
                          /\ g[g[p].ptr[1]].kind = h[h[q].ptr[1]].kind
      OBVIOUS
    <3>2. /\ h[q].ptr[1] # Null /\ g[p].ptr[1] \in 1 .. n
          /\ o[g[p].ptr[1]].ptr = h[q].ptr[1]
      BY <2>4, <2>5, <3>1
    <3> QED BY ONLY <1>5, <3>2
  <2>7. (OfChars(h, q) => OfChars(g, p)) /\ (OfTypes(h, q) => OfTypes(g, p))
    BY <2>4, <2>6 DEF OfChars, OfTypes
  <2>8. g[p].kind \in Pointees(g[i], k)
    BY ONLY <2>1, <2>3, <2>4
  <2>9. IF g[i].kind = "dict" THEN OfChars(g, p) ELSE OfTypes(g, p)
    BY ONLY <2>1, <2>3, <2>7
  <2>10. p \in 1 .. n
    BY <2>1
  <2> QED BY ONLY <2>8, <2>9, <2>10 DEF p
<1>9. g[n].kind \in NodeKinds \cup {"defs"}
  BY <1>1, <1>2, <1>3, <1>5 DEF n
<1>10. IsTyped(g, n)
  <2>1. n \in 0 .. Len(g) /\ Len(g) = n
    BY <1>2, <1>6
  <2> QED BY <1>6, <1>7, <1>8, <1>9, <2>1 DEF IsTyped
<1>11. 1 .. n \subseteq From(g, n)
  <2> DEFINE L == From(g, n)
             S == {p \in R : \A i \in 1 .. n : o[i].ptr = p => i \in L}
  <2>1. n \in L /\ \A q \in L : Owned(g, q) \subseteq L
    <3>1. Objs(g) /\ n \in 0 .. Len(g) /\ n # Null
      BY <1>2, <1>6 DEF Objs, Null
    <3> QED BY <3>1, FromClosed
  <2>2. \A i, j \in 1 .. n : o[i].ptr = o[j].ptr => i = j
    BY <1>1 DEF Written, n
  <2>3. r \in S
    BY <1>1, <1>2, <1>3, <2>1, <2>2 DEF n
  <2> HIDE DEF L
  <2>4. ASSUME NEW p \in S PROVE Owned(h, p) \subseteq S
    <3>1. PICK i \in 1 .. n : o[i].ptr = p
      BY <1>2
    <3>2. i \in L
      BY <3>1
    <3>3. ASSUME NEW k \in 1 .. Len(h[p].ptr), ~ Refers(h[p], k), h[p].ptr[k] # Null
          PROVE  h[p].ptr[k] \in S
      <4>1. /\ k \in 1 .. Len(g[i].ptr) /\ ~ Refers(g[i], k)
            /\ g[i].ptr[k] # Null /\ g[i].ptr[k] \in 1 .. n
            /\ o[g[i].ptr[k]].ptr = h[p].ptr[k]
        <5>1. i \in 1 .. n /\ o[i].ptr = p /\ k \in 1 .. Len(h[p].ptr)
              /\ ~ Refers(h[p], k) /\ h[p].ptr[k] # Null
          BY <3>1, <3>3
        <5>2. k \in 1 .. Len(g[i].ptr)
          BY ONLY <1>5, <5>1
        <5> QED BY ONLY <1>5, <1>7, <5>1, <5>2
      <4>2. g[i].ptr[k] \in L
        BY <2>1, <3>2, <4>1, OwnedIs
      <4>3. h[p].ptr[k] \in R
        <5>1. o[g[i].ptr[k]].ptr \in R
          BY <1>1, <4>1, CopyIs DEF n
        <5> QED BY <4>1, <5>1
      <4>4. \A j \in 1 .. n : o[j].ptr = h[p].ptr[k] => j = g[i].ptr[k]
        BY <2>2, <4>1
      <4> QED BY <4>2, <4>3, <4>4
    <3> QED BY <3>3, OwnedIs
  <2>5. R \subseteq S
    <3>1. Objs(h) /\ r \in 0 .. Len(h)
      BY <1>w, TypedIs
    <3> HIDE DEF S
    <3> QED BY <2>3, <2>4, <3>1, FromLeast DEF R
  <2>6. ASSUME NEW i \in 1 .. n PROVE i \in L
    <3>1. o[i].ptr \in R
      BY <1>1, CopyIs DEF n
    <3> QED BY <2>5, <3>1
  <2> QED BY <2>6 DEF L
<1> QED BY <1>2, <1>6, <1>10, <1>11 DEF n

-----------------------------------------------------------------------------
(* The counting, call by call.                                             *)

(* At first all is to be counted, and at last all has been.                *)
LEMMA CountingEnds ==
  ASSUME NEW h, NEW r, IsTyped(h, r)
  PROVE  /\ Counting(h, r, <<Task("count", Null, 1)>>, 0)
         /\ \A n : Counting(h, r, <<>>, n) => n = Cardinality(From(h, r))
<1> DEFINE t == Task("count", Null, 1)
           R == From(h, r)
<1>1. t.op = "count" /\ t.obj = Null /\ t.field = 1
  BY TaskIs
<1>2. t \in TurnSet(h)
  <2>1. Len(h) \in Nat
    BY TypedIs, ObjsFields
  <2> QED BY <2>1 DEF Task, TurnSet, Null
<1>3. Tgt(h, r, t) = r
  BY <1>1 DEF Tgt
<1> HIDE DEF t
<1>4. Scope(h, r, t) = R /\ IsCount(h, R, t)
  BY <1>1, <1>3 DEF Scope, IsCount
<1>5. AllCount(h, R, <<t>>) /\ InTurn(h, r, <<t>>) /\ Scopes(h, r, <<t>>) = R
  BY <1>2, <1>4, CountOne, OneTurn
<1>6. Cardinality(R) \in Nat /\ 0 + Cardinality(R) = Cardinality(R)
  <2>1. R \subseteq From(h, r)
    OBVIOUS
  <2>2. Cardinality(R) \in Nat
    BY <2>1, FromFinite
  <2> QED BY <2>2
<1>7. Counting(h, r, <<t>>, 0)
  BY <1>5, <1>6 DEF Counting
<1>8. ASSUME NEW n, Counting(h, r, <<>>, n) PROVE n = Cardinality(R)
  <2>1. Scopes(h, r, <<>>) = {}
    BY NoTurn
  <2>2. n \in Nat /\ n + Cardinality({}) = Cardinality(R)
    BY <1>8, <2>1 DEF Counting
  <2>3. Cardinality({}) = 0
    BY FS_EmptySet
  <2> QED BY <2>2, <2>3
<1> QED BY <1>7, <1>8 DEF t

(* A call that counts nothing.                                             *)
LEMMA NothingCounts ==
  ASSUME NEW h, NEW r, IsTyped(h, r), NEW ts, NEW n, Counting(h, r, ts, n), ts # <<>>,
         Scope(h, r, Head(ts)) = {}
  PROVE  Counting(h, r, Tail(ts), n)
<1>1. Covers(h, r, <<>>, {}) /\ AllCount(h, From(h, r), <<>>)
  <2>1. AllCount(h, From(h, r), <<>>)
    BY DEF AllCount
  <2>2. Head(ts) \in TurnSet(h)
    BY CountTail DEF Counting
  <2> QED BY <2>1, <2>2, CoversOne
<1>2. {} \ {} = {} /\ Cardinality({}) = 0 /\ {} \subseteq Scope(h, r, Head(ts))
  BY FS_EmptySet
<1>3. Counting(h, r, <<>> \o Tail(ts), n + 0)
  <2>1. 0 \in Nat /\ 0 = Cardinality(Scope(h, r, Head(ts)) \ {})
    BY <1>2
  <2> QED BY <1>1, <1>2, <2>1, CountingOn
<1>4. n + 0 = n
  BY DEF Counting
<1>5. <<>> \o Tail(ts) = Tail(ts)
  <2> DEFINE S == TurnSet(h)
  <2>1. Tail(ts) \in Seq(S)
    BY CountTail DEF Counting, AllCount
  <2> HIDE DEF S
  <2> QED BY ONLY <2>1
<1> QED BY <1>3, <1>4, <1>5

(* An object counted, with its arguments.                                  *)
LEMMA ObjectCounts ==
  ASSUME NEW h, NEW r, NEW a, IsTyped(h, r), IsValid(h, r, a), NEW ts, NEW n,
         Counting(h, r, ts, n), ts # <<>>, Head(ts).op = "count",
         Tgt(h, r, Head(ts)) # Null
  PROVE  LET x == Tgt(h, r, Head(ts))
         IN  /\ Counting(h, r, CountsOf(h, x) \o Tail(ts),
                         n + IF HasArgs(h[x]) THEN 2 ELSE 1)
             /\ x \in From(h, r)
<1> DEFINE R == From(h, r)
           t == Head(ts)
           x == Tgt(h, r, t)
           F == From(h, x)
<1>1. IsCount(h, R, t)
  BY CountTail DEF Counting
<1>2. x \in R
  <2>1. CASE t.obj = Null
    BY <2>1, ValidIs DEF Tgt
  <2>2. CASE t.obj # Null
    <3>1. t.obj \in R /\ t.field \in 1 .. Len(h[t.obj].ptr)
      BY <1>1, <2>2 DEF IsCount
    <3>2. x = h[t.obj].ptr[t.field]
      BY <2>2 DEF Tgt
    <3> QED BY <3>1, <3>2, ValidIs
  <2> QED BY <2>1, <2>2
<1>3. Scope(h, r, t) = F
  BY DEF Scope
<1>4. AllCount(h, R, CountsOf(h, x))
  BY <1>2, CountsAre
<1>5. x \in F /\ F \subseteq R
  <2>1. r \in 0 .. Len(h)
    BY TypedIs
  <2> QED BY <1>2, <2>1, FromWithin
<1>6. IsFiniteSet(F)
  BY <1>5, FromFinite
<1> DEFINE c == h[x].ptr[1]
<1> HIDE DEF x, t, F, R, c
<1>7. CASE HasArgs(h[x])
  <2>1. Covers(h, r, CountsOf(h, x), F \ {x, c}) /\ c \in F /\ c # x
    BY <1>2, <1>7, CountsCover DEF F, c, R
  <2>2. F \ (F \ {x, c}) = {x, c} /\ F \ {x, c} \subseteq F
    BY <1>5, <2>1
  <2>3. Cardinality({x, c}) = 2
    <3>1. Cardinality({x}) = 1 /\ IsFiniteSet({x}) /\ ~(c \in {x})
      BY <2>1, FS_Singleton
    <3>2. {x} \cup {c} = {x, c}
      OBVIOUS
    <3>3. Cardinality({x} \cup {c}) = Cardinality({x}) + 1
      BY <3>1, FS_AddElement
    <3> QED BY <3>1, <3>2, <3>3
  <2>4. Counting(h, r, CountsOf(h, x) \o Tail(ts), n + 2)
    <3>1. 2 \in Nat /\ 2 = Cardinality(Scope(h, r, Head(ts)) \ (F \ {x, c}))
      BY <1>3, <2>2, <2>3 DEF t
    <3>2. F \ {x, c} \subseteq Scope(h, r, Head(ts))
      BY <1>3 DEF t
    <3> QED BY <1>4, <2>1, <3>1, <3>2, CountingOn DEF R
  <2> QED BY <1>2, <1>7, <2>4 DEF x, t, R
<1>8. CASE ~ HasArgs(h[x])
  <2>1. Covers(h, r, CountsOf(h, x), F \ {x})
    BY <1>2, <1>8, CountsCover DEF F, R
  <2>2. F \ (F \ {x}) = {x} /\ F \ {x} \subseteq F
    BY <1>5
  <2>3. Cardinality({x}) = 1
    BY FS_Singleton
  <2>4. Counting(h, r, CountsOf(h, x) \o Tail(ts), n + 1)
    <3>1. 1 \in Nat /\ 1 = Cardinality(Scope(h, r, Head(ts)) \ (F \ {x}))
      BY <1>3, <2>2, <2>3 DEF t
    <3>2. F \ {x} \subseteq Scope(h, r, Head(ts))
      BY <1>3 DEF t
    <3> QED BY <1>4, <2>1, <3>1, <3>2, CountingOn DEF R
  <2> QED BY <1>2, <1>8, <2>4 DEF x, t, R
<1> QED BY <1>7, <1>8

(* The attributes of a list or of a dict counted.                          *)
LEMMA AttrCounts ==
  ASSUME NEW h, NEW r, NEW a, IsTyped(h, r), IsValid(h, r, a), NEW ts, NEW n,
         Counting(h, r, ts, n), ts # <<>>, Head(ts).op = "attr"
  PROVE  Counting(h, r,
                  (CallsOf(h, "count", Tgt(h, r, Head(ts)))
                     \o <<Task("cells", Head(ts).obj, n)>>) \o Tail(ts), n + 1)
<1> DEFINE R == From(h, r)
           t == Head(ts)
           l == t.obj
           x == Tgt(h, r, t)
           F == From(h, x)
           v == Task("cells", l, n)
<1>1. IsCount(h, R, t) /\ n \in Nat
  BY CountTail DEF Counting
<1>2. l \in R /\ h[l].kind \in {"list", "dict"} /\ t.field = 2 /\ l # Null
      /\ l \in 0 .. Len(h) /\ l \in 1 .. Len(h)
  <2>1. l \in R /\ h[l].kind \in {"list", "dict"} /\ t.field = 2
    BY <1>1 DEF IsCount
  <2>2. l \in 1 .. Len(h) /\ Len(h) \in Nat
    BY <2>1, ValidIs, TypedIs, ObjsFields
  <2> QED BY <2>1, <2>2 DEF Null
<1>3. x = h[l].ptr[2]
  BY <1>2 DEF Tgt
<1>4. Owns(h, l, 2, x)
  <2>1. HasArgs(h[l])
    BY <1>2 DEF HasArgs
  <2> QED BY <1>2, <1>3, <2>1, ArgsIs
<1>5. x \in R /\ x \in 1 .. Len(h) /\ x \in F
  BY <1>2, <1>4, ChildIs
<1>6. F \subseteq R
  <2>1. r \in 0 .. Len(h)
    BY TypedIs
  <2> QED BY <1>5, <2>1, FromWithin
<1>7. ~(h[x].kind \in {"list", "dict"})
  <2>1. h[x].kind \in {"attrs", "trie"}
    BY <1>2, <1>4, OwnedKinds
  <2> QED BY <2>1
<1>8. Scope(h, r, t) = F
  BY DEF Scope
<1>9. v \in TurnSet(h) /\ v.op = "cells"
  BY <1>1, <1>2 DEF Task, TurnSet
<1> HIDE DEF v, F, x, l, t, R
<1>10. Covers(h, r, CallsOf(h, "count", x), F \ {x}) /\ AllCount(h, R, CallsOf(h, "count", x))
  BY <1>5, <1>7, CallsCover, CallsCount DEF F, R
<1>11. Covers(h, r, <<v>>, {}) /\ AllCount(h, R, <<v>>)
  <2>1. Scope(h, r, v) = {} /\ IsCount(h, R, v)
    BY <1>9 DEF Scope, IsCount
  <2> QED BY <1>9, <2>1, CoversOne, CountOne
<1>12. Ahead(h, r, F \ {x}, {})
  BY DEF Ahead
<1>13. Covers(h, r, CallsOf(h, "count", x) \o <<v>>, F \ {x})
       /\ AllCount(h, R, CallsOf(h, "count", x) \o <<v>>)
  <2>1. (F \ {x}) \cup {} = F \ {x}
    OBVIOUS
  <2>2. Covers(h, r, CallsOf(h, "count", x) \o <<v>>, (F \ {x}) \cup {})
    BY <1>10, <1>11, <1>12, CoversJoin
  <2> QED BY <1>10, <1>11, <2>1, <2>2, CountJoin
<1>14. Cardinality({x}) = 1 /\ F \ (F \ {x}) = {x} /\ F \ {x} \subseteq F
  BY <1>5, FS_Singleton
<1>15. Counting(h, r, (CallsOf(h, "count", x) \o <<v>>) \o Tail(ts), n + 1)
  <2>1. 1 \in Nat /\ 1 = Cardinality(Scope(h, r, Head(ts)) \ (F \ {x}))
    BY <1>8, <1>14 DEF t
  <2>2. F \ {x} \subseteq Scope(h, r, Head(ts))
    BY <1>8, <1>14 DEF t
  <2> QED BY <1>13, <2>1, <2>2, CountingOn DEF R
<1> QED BY <1>15 DEF x, v, l, t

-----------------------------------------------------------------------------
(* The writing, call by call: the objects that are not written are those   *)
(* of the calls, and what one points to is written before it.              *)
Turning(h, r, ts, o) ==
  /\ ts \in Seq(TurnSet(h)) /\ InTurn(h, r, ts)
  /\ Scopes(h, r, ts) = From(h, r) \ {o[i].ptr : i \in 1 .. Len(o)}

(* At first all is to be written, by the call for the root.                *)
LEMMA TurningStart ==
  ASSUME NEW h, NEW r, IsTyped(h, r)
  PROVE  Turning(h, r, <<Task("gen", Null, 1)>>, <<>>)
<1> DEFINE t == Task("gen", Null, 1)
<1>1. t.op = "gen" /\ t.obj = Null
  BY TaskIs
<1>2. t \in TurnSet(h)
  <2>1. Len(h) \in Nat
    BY TypedIs, ObjsFields
  <2> QED BY <2>1 DEF Task, TurnSet, Null
<1>3. Scope(h, r, t) = From(h, r)
  <2>1. Tgt(h, r, t) = r
    BY <1>1 DEF Tgt
  <2> HIDE DEF t
  <2> QED BY <1>1, <2>1 DEF Scope
<1> HIDE DEF t
<1>4. Covers(h, r, <<t>>, From(h, r))
  BY <1>2, <1>3, CoversOne
<1>5. 1 .. Len(<<>>) = {}
  OBVIOUS
<1> QED BY <1>4, <1>5 DEF Covers, Turning, t

(* A call for nothing, and one for an object, that is written at its end.  *)
LEMMA TurningOn ==
  ASSUME NEW h, NEW r, NEW a, IsTyped(h, r), IsValid(h, r, a), NEW ts, NEW o,
         Turning(h, r, ts, o), ts # <<>>, Head(ts).op \in {"gen", "pass"}
  PROVE  LET t == Head(ts)
             x == Tgt(h, r, t)
         IN  /\ t.op = "pass" \/ x = Null => Turning(h, r, Tail(ts), o)
             /\ t.op = "gen" /\ x \in From(h, r) =>
                  Turning(h, r, (BeforeOf(h, x) \o <<Task("write", t.obj, t.field)>>)
                                  \o Tail(ts), o)
<1> DEFINE S == TurnSet(h)
           t == Head(ts)
           x == Tgt(h, r, t)
           w == Task("write", t.obj, t.field)
<1>1. ts \in Seq(S) /\ InTurn(h, r, ts)
      /\ Scopes(h, r, ts) = From(h, r) \ {o[i].ptr : i \in 1 .. Len(o)}
  BY DEF Turning
<1>2. t \in S /\ Tail(ts) \in Seq(S) /\ InTurn(h, r, Tail(ts))
      /\ Scopes(h, r, ts) = Scope(h, r, t) \cup Scopes(h, r, Tail(ts))
  BY <1>1, TurnTail
<1>3. ASSUME t.op = "pass" \/ x = Null PROVE Turning(h, r, Tail(ts), o)
  <2>1. Scope(h, r, t) = {}
    BY <1>3, FromNull DEF Scope
  <2>2. Scopes(h, r, ts) = Scopes(h, r, Tail(ts))
    BY <1>2, <2>1
  <2> QED BY <1>1, <1>2, <2>2 DEF Turning
<1>4. ASSUME t.op = "gen", x \in From(h, r)
      PROVE  Turning(h, r, (BeforeOf(h, x) \o <<w>>) \o Tail(ts), o)
  <2> DEFINE F == From(h, x)
  <2>1. Covers(h, r, BeforeOf(h, x), F \ {x}) /\ Ahead(h, r, F \ {x}, {x}) /\ x \in F
    BY <1>4, BeforeCover, SelfAhead, FromIs
  <2>2. w \in TurnSet(h) /\ Scope(h, r, w) = {x}
    <3>1. w.op = "write" /\ w.obj = t.obj /\ w.field = t.field
      BY TaskIs
    <3>2. Tgt(h, r, w) = x
      BY <3>1 DEF Tgt
    <3>3. w \in TurnSet(h)
      BY <1>2 DEF Task, TurnSet
    <3> HIDE DEF w
    <3> QED BY <3>1, <3>2, <3>3 DEF Scope
  <2>3. Covers(h, r, <<w>>, {x})
    BY <2>2, CoversOne
  <2>4. Scope(h, r, t) = F
    BY <1>4 DEF Scope
  <2> DEFINE s == BeforeOf(h, x) \o <<w>>
  <2>5. Covers(h, r, s, F)
    <3>1. (F \ {x}) \cup {x} = F
      BY <2>1
    <3>2. Covers(h, r, s, (F \ {x}) \cup {x})
      BY <2>1, <2>3, CoversJoin
    <3> QED BY <3>1, <3>2
  <2> HIDE DEF s, F, w
  <2>6. /\ s \o Tail(ts) \in Seq(TurnSet(h)) /\ InTurn(h, r, s \o Tail(ts))
        /\ Scopes(h, r, s \o Tail(ts)) = Scopes(h, r, ts) \ (F \ F)
    BY <1>1, <2>4, <2>5, TurnReplace
  <2>7. Scopes(h, r, ts) \ (F \ F) = Scopes(h, r, ts)
    OBVIOUS
  <2> QED BY <1>1, <2>6, <2>7 DEF Turning, s
<1> QED BY <1>3, <1>4

(* An object written is not written already; all that it points to is, if  *)
(* the tries of a list are about its types.                                *)
LEMMA TurningWrite ==
  ASSUME NEW h, NEW r, NEW a, IsTyped(h, r), IsValid(h, r, a), NEW ts, NEW o,
         Turning(h, r, ts, o), ts # <<>>, Head(ts).op = "write",
         NEW x \in From(h, r), x = Tgt(h, r, Head(ts))
  PROVE  /\ \A i \in 1 .. Len(o) : o[i].ptr # x
         /\ RefsAtHome(h, r) => \A k \in 1 .. Len(h[x].ptr) :
              h[x].ptr[k] # Null => \E i \in 1 .. Len(o) : o[i].ptr = h[x].ptr[k]
         /\ \A W : \A e \in W :
              o \in Seq(W) /\ e.ptr = x => Turning(h, r, Tail(ts), Append(o, e))
<1> DEFINE S == TurnSet(h)
           R == From(h, r)
           P == {o[i].ptr : i \in 1 .. Len(o)}
           B == Scopes(h, r, Tail(ts))
<1>1. ts \in Seq(S) /\ InTurn(h, r, ts) /\ Scopes(h, r, ts) = R \ P
  BY DEF Turning
<1>2. /\ Tail(ts) \in Seq(S) /\ InTurn(h, r, Tail(ts))
      /\ R \ P = Scope(h, r, Head(ts)) \cup B /\ Ahead(h, r, Scope(h, r, Head(ts)), B)
  BY <1>1, TurnTail
<1>3. Scope(h, r, Head(ts)) = {x}
  BY DEF Scope
<1>4. /\ R \ P = {x} \cup B /\ ~(x \in B)
      /\ RefsAtHome(h, r) => \A k \in 1 .. Len(h[x].ptr) : ~(h[x].ptr[k] \in B)
  BY <1>2, <1>3 DEF Ahead
<1>5. \A k \in 1 .. Len(h[x].ptr) : h[x].ptr[k] # Null =>
         h[x].ptr[k] \in R /\ h[x].ptr[k] # x
  BY ValidIs
<1>6. \A y : y \in P => \E i \in 1 .. Len(o) : o[i].ptr = y
  OBVIOUS
<1>7. \A i \in 1 .. Len(o) : o[i].ptr \in P
  OBVIOUS
<1>8. ASSUME NEW W, NEW e \in W, o \in Seq(W), e.ptr = x
      PROVE  Turning(h, r, Tail(ts), Append(o, e))
  <2> DEFINE u == Append(o, e)
             Q == {u[i].ptr : i \in 1 .. Len(u)}
  <2>1. Len(u) = Len(o) + 1 /\ u[Len(o) + 1] = e /\ Len(o) \in Nat
        /\ \A i \in 1 .. Len(o) : u[i] = o[i]
    BY <1>8, AppendAll
  <2> HIDE DEF u
  <2>2. \A i \in 1 .. Len(u) : i \in 1 .. Len(o) \/ i = Len(o) + 1
    BY <2>1
  <2>3. \A i \in 1 .. Len(o) : i \in 1 .. Len(u)
    BY <2>1
  <2>4. Len(o) + 1 \in 1 .. Len(u)
    BY <2>1
  <2>5. Q = P \cup {x}
    BY ONLY <1>8, <2>1, <2>2, <2>3, <2>4
  <2> HIDE DEF P, Q, B, R, S
  <2>6. B = R \ Q
    BY <1>4, <2>5
  <2> QED BY <1>2, <2>6 DEF Turning, B, R, Q, S, u
<1> HIDE DEF P, B, R
<1>9. ~(x \in P)
  BY <1>4
<1>10. \A i \in 1 .. Len(o) : o[i].ptr # x
  BY <1>7, <1>9
<1>11. RefsAtHome(h, r) => \A k \in 1 .. Len(h[x].ptr) : h[x].ptr[k] # Null =>
          \E i \in 1 .. Len(o) : o[i].ptr = h[x].ptr[k]
  <2>1. RefsAtHome(h, r) => \A k \in 1 .. Len(h[x].ptr) : h[x].ptr[k] # Null =>
          h[x].ptr[k] \in P
    BY <1>4, <1>5
  <2> QED BY <1>6, <2>1
<1> QED BY <1>8, <1>10, <1>11

(* Such an object is new to the space, that has what is written.           *)
LEMMA WriteSucceeds ==
  ASSUME NEW h, NEW r, NEW a, IsTyped(h, r), IsValid(h, r, a),
         a \in [1 .. Len(h) -> Nat \ {0}],
         NEW o, Written(h, From(h, r), o), NEW sp, HoldsAt(sp, Places(a, o)),
         NEW id \in From(h, r), \A i \in 1 .. Len(o) : o[i].ptr # id,
         NEW map, map = SetVal(InsertKey(sp.map, a[id]).treap, a[id], sp.index)
  PROVE  /\ InsertKey(sp.map, a[id]).isNew
         /\ \A i \in 1 .. Len(o) : LookupKey(map, a[o[i].ptr]).node # Nil
<1> DEFINE R == From(h, r)
           P == Places(a, o)
           n == Len(o)
           sq == [map |-> map, index |-> sp.index + 1]
           adr == Append(P, a[id])
<1>1. /\ R \subseteq 1 .. Len(h)
      /\ \A p, q \in R : a[p] = a[q] => p = q
  BY ValidIs
<1>2. \A p \in R : a[p] \in Nat
  BY <1>1
<1>3. o \in Seq(OutSet(R))
  BY DEF Written
<1>4. /\ P \in Seq(Nat) /\ Len(P) = n /\ n \in Nat
      /\ \A i \in 1 .. n : P[i] = a[o[i].ptr] /\ o[i].ptr \in R
  BY <1>2, <1>3, PlacesIs
<1>5. a[id] \in Nat /\ id \in R
  BY <1>2
<1>6. ASSUME NEW i \in 1 .. n PROVE P[i] # a[id]
  <2>1. P[i] = a[o[i].ptr] /\ o[i].ptr \in R /\ o[i].ptr # id
    BY <1>4
  <2> HIDE DEF P, R
  <2> QED BY <1>1, <1>5, <2>1
<1> HIDE DEF P, n, R
<1>7. ~(a[id] \in AllOf(P))
  BY <1>4, <1>6 DEF AllOf
<1>8. InsertKey(sp.map, a[id]).isNew = TRUE /\ HoldsAt(sq, adr)
  <2>1. HoldsAt(sp, P)
    BY DEF P
  <2> QED BY <1>5, <1>7, <2>1, InsertHolds
<1>9. ASSUME NEW i \in 1 .. n PROVE LookupKey(map, a[o[i].ptr]).node # Nil
  <2> DEFINE key == a[o[i].ptr]
  <2>1. key \in Nat
    BY <1>2, <1>4
  <2>2. key \in AllOf(P)
    BY <1>4 DEF AllOf
  <2>3. AllOf(adr) = AllOf(P) \cup {a[id]}
    BY <1>4, <1>5, AppendAll
  <2>4. key # Nil
    BY <2>1 DEF Nil
  <2> HIDE DEF key, adr
  <2> HIDE DEF sq
  <2>5. LookupKey(sq.map, key).node = IF key \in AllOf(adr) THEN key ELSE Nil
    BY ONLY <1>8, <2>1, LookupHolds
  <2>6. sq.map = map
    BY DEF sq
  <2> QED BY <2>2, <2>3, <2>4, <2>5, <2>6 DEF key
<1> QED BY <1>8, <1>9 DEF n

-----------------------------------------------------------------------------
(* Where the objects met lie.                                              *)
MetAt(a, ent) == [i \in 1 .. Len(ent) |-> a[ent[i]]]

\* What is known of them: adr has the place of each object met, and no other.
Lies(S, a, ent, adr) ==
  /\ adr \in Seq(Nat) /\ ~(0 \in AllOf(adr))
  /\ \A q \in AllOf(ent) : a[q] \in AllOf(adr)
  /\ \A key \in AllOf(adr) : \E q \in AllOf(ent) : a[q] = key
  /\ \A x \in S : MetAt(a, Append(ent, x)) = Append(adr, a[x])

(* So they lie, and none of them at NULL.                                  *)
LEMMA MetAtIs ==
  ASSUME NEW S, NEW a \in [S -> Nat \ {0}], NEW ent \in Seq(S)
  PROVE  Lies(S, a, ent, MetAt(a, ent))
<1> DEFINE n == Len(ent)
           P == MetAt(a, ent)
<1>1. n \in Nat /\ \A i \in 1 .. n : ent[i] \in S /\ ent[i] \in AllOf(ent)
  BY AtIn
<1>2. \A q \in S : a[q] \in Nat /\ a[q] # 0
  OBVIOUS
<1>3. P = [i \in 1 .. n |-> a[ent[i]]]
  BY DEF MetAt
<1>4. /\ P \in Seq(Nat) /\ Len(P) = n /\ \A i \in 1 .. n : P[i] = a[ent[i]]
  <2> HIDE DEF n, P
  <2> QED BY <1>1, <1>2, <1>3
<1>5. \A q \in AllOf(ent) : a[q] \in AllOf(P)
  <2>1. \A q \in AllOf(ent) : \E i \in 1 .. n : ent[i] = q
    BY AtIn
  <2>2. \A i \in 1 .. n : P[i] \in AllOf(P)
    <3> HIDE DEF P
    <3> QED BY <1>4 DEF AllOf
  <2>3. \A i \in 1 .. n : P[i] = a[ent[i]]
    BY <1>4
  <2> HIDE DEF P, n
  <2>4. ASSUME NEW q \in AllOf(ent) PROVE a[q] \in AllOf(P)
    <3>1. PICK i \in 1 .. n : ent[i] = q
      BY <2>1
    <3> QED BY <2>2, <2>3, <3>1
  <2> QED BY <2>4
<1>6. \A key \in AllOf(P) : \E q \in AllOf(ent) : a[q] = key /\ q \in S
  <2> HIDE DEF P
  <2>1. \A key \in AllOf(P) : \E i \in 1 .. n : P[i] = key
    BY <1>4 DEF AllOf
  <2> HIDE DEF n
  <2> QED BY ONLY <1>1, <1>4, <2>1
<1>7. ~(0 \in AllOf(P))
  BY <1>2, <1>6
<1>8. ASSUME NEW x \in S PROVE MetAt(a, Append(ent, x)) = Append(P, a[x])
  <2> DEFINE u == Append(ent, x)
             q == Append(P, a[x])
  <2>1. Len(u) = n + 1 /\ u[n + 1] = x /\ \A i \in 1 .. n : u[i] = ent[i]
    BY AppendAll
  <2>2. /\ Len(q) = n + 1 /\ q[n + 1] = a[x] /\ q \in Seq(Nat)
        /\ \A i \in 1 .. n : q[i] = P[i]
    <3>1. P \in Seq(Nat) /\ a[x] \in Nat /\ Len(P) = n
      BY <1>2, <1>4
    <3> HIDE DEF P, n
    <3> QED BY ONLY <3>1, AppendAll
  <2>3. MetAt(a, u) = [i \in 1 .. n + 1 |-> a[u[i]]]
    BY <2>1 DEF MetAt
  <2> HIDE DEF u, P
  <2>4. \A i \in 1 .. n + 1 : q[i] = a[u[i]]
    <3>1. \A i \in 1 .. n + 1 : i \in 1 .. n \/ i = n + 1
      BY <1>1
    <3> QED BY <1>4, <2>1, <2>2, <3>1
  <2>5. q = [i \in 1 .. n + 1 |-> q[i]]
    <3> HIDE DEF q, n
    <3> QED BY <2>2
  <2> HIDE DEF q, n
  <2>6. MetAt(a, u) = q
    BY <2>3, <2>4, <2>5
  <2> QED BY <2>6 DEF u, q, P
<1> QED BY <1>4, <1>5, <1>6, <1>7, <1>8 DEF Lies

-----------------------------------------------------------------------------
(* The inductive invariant, part by part.                                  *)

\* The objects are typed, NULL is no place, and two of them that lie at one
\* place are both reached.
LibraryOk ==
  /\ IsTyped(heap, root) /\ at \in [1 .. Len(heap) -> Nat \ {0}]
  /\ Placed(heap, root, at)
  /\ origin \in {"text", "sobj"} /\ (origin = "text" => IsValid(heap, root, at))

SpaceOk == \E adr : HoldsAt(space, adr)

ValidatingOk ==
  phase = "validating" =>
    \E ent : VInv(heap, root, at, ent, tasks) /\ HoldsAt(space, MetAt(at, ent))

CountingOk ==
  phase = "counting" =>
    /\ IsValid(heap, root, at) /\ Counting(heap, root, tasks, attrs.ptr_count)
    /\ attrs = [ptr_count |-> attrs.ptr_count, has_cells |-> attrs.has_cells]
    /\ out = <<>> /\ space = NewSpace

WritingOk ==
  phase = "writing" =>
    /\ IsValid(heap, root, at) /\ Turning(heap, root, tasks, out)
    /\ attrs.ptr_count = Cardinality(From(heap, root))
    /\ Writes(heap, From(heap, root), tasks) /\ Written(heap, From(heap, root), out)
    /\ HoldsAt(space, Places(at, out))
    /\ tasks = <<>> => out # <<>> /\ out[Len(out)].ptr = root

WrittenOk ==
  phase = "written" => IsValid(heap, root, at) /\ Complete(heap, root, out)

DefsInv ==
  /\ LibraryOk /\ SpaceOk /\ ValidatingOk /\ CountingOk /\ WritingOk /\ WrittenOk
  /\ ValidIsTree /\ RefusalNamesTheFault /\ GenDefNeverAborts

\* A place that says what is wrong
RightPlace(h, r, a, place) ==
  CASE place.field = "def"  -> r = Null
    [] place.field \in {"args", "type"} -> place.obj \in From(h, r) /\ Lacks(h, place.obj)
    [] place.field = "name" -> ~ NamesDiffer(h, r)
    [] place.field = "itself" ->
         \/ place.obj \in From(h, r) /\ MetTwice(h, r, a, place.obj)
         \/ /\ ~ RefsAtHome(h, r)
            /\ \E q \in From(h, r) : place.obj \in Refs(h, q)
    [] OTHER -> FALSE

(* A step that leaves the definitions alone leaves all that is known of    *)
(* them.                                                                   *)
LEMMA SameLibrary ==
  ASSUME LibraryOk, UNCHANGED library
  PROVE  LibraryOk' /\ heap' = heap /\ root' = root /\ at' = at
BY DEF LibraryOk, library

(* A step that refuses, for a reason.                                      *)
LEMMA RefuseKeeps ==
  ASSUME LibraryOk, UNCHANGED library, SpaceOk', phase' = "refused",
         Faulty(heap, root, at), RightPlace(heap, root, at, result')
  PROVE  DefsInv'
<1>1. LibraryOk' /\ heap' = heap /\ root' = root /\ at' = at
  BY SameLibrary
<1>2. ValidatingOk' /\ CountingOk' /\ WritingOk' /\ WrittenOk' /\ GenDefNeverAborts'
  BY DEF ValidatingOk, CountingOk, WritingOk, WrittenOk, GenDefNeverAborts
<1>3. ValidIsTree'
  BY <1>1 DEF ValidIsTree, Faulty
<1>4. RefusalNamesTheFault'
  BY <1>1 DEF RefusalNamesTheFault, RightPlace, IsMetTwice, MetTwice
<1> QED BY <1>1, <1>2, <1>3, <1>4 DEF DefsInv

(* A step that ends the process, for one of two reasons.                   *)
LEMMA CrashKeeps ==
  ASSUME LibraryOk, UNCHANGED library, SpaceOk', phase' = "crashed",
         LacksAttr(heap, root) \/ DefinesNothing(heap, root)
  PROVE  DefsInv'
<1>1. LibraryOk' /\ heap' = heap /\ root' = root /\ at' = at
  BY SameLibrary
<1> QED BY <1>1 DEF DefsInv, ValidatingOk, CountingOk, WritingOk, WrittenOk, ValidIsTree,
                    RefusalNamesTheFault, GenDefNeverAborts

(* A step of the validation that goes on.                                  *)
LEMMA ValidatingKeeps ==
  ASSUME LibraryOk, UNCHANGED library, phase' = "validating",
         NEW ent, VInv(heap, root, at, ent, tasks'), HoldsAt(space', MetAt(at, ent))
  PROVE  DefsInv'
<1>1. LibraryOk' /\ heap' = heap /\ root' = root /\ at' = at
  BY SameLibrary
<1>2. ValidatingOk' /\ SpaceOk'
  BY <1>1 DEF ValidatingOk, SpaceOk
<1>3. /\ CountingOk' /\ WritingOk' /\ WrittenOk' /\ ValidIsTree'
      /\ RefusalNamesTheFault' /\ GenDefNeverAborts'
  BY DEF CountingOk, WritingOk, WrittenOk, ValidIsTree, RefusalNamesTheFault,
         GenDefNeverAborts
<1> QED BY <1>1, <1>2, <1>3 DEF DefsInv

(* A step of the counting that goes on.                                    *)
LEMMA CountingKeeps ==
  ASSUME LibraryOk, UNCHANGED library, phase' = "counting", IsValid(heap, root, at),
         NEW n, NEW b, attrs' = [ptr_count |-> n, has_cells |-> b],
         Counting(heap, root, tasks', n), out' = <<>>, space' = NewSpace
  PROVE  DefsInv'
<1>1. LibraryOk' /\ heap' = heap /\ root' = root /\ at' = at
  BY SameLibrary
<1>2. SpaceOk'
  BY NewHolds DEF SpaceOk
<1>3. attrs'.ptr_count = n /\ attrs'.has_cells = b
  OBVIOUS
<1>4. CountingOk'
  BY <1>1, <1>3 DEF CountingOk
<1>5. /\ ValidatingOk' /\ WritingOk' /\ WrittenOk' /\ ValidIsTree'
      /\ RefusalNamesTheFault' /\ GenDefNeverAborts'
  BY DEF ValidatingOk, WritingOk, WrittenOk, ValidIsTree, RefusalNamesTheFault,
         GenDefNeverAborts
<1> QED BY <1>1, <1>2, <1>4, <1>5 DEF DefsInv

(* A step of the writing that goes on.                                     *)
LEMMA WritingKeeps ==
  ASSUME LibraryOk, UNCHANGED library, phase' = "writing", IsValid(heap, root, at),
         attrs'.ptr_count = Cardinality(From(heap, root)),
         Turning(heap, root, tasks', out'),
         Writes(heap, From(heap, root), tasks'), Written(heap, From(heap, root), out'),
         HoldsAt(space', Places(at, out')),
         tasks' = <<>> => out' # <<>> /\ out'[Len(out')].ptr = root
  PROVE  DefsInv'
<1>1. LibraryOk' /\ heap' = heap /\ root' = root /\ at' = at
  BY SameLibrary
<1>2. WritingOk' /\ SpaceOk'
  BY <1>1 DEF WritingOk, SpaceOk
<1>3. /\ ValidatingOk' /\ CountingOk' /\ WrittenOk' /\ ValidIsTree'
      /\ RefusalNamesTheFault' /\ GenDefNeverAborts'
  BY DEF ValidatingOk, CountingOk, WrittenOk, ValidIsTree, RefusalNamesTheFault,
         GenDefNeverAborts
<1> QED BY <1>1, <1>2, <1>3 DEF DefsInv

-----------------------------------------------------------------------------
(* At first.                                                               *)
LEMMA InitKeeps == Init => DefsInv
<1>1. SUFFICES ASSUME Init PROVE DefsInv
  OBVIOUS
<1>2. PICK l \in Libraries :
        /\ heap = l.heap /\ at = l.at /\ root = l.root /\ origin = l.origin
        /\ phase = "loaded" /\ space = NewSpace
  BY <1>1 DEF Init
<1>3. IsLibrary(l)
  BY DefsAssumption
<1>4. LibraryOk
  BY <1>2, <1>3 DEF LibraryOk, IsLibrary, Placed
<1>5. SpaceOk
  BY <1>2, NewHolds DEF SpaceOk
<1> QED BY <1>2, <1>4, <1>5 DEF DefsInv, ValidatingOk, CountingOk, WritingOk,
                                WrittenOk, ValidIsTree, RefusalNamesTheFault,
                                GenDefNeverAborts

(* json_type_lib_validate begins: nothing has been met.                    *)
LEMMA StartValidateKeeps == DefsInv /\ StartValidate => DefsInv'
<1>1. SUFFICES ASSUME DefsInv, StartValidate PROVE DefsInv'
  OBVIOUS
<1>2. LibraryOk /\ UNCHANGED library /\ phase' = "validating"
      /\ tasks' = <<Task("asked", Null, 1)>> /\ space' = NewSpace
  BY <1>1 DEF DefsInv, StartValidate
<1>3. VInv(heap, root, at, <<>>, tasks')
  BY <1>2, StartHolds DEF LibraryOk
<1>4. MetAt(at, <<>>) = <<>>
  BY DEF MetAt
<1>5. HoldsAt(space', MetAt(at, <<>>))
  BY <1>2, <1>4, NewHolds
<1> QED BY <1>2, <1>3, <1>5, ValidatingKeeps

\* What a step of the validation starts from
Validating(ent) ==
  /\ LibraryOk /\ UNCHANGED library /\ phase = "validating" /\ tasks # <<>>
  /\ VInv(heap, root, at, ent, tasks) /\ HoldsAt(space, MetAt(at, ent))

(* In particular these hold.                                               *)
LEMMA ValidatingIs ==
  ASSUME NEW ent, Validating(ent)
  PROVE  /\ IsTyped(heap, root) /\ at \in [1 .. Len(heap) -> Nat \ {0}]
         /\ VInv(heap, root, at, ent, tasks) /\ HoldsAt(space, MetAt(at, ent))
         /\ LibraryOk /\ UNCHANGED library /\ phase = "validating" /\ tasks # <<>>
         /\ Len(heap) \in Nat /\ ent \in Seq(1 .. Len(heap)) /\ SpaceOk
         /\ AllOf(ent) \subseteq 1 .. Len(heap)
         /\ \A t : Target(t) = Tgt(heap, root, t)
         /\ <<>> \o Tail(tasks) = Tail(tasks)
<1>1. IsTyped(heap, root) /\ at \in [1 .. Len(heap) -> Nat \ {0}]
  BY DEF Validating, LibraryOk
<1>2. Len(heap) \in Nat
  BY <1>1, TypedIs, ObjsFields
<1>3. ent \in Seq(1 .. Len(heap)) /\ tasks \in Seq(TaskSet(heap)) /\ tasks # <<>>
  BY DEF Validating, VInv, TasksOk
<1>4. <<>> \o Tail(tasks) = Tail(tasks)
  <2> DEFINE S == TaskSet(heap)
  <2>1. Tail(tasks) \in Seq(S)
    BY <1>3, TailIs
  <2> HIDE DEF S
  <2> QED BY ONLY <2>1
<1>5. AllOf(ent) \subseteq 1 .. Len(heap)
  BY <1>3, AtIn
<1> QED BY <1>1, <1>2, <1>3, <1>4, <1>5 DEF Validating, Target, Tgt, SpaceOk

(* A pointer is NULL where it may not be: that is said of the object that  *)
(* has it.                                                                 *)
LEMMA AskNullKeeps ==
  ASSUME NEW ent, Validating(ent), AskNull(Head(tasks))
  PROVE  DefsInv'
<1> DEFINE t == Head(tasks)
<1>1. /\ IsTyped(heap, root) /\ VInv(heap, root, at, ent, tasks) /\ tasks # <<>>
      /\ LibraryOk /\ UNCHANGED library /\ SpaceOk
      /\ Target(t) = Tgt(heap, root, t)
  BY ValidatingIs
<1>2. /\ t.op = "asked" /\ Tgt(heap, root, t) = Null /\ phase' = "refused"
      /\ result' = [obj   |-> t.obj,
                    field |-> IF t.obj = Null THEN "def"
                              ELSE IF heap[t.obj].kind \in {"args", "array"} THEN "type"
                              ELSE "args"]
      /\ space' = space
  BY <1>1 DEF AskNull, Refuse
<1>3. /\ Faulty(heap, root, at)
      /\ t.obj = Null => root = Null
      /\ t.obj # Null => t.obj \in From(heap, root) /\ Lacks(heap, t.obj)
  BY <1>1, <1>2, NullIsFault
<1> HIDE DEF t
<1>4. RightPlace(heap, root, at, result')
  <2>1. CASE t.obj = Null
    BY <1>2, <1>3, <2>1 DEF RightPlace
  <2>2. CASE t.obj # Null
    <3>1. result'.obj = t.obj /\ result'.field \in {"args", "type"}
      BY <1>2, <2>2
    <3> QED BY <1>3, <2>2, <3>1 DEF RightPlace
  <2> QED BY <2>1, <2>2
<1>5. SpaceOk'
  BY <1>1, <1>2 DEF SpaceOk
<1> QED BY <1>1, <1>2, <1>3, <1>4, <1>5, RefuseKeeps

(* A pointer may be NULL, and is.                                          *)
LEMMA PassOverKeeps ==
  ASSUME NEW ent, Validating(ent), PassOver(Head(tasks))
  PROVE  DefsInv'
<1> DEFINE t == Head(tasks)
<1>1. /\ VInv(heap, root, at, ent, tasks) /\ tasks # <<>>
      /\ LibraryOk /\ UNCHANGED library /\ phase = "validating"
      /\ HoldsAt(space, MetAt(at, ent))
      /\ Target(t) = Tgt(heap, root, t) /\ <<>> \o Tail(tasks) = Tail(tasks)
  BY ValidatingIs
<1>2. /\ t.op = "optional" /\ Tgt(heap, root, t) = Null
      /\ tasks' = Tail(tasks) /\ phase' = "validating" /\ space' = space
  BY <1>1 DEF PassOver, GoOn
<1>3. VInv(heap, root, at, ent, tasks')
  BY <1>1, <1>2, PopHolds DEF Answered
<1> QED BY <1>1, <1>2, <1>3, ValidatingKeeps

(* The names of the types differ, or two of them are the same and that is  *)
(* said, or there are none.                                                *)
LEMMA CheckDupsKeeps ==
  ASSUME NEW ent, Validating(ent), CheckDups(Head(tasks))
  PROVE  DefsInv'
<1> DEFINE t == Head(tasks)
           data == heap[Tgt(heap, root, t)].data
<1>1. /\ IsTyped(heap, root) /\ VInv(heap, root, at, ent, tasks) /\ tasks # <<>>
      /\ LibraryOk /\ UNCHANGED library /\ phase = "validating" /\ SpaceOk
      /\ HoldsAt(space, MetAt(at, ent))
      /\ Target(t) = Tgt(heap, root, t) /\ <<>> \o Tail(tasks) = Tail(tasks)
  BY ValidatingIs
<1>2. /\ t.op = "dups" /\ space' = space
      /\ \/ /\ ~ Distinct(data) /\ phase' = "refused"
            /\ result' = [obj |-> Tgt(heap, root, t), field |-> "name"]
         \/ Distinct(data) /\ tasks' = Tail(tasks) /\ phase' = "validating"
         \/ data = <<>> /\ phase' = "crashed"
  BY <1>1 DEF CheckDups, GoOn, Refuse, Crash, Distinct
<1>3. CASE Distinct(data) /\ tasks' = Tail(tasks) /\ phase' = "validating"
  <2>1. VInv(heap, root, at, ent, tasks')
    BY <1>1, <1>2, <1>3, PopHolds DEF Answered
  <2> QED BY <1>1, <1>2, <1>3, <2>1, ValidatingKeeps
<1>4. CASE /\ ~ Distinct(data) /\ phase' = "refused"
           /\ result' = [obj |-> Tgt(heap, root, t), field |-> "name"]
  <2>1. Faulty(heap, root, at) /\ ~ NamesDiffer(heap, root)
    BY <1>1, <1>2, <1>4, NameIsFault
  <2>2. RightPlace(heap, root, at, result')
    BY <1>4, <2>1 DEF RightPlace
  <2>3. SpaceOk'
    BY <1>1, <1>2 DEF SpaceOk
  <2> QED BY <1>1, <1>4, <2>1, <2>2, <2>3, RefuseKeeps
<1>5. CASE data = <<>> /\ phase' = "crashed"
  <2>1. DefinesNothing(heap, root)
    BY <1>1, <1>2, <1>5, NamesAre DEF DefinesNothing
  <2>2. SpaceOk'
    BY <1>1, <1>2 DEF SpaceOk
  <2> QED BY <1>1, <1>5, <2>1, <2>2, CrashKeeps
<1> QED BY <1>2, <1>3, <1>4, <1>5

(* A type that a trie is about has been met, or that is said of it.        *)
LEMMA CheckKnownKeeps ==
  ASSUME NEW ent, Validating(ent), CheckKnown(Head(tasks))
  PROVE  DefsInv'
<1> DEFINE t == Head(tasks)
           x == Tgt(heap, root, t)
           key == Address(x)
           l == LookupKey(space.map, key)
           adr == MetAt(at, ent)
<1>1. /\ IsTyped(heap, root) /\ VInv(heap, root, at, ent, tasks) /\ tasks # <<>>
      /\ at \in [1 .. Len(heap) -> Nat \ {0}] /\ Len(heap) \in Nat
      /\ ent \in Seq(1 .. Len(heap)) /\ AllOf(ent) \subseteq 1 .. Len(heap)
      /\ LibraryOk /\ UNCHANGED library /\ phase = "validating"
      /\ HoldsAt(space, adr)
      /\ Target(t) = x /\ <<>> \o Tail(tasks) = Tail(tasks)
  BY ValidatingIs
<1>2. /\ t.op = "known" /\ space' = [space EXCEPT !.map = l.treap]
      /\ \/ /\ l.node = Nil /\ phase' = "refused"
            /\ result' = [obj |-> x, field |-> "itself"]
         \/ l.node # Nil /\ tasks' = Tail(tasks) /\ phase' = "validating"
  BY <1>1 DEF CheckKnown, GoOn, RefuseItself, Refuse
<1>3. /\ adr \in Seq(Nat) /\ ~(0 \in AllOf(adr))
      /\ \A q \in AllOf(ent) : at[q] \in AllOf(adr)
      /\ \A k \in AllOf(adr) : \E q \in AllOf(ent) : at[q] = k
  <2>1. Lies(1 .. Len(heap), at, ent, adr)
    BY <1>1, MetAtIs
  <2> QED BY <2>1 DEF Lies
<1>4. x = Null \/ x \in 1 .. Len(heap)
  <2>1. /\ ent \in Seq(1 .. Len(heap)) /\ TaskOk(heap, ent, t)
    <3>1. TasksOk(heap, ent, tasks) /\ InOrder(ent, tasks) /\ tasks # <<>>
          /\ ent \in Seq(1 .. Len(heap))
      BY <1>1 DEF VInv
    <3> QED BY ONLY <3>1, Popped
  <2>2. Objs(heap) /\ root \in 0 .. Len(heap)
    BY <1>1, TypedIs
  <2> HIDE DEF t
  <2>3. CASE t.obj = Null
    BY <1>1, <2>2, <2>3 DEF Tgt, Null
  <2>4. CASE t.obj # Null
    <3>1. t.obj \in 1 .. Len(heap) /\ t.field \in 1 .. Len(heap[t.obj].ptr)
      BY <1>1, <2>1, <2>4 DEF TaskOk
    <3>2. x = heap[t.obj].ptr[t.field] /\ x \in 0 .. Len(heap)
      BY <2>2, <2>4, <3>1, ObjsFields DEF Tgt
    <3> QED BY <1>1, <3>2 DEF Null
  <2> QED BY <2>3, <2>4
<1> HIDE DEF t, x, adr
<1>5. key \in Nat /\ (x = Null => key = 0) /\ (x # Null => key = at[x])
  BY <1>1, <1>4 DEF Address
<1> HIDE DEF key
<1>6. /\ l.node = IF key \in AllOf(adr) THEN key ELSE Nil
      /\ HoldsAt(space', adr)
  <2>1. HoldsAt(space, adr) /\ key \in Nat
    BY <1>1, <1>5
  <2>2. /\ l.node = IF key \in AllOf(adr) THEN key ELSE Nil
        /\ HoldsAt([map |-> l.treap, index |-> space.index], adr)
        /\ [space EXCEPT !.map = l.treap] = [map |-> l.treap, index |-> space.index]
    BY ONLY <2>1, LookupHolds
  <2> QED BY <1>2, <2>2
<1>7. CASE l.node # Nil /\ tasks' = Tail(tasks) /\ phase' = "validating"
  <2>1. key \in AllOf(adr)
    BY <1>6, <1>7
  <2>2. x # Null /\ \E q \in AllOf(ent) : at[q] = at[x]
    BY <1>3, <1>5, <2>1
  <2>3. \E q \in 1 .. Len(ent) : at[ent[q]] = at[x]
    BY <2>2 DEF AllOf
  <2>4. Answered(heap, root, at, ent, t)
    BY <1>2, <2>2, <2>3 DEF Answered, x
  <2>5. VInv(heap, root, at, ent, tasks')
    BY <1>1, <1>7, <2>4, PopHolds DEF t
  <2> QED BY <1>1, <1>6, <1>7, <2>5, ValidatingKeeps DEF adr
<1>8. CASE /\ l.node = Nil /\ phase' = "refused"
           /\ result' = [obj |-> x, field |-> "itself"]
  <2>1. ~(key \in AllOf(adr))
    <3>1. key # Nil
      BY <1>5 DEF Nil
    <3> QED BY <1>6, <1>8, <3>1
  <2>2. x = Null \/ ~(x \in AllOf(ent))
    BY <1>3, <1>5, <2>1
  <2>3. /\ Faulty(heap, root, at) /\ ~ RefsAtHome(heap, root)
        /\ \E q \in From(heap, root) : x \in Refs(heap, q)
    BY <1>1, <1>2, <2>2, StrangerIsFault DEF t, x
  <2>4. RightPlace(heap, root, at, result')
    BY <1>8, <2>3 DEF RightPlace
  <2>5. SpaceOk'
    BY <1>6 DEF SpaceOk
  <2> QED BY <1>1, <1>8, <2>3, <2>4, <2>5, RefuseKeeps
<1> QED BY <1>2, <1>7, <1>8

(* An object is met for the first time, or was met and is refused; or the  *)
(* NULL of an attr is read through.                                        *)
LEMMA EnterKeeps ==
  ASSUME NEW ent, Validating(ent), Enter(Head(tasks))
  PROVE  DefsInv'
<1> DEFINE t == Head(tasks)
           x == Tgt(heap, root, t)
           key == Address(x)
           i == InsertKey(space.map, key)
           adr == MetAt(at, ent)
           new == [map |-> SetVal(i.treap, key, space.index), index |-> space.index + 1]
           more == PartsOf(heap, x) \o Tail(tasks)
<1>1. /\ IsTyped(heap, root) /\ VInv(heap, root, at, ent, tasks) /\ tasks # <<>>
      /\ at \in [1 .. Len(heap) -> Nat \ {0}] /\ Len(heap) \in Nat
      /\ ent \in Seq(1 .. Len(heap)) /\ AllOf(ent) \subseteq 1 .. Len(heap)
      /\ LibraryOk /\ UNCHANGED library /\ phase = "validating"
      /\ HoldsAt(space, adr) /\ Target(t) = x
  BY ValidatingIs
<1>p. Parts(x) = PartsOf(heap, x)
  BY DEF Parts, PartsOf
<1>2. /\ t.op = "trusted" \/ (t.op \in {"asked", "optional"} /\ x # Null)
      /\ \/ /\ ~ i.isNew /\ phase' = "refused"
            /\ result' = [obj |-> x, field |-> "itself"]
            /\ space' = [space EXCEPT !.map = i.treap]
         \/ /\ i.isNew /\ space' = new
            /\ \/ x = Null /\ phase' = "crashed"
               \/ x # Null /\ tasks' = more /\ phase' = "validating"
  BY <1>1, <1>p DEF Enter, GoOn, RefuseItself, Refuse, Crash
<1>3. /\ adr \in Seq(Nat) /\ ~(0 \in AllOf(adr))
      /\ \A q \in AllOf(ent) : at[q] \in AllOf(adr)
      /\ \A k \in AllOf(adr) : \E q \in AllOf(ent) : at[q] = k
      /\ \A y \in 1 .. Len(heap) : MetAt(at, Append(ent, y)) = Append(adr, at[y])
  <2>1. Lies(1 .. Len(heap), at, ent, adr)
    BY <1>1, MetAtIs
  <2> QED BY <2>1 DEF Lies
<1>4. Follows(t)
  BY <1>2 DEF Follows
<1>5. x \in 0 .. Len(heap)
  BY <1>1, <1>4, FollowedIs
<1> HIDE DEF t, x, adr
<1>6. /\ key \in Nat /\ (x = Null => key = 0)
      /\ (x # Null => key = at[x] /\ x \in 1 .. Len(heap))
  BY <1>1, <1>5 DEF Address, Null
<1> HIDE DEF key, more
<1>7. /\ i.isNew = IF key \in AllOf(adr) THEN FALSE ELSE TRUE
      /\ key \in AllOf(adr) => HoldsAt([space EXCEPT !.map = i.treap], adr)
      /\ ~(key \in AllOf(adr)) => HoldsAt(new, Append(adr, key))
  <2>1. HoldsAt(space, adr) /\ key \in Nat
    BY <1>1, <1>6
  <2> QED BY ONLY <2>1, InsertHolds
<1> HIDE DEF i, new
<1>8. CASE ~ i.isNew /\ phase' = "refused" /\ result' = [obj |-> x, field |-> "itself"]
           /\ space' = [space EXCEPT !.map = i.treap]
  <2>1. key \in AllOf(adr)
    BY <1>7, <1>8
  <2>2. x # Null
    BY <1>3, <1>6, <2>1
  <2>3. PICK q \in AllOf(ent) : at[q] = at[x]
    BY <1>3, <1>6, <2>1, <2>2
  <2>4. /\ Faulty(heap, root, at) /\ x \in From(heap, root)
        /\ MetTwice(heap, root, at, x)
    <3>1. IsTyped(heap, root) /\ VInv(heap, root, at, ent, tasks) /\ tasks # <<>>
      BY <1>1
    <3>2. Follows(Head(tasks)) /\ Tgt(heap, root, Head(tasks)) # Null
          /\ at[q] = at[Tgt(heap, root, Head(tasks))]
      BY <1>4, <2>2, <2>3 DEF t, x
    <3> QED BY ONLY q \in AllOf(ent), <3>1, <3>2, AgainIsFault DEF t, x
  <2>5. RightPlace(heap, root, at, result')
    BY <1>8, <2>4 DEF RightPlace
  <2>6. SpaceOk'
    BY <1>7, <1>8, <2>1 DEF SpaceOk
  <2> QED BY <1>1, <1>8, <2>4, <2>5, <2>6, RefuseKeeps
<1>9. CASE i.isNew /\ space' = new /\ x # Null /\ tasks' = more /\ phase' = "validating"
  <2>1. ~(key \in AllOf(adr))
    BY <1>7, <1>9
  <2>2. \A j \in 1 .. Len(ent) : at[ent[j]] # at[x]
    <3>1. \A j \in 1 .. Len(ent) : ent[j] \in AllOf(ent)
      BY DEF AllOf
    <3> QED BY <1>3, <1>6, <1>9, <2>1, <3>1
  <2>3. VInv(heap, root, at, Append(ent, x), more)
    <3>1. IsTyped(heap, root) /\ VInv(heap, root, at, ent, tasks) /\ tasks # <<>>
      BY <1>1
    <3>2. Follows(Head(tasks)) /\ Tgt(heap, root, Head(tasks)) # Null
          /\ \A j \in 1 .. Len(ent) : at[ent[j]] # at[Tgt(heap, root, Head(tasks))]
      BY <1>4, <1>9, <2>2 DEF t, x
    <3> QED BY ONLY <3>1, <3>2, EnterHolds DEF t, x, more
  <2>4. HoldsAt(space', MetAt(at, Append(ent, x)))
    BY <1>3, <1>6, <1>7, <1>9, <2>1
  <2> QED BY <1>1, <1>9, <2>3, <2>4, ValidatingKeeps
<1>10. CASE i.isNew /\ space' = new /\ x = Null /\ phase' = "crashed"
  <2>1. t.op = "trusted"
    BY <1>2, <1>10
  <2>2. LacksAttr(heap, root)
    BY <1>1, <1>10, <2>1, AttrIsLacking DEF t, x
  <2>3. SpaceOk'
    BY <1>3, <1>6, <1>7, <1>10 DEF SpaceOk
  <2> QED BY <1>1, <1>10, <2>2, <2>3, CrashKeeps
<1> QED BY <1>2, <1>8, <1>9, <1>10

(* Any step of the validation.                                             *)
LEMMA ValidateStepKeeps == DefsInv /\ ValidateStep => DefsInv'
<1>1. SUFFICES ASSUME DefsInv, ValidateStep PROVE DefsInv'
  OBVIOUS
<1>2. PICK ent : VInv(heap, root, at, ent, tasks) /\ HoldsAt(space, MetAt(at, ent))
  BY <1>1 DEF DefsInv, ValidatingOk, ValidateStep
<1>3. Validating(ent)
  BY <1>1, <1>2 DEF DefsInv, ValidateStep, Validating
<1>4. \/ AskNull(Head(tasks)) \/ PassOver(Head(tasks)) \/ Enter(Head(tasks))
      \/ CheckKnown(Head(tasks)) \/ CheckDups(Head(tasks))
  BY <1>1 DEF ValidateStep
<1> QED BY <1>3, <1>4, AskNullKeeps, PassOverKeeps, EnterKeeps, CheckKnownKeeps,
           CheckDupsKeeps

(* The validation ends, and the definitions are the tree of a library.     *)
LEMMA ValidatedKeeps == DefsInv /\ Validated => DefsInv'
<1>1. SUFFICES ASSUME DefsInv, Validated PROVE DefsInv'
  OBVIOUS
<1>2. /\ LibraryOk /\ UNCHANGED library /\ SpaceOk /\ phase = "validating"
      /\ tasks = <<>> /\ phase' = "accepted" /\ space' = space
  BY <1>1 DEF DefsInv, Validated
<1>3. PICK ent : VInv(heap, root, at, ent, tasks)
  BY <1>1, <1>2 DEF DefsInv, ValidatingOk
<1>4. IsValid(heap, root, at)
  BY <1>2, <1>3, AcceptedIsValid DEF LibraryOk
<1>5. LibraryOk' /\ heap' = heap /\ root' = root /\ at' = at
  BY <1>2, SameLibrary
<1>6. SpaceOk'
  BY <1>2 DEF SpaceOk
<1> QED BY <1>2, <1>4, <1>5, <1>6 DEF DefsInv, ValidatingOk, CountingOk, WritingOk,
                                     WrittenOk, ValidIsTree, RefusalNamesTheFault,
                                     GenDefNeverAborts

-----------------------------------------------------------------------------
(* A sequence and an empty one.                                            *)
LEMMA JoinEnds ==
  ASSUME NEW S, NEW s \in Seq(S), NEW t \in Seq(S)
  PROVE  /\ s \o <<>> = s /\ <<>> \o t = t
         /\ s # <<>> \/ t # <<>> => s \o t # <<>>
<1>1. s \o <<>> = s /\ <<>> \o t = t
  OBVIOUS
<1>2. Len(s \o t) = Len(s) + Len(t) /\ Len(s) \in Nat /\ Len(t) \in Nat
  OBVIOUS
<1>3. (s # <<>> => Len(s) # 0) /\ (t # <<>> => Len(t) # 0)
  OBVIOUS
<1>4. s # <<>> \/ t # <<>> => Len(s \o t) # 0
  BY <1>2, <1>3
<1>5. Len(<<>>) = 0
  OBVIOUS
<1> QED BY <1>1, <1>4, <1>5

(* json_type_lib_gen_def begins: all is to be counted, by the call for the *)
(* root.                                                                   *)
LEMMA StartGenDefKeeps == DefsInv /\ StartGenDef => DefsInv'
<1>1. SUFFICES ASSUME DefsInv, StartGenDef PROVE DefsInv'
  OBVIOUS
<1>2. /\ LibraryOk /\ UNCHANGED library /\ phase' = "counting"
      /\ tasks' = <<Task("count", Null, 1)>> /\ space' = NewSpace /\ out' = <<>>
      /\ attrs' = [ptr_count |-> 0, has_cells |-> FALSE]
      /\ IsValid(heap, root, at)
  BY <1>1 DEF DefsInv, StartGenDef, LibraryOk, ValidIsTree, NoAttrs
<1>3. Counting(heap, root, tasks', 0)
  BY <1>2, CountingEnds DEF LibraryOk
<1> QED BY <1>2, <1>3, CountingKeeps

(* A call counts an object, what it owns being counted by other calls; or  *)
(* it counts nothing.                                                      *)
LEMMA CountStepKeeps == DefsInv /\ CountStep => DefsInv'
<1>1. SUFFICES ASSUME DefsInv, CountStep PROVE DefsInv'
  OBVIOUS
<1> DEFINE t == Head(tasks)
           x == Tgt(heap, root, t)
           n == attrs.ptr_count
<1>2. /\ LibraryOk /\ UNCHANGED library /\ phase' = "counting" /\ tasks # <<>>
      /\ IsValid(heap, root, at) /\ Counting(heap, root, tasks, n)
      /\ attrs = [ptr_count |-> n, has_cells |-> attrs.has_cells]
      /\ out' = <<>> /\ space' = NewSpace
      /\ CountObject(t) \/ CountNothing(t) \/ CountAttr(t) \/ AskCells(t)
  BY <1>1 DEF DefsInv, CountingOk, CountStep
<1>3. IsTyped(heap, root) /\ Target(t) = x
  BY <1>2 DEF LibraryOk, Target, Tgt
<1>4. ASSUME Scope(heap, root, t) = {}
      PROVE  Counting(heap, root, Tail(tasks), n)
  BY <1>2, <1>3, <1>4, NothingCounts
<1>5. CASE CountObject(t)
  <2> DEFINE m == n + IF HasArgs(heap[x]) THEN 2 ELSE 1
  <2>1. /\ t.op = "count" /\ x # Null /\ tasks' = Counts(x) \o Tail(tasks)
        /\ attrs' = [attrs EXCEPT !.ptr_count = m]
    BY <1>3, <1>5 DEF CountObject
  <2>2. Counting(heap, root, CountsOf(heap, x) \o Tail(tasks), m)
    BY <1>2, <1>3, <2>1, ObjectCounts
  <2>3. Counts(x) = CountsOf(heap, x)
    BY DEF Counts, CountsOf, Calls, CallsOf
  <2> HIDE DEF x, m, t
  <2>4. attrs' = [ptr_count |-> m, has_cells |-> attrs.has_cells]
    BY <1>2, <2>1
  <2> QED BY <1>2, <2>1, <2>2, <2>3, <2>4, CountingKeeps
<1>6. CASE CountNothing(t)
  <2>1. /\ t.op = "pass" \/ (t.op = "count" /\ x = Null)
        /\ tasks' = Tail(tasks) /\ attrs' = attrs
    BY <1>3, <1>6 DEF CountNothing
  <2>2. Scope(heap, root, t) = {}
    BY <1>3, <2>1, FromNull DEF Scope
  <2>3. attrs' = [ptr_count |-> n, has_cells |-> attrs.has_cells]
    BY <1>2, <2>1
  <2> QED BY <1>2, <1>4, <2>1, <2>2, <2>3, CountingKeeps
<1>7. CASE CountAttr(t)
  <2>1. /\ t.op = "attr" /\ attrs' = [attrs EXCEPT !.ptr_count = n + 1]
        /\ tasks' = Calls("count", x) \o <<Task("cells", t.obj, n)>> \o Tail(tasks)
    BY <1>3, <1>7 DEF CountAttr
  <2>2. Calls("count", x) = CallsOf(heap, "count", x)
    BY DEF Calls, CallsOf
  <2>3. Counting(heap, root, tasks', n + 1)
    BY <1>2, <1>3, <2>1, <2>2, AttrCounts
  <2>4. attrs' = [ptr_count |-> n + 1, has_cells |-> attrs.has_cells]
    BY <1>2, <2>1
  <2> QED BY <1>2, <2>3, <2>4, CountingKeeps
<1>8. CASE AskCells(t)
  <2> DEFINE b == attrs.has_cells \/ attrs.ptr_count - t.field > 1
  <2>1. /\ t.op = "cells" /\ attrs' = [attrs EXCEPT !.has_cells = b]
        /\ tasks' = Tail(tasks)
    BY <1>8 DEF AskCells
  <2>2. Scope(heap, root, t) = {}
    BY <2>1 DEF Scope
  <2> HIDE DEF b
  <2>3. attrs' = [ptr_count |-> n, has_cells |-> b]
    BY <1>2, <2>1
  <2> QED BY <1>2, <1>4, <2>1, <2>2, <2>3, CountingKeeps
<1> QED BY <1>2, <1>5, <1>6, <1>7, <1>8

(* All is counted, and nothing is written.                                 *)
LEMMA CountedKeeps == DefsInv /\ Counted => DefsInv'
<1>1. SUFFICES ASSUME DefsInv, Counted PROVE DefsInv'
  OBVIOUS
<1>2. /\ LibraryOk /\ UNCHANGED library /\ phase' = "writing"
      /\ tasks = <<>> /\ tasks' = <<Task("gen", Null, 1)>>
      /\ space' = NewSpace /\ out' = <<>> /\ attrs' = attrs
      /\ IsValid(heap, root, at) /\ Counting(heap, root, tasks, attrs.ptr_count)
  BY <1>1 DEF DefsInv, CountingOk, Counted
<1>3. Len(heap) \in Nat /\ IsTyped(heap, root)
  BY <1>2, TypedIs, ObjsFields DEF LibraryOk
<1>4. attrs'.ptr_count = Cardinality(From(heap, root))
  BY <1>2, <1>3, CountingEnds
<1>5. Turning(heap, root, tasks', out')
  BY <1>2, <1>3, TurningStart
<1> DEFINE t == Task("gen", Null, 1)
           S == WriteSet(heap)
<1>6. t \in S /\ OfRoot(t)
  BY <1>3 DEF WriteSet, Task, OfRoot, Null
<1> HIDE DEF t, S
<1>7. <<t>> \in Seq(S) /\ Len(<<t>>) = 1 /\ <<t>>[1] = t /\ <<t>> # <<>>
  BY <1>6
<1>8. tasks' = <<t>>
  BY <1>2 DEF t
<1>9. Writes(heap, From(heap, root), tasks') /\ tasks' # <<>>
  BY <1>6, <1>7, <1>8 DEF Writes, S
<1>10. Written(heap, From(heap, root), out')
  BY <1>2 DEF Written
<1>11. Places(at, out') = <<>>
  BY <1>2 DEF Places
<1>12. HoldsAt(space', Places(at, out'))
  BY <1>2, <1>11, NewHolds
<1> QED BY <1>2, <1>4, <1>5, <1>9, <1>10, <1>12, WritingKeeps

(* What a step of the writing starts from.                                 *)
LEMMA WritingIs ==
  ASSUME DefsInv, phase = "writing", tasks # <<>>
  PROVE  /\ LibraryOk /\ IsTyped(heap, root) /\ IsValid(heap, root, at) /\ SpaceOk
         /\ at \in [1 .. Len(heap) -> Nat \ {0}] /\ Len(heap) \in Nat
         /\ From(heap, root) \subseteq 1 .. Len(heap)
         /\ \A id \in 1 .. Len(heap) : Len(heap[id].ptr) \in Nat
         /\ Writes(heap, From(heap, root), tasks)
         /\ Written(heap, From(heap, root), out) /\ HoldsAt(space, Places(at, out))
         /\ Turning(heap, root, tasks, out)
         /\ attrs.ptr_count = Cardinality(From(heap, root))
         /\ \A t : Target(t) = Tgt(heap, root, t)
         /\ Writes(heap, From(heap, root), Tail(tasks))
         /\ Tail(tasks) \in Seq(WriteSet(heap))
         /\ \/ /\ Tail(tasks) = <<>> /\ OfRoot(Head(tasks))
               /\ Target(Head(tasks)) = root
            \/ /\ Tail(tasks) # <<>> /\ IsWrite(heap, From(heap, root), Head(tasks))
               /\ Target(Head(tasks)) = heap[Head(tasks).obj].ptr[Head(tasks).field]
         /\ root # Null
         /\ Head(tasks).op = "write" => Target(Head(tasks)) # Null
         /\ Target(Head(tasks)) # Null => Target(Head(tasks)) \in From(heap, root)
<1> DEFINE R == From(heap, root)
           t == Head(tasks)
           T == Tail(tasks)
<1>1. /\ LibraryOk /\ IsTyped(heap, root) /\ IsValid(heap, root, at) /\ SpaceOk
      /\ at \in [1 .. Len(heap) -> Nat \ {0}]
      /\ Writes(heap, R, tasks) /\ Written(heap, R, out) /\ HoldsAt(space, Places(at, out))
      /\ Turning(heap, root, tasks, out) /\ attrs.ptr_count = Cardinality(R)
      /\ \A u : Target(u) = Tgt(heap, root, u)
  BY DEF DefsInv, WritingOk, LibraryOk, Target, Tgt
<1>2. /\ root \in R /\ root # Null /\ R \subseteq 1 .. Len(heap)
      /\ \A id \in R : \A k \in 1 .. Len(heap[id].ptr) :
           heap[id].ptr[k] # Null => heap[id].ptr[k] \in R
  BY <1>1, ValidIs
<1>3. Len(heap) \in Nat /\ \A id \in 1 .. Len(heap) : Len(heap[id].ptr) \in Nat
  BY <1>1, TypedIs, ObjsFields
<1>4. Writes(heap, R, T) /\ IF T = <<>> THEN OfRoot(t) ELSE IsWrite(heap, R, t)
  BY <1>1, WritesTail
<1>5. T \in Seq(WriteSet(heap))
  BY <1>4 DEF Writes
<1> HIDE DEF t, T, R
<1>6. CASE T = <<>>
  <2>1. OfRoot(t) /\ Target(t) = root
    BY <1>4, <1>6 DEF OfRoot, Target
  <2> QED BY <1>1, <1>2, <1>3, <1>4, <1>5, <1>6, <2>1 DEF t, T, R
<1>7. CASE T # <<>>
  <2>1. IsWrite(heap, R, t) /\ t.obj # Null
    BY <1>2, <1>3, <1>4, <1>7 DEF IsWrite, Null
  <2>2. Target(t) = heap[t.obj].ptr[t.field]
    BY <2>1 DEF Target
  <2>3. t.op = "write" => Target(t) # Null
    BY <2>1, <2>2 DEF IsWrite
  <2>4. Target(t) # Null => Target(t) \in R
    BY <1>2, <2>1, <2>2 DEF IsWrite
  <2> QED BY <1>1, <1>2, <1>3, <1>4, <1>5, <1>7, <2>1, <2>2, <2>3, <2>4 DEF t, T, R
<1> QED BY <1>6, <1>7

(* What an object points to is to be written before it.                    *)
LEMMA GenStepKeeps == DefsInv /\ GenStep => DefsInv'
<1>1. SUFFICES ASSUME DefsInv, GenStep PROVE DefsInv'
  OBVIOUS
<1> DEFINE R == From(heap, root)
           S == WriteSet(heap)
           t == Head(tasks)
           T == Tail(tasks)
           x == Target(t)
           w == <<Task("write", t.obj, t.field)>>
<1>2. phase = "writing" /\ tasks # <<>> /\ t.op # "write"
  BY <1>1 DEF GenStep
<1>3. /\ LibraryOk /\ IsTyped(heap, root) /\ IsValid(heap, root, at)
      /\ Len(heap) \in Nat /\ R \subseteq 1 .. Len(heap)
      /\ \A id \in 1 .. Len(heap) : Len(heap[id].ptr) \in Nat
      /\ Written(heap, R, out) /\ HoldsAt(space, Places(at, out))
      /\ Writes(heap, R, T) /\ T \in Seq(S)
      /\ \/ T = <<>> /\ OfRoot(t) /\ x = root
         \/ T # <<>> /\ IsWrite(heap, R, t) /\ x = heap[t.obj].ptr[t.field]
      /\ root # Null /\ (x # Null => x \in R)
      /\ Turning(heap, root, tasks, out) /\ attrs.ptr_count = Cardinality(R)
      /\ x = Tgt(heap, root, t)
  BY <1>1, <1>2, WritingIs
<1>4. Before(x) = BeforeOf(heap, x)
  BY DEF Before, BeforeOf, Calls, CallsOf
<1>5. /\ tasks' = (IF t.op = "pass" \/ x = Null THEN <<>> ELSE BeforeOf(heap, x) \o w) \o T
      /\ UNCHANGED library /\ phase' = "writing" /\ out' = out /\ space' = space
      /\ attrs' = attrs
  BY <1>1, <1>2, <1>4 DEF GenStep
<1>7. t.op \in {"gen", "pass"}
  <2>1. t \in S
    BY <1>3, <1>1, <1>2, WritesTail, WritingIs
  <2> HIDE DEF t
  <2> QED BY <1>2, <2>1 DEF WriteSet
<1>8. <<>> \o T = T
  <2> HIDE DEF S, T
  <2> QED BY <1>3, JoinEnds
<1>9. Turning(heap, root, tasks', out')
  <2>1. CASE t.op = "pass" \/ x = Null
    <3>1. Turning(heap, root, T, out)
      BY <1>2, <1>3, <1>7, <2>1, TurningOn
    <3> QED BY <1>5, <1>8, <2>1, <3>1
  <2>2. CASE ~(t.op = "pass" \/ x = Null)
    <3>1. Turning(heap, root, (BeforeOf(heap, x) \o w) \o T, out)
      BY <1>2, <1>3, <1>7, <2>2, TurningOn
    <3> QED BY <1>5, <2>2, <3>1
  <2> QED BY <2>1, <2>2
<1> HIDE DEF t, T, x, R
<1>6. Writes(heap, R, tasks') /\ tasks' # <<>>
  <2>1. CASE t.op = "pass" \/ x = Null
    <3>1. T # <<>>
      BY <1>3, <2>1 DEF OfRoot
    <3>2. tasks' = <<>> \o T
      BY <1>5, <2>1
    <3>3. tasks' = T
      <4> HIDE DEF S
      <4> QED BY <1>3, <3>2, JoinEnds
    <3> QED BY <1>3, <3>1, <3>3
  <2>2. CASE ~(t.op = "pass" \/ x = Null)
    <3> DEFINE b == BeforeOf(heap, x)
               u == b \o w
    <3>1. AllWrites(heap, R, b)
      BY <1>3, <2>2, BeforeIs DEF R
    <3>2. tasks' = u \o T
      BY <1>5, <2>2
    <3>3. CASE T = <<>>
      <4> DEFINE v == Task("write", t.obj, t.field)
      <4>1. v \in S /\ OfRoot(v)
        BY <1>3, <3>3 DEF OfRoot, Task, WriteSet, Null
      <4> HIDE DEF v, S
      <4>2. <<v>> \in Seq(S) /\ Len(<<v>>) = 1 /\ <<v>>[1] = v /\ <<v>> # <<>>
        BY <4>1
      <4>3. Writes(heap, R, <<v>>) /\ <<v>> # <<>>
        BY <4>1, <4>2 DEF Writes, S
      <4>4. Writes(heap, R, b \o <<v>>)
        BY <3>1, <4>3, WritesJoin
      <4>5. b \in Seq(S) /\ b \o <<v>> \in Seq(S)
        BY <3>1, <4>4 DEF AllWrites, Writes, S
      <4>6. b \o <<v>> # <<>> /\ (b \o <<v>>) \o <<>> = b \o <<v>>
        BY <4>2, <4>5, JoinEnds
      <4>7. tasks' = b \o <<v>>
        BY <3>2, <3>3, <4>6 DEF v
      <4> QED BY <4>4, <4>6, <4>7
    <3>4. CASE T # <<>>
      <4> DEFINE v == Task("write", t.obj, t.field)
      <4>1. v \in S /\ IsWrite(heap, R, v)
        <5>1. /\ t.obj \in R /\ t.field \in 1 .. Len(heap[t.obj].ptr)
              /\ heap[t.obj].ptr[t.field] # Null
          BY <1>3, <2>2, <3>4 DEF IsWrite
        <5>2. t.obj \in 1 .. Len(heap)
          BY <1>3, <5>1
        <5>3. Len(heap[t.obj].ptr) \in Nat
          BY <1>3, <5>2
        <5>4. t.obj \in 0 .. Len(heap) /\ t.field \in Nat
          BY ONLY <1>3, <5>1, <5>2, <5>3
        <5> QED BY <5>1, <5>4 DEF IsWrite, Task, WriteSet
      <4> HIDE DEF v, S
      <4>2. <<v>> \in Seq(S) /\ Len(<<v>>) = 1 /\ <<v>>[1] = v
        BY <4>1
      <4>3. AllWrites(heap, R, <<v>>)
        BY <4>1, <4>2 DEF AllWrites, S
      <4>4. AllWrites(heap, R, b \o <<v>>)
        BY <3>1, <4>3, WritesJoin
      <4>5. Writes(heap, R, (b \o <<v>>) \o T)
        BY <1>3, <3>4, <4>4, WritesJoin
      <4>6. (b \o <<v>>) \o T # <<>>
        <5>1. b \o <<v>> \in Seq(S)
          BY <4>4 DEF AllWrites, S
        <5> QED BY <1>3, <3>4, <5>1, JoinEnds
      <4> QED BY <3>2, <4>5, <4>6 DEF v
    <3> QED BY <3>3, <3>4
  <2> QED BY <2>1, <2>2
<1> QED BY <1>3, <1>5, <1>6, <1>9, WritingKeeps DEF R

(* An object is written with the names given to what it points to; an      *)
(* assertion of the code fails only when a trie is about a type that is    *)
(* not of its list.                                                        *)
LEMMA WriteStepKeeps == DefsInv /\ WriteStep => DefsInv'
<1>1. SUFFICES ASSUME DefsInv, WriteStep PROVE DefsInv'
  OBVIOUS
<1> DEFINE R == From(heap, root)
           id == Target(Head(tasks))
           ptr == heap[id].ptr
           i == InsertKey(space.map, at[id])
           map == SetVal(i.treap, at[id], space.index)
           used == {k \in DOMAIN ptr : ptr[k] # Null}
           last == CHOOSE k \in used : \A j \in used : j <= k
           e == [ptr |-> id, obj |-> NamedIn(heap, at, map, id)]
           ok == i.isNew /\ \A k \in used : LookupKey(map, at[ptr[k]]).node # Nil
<1>2. phase = "writing" /\ tasks # <<>> /\ Head(tasks).op = "write"
  BY <1>1 DEF WriteStep
<1>3. /\ LibraryOk /\ IsTyped(heap, root) /\ IsValid(heap, root, at) /\ SpaceOk
      /\ at \in [1 .. Len(heap) -> Nat \ {0}]
      /\ Len(heap) \in Nat /\ R \subseteq 1 .. Len(heap)
      /\ Written(heap, R, out) /\ HoldsAt(space, Places(at, out))
      /\ Writes(heap, R, Tail(tasks))
      /\ Tail(tasks) = <<>> => id = root
      /\ id # Null /\ id \in R
      /\ Turning(heap, root, tasks, out) /\ attrs.ptr_count = Cardinality(R)
      /\ id = Tgt(heap, root, Head(tasks))
  BY <1>1, <1>2, WritingIs
<1>4. DOMAIN ptr = 1 .. Len(ptr) /\ Len(ptr) \in Nat
  BY <1>3, TypedIs, ObjsFields
<1> HIDE DEF id, R
<1>5. Address(id) = at[id] /\ \A k \in used : Address(ptr[k]) = at[ptr[k]]
  BY <1>3 DEF Address
<1>6. [heap[id] EXCEPT !.ptr = [k \in DOMAIN ptr |-> Name(map, ptr[k])]]
        = NamedIn(heap, at, map, id)
  BY DEF NamedIn, Name, Address
<1>7. /\ UNCHANGED library /\ attrs' = attrs
      /\ \/ /\ ok /\ phase' = "writing" /\ tasks' = Tail(tasks) /\ out' = Append(out, e)
            /\ space' = [map   |-> IF used = {} THEN map
                                   ELSE LookupKey(map, at[ptr[last]]).treap,
                         index |-> space.index + 1]
         \/ ~ ok /\ phase' = "aborted" /\ space' = space
  <2>1. UNCHANGED library /\ attrs' = attrs
    BY <1>1 DEF WriteStep
  <2>2. used # {} => last \in used
    <3>1. SUFFICES ASSUME used # {} PROVE \E k \in used : \A j \in used : j <= k
      OBVIOUS
    <3>2. used \subseteq 0 .. Len(ptr)
      BY <1>4
    <3> HIDE DEF used
    <3> QED BY <1>4, <3>1, <3>2, LastOf
  <2>3. used # {} => Address(ptr[last]) = at[ptr[last]]
    BY <1>5, <2>2
  <2>4. (\A k \in used : LookupKey(map, Address(ptr[k])).node # Nil)
          <=> (\A k \in used : LookupKey(map, at[ptr[k]]).node # Nil)
    BY <1>5
  <2> QED BY <1>1, <1>2, <1>5, <1>6, <2>1, <2>3, <2>4 DEF WriteStep, id
<1>10. /\ \A j \in 1 .. Len(out) : out[j].ptr # id
       /\ RefsAtHome(heap, root) => \A k \in 1 .. Len(ptr) :
            ptr[k] # Null => \E j \in 1 .. Len(out) : out[j].ptr = ptr[k]
       /\ \A W : \A u \in W :
            out \in Seq(W) /\ u.ptr = id => Turning(heap, root, Tail(tasks), Append(out, u))
  <2>1. /\ IsTyped(heap, root) /\ IsValid(heap, root, at) /\ Turning(heap, root, tasks, out)
        /\ tasks # <<>> /\ Head(tasks).op = "write"
        /\ id \in From(heap, root) /\ id = Tgt(heap, root, Head(tasks))
    BY <1>2, <1>3 DEF R
  <2> QED BY ONLY <2>1, TurningWrite
<1>8. CASE ~ ok /\ phase' = "aborted" /\ space' = space
  <2>1. LibraryOk' /\ SpaceOk' /\ heap' = heap /\ root' = root
    BY <1>3, <1>7, <1>8, SameLibrary DEF SpaceOk
  <2>2. ~ RefsAtHome(heap, root)
    <3>1. SUFFICES ASSUME RefsAtHome(heap, root) PROVE ok
      BY <1>8
    <3>2. /\ IsTyped(heap, root) /\ IsValid(heap, root, at)
          /\ at \in [1 .. Len(heap) -> Nat \ {0}]
          /\ Written(heap, From(heap, root), out) /\ HoldsAt(space, Places(at, out))
          /\ id \in From(heap, root) /\ \A j \in 1 .. Len(out) : out[j].ptr # id
      BY <1>3, <1>10 DEF R
    <3> HIDE DEF map
    <3>3. map = SetVal(InsertKey(space.map, at[id]).treap, at[id], space.index)
      BY DEF map
    <3>4. /\ InsertKey(space.map, at[id]).isNew
          /\ \A j \in 1 .. Len(out) : LookupKey(map, at[out[j].ptr]).node # Nil
      BY ONLY <3>2, <3>3, WriteSucceeds
    <3>5. \A k \in 1 .. Len(ptr) : ptr[k] # Null => LookupKey(map, at[ptr[k]]).node # Nil
      BY <1>10, <3>1, <3>4
    <3> QED BY <1>4, <3>4, <3>5
  <2> QED BY <1>8, <2>1, <2>2 DEF DefsInv, ValidatingOk, CountingOk, WritingOk, WrittenOk,
                                  ValidIsTree, RefusalNamesTheFault, GenDefNeverAborts
<1>9. CASE /\ ok /\ phase' = "writing" /\ tasks' = Tail(tasks) /\ out' = Append(out, e)
           /\ space' = [map   |-> IF used = {} THEN map
                                  ELSE LookupKey(map, at[ptr[last]]).treap,
                        index |-> space.index + 1]
  <2>1. /\ Written(heap, R, Append(out, e))
        /\ HoldsAt([map |-> map, index |-> space.index + 1], Places(at, Append(out, e)))
        /\ \A k \in 1 .. Len(ptr) : ptr[k] # Null =>
              HoldsAt([map   |-> LookupKey(map, at[ptr[k]]).treap,
                       index |-> space.index + 1], Places(at, Append(out, e)))
    <3>1. /\ IsTyped(heap, root) /\ IsValid(heap, root, at)
          /\ at \in [1 .. Len(heap) -> Nat \ {0}]
          /\ Written(heap, From(heap, root), out) /\ HoldsAt(space, Places(at, out))
          /\ id \in From(heap, root) /\ InsertKey(space.map, at[id]).isNew
      BY <1>3, <1>9 DEF R
    <3>2. \A k \in 1 .. Len(ptr) : ptr[k] # Null => LookupKey(map, at[ptr[k]]).node # Nil
      BY <1>4, <1>9
    <3> HIDE DEF map, e
    <3>3. map = SetVal(InsertKey(space.map, at[id]).treap, at[id], space.index)
      BY DEF map
    <3>4. e = [ptr |-> id, obj |-> NamedIn(heap, at, map, id)]
      BY DEF e
    <3> QED BY ONLY <3>1, <3>2, <3>3, <3>4, WriteHolds DEF R
  <2>2. HoldsAt(space', Places(at, out'))
    <3>1. CASE used = {}
      BY <1>9, <2>1, <3>1
    <3>2. CASE used # {}
      <4>1. last \in used
        <5>1. \E k \in used : \A j \in used : j <= k
          <6>1. used \subseteq 0 .. Len(ptr)
            BY <1>4
          <6> HIDE DEF used
          <6> QED BY <1>4, <3>2, <6>1, LastOf
        <5> HIDE DEF used
        <5> QED BY <5>1
      <4>2. last \in 1 .. Len(ptr) /\ ptr[last] # Null
        BY <1>4, <4>1
      <4> HIDE DEF last, used, map, e
      <4> QED BY <1>9, <2>1, <3>2, <4>2
    <3> QED BY <3>1, <3>2
  <2>3. tasks' = <<>> => out' # <<>> /\ out'[Len(out')].ptr = root
    <3> DEFINE S == OutSet(R)
    <3>1. out \in Seq(S) /\ Append(out, e) \in Seq(S)
      BY <1>3, <2>1 DEF Written
    <3>2. e.ptr = id
      OBVIOUS
    <3> HIDE DEF S, e
    <3>3. /\ Append(out, e) # <<>> /\ Len(Append(out, e)) = Len(out) + 1
          /\ Append(out, e)[Len(out) + 1] = e
      BY <3>1
    <3> QED BY <1>3, <1>9, <3>2, <3>3
  <2>4. Turning(heap, root, tasks', out')
    <3>1. out \in Seq(OutSet(R)) /\ Append(out, e) \in Seq(OutSet(R))
      BY <1>3, <2>1 DEF Written
    <3>2. e.ptr = id
      OBVIOUS
    <3>3. e \in OutSet(R)
      <4> DEFINE S == OutSet(R)
      <4> HIDE DEF e, S
      <4>1. /\ Append(out, e)[Len(out) + 1] = e /\ Append(out, e) \in Seq(S)
            /\ Len(out) + 1 \in 1 .. Len(Append(out, e))
        BY <3>1 DEF S
      <4> QED BY <4>1 DEF S
    <3> HIDE DEF e
    <3> QED BY <1>9, <1>10, <3>1, <3>2, <3>3
  <2> QED BY <1>3, <1>7, <1>9, <2>1, <2>2, <2>3, <2>4, WritingKeeps DEF R
<1> QED BY <1>7, <1>8, <1>9

(* The writing ends with as many objects written as were counted.          *)
LEMMA GenDoneKeeps == DefsInv /\ GenDone => DefsInv'
<1>1. SUFFICES ASSUME DefsInv, GenDone PROVE DefsInv'
  OBVIOUS
<1>2. /\ LibraryOk /\ SpaceOk /\ UNCHANGED library /\ phase = "writing" /\ tasks = <<>>
      /\ phase' = (IF attrs.ptr_count = space.index THEN "written" ELSE "aborted")
      /\ out' = out /\ space' = space
  BY <1>1 DEF DefsInv, GenDone
<1>3. /\ IsTyped(heap, root) /\ IsValid(heap, root, at) /\ Complete(heap, root, out)
      /\ HoldsAt(space, Places(at, out)) /\ attrs.ptr_count = Cardinality(From(heap, root))
  BY <1>1, <1>2 DEF DefsInv, LibraryOk, WritingOk, Complete
<1>4. LibraryOk' /\ heap' = heap /\ root' = root /\ at' = at
  BY <1>2, SameLibrary
<1>5. phase' = "written"
  <2>1. Len(out) = Cardinality(From(heap, root)) /\ Len(out) \in Nat
    BY <1>3, CompleteIs
  <2>2. Len(Places(at, out)) = Len(out)
    <3> DEFINE f(i) == at[out[i].ptr]
               n == Len(out)
    <3>1. Places(at, out) = [i \in 1 .. n |-> f(i)] /\ n \in Nat
      BY <2>1 DEF Places
    <3> HIDE DEF f, n
    <3>2. Len(Places(at, out)) = n
      BY <3>1
    <3> QED BY <3>2 DEF n
  <2>3. space.index = Len(Places(at, out))
    BY <1>3 DEF HoldsAt
  <2> QED BY <1>2, <1>3, <2>1, <2>2, <2>3
<1>6. SpaceOk' /\ WrittenOk'
  BY <1>2, <1>3, <1>4 DEF SpaceOk, WrittenOk
<1> QED BY <1>4, <1>5, <1>6 DEF DefsInv, ValidatingOk, CountingOk, WritingOk, ValidIsTree,
                                RefusalNamesTheFault, GenDefNeverAborts

(* Wherever the objects of a static library are, each has an address.      *)
LEMMA CompiledIs ==
  ASSUME NEW g, NEW b \in Compiled(g), Len(g) \in Nat
  PROVE  b \in [1 .. Len(g) -> Nat \ {0}]
<1> DEFINE n == Len(g)
<1>1. PICK order \in {[i \in 1 .. n |-> i], [i \in 1 .. n |-> n + 1 - i]} :
        \E share \in [Empties(g) -> 1 .. n] :
          b = [i \in 1 .. n |-> order[IF i \in Empties(g) THEN share[i] ELSE i]]
  <2>1. b \in Compiled(g)
    OBVIOUS
  <2> QED BY ONLY <2>1, SMTT(30) DEF Compiled
<1>2. PICK share \in [Empties(g) -> 1 .. n] :
        b = [i \in 1 .. n |-> order[IF i \in Empties(g) THEN share[i] ELSE i]]
  BY <1>1
<1>3. n \in Nat
  OBVIOUS
<1> HIDE DEF n
<1>4. order \in [1 .. n -> 1 .. n]
  BY <1>1, <1>3
<1>5. \A i \in 1 .. n : (IF i \in Empties(g) THEN share[i] ELSE i) \in 1 .. n
  BY <1>2
<1>6. b \in [1 .. n -> 1 .. n]
  BY <1>2, <1>4, <1>5
<1>7. 1 .. n \subseteq Nat \ {0}
  BY <1>3
<1> QED BY <1>6, <1>7 DEF n

(* The text is compiled and loaded: its objects have the types they say    *)
(* they have.                                                              *)
LEMMA ReloadKeeps == DefsInv /\ Reload => DefsInv'
<1>1. SUFFICES ASSUME DefsInv, Reload PROVE DefsInv'
  OBVIOUS
<1>2. /\ phase = "written" /\ heap' = [i \in DOMAIN out |-> out[i].obj]
      /\ at' \in Compiled(heap') /\ root' = Len(out) /\ origin' = "sobj"
      /\ phase' = "loaded" /\ space' = NewSpace
  BY <1>1 DEF Reload
<1>3. /\ IsTyped(heap, root) /\ IsValid(heap, root, at) /\ Complete(heap, root, out)
  BY <1>1, <1>2 DEF DefsInv, LibraryOk, WrittenOk
<1>4. /\ IsTyped(heap', root') /\ 1 .. Len(heap') \subseteq From(heap', root')
      /\ Len(heap') \in Nat
  BY <1>2, <1>3, ReloadIs
<1>5. at' \in [1 .. Len(heap') -> Nat \ {0}]
  BY <1>2, <1>4, CompiledIs
<1>6. LibraryOk'
  BY <1>2, <1>4, <1>5 DEF LibraryOk, Placed
<1>7. SpaceOk'
  BY <1>2, NewHolds DEF SpaceOk
<1> QED BY <1>2, <1>6, <1>7 DEF DefsInv, ValidatingOk, CountingOk, WritingOk, WrittenOk,
                                ValidIsTree, RefusalNamesTheFault, GenDefNeverAborts

(* Nothing changes.                                                        *)
LEMMA StutterKeeps == DefsInv /\ UNCHANGED defVars => DefsInv'
BY DEF DefsInv, defVars, LibraryOk, SpaceOk, ValidatingOk, CountingOk, WritingOk,
       WrittenOk, ValidIsTree, RefusalNamesTheFault, IsMetTwice, GenDefNeverAborts

(* The invariant holds of every library there may be.                      *)
THEOREM DefsInvHolds == Spec => []DefsInv
<1>1. Init => DefsInv
  BY InitKeeps
<1>2. DefsInv /\ [Next]_defVars => DefsInv'
  BY StartValidateKeeps, ValidateStepKeeps, ValidatedKeeps, StartGenDefKeeps,
     CountStepKeeps, CountedKeeps, GenStepKeeps, WriteStepKeeps, GenDoneKeeps, ReloadKeeps, StutterKeeps DEF Next
<1> QED BY <1>1, <1>2, PTL DEF Spec

(* json_type_def_validate accepts the objects of a library only when they  *)
(* are the tree it needs, refuses none that are one with the types of its  *)
(* tries in the lists around them, and crashes only on an attr that is     *)
(* NULL; for every library, valid or not.                                  *)
THEOREM ValidIsTreeCorrect == Spec => []ValidIsTree
<1>1. DefsInv => ValidIsTree
  BY DEF DefsInv
<1> QED BY <1>1, DefsInvHolds, PTL

(* The pointer in *result of a refusal is one that is wrong, and wrong in  *)
(* the way its field says.                                                 *)
THEOREM RefusalCorrect == Spec => []RefusalNamesTheFault
<1>1. DefsInv => RefusalNamesTheFault
  BY DEF DefsInv
<1> QED BY <1>1, DefsInvHolds, PTL

(* json_type_ptr_space_t finds the pointers inserted in it and no others,  *)
(* and has numbered them from 0 on, whatever order they come in and        *)
(* however often the stamps of the treap have wrapped.                     *)
THEOREM SpaceIsMapCorrect == Spec => []SpaceIsMap
<1>1. DefsInv => SpaceIsMap
  BY HoldsIsMap DEF DefsInv, SpaceOk, SpaceIsMap
<1> QED BY <1>1, DefsInvHolds, PTL

(* The assertions of json_type_def_gen_def hold for every library whose    *)
(* tries are about the types of the lists around them: no object is        *)
(* written twice, what a name is used of has been written, and as many     *)
(* objects are written as were counted.                                    *)
THEOREM GenDefNeverAbortsCorrect == Spec => []GenDefNeverAborts
<1>1. DefsInv => GenDefNeverAborts
  BY DEF DefsInv
<1> QED BY <1>1, DefsInvHolds, PTL

(* The text that json_type_def_gen_def writes, when none of its assertions *)
(* fails, defines each object of the library once and as it is, the root   *)
(* last, with names that are defined before they are used.                 *)
THEOREM WritesWhatItHoldsCorrect == Spec => []WritesWhatItHolds
<1>1. DefsInv => WritesWhatItHolds
  <2>1. SUFFICES ASSUME DefsInv, phase = "written" PROVE WritesWhatItHolds
    BY DEF WritesWhatItHolds
  <2> DEFINE R == From(heap, root)
  <2>2. IsTyped(heap, root) /\ IsValid(heap, root, at) /\ Complete(heap, root, out)
    BY <2>1 DEF DefsInv, LibraryOk, WrittenOk
  <2>3. /\ DOMAIN out = 1 .. Len(out) /\ {out[i].ptr : i \in DOMAIN out} = R
        /\ Len(out) = Cardinality(R)
    BY <2>2, CompleteIs
  <2>4. Written(heap, R, out) /\ out[Len(out)].ptr = root
    BY <2>2 DEF Complete
  <2>5. ASSUME NEW i \in 1 .. Len(out)
        PROVE  LET is == heap[out[i].ptr]
               IN  /\ out[i].obj.kind = is.kind /\ out[i].obj.data = is.data
                   /\ DOMAIN out[i].obj.ptr = DOMAIN is.ptr
                   /\ \A k \in DOMAIN is.ptr :
                        LET name == out[i].obj.ptr[k]
                        IN  IF is.ptr[k] = Null THEN name = Null
                            ELSE name \in 1 .. i - 1 /\ out[name].ptr = is.ptr[k]
    <3> DEFINE is == heap[out[i].ptr]
               f == out[i].obj.ptr
    <3>1. Copies(heap, out, i) /\ out[i] \in OutSet(R)
      BY <2>4, CopyIs DEF Written
    <3>2. out[i].ptr \in 1 .. Len(heap)
      BY <2>2, <2>4, CopyIs, ValidIs
    <3>3. DOMAIN is.ptr = 1 .. Len(is.ptr)
      BY <2>2, <3>2, TypedIs, ObjsFields
    <3>4. f \in Seq(Nat)
      BY <3>1 DEF OutSet
    <3>5. DOMAIN f = 1 .. Len(f)
      <4> HIDE DEF f
      <4> QED BY <3>4
    <3> QED BY <3>1, <3>3, <3>5 DEF Copies
  <2> QED BY <2>3, <2>4, <2>5 DEF WritesWhatItHolds
<1> QED BY <1>1, DefsInvHolds, PTL
==============================================================================
