---------------------------- MODULE JsonAstProofs ----------------------------
(***************************************************************************)
(* Proofs about the tree builder: the ENSUREs with which json-ast.c        *)
(* protects itself against a wrong sequence of calls never end the         *)
(* process, for every limit of the stack and every text.                   *)
(***************************************************************************)
EXTENDS JsonAst, JsonParserProofs

-----------------------------------------------------------------------------
(* What the stack of objects holds, container by container.                *)

(* The objects above the mark of the i-th container, up to the next mark; *)
(* f tells where the marks are.                                           *)
CountOf(objs, nest, f, i) ==
  (IF i = Len(nest) THEN Len(objs) ELSE f[i + 1] - 1) - f[i]

(* A mark for each container that is open, in that order, and nodes. *)
Marked(objs, nest, f) ==
  /\ f \in [1..Len(nest) -> 1..Len(objs)]
  /\ \A i, j \in 1..Len(nest) : i < j => f[i] < f[j]
  /\ \A i \in 1..Len(nest) : objs[f[i]].type = "mark"
  /\ \A k \in 1..Len(objs) :
       (\A i \in 1..Len(nest) : f[i] # k) => IsNode(objs[k])

(* In an object names and values alternate, and a name comes last where a *)
(* value is awaited: p of them are odd in the one on top, and in each of  *)
(* those below it a name awaits the container above.                      *)
Paired(objs, nest, p, f) ==
  \A i \in 1..Len(nest) : nest[i] = "object" =>
    /\ CountOf(objs, nest, f, i) % 2 = IF i = Len(nest) THEN p ELSE 1
    /\ \A k \in 1..CountOf(objs, nest, f, i) :
         k % 2 = 1 => IsString(objs[f[i] + k])

(* The top-level values that are whole. *)
BaseOf(objs, nest, f) == IF nest = <<>> THEN Len(objs) ELSE f[1] - 1

Gathered(objs, nest, p, b) ==
  /\ \E S : objs \in Seq(S)
  /\ nest \in Seq(Events!Container)
  /\ \E f : /\ Marked(objs, nest, f)
            /\ Paired(objs, nest, p, f)
            /\ b = BaseOf(objs, nest, f)

-----------------------------------------------------------------------------
(* Sequences that are not all of one type known beforehand.                *)

LEMMA AppendAny ==
  ASSUME NEW s, NEW x, \E S : s \in Seq(S)
  PROVE  /\ \E S : Append(s, x) \in Seq(S)
         /\ Len(Append(s, x)) = Len(s) + 1
         /\ \A i \in 1..Len(s) : Append(s, x)[i] = s[i]
         /\ Append(s, x)[Len(s) + 1] = x
<1>1. PICK S : s \in Seq(S)
  OBVIOUS
<1> DEFINE T == S \cup {x}
<1>2. s \in Seq(T) /\ x \in T
  <2>1. /\ Len(s) \in Nat /\ DOMAIN s = 1..Len(s)
        /\ s \in [1..Len(s) -> S]
    BY <1>1, LenProperties
  <2>2. s \in [1..Len(s) -> T]
    BY <2>1
  <2> QED
    BY <2>1, <2>2, IsASeq
<1> HIDE DEF T
<1> QED
  BY <1>2, AppendProperties

LEMMA LenAny ==
  ASSUME NEW s, \E S : s \in Seq(S)
  PROVE  /\ Len(s) \in Nat
         /\ s = <<>> <=> Len(s) = 0
<1>1. PICK S : s \in Seq(S)
  OBVIOUS
<1> QED
  BY <1>1, LenProperties, EmptySeq

(* One node more, in the container on top or at the top level. *)
LEMMA NodePushed ==
  ASSUME NEW objs, NEW nest, NEW p \in {0, 1}, NEW q \in {0, 1}, NEW b,
         NEW o, IsNode(o),
         Gathered(objs, nest, p, b),
         nest # <<>> /\ nest[Len(nest)] = "object" =>
           q = 1 - p /\ (q = 1 => IsString(o))
  PROVE  Gathered(Append(objs, o), nest, q, IF nest = <<>> THEN b + 1 ELSE b)
<1> DEFINE d == Len(nest)
           n == Len(objs)
           a == Append(objs, o)
<1>1. PICK f : /\ Marked(objs, nest, f)
               /\ Paired(objs, nest, p, f)
               /\ b = BaseOf(objs, nest, f)
  BY DEF Gathered
<1>2. /\ d \in Nat /\ n \in Nat
      /\ nest = <<>> <=> d = 0
  BY LenAny DEF Gathered
<1>3. /\ \E S : a \in Seq(S)
      /\ Len(a) = n + 1
      /\ \A i \in 1..n : a[i] = objs[i]
      /\ a[n + 1] = o
  BY AppendAny DEF Gathered
<1>4. /\ f \in [1..d -> 1..n]
      /\ \A i, j \in 1..d : i < j => f[i] < f[j]
      /\ \A i \in 1..d : objs[f[i]].type = "mark"
      /\ \A k \in 1..n : (\A i \in 1..d : f[i] # k) => IsNode(objs[k])
  BY <1>1 DEF Marked
<1>5. Marked(a, nest, f)
  <2> SUFFICES /\ f \in [1..d -> 1..Len(a)]
               /\ \A i, j \in 1..d : i < j => f[i] < f[j]
               /\ \A i \in 1..d : a[f[i]].type = "mark"
               /\ \A k \in 1..Len(a) : (\A i \in 1..d : f[i] # k) => IsNode(a[k])
    BY DEF Marked
  <2> HIDE DEF d, n, a
  <2>1. f \in [1..d -> 1..Len(a)]
    BY <1>2, <1>3, <1>4
  <2>2. ASSUME NEW i \in 1..d PROVE a[f[i]].type = "mark"
    BY <1>3, <1>4
  <2>3. ASSUME NEW k \in 1..Len(a), \A i \in 1..d : f[i] # k
        PROVE  IsNode(a[k])
    <3>1. CASE k = n + 1
      BY <1>3, <3>1
    <3>2. CASE k # n + 1
      <4>1. k \in 1..n
        BY <1>2, <1>3, <3>2
      <4> QED
        BY <1>3, <1>4, <2>3, <4>1
    <3> QED
      BY <3>1, <3>2
  <2> QED
    BY <1>4, <2>1, <2>2, <2>3
<1>6. Paired(a, nest, q, f)
  <2> SUFFICES ASSUME NEW i \in 1..d, nest[i] = "object"
               PROVE  /\ CountOf(a, nest, f, i) % 2 = IF i = d THEN q ELSE 1
                      /\ \A k \in 1..CountOf(a, nest, f, i) :
                           k % 2 = 1 => IsString(a[f[i] + k])
    BY DEF Paired
  <2> DEFINE c == CountOf(objs, nest, f, i)
  <2>1. /\ c % 2 = IF i = d THEN p ELSE 1
        /\ \A k \in 1..c : k % 2 = 1 => IsString(objs[f[i] + k])
    BY <1>1 DEF Paired
  <2>2. /\ c = (IF i = d THEN n ELSE f[i + 1] - 1) - f[i]
        /\ CountOf(a, nest, f, i) = (IF i = d THEN n + 1 ELSE f[i + 1] - 1) - f[i]
    BY <1>3 DEF CountOf
  <2>3. f[i] \in 1..n /\ (i # d => f[i + 1] \in 1..n /\ f[i] < f[i + 1])
    <3> HIDE DEF n, d
    <3>1. i # d => i + 1 \in 1..d /\ i < i + 1
      BY <1>2
    <3> QED
      BY <1>4, <3>1
  <2>4. CASE i # d
    <3>1. CountOf(a, nest, f, i) = c
      BY <2>2, <2>4
    <3>2. ASSUME NEW k \in 1..c PROVE a[f[i] + k] = objs[f[i] + k]
      <4>1. f[i] + k \in 1..n
        <5> HIDE DEF n, d, c
        <5> QED BY <1>2, <2>2, <2>3, <2>4
      <4> QED
        BY <1>3, <4>1
    <3> HIDE DEF c, a
    <3> QED
      BY <2>1, <2>4, <3>1, <3>2
  <2>5. CASE i = d
    <3>1. /\ CountOf(a, nest, f, i) = c + 1
          /\ c \in Nat
          /\ f[i] + (c + 1) = n + 1
      <4> HIDE DEF n, d, c
      <4> QED BY <1>2, <2>2, <2>3, <2>5
    <3>2. q = 1 - p /\ (q = 1 => IsString(o))
      BY <1>2, <2>5
    <3>3. c % 2 = p
      BY <2>1, <2>5
    <3>4. (c + 1) % 2 = q
      <4> HIDE DEF c
      <4> QED BY <3>1, <3>2, <3>3
    <3>5. ASSUME NEW k \in 1..(c + 1), k % 2 = 1
          PROVE  IsString(a[f[i] + k])
      <4>1. CASE k = c + 1
        <5>1. q = 1
          BY <3>4, <3>5, <4>1
        <5> QED
          BY <1>3, <3>1, <3>2, <4>1, <5>1
      <4>2. CASE k # c + 1
        <5>1. k \in 1..c
          <6> HIDE DEF c
          <6> QED BY <3>1, <4>2
        <5>2. f[i] + k \in 1..n
          <6> HIDE DEF c, n
          <6> QED BY <1>2, <2>3, <3>1, <5>1
        <5> QED
          BY <1>3, <2>1, <3>5, <5>1, <5>2
      <4> QED
        BY <4>1, <4>2
    <3> HIDE DEF c, a
    <3> QED
      BY <2>5, <3>1, <3>4, <3>5
  <2> QED
    BY <2>4, <2>5
<1>7. (IF nest = <<>> THEN b + 1 ELSE b) = BaseOf(a, nest, f)
  BY <1>1, <1>3 DEF BaseOf
<1> QED
  BY <1>3, <1>5, <1>6, <1>7 DEF Gathered

(* A container begins, at the top level or where a value is awaited. *)
LEMMA MarkPushed ==
  ASSUME NEW objs, NEW nest, NEW p \in {0, 1}, NEW b,
         NEW o, o.type = "mark", NEW kind \in Events!Container,
         Gathered(objs, nest, p, b),
         nest # <<>> /\ nest[Len(nest)] = "object" => p = 1
  PROVE  Gathered(Append(objs, o), Append(nest, kind), 0, b)
<1> DEFINE d  == Len(nest)
           n  == Len(objs)
           a  == Append(objs, o)
           ns == Append(nest, kind)
<1>1. PICK f : /\ Marked(objs, nest, f)
               /\ Paired(objs, nest, p, f)
               /\ b = BaseOf(objs, nest, f)
  BY DEF Gathered
<1>2. /\ d \in Nat /\ n \in Nat
      /\ nest = <<>> <=> d = 0
  BY LenAny DEF Gathered
<1>3. /\ \E S : a \in Seq(S)
      /\ Len(a) = n + 1
      /\ \A i \in 1..n : a[i] = objs[i]
      /\ a[n + 1] = o
  BY AppendAny DEF Gathered
<1>4. /\ ns \in Seq(Events!Container) /\ ns # <<>>
      /\ Len(ns) = d + 1
      /\ \A i \in 1..d : ns[i] = nest[i]
      /\ ns[d + 1] = kind
  BY AppendProperties DEF Gathered
<1>5. /\ f \in [1..d -> 1..n]
      /\ \A i, j \in 1..d : i < j => f[i] < f[j]
      /\ \A i \in 1..d : objs[f[i]].type = "mark"
      /\ \A k \in 1..n : (\A i \in 1..d : f[i] # k) => IsNode(objs[k])
  BY <1>1 DEF Marked
<1> DEFINE g == [i \in 1..(d + 1) |-> IF i = d + 1 THEN n + 1 ELSE f[i]]
<1>6. /\ g \in [1..(d + 1) -> 1..(n + 1)]
      /\ g[d + 1] = n + 1
      /\ \A i \in 1..d : g[i] = f[i] /\ g[i] \in 1..n
  <2>1. /\ d + 1 \in 1..(d + 1) /\ n + 1 \in 1..(n + 1)
        /\ \A i \in 1..d : i # d + 1 /\ i \in 1..(d + 1)
        /\ \A i \in 1..(d + 1) : i # d + 1 => i \in 1..d
        /\ \A k \in 1..n : k \in 1..(n + 1)
    <3> HIDE DEF d, n
    <3> QED BY <1>2
  <2> HIDE DEF d, n
  <2> QED
    BY <1>5, <2>1
<1>7. Marked(a, ns, g)
  <2> SUFFICES /\ g \in [1..(d + 1) -> 1..(n + 1)]
               /\ \A i, j \in 1..(d + 1) : i < j => g[i] < g[j]
               /\ \A i \in 1..(d + 1) : a[g[i]].type = "mark"
               /\ \A k \in 1..(n + 1) :
                    (\A i \in 1..(d + 1) : g[i] # k) => IsNode(a[k])
    BY <1>3, <1>4 DEF Marked
  <2> HIDE DEF d, n, a, ns, g
  <2>1. ASSUME NEW i \in 1..(d + 1), NEW j \in 1..(d + 1), i < j
        PROVE  g[i] < g[j]
    <3>1. i \in 1..d
      BY <1>2, <2>1
    <3>2. CASE j = d + 1
      BY <1>2, <1>6, <3>1, <3>2
    <3>3. CASE j # d + 1
      <4>1. j \in 1..d
        BY <1>2, <3>3
      <4> QED
        BY <1>5, <1>6, <2>1, <3>1, <4>1
    <3> QED
      BY <3>2, <3>3
  <2>2. ASSUME NEW i \in 1..(d + 1)
        PROVE  a[g[i]].type = "mark"
    <3>1. CASE i = d + 1
      BY <1>3, <1>6, <3>1
    <3>2. CASE i # d + 1
      <4>1. i \in 1..d
        BY <1>2, <3>2
      <4> QED
        BY <1>3, <1>5, <1>6, <4>1
    <3> QED
      BY <3>1, <3>2
  <2>3. ASSUME NEW k \in 1..(n + 1), \A i \in 1..(d + 1) : g[i] # k
        PROVE  IsNode(a[k])
    <3>1. d + 1 \in 1..(d + 1) /\ \A i \in 1..d : i \in 1..(d + 1)
      BY <1>2
    <3>2. k # n + 1
      BY <1>6, <2>3, <3>1
    <3>3. k \in 1..n
      BY <1>2, <3>2
    <3>4. \A i \in 1..d : f[i] # k
      BY <1>6, <2>3, <3>1
    <3> QED
      BY <1>3, <1>5, <3>3, <3>4
  <2> QED
    BY <1>6, <2>1, <2>2, <2>3
<1>8. Paired(a, ns, 0, g)
  <2> SUFFICES ASSUME NEW i \in 1..(d + 1), ns[i] = "object"
               PROVE  /\ CountOf(a, ns, g, i) % 2 = IF i = d + 1 THEN 0 ELSE 1
                      /\ \A k \in 1..CountOf(a, ns, g, i) :
                           k % 2 = 1 => IsString(a[g[i] + k])
    BY <1>4 DEF Paired
  <2> DEFINE c == CountOf(a, ns, g, i)
  <2>1. c = (IF i = d + 1 THEN n + 1 ELSE g[i + 1] - 1) - g[i]
    BY <1>3, <1>4 DEF CountOf
  <2>2. CASE i = d + 1
    <3>1. c = 0
      <4> HIDE DEF c, g, n, d
      <4> QED BY <1>2, <1>6, <2>1, <2>2
    <3>2. 0 % 2 = 0 /\ 1..0 = {}
      OBVIOUS
    <3> QED
      BY <2>2, <3>1, <3>2
  <2>3. CASE i # d + 1
    <3>1. i \in 1..d
      <4> HIDE DEF d
      <4> QED BY <1>2, <2>3
    <3>2. CountOf(objs, nest, f, i) = (IF i = d THEN n ELSE f[i + 1] - 1) - f[i]
      BY DEF CountOf
    <3>3. f[i] \in 1..n /\ g[i] = f[i] /\ (i # d => g[i + 1] = f[i + 1])
      <4> HIDE DEF d, n, g
      <4>1. i # d => i + 1 \in 1..d
        BY <1>2, <3>1
      <4> QED
        BY <1>5, <1>6, <3>1, <4>1
    <3>4. c = CountOf(objs, nest, f, i)
      <4> HIDE DEF d, n, g, c
      <4>1. CASE i = d
        BY <1>2, <1>6, <2>1, <2>3, <3>2, <3>3, <4>1
      <4>2. CASE i # d
        BY <1>2, <2>1, <2>3, <3>2, <3>3, <4>2
      <4> QED
        BY <4>1, <4>2
    <3>5. /\ CountOf(objs, nest, f, i) % 2 = IF i = d THEN p ELSE 1
          /\ \A k \in 1..CountOf(objs, nest, f, i) :
               k % 2 = 1 => IsString(objs[f[i] + k])
      BY <1>1, <1>4, <3>1 DEF Paired
    <3>6. i = d => p = 1
      BY <1>2, <1>4, <3>1
    <3>7. ASSUME NEW k \in 1..c PROVE a[g[i] + k] = objs[f[i] + k]
      <4>1. f[i] + k \in 1..n
        <5>1. i # d => f[i + 1] \in 1..n
          <6> HIDE DEF d, n
          <6>1. i # d => i + 1 \in 1..d
            BY <1>2, <3>1
          <6> QED
            BY <1>5, <6>1
        <5>2. PICK y \in Nat : y = IF i = d THEN n + 1 ELSE f[i + 1]
          BY <1>2, <5>1
        <5> HIDE DEF d, n, c
        <5>3. y <= n + 1 /\ c = (y - 1) - f[i] /\ f[i] \in Nat /\ f[i] >= 1
          BY <1>2, <3>2, <3>3, <3>4, <5>1, <5>2
        <5>4. k \in Int /\ k >= 1 /\ k <= c
          BY <5>2, <5>3
        <5>5. PICK x \in Nat : x = f[i]
          BY <5>3
        <5>6. x >= 1 /\ k <= (y - 1) - x /\ y <= n + 1 /\ n \in Nat
          BY <1>2, <5>3, <5>4, <5>5
        <5>7. x + k \in 1..n
          BY <5>4, <5>6
        <5> QED BY <5>5, <5>7
      <4> QED
        BY <1>3, <3>3, <4>1
    <3>8. c % 2 = 1
      BY <3>4, <3>5, <3>6
    <3>9. ASSUME NEW k \in 1..c, k % 2 = 1 PROVE IsString(a[g[i] + k])
      <4>1. IsString(objs[f[i] + k])
        BY <3>4, <3>5, <3>9
      <4>2. a[g[i] + k] = objs[f[i] + k]
        BY <3>7
      <4> QED
        BY <4>1, <4>2
    <3> HIDE DEF a, g
    <3> QED
      BY <2>3, <3>8, <3>9
  <2> QED
    BY <2>2, <2>3
<1>9. b = BaseOf(a, ns, g)
  <2>1. b = IF d = 0 THEN n ELSE f[1] - 1
    BY <1>1, <1>2 DEF BaseOf
  <2>2. BaseOf(a, ns, g) = g[1] - 1
    BY <1>4 DEF BaseOf
  <2> HIDE DEF d, n, g
  <2>3. CASE d = 0
    BY <1>2, <1>6, <2>1, <2>2, <2>3
  <2>4. CASE d # 0
    <3>1. 1 \in 1..d
      BY <1>2, <2>4
    <3> QED
      BY <1>6, <2>1, <2>2, <2>4, <3>1
  <2> QED
    BY <2>3, <2>4
<1> HIDE DEF g
<1> QED
  BY <1>3, <1>4, <1>7, <1>8, <1>9 DEF Gathered

(* The part of a sequence below position m. *)
LEMMA BelowAny ==
  ASSUME NEW s, \E S : s \in Seq(S), NEW m \in 1..(Len(s) + 1)
  PROVE  /\ \E S : SubSeq(s, 1, m - 1) \in Seq(S)
         /\ Len(SubSeq(s, 1, m - 1)) = m - 1
         /\ \A i \in 1..(m - 1) : SubSeq(s, 1, m - 1)[i] = s[i]
<1>1. PICK S : s \in Seq(S)
  OBVIOUS
<1> DEFINE k == m - 1
           n == Len(s)
<1>2. n \in Nat /\ k \in 0..n
  BY <1>1, LenProperties
<1>3. \A i \in 1..k : s[i] \in S
  <2>1. \A i \in 1..k : i \in 1..n
    <3> HIDE DEF k, n
    <3> QED BY <1>2
  <2> QED
    BY <1>1, <2>1, ElementOfSeq
<1>4. /\ SubSeq(s, 1, k) \in Seq(S)
      /\ Len(SubSeq(s, 1, k)) = IF 1 <= k THEN k - 1 + 1 ELSE 0
      /\ \A i \in 1..(k - 1 + 1) : SubSeq(s, 1, k)[i] = s[1 + i - 1]
  <2>1. 1 \in Int /\ k \in Int
    BY <1>2
  <2> HIDE DEF k
  <2> QED
    BY <1>3, <2>1, SubSeqProperties
<1>5. k - 1 + 1 = k /\ \A i \in 1..k : 1 + i - 1 = i
  <2> HIDE DEF k
  <2> QED BY <1>2
<1>6. Len(SubSeq(s, 1, k)) = k
  <2> HIDE DEF k
  <2> QED BY <1>2, <1>4
<1> QED
  BY <1>4, <1>5, <1>6

(* The container on top ends: what is above its mark are its nodes, and    *)
(* what is below is gathered as before, with a value awaited.              *)
LEMMA MarkDropped ==
  ASSUME NEW objs, NEW nest, NEW p \in {0, 1}, NEW b,
         Gathered(objs, nest, p, b), nest # <<>>
  PROVE  \E m \in 1..Len(objs) :
           /\ objs[m].type = "mark"
           /\ \A k \in 1..Len(objs) : m < k => IsNode(objs[k])
           /\ nest[Len(nest)] = "object" =>
                /\ (Len(objs) - m) % 2 = p
                /\ \A k \in 1..(Len(objs) - m) :
                     k % 2 = 1 => IsString(objs[m + k])
           /\ Gathered(SubSeq(objs, 1, m - 1),
                       SubSeq(nest, 1, Len(nest) - 1), 1, b)
<1> DEFINE d  == Len(nest)
           n  == Len(objs)
<1>1. PICK f : /\ Marked(objs, nest, f)
               /\ Paired(objs, nest, p, f)
               /\ b = BaseOf(objs, nest, f)
  BY DEF Gathered
<1>2. d \in Nat \ {0} /\ n \in Nat
  BY LenAny DEF Gathered
<1>3. /\ f \in [1..d -> 1..n]
      /\ \A i, j \in 1..d : i < j => f[i] < f[j]
      /\ \A i \in 1..d : objs[f[i]].type = "mark"
      /\ \A k \in 1..n : (\A i \in 1..d : f[i] # k) => IsNode(objs[k])
  BY <1>1 DEF Marked
<1> DEFINE m  == f[d]
           a  == SubSeq(objs, 1, m - 1)
           ns == SubSeq(nest, 1, d - 1)
           g  == [i \in 1..(d - 1) |-> f[i]]
<1>4. d \in 1..d /\ d - 1 \in Nat
  <2> HIDE DEF d
  <2> QED BY <1>2
<1>5. m \in 1..n /\ m \in 1..(n + 1) /\ objs[m].type = "mark"
  <2>1. m \in 1..n /\ objs[m].type = "mark"
    <3> HIDE DEF d, n
    <3> QED BY <1>3, <1>4
  <2> HIDE DEF n, m
  <2> QED
    BY <1>2, <2>1
<1>6. /\ \E S : a \in Seq(S)
      /\ Len(a) = m - 1
      /\ \A i \in 1..(m - 1) : a[i] = objs[i]
  <2> HIDE DEF m
  <2> QED BY <1>5, BelowAny DEF Gathered
<1>7. /\ ns \in Seq(Events!Container)
      /\ Len(ns) = d - 1
      /\ \A i \in 1..(d - 1) : ns[i] = nest[i]
  <2>1. nest \in Seq(Events!Container)
    BY DEF Gathered
  <2> DEFINE e == d - 1
  <2>2. 1 \in Int /\ e \in Int /\ \A i \in 1..e : nest[i] \in Events!Container
    <3>1. e \in Int /\ \A i \in 1..e : i \in 1..d
      <4> HIDE DEF d
      <4> QED BY <1>2
    <3> HIDE DEF e
    <3> QED
      BY <2>1, <3>1, ElementOfSeq
  <2>3. /\ SubSeq(nest, 1, e) \in Seq(Events!Container)
        /\ Len(SubSeq(nest, 1, e)) = IF 1 <= e THEN e - 1 + 1 ELSE 0
        /\ \A i \in 1..(e - 1 + 1) : SubSeq(nest, 1, e)[i] = nest[1 + i - 1]
    <3> HIDE DEF e
    <3> QED BY <2>2, SubSeqProperties
  <2>4. e \in Nat /\ e - 1 + 1 = e /\ \A i \in 1..e : 1 + i - 1 = i
    <3>1. e \in Nat
      BY <1>4
    <3> HIDE DEF e
    <3> QED BY <3>1
  <2>5. Len(SubSeq(nest, 1, e)) = e
    <3> HIDE DEF e
    <3> QED BY <2>3, <2>4
  <2> QED
    BY <2>3, <2>4, <2>5
<1>8. ASSUME NEW k \in 1..n, m < k
      PROVE  IsNode(objs[k])
  <2>1. ASSUME NEW i \in 1..d PROVE f[i] # k
    <3>1. i = d \/ i < d
      <4> HIDE DEF d
      <4> QED BY <1>2
    <3>2. i < d => f[i] < m
      BY <1>3, <1>4
    <3>3. f[i] \in Int /\ m \in Int
      <4> HIDE DEF d, n
      <4> QED BY <1>2, <1>3, <1>4
    <3>4. i = d => f[i] = m
      OBVIOUS
    <3> HIDE DEF d, m, n
    <3> QED
      BY <1>8, <3>1, <3>2, <3>3, <3>4
  <2> HIDE DEF d, m, n
  <2> QED
    BY <1>3, <2>1
<1>9. ASSUME nest[d] = "object"
      PROVE  /\ (n - m) % 2 = p
             /\ \A k \in 1..(n - m) : k % 2 = 1 => IsString(objs[m + k])
  <2>1. CountOf(objs, nest, f, d) = n - m
    BY DEF CountOf
  <2>2. /\ CountOf(objs, nest, f, d) % 2 = p
        /\ \A k \in 1..CountOf(objs, nest, f, d) :
             k % 2 = 1 => IsString(objs[f[d] + k])
    BY <1>1, <1>4, <1>9 DEF Paired
  <2> QED
    BY <2>1, <2>2
<1>10. /\ g \in [1..(d - 1) -> 1..(m - 1)]
       /\ \A i \in 1..(d - 1) : i \in 1..d /\ g[i] = f[i]
  <2>1. \A i \in 1..(d - 1) : i \in 1..d /\ i < d
    <3> HIDE DEF d
    <3> QED BY <1>2
  <2>2. ASSUME NEW i \in 1..(d - 1) PROVE f[i] \in 1..(m - 1)
    <3>1. f[i] \in 1..n /\ f[i] < m
      BY <1>3, <1>4, <2>1
    <3> HIDE DEF m, n, d
    <3> QED BY <1>5, <3>1
  <2> HIDE DEF m, d
  <2> QED
    BY <2>1, <2>2
<1>11. Marked(a, ns, g)
  <2> SUFFICES /\ g \in [1..(d - 1) -> 1..(m - 1)]
               /\ \A i, j \in 1..(d - 1) : i < j => g[i] < g[j]
               /\ \A i \in 1..(d - 1) : a[g[i]].type = "mark"
               /\ \A k \in 1..(m - 1) :
                    (\A i \in 1..(d - 1) : g[i] # k) => IsNode(a[k])
    BY <1>6, <1>7 DEF Marked
  <2> HIDE DEF a, ns, g
  <2>1. \A i, j \in 1..(d - 1) : i < j => g[i] < g[j]
    BY <1>3, <1>10
  <2>2. ASSUME NEW i \in 1..(d - 1) PROVE a[g[i]].type = "mark"
    <3>1. g[i] \in 1..(m - 1) /\ g[i] = f[i] /\ i \in 1..d
      BY <1>10
    <3>2. objs[f[i]].type = "mark"
      BY <1>3, <3>1
    <3> QED
      BY <1>6, <3>1, <3>2
  <2>3. ASSUME NEW k \in 1..(m - 1), \A i \in 1..(d - 1) : g[i] # k
        PROVE  IsNode(a[k])
    <3>1. k \in 1..n /\ k # m
      <4> HIDE DEF m, n
      <4> QED BY <1>2, <1>5
    <3>2. ASSUME NEW i \in 1..d PROVE f[i] # k
      <4>1. CASE i = d
        BY <3>1, <4>1
      <4>2. CASE i # d
        <5>1. i \in 1..(d - 1)
          <6> HIDE DEF d
          <6> QED BY <1>2, <4>2
        <5> QED
          BY <1>10, <2>3, <5>1
      <4> QED
        BY <4>1, <4>2
    <3> QED
      BY <1>3, <1>6, <3>1, <3>2
  <2> QED
    BY <1>10, <2>1, <2>2, <2>3
<1>12. Paired(a, ns, 1, g)
  <2> SUFFICES ASSUME NEW i \in 1..(d - 1), ns[i] = "object"
               PROVE  /\ CountOf(a, ns, g, i) % 2 = 1
                      /\ \A k \in 1..CountOf(a, ns, g, i) :
                           k % 2 = 1 => IsString(a[g[i] + k])
    BY <1>7 DEF Paired
  <2> DEFINE c == CountOf(a, ns, g, i)
  <2>1. c = (IF i = d - 1 THEN m - 1 ELSE g[i + 1] - 1) - g[i]
    BY <1>6, <1>7 DEF CountOf
  <2>2. CountOf(objs, nest, f, i) = (IF i = d THEN n ELSE f[i + 1] - 1) - f[i]
    BY DEF CountOf
  <2>3. /\ i \in 1..d /\ i # d /\ i + 1 \in 1..d
        /\ i = d - 1 <=> i + 1 = d
        /\ i # d - 1 => i + 1 \in 1..(d - 1)
    <3> HIDE DEF d
    <3> QED BY <1>2
  <2>4. c = CountOf(objs, nest, f, i)
    <3>1. CASE i = d - 1
      <4>1. f[i + 1] = m
        BY <2>3, <3>1
      <4>2. g[i] = f[i]
        BY <1>10
      <4> HIDE DEF m, n, g, c
      <4> QED
        BY <2>1, <2>2, <2>3, <3>1, <4>1, <4>2
    <3>2. CASE i # d - 1
      BY <1>10, <2>1, <2>2, <2>3, <3>2
    <3> QED
      BY <3>1, <3>2
  <2>5. nest[i] = "object"
    BY <1>7
  <2>6. /\ c % 2 = 1
        /\ \A k \in 1..c : k % 2 = 1 => IsString(objs[f[i] + k])
    BY <1>1, <2>3, <2>4, <2>5 DEF Paired
  <2>7. ASSUME NEW k \in 1..c, k % 2 = 1 PROVE IsString(a[g[i] + k])
    <3>1. f[i] + k \in 1..(m - 1)
      <4>1. c = f[i + 1] - 1 - f[i]
        BY <2>2, <2>3, <2>4
      <4>2. f[i] \in 1..n /\ f[i + 1] \in 1..n
        <5> HIDE DEF d, n
        <5> QED BY <1>3, <2>3
      <4>3. f[i + 1] < m \/ f[i + 1] = m
        <5>1. i + 1 = d \/ i + 1 < d
          <6> HIDE DEF d
          <6> QED BY <1>2, <2>3
        <5> QED
          BY <1>3, <1>4, <2>3, <5>1
      <4>4. m \in Int /\ f[i] \in Nat \ {0} /\ f[i + 1] \in Int /\ k \in 1..c
        <5> HIDE DEF c, m, n
        <5> QED BY <1>2, <1>5, <4>2
      <4> HIDE DEF c, m, n
      <4>5. f[i] + k <= f[i + 1] - 1 /\ f[i] + k \in Nat \ {0}
        BY <4>1, <4>4
      <4> QED
        BY <4>3, <4>4, <4>5
    <3>2. g[i] = f[i]
      BY <1>10
    <3>3. IsString(objs[f[i] + k])
      BY <2>6, <2>7
    <3> HIDE DEF a, g, m, c
    <3> QED
      BY <1>6, <3>1, <3>2, <3>3
  <2> QED
    BY <2>6, <2>7
<1>13. b = BaseOf(a, ns, g)
  <2>1. b = f[1] - 1
    BY <1>1 DEF BaseOf
  <2>2. ns = <<>> <=> d - 1 = 0
    <3> HIDE DEF d, ns
    <3> QED BY <1>2, <1>7, EmptySeq
  <2>3. BaseOf(a, ns, g) = IF ns = <<>> THEN m - 1 ELSE g[1] - 1
    BY <1>6 DEF BaseOf
  <2>4. CASE d - 1 = 0
    <3>1. d = 1
      <4> HIDE DEF d
      <4> QED BY <1>2, <2>4
    <3> HIDE DEF ns, g, a
    <3> QED
      BY <2>1, <2>2, <2>3, <2>4, <3>1
  <2>5. CASE d - 1 # 0
    <3>1. 1 \in 1..(d - 1)
      <4> HIDE DEF d
      <4> QED BY <1>2, <2>5
    <3> QED
      BY <1>10, <2>1, <2>2, <2>3, <2>5, <3>1
  <2> QED
    BY <2>4, <2>5
<1>14. Gathered(a, ns, 1, b)
  <2> HIDE DEF a, ns, g
  <2> QED BY <1>6, <1>7, <1>11, <1>12, <1>13 DEF Gathered
<1> HIDE DEF g
<1> QED
  BY <1>5, <1>8, <1>9, <1>14

(* Outside of an object nothing is paired. *)
LEMMA ParityFree ==
  ASSUME NEW objs, NEW nest, NEW p, NEW q, NEW b,
         Gathered(objs, nest, p, b),
         nest # <<>> => nest[Len(nest)] # "object"
  PROVE  Gathered(objs, nest, q, b)
<1>1. PICK f : /\ Marked(objs, nest, f)
               /\ Paired(objs, nest, p, f)
               /\ b = BaseOf(objs, nest, f)
  BY DEF Gathered
<1>2. \A i \in 1..Len(nest) : nest # <<>>
  <2> DEFINE d == Len(nest)
  <2>1. d \in Nat /\ (nest = <<>> <=> d = 0)
    BY LenAny DEF Gathered
  <2> HIDE DEF d
  <2>2. \A i \in 1..d : nest # <<>>
    BY <2>1
  <2> QED
    BY <2>2 DEF d
<1>3. Paired(objs, nest, q, f)
  BY <1>1, <1>2 DEF Paired
<1> QED
  BY <1>1, <1>3 DEF Gathered

(* At the top level there are values only, and b is their number. *)
LEMMA TopLevel ==
  ASSUME NEW objs, NEW p, NEW b, Gathered(objs, <<>>, p, b)
  PROVE  AllNodes(objs) /\ b = Len(objs)
<1>1. PICK f : Marked(objs, <<>>, f) /\ b = BaseOf(objs, <<>>, f)
  BY DEF Gathered
<1>2. PICK S : objs \in Seq(S)
  BY DEF Gathered
<1>3. DOMAIN objs = 1..Len(objs)
  BY <1>2, LenProperties
<1>4. \A i \in 1..Len(<<>>) : FALSE
  OBVIOUS
<1>5. \A k \in 1..Len(objs) : IsNode(objs[k])
  BY <1>1, <1>4 DEF Marked
<1> QED
  BY <1>1, <1>3, <1>5 DEF AllNodes, BaseOf

(* Nothing has been built. *)
LEMMA NothingYet ==
  ASSUME NEW p
  PROVE  Gathered(<<>>, <<>>, p, 0)
<1> DEFINE f == [i \in 1..0 |-> 0]
<1>1. Marked(<<>>, <<>>, f)
  <2>1. \A i \in 1..0 : FALSE
    OBVIOUS
  <2>2. f \in [1..0 -> 1..0]
    BY <2>1
  <2>3. Len(<<>>) = 0
    OBVIOUS
  <2> HIDE DEF f
  <2> QED
    BY <2>1, <2>2, <2>3 DEF Marked
<1>2. Paired(<<>>, <<>>, p, f)
  <2>1. \A i \in 1..Len(<<>>) : FALSE
    OBVIOUS
  <2> QED
    BY <2>1 DEF Paired
<1>3. 0 = BaseOf(<<>>, <<>>, f)
  BY DEF BaseOf
<1>4. <<>> \in Seq({}) /\ <<>> \in Seq(Events!Container)
  OBVIOUS
<1> HIDE DEF f
<1> QED
  BY <1>1, <1>2, <1>3, <1>4 DEF Gathered

-----------------------------------------------------------------------------
(* The inductive invariant.                                                *)

(* A name awaits its value, or a value is about to come. *)
Expecting(st) ==
  IF st = <<>> THEN 0
  ELSE IF st[Len(st)] \in {"value", "object_key"} THEN 1 ELSE 0

(* The counter of json.c is zero as long as there is no value, whole or    *)
(* begun, and without allow_multi_objects there is one at most.            *)
Counted(b) ==
  stat = "ok" /\ ~done =>
    LET c == b + (IF Len(stack) > 1 THEN 1 ELSE 0)
    IN  /\ nValues = 0 <=> c = 0
        /\ ~MultiNow => c <= 1

(***************************************************************************)
(* Built: what is on the stack of objects is what the containers that are  *)
(* open, as the parser's own stack tells them, have been given so far.     *)
(***************************************************************************)
Built ==
  \E b \in Nat : /\ Gathered(objStack, NestOf(stack), Expecting(stack), b)
                 /\ Counted(b)

AstInv ==
  /\ IInv /\ FirstValue
  /\ AstNeverFails
  /\ fault = "none" /\ pc # "aborted" =>
       /\ Built
       /\ stack # <<>> /\ Top = "done" => done

(* What a step of the tree builder has to do to keep the invariant. *)
Kept == fault' = "none" /\ pc' # "aborted" =>
          Built' /\ (stack' # <<>> /\ Top' = "done" => done')

(***************************************************************************)
(* A value is whole, and goes where the parser's stack, popped, awaits it. *)
(***************************************************************************)
LEMMA ValueDone ==
  ASSUME Ready(stack), Top # "start",
         NEW objs, NEW b \in Nat, NEW o, IsNode(o),
         Gathered(objs, NestOf(Pop(stack)), 1, b),
         IF NestOf(Pop(stack)) = <<>>
         THEN Pop(stack)[Len(Pop(stack))] = "start"
         ELSE Pop(stack)[Len(Pop(stack))] \in Inner,
         Counted(b),
         stack' = Pop(stack), objStack' = Append(objs, o),
         UNCHANGED <<nValues, stat, done, currentConf>>
  PROVE  Built' /\ Top' # "done"
<1> DEFINE nest == NestOf(Pop(stack))
           n    == Len(stack)
<1>1. Ready(Pop(stack)) /\ n \in Nat /\ n > 1 /\ Len(Pop(stack)) = n - 1
  BY ReadyPop, ReadyBottom, PopLemma DEF Ready, Top
<1>2. Len(Pop(stack)) = 1 <=> nest = <<>>
  BY <1>1, ReadyBottom DEF Inner
<1>3. PICK c \in Nat : c = IF nest = <<>> THEN b + 1 ELSE b
  OBVIOUS
<1>4. Gathered(Append(objs, o), nest, 0, c)
  <2>1. 0 \in {0, 1} /\ 1 \in {0, 1} /\ 0 = 1 - 1 /\ 0 # 1
    OBVIOUS
  <2> HIDE DEF nest
  <2> QED BY <1>3, <2>1, NodePushed DEF nest
<1>5. Expecting(stack') = 0
  BY <1>1 DEF Expecting, Inner, Ready
<1>6. Counted(c)'
  <2> HIDE DEF nest
  <2>1. n - 1 > 1 <=> nest # <<>>
    <3> HIDE DEF n
    <3> QED BY <1>1, <1>2
  <2>2. c + (IF n - 1 > 1 THEN 1 ELSE 0) = b + (IF n > 1 THEN 1 ELSE 0)
    <3> HIDE DEF n
    <3> QED BY <1>1, <1>3, <2>1
  <2>3. Len(stack') = n - 1
    BY <1>1
  <2> HIDE DEF n
  <2> QED
    BY <2>2, <2>3 DEF Counted, MultiNow, n
<1>7. Built'
  <2>1. Gathered(objStack', NestOf(stack'), Expecting(stack'), c)
    BY <1>4, <1>5
  <2> QED
    BY <1>6, <2>1 DEF Built
<1> QED
  BY <1>1, <1>7 DEF Inner, Ready, Top

(* The part of a sequence above position m. *)
LEMMA AboveAny ==
  ASSUME NEW s, \E S : s \in Seq(S), NEW m \in 1..Len(s)
  PROVE  /\ DOMAIN SubSeq(s, m + 1, Len(s)) = 1..(Len(s) - m)
         /\ Len(SubSeq(s, m + 1, Len(s))) = Len(s) - m
         /\ \A i \in 1..(Len(s) - m) : SubSeq(s, m + 1, Len(s))[i] = s[m + i]
<1>1. PICK S : s \in Seq(S)
  OBVIOUS
<1> DEFINE n == Len(s)
           k == m + 1
           t == SubSeq(s, k, n)
<1>2. n \in Nat /\ m \in 1..n /\ k \in Int /\ k = m + 1
  BY <1>1, LenProperties
<1>3. \A i \in k..n : s[i] \in S
  <2>1. \A i \in k..n : i \in 1..n
    <3> HIDE DEF k, n
    <3> QED BY <1>2
  <2> QED
    BY <1>1, <2>1, ElementOfSeq
<1>4. /\ t \in Seq(S)
      /\ Len(t) = IF k <= n THEN n - k + 1 ELSE 0
      /\ \A i \in 1..(n - k + 1) : t[i] = s[k + i - 1]
  <2> HIDE DEF n, k
  <2> QED BY <1>2, <1>3, SubSeqProperties
<1>5. /\ (IF k <= n THEN n - k + 1 ELSE 0) = n - m
      /\ n - k + 1 = n - m
      /\ \A i \in 1..(n - m) : k + i - 1 = m + i
  <2> HIDE DEF n, k
  <2> QED BY <1>2
<1>6. DOMAIN t = 1..Len(t)
  BY <1>4, LenProperties
<1> QED
  BY <1>4, <1>5, <1>6

(***************************************************************************)
(* json_ast_object_end_func and json_ast_array_end_func find the mark they *)
(* look for and, above it, what they ENSURE.                               *)
(***************************************************************************)
LEMMA ContainerEnds ==
  ASSUME Ready(stack), Top \notin {"start", "value"}, fault = "none",
         NEW b \in Nat, Counted(b),
         Gathered(objStack, NestOf(stack), 0, b),
         stack' = Pop(stack),
         UNCHANGED <<nValues, stat, done, currentConf>>,
         \/ KindOf(Top) = "object" /\ ObjectEndFunc
         \/ KindOf(Top) = "array" /\ ArrayEndFunc
  PROVE  AstNeverFails' /\ Kept
<1> DEFINE nest == NestOf(stack)
           n    == Len(objStack)
<1>1. /\ nest # <<>> /\ nest[Len(nest)] = KindOf(Top)
      /\ NestOf(Pop(stack)) = SubSeq(nest, 1, Len(nest) - 1)
      /\ IF NestOf(Pop(stack)) = <<>>
         THEN Pop(stack)[Len(Pop(stack))] = "start"
         ELSE Pop(stack)[Len(Pop(stack))] \in Inner
  BY NestClose DEF Top
<1>2. PICK m \in 1..n :
        /\ objStack[m].type = "mark"
        /\ \A k \in 1..n : m < k => IsNode(objStack[k])
        /\ nest[Len(nest)] = "object" =>
             /\ (n - m) % 2 = 0
             /\ \A k \in 1..(n - m) : k % 2 = 1 => IsString(objStack[m + k])
        /\ Gathered(SubSeq(objStack, 1, m - 1),
                    SubSeq(nest, 1, Len(nest) - 1), 1, b)
  <2> HIDE DEF nest
  <2>1. 0 \in {0, 1}
    OBVIOUS
  <2> QED
    BY <1>1, <2>1, MarkDropped DEF nest
<1>3. n \in Nat /\ DOMAIN objStack = 1..n
  <2>1. PICK S : objStack \in Seq(S)
    BY DEF Gathered
  <2> QED
    BY <2>1, LenProperties
<1>4. LastMark = m
  <2> DEFINE marks == { i \in DOMAIN objStack : objStack[i].type = "mark" }
             L     == CHOOSE i \in marks : \A j \in marks : j <= i
  <2>1. m \in marks
    BY <1>2, <1>3
  <2>2. ASSUME NEW j \in marks PROVE j <= m
    <3>1. j \in 1..n /\ ~IsNode(objStack[j])
      BY <1>3 DEF IsNode
    <3>2. ~(m < j)
      BY <1>2, <3>1
    <3> HIDE DEF n, marks
    <3> QED
      BY <1>3, <3>1, <3>2
  <2>3. L \in marks /\ \A j \in marks : j <= L
    BY <2>1, <2>2
  <2>4. L <= m /\ m <= L /\ L \in 1..n
    BY <1>3, <2>1, <2>2, <2>3
  <2>5. L = m
    <3> HIDE DEF L, n
    <3> QED BY <1>3, <2>4
  <2>6. LastMark = L
    BY <2>1 DEF LastMark
  <2> QED
    BY <2>5, <2>6
<1>5. m # 0 /\ m \in Nat
  <2> HIDE DEF n
  <2> QED BY <1>3
<1>6. /\ DOMAIN Above(m) = 1..(n - m) /\ Len(Above(m)) = n - m
      /\ \A i \in 1..(n - m) : Above(m)[i] = objStack[m + i]
  BY AboveAny DEF Above, Gathered
<1>7. ASSUME NEW i \in 1..(n - m)
      PROVE  IsNode(Above(m)[i])
  <2>1. m + i \in 1..n /\ m < m + i
    <3> HIDE DEF n
    <3> QED BY <1>3, <1>5
  <2> QED
    BY <1>2, <1>6, <2>1
<1>8. ASSUME NEW o, IsNode(o), PushObj(Below(m), NodeObj(o.node)),
             NodeObj(o.node) = o
      PROVE  AstNeverFails' /\ Kept
  <2>1. CASE fault' = "limit"
    BY <2>1 DEF AstNeverFails, Kept
  <2>2. CASE objStack' = Append(Below(m), o) /\ UNCHANGED fault
    <3>1. Gathered(Below(m), NestOf(Pop(stack)), 1, b)
      BY <1>1, <1>2 DEF Below
    <3>2. Built' /\ Top' # "done"
      BY <1>1, <1>8, <2>2, <3>1, ValueDone
    <3> QED
      BY <2>2, <3>2 DEF AstNeverFails, Kept
  <2> QED
    BY <1>8, <2>1, <2>2 DEF PushObj, Ensure
<1>9. \A x : IsNode(NodeObj(x)) /\ NodeObj(NodeObj(x).node) = NodeObj(x)
  BY DEF IsNode, NodeObj
<1>10. CASE KindOf(Top) = "array" /\ ArrayEndFunc
  <2>1. AllNodes(Above(m))
    BY <1>6, <1>7 DEF AllNodes
  <2>2. PushObj(Below(m), NodeObj(ArrayNode(NodesOf(Above(m)), objStack[m].mark)))
    BY <1>4, <1>5, <1>10, <2>1 DEF ArrayEndFunc, Ensure
  <2> QED
    BY <1>8, <1>9, <2>2
<1>11. CASE KindOf(Top) = "object" /\ ObjectEndFunc
  <2> DEFINE o == Above(m)
  <2>1. Len(o) % 2 = 0
    BY <1>1, <1>2, <1>6, <1>11
  <2>2. ~ \E i \in DOMAIN o : IF i % 2 = 1 THEN ~IsString(o[i]) ELSE ~IsNode(o[i])
    <3>1. \A i \in 1..(n - m) : i % 2 = 1 => IsString(o[i])
      BY <1>1, <1>2, <1>6, <1>11
    <3> HIDE DEF o
    <3> QED
      BY <1>6, <1>7, <3>1 DEF o
  <2>3. PushObj(Below(m), NodeObj(ObjectNode(PairsOf(o), objStack[m].mark)))
    BY <1>4, <1>5, <1>11, <2>1, <2>2 DEF ObjectEndFunc, Ensure
  <2> QED
    BY <1>8, <1>9, <2>3
<1> QED
  BY <1>10, <1>11

(* A step that leaves the stack of objects as it is, and the parser's where *)
(* the same containers await the same.                                      *)
LEMMA StillBuilt ==
  ASSUME NEW b \in Nat, Counted(b),
         Gathered(objStack, NestOf(stack'), Expecting(stack'), b),
         Len(stack') > 1 <=> Len(stack) > 1,
         UNCHANGED <<objStack, nValues, done, currentConf>>,
         stat' = "ok" => stat = "ok"
  PROVE  Built'
<1>1. Counted(b)'
  BY DEF Counted, MultiNow
<1> QED
  BY <1>1 DEF Built

(* What the invariant says while json_do_parse is at its switch. *)
LEMMA AtSwitch ==
  ASSUME AstInv, fault = "none", pc = "state"
  PROVE  /\ Ready(stack) /\ Len(stack) \in Nat \ {0}
         /\ stat = "ok" /\ Top # "done"
         /\ Expecting(stack) = IF Top \in {"value", "object_key"} THEN 1 ELSE 0
         /\ \E b \in Nat : /\ Gathered(objStack, NestOf(stack), Expecting(stack), b)
                           /\ Counted(b)
<1>1. stat = "ok" /\ Ready(stack)
  BY RunningReady DEF AstInv, IInv, StatusMatchesError
<1> QED
  BY <1>1, ReadyBottom DEF AstInv, Built, Expecting, Ready, Top

(* An error of the parser leaves both stacks alone. *)
LEMMA FailKeeps ==
  ASSUME AstInv, fault = "none", pc = "state", NEW e, Fail(e),
         UNCHANGED <<objStack, done, fault>>
  PROVE  AstNeverFails' /\ Kept
<1>1. PICK b \in Nat : Gathered(objStack, NestOf(stack), Expecting(stack), b)
  BY AtSwitch
<1>2. stat' # "ok" /\ UNCHANGED stack
  BY DEF Fail, Return
<1>3. Counted(b)'
  BY <1>2 DEF Counted
<1>4. Built'
  BY <1>1, <1>2, <1>3 DEF Built
<1>5. ~(stack' # <<>> /\ Top' = "done")
  BY <1>2, AtSwitch DEF Top
<1> QED
  BY <1>4, <1>5 DEF Kept, AstNeverFails, AstInv

(* The states that are shifted or pushed without a value or a name. *)
LEMMA QuietStep ==
  ASSUME AstInv, fault = "none", stat' # "canceled", Quiet
  PROVE  AstNeverFails' /\ Kept
<1>1. pc = "state" /\ UNCHANGED <<objStack, done, fault>> /\ AstNeverFails'
  BY DEF Quiet, Idle, StartValue, ObjectMember, ObjectColon, ArrayElement,
         UnexpectedToken, At, AstInv, AstNeverFails
<1>2. /\ Ready(stack) /\ Len(stack) \in Nat \ {0}
      /\ stat = "ok" /\ Top # "done"
      /\ Expecting(stack) = IF Top \in {"value", "object_key"} THEN 1 ELSE 0
  BY <1>1, AtSwitch
<1>3. PICK b \in Nat : /\ Gathered(objStack, NestOf(stack), Expecting(stack), b)
                       /\ Counted(b)
  BY <1>1, AtSwitch
<1>4. CASE StartValue
  <2> DEFINE st == Push(stack, "value")
  <2>1. Top = "start" /\ Len(stack) = 1 /\ NestOf(stack) = <<>>
    <3>1. Top = "start" /\ Len(stack) = 1
      BY <1>2, <1>4, ReadyBottom DEF StartValue, At, Top
    <3>2. NestOf(stack) \in Seq(Events!Container) /\ Len(NestOf(stack)) = 0
      <4>1. Depth(stack) = 0
        BY <1>2, <3>1 DEF Depth, Ready, Top
      <4> QED
        BY <1>2, <4>1, NestIsSeq
    <3> QED
      BY <3>1, <3>2, EmptySeq
  <2>2. Ready(st) /\ NestOf(st) = <<>> /\ st[Len(st)] = "value"
    BY <1>2, <2>1, NestPush DEF Top
  <2>3. Len(st) = 2
    <3>1. stack \in Seq(State) /\ "value" \in State
      BY <1>2 DEF Ready, State
    <3>2. Len(st) = Len(stack) + 1
      BY <3>1, PushLemma
    <3> HIDE DEF st
    <3> QED
      BY <2>1, <3>2
  <2>4. CASE nValues' <= 1 \/ "allow_multi_objects" \in currentConf
    <3>1. nValues' = IncMax(nValues) /\ UNCHANGED <<currentConf>>
      BY <1>4 DEF StartValue, LexState, conf
    <3>2. stack' = st \/ pc' = "aborted"
      BY <1>4, <2>4 DEF StartValue, Move, Deliver, Return
    <3>3. ASSUME stack' = st PROVE Built' /\ Top' # "done"
      <4>1. Gathered(objStack', NestOf(stack'), Expecting(stack'), b)
        BY <1>1, <1>3, <2>1, <2>2, <3>3, ParityFree
      <4>2. nValues \in 0..3
        BY DEF AstInv, IInv, TypeOK, NValuesMax
      <4>3. Counted(b)'
        <5>1. Len(stack) = 1 /\ Len(stack') = 2 /\ b \in Nat
          BY <2>1, <2>3, <3>3
        <5>2. /\ nValues' # 0
              /\ "allow_multi_objects" \notin currentConf => nValues = 0
          BY <2>4, <3>1, <4>2 DEF IncMax, NValuesMax
        <5> QED
          BY <1>1, <1>2, <1>3, <3>1, <5>1, <5>2 DEF Counted, MultiNow
      <4>4. Built'
        BY <4>1, <4>3 DEF Built
      <4> QED
        BY <2>2, <3>3, <4>4 DEF Top
    <3> QED
      BY <1>1, <3>2, <3>3 DEF Kept
  <2>5. CASE Fail("multi_objects")
    BY <1>1, <2>5, FailKeeps
  <2> QED
    BY <1>4, <2>4, <2>5 DEF StartValue
<1>5. CASE ObjectMember
  <2>1. Top = "object" /\ stack' = Shift(stack, "object_arg")
        /\ UNCHANGED <<nValues, currentConf, stat>>
    BY <1>5 DEF ObjectMember, At, LexState, conf
  <2>2. /\ Ready(stack') /\ NestOf(stack') = NestOf(stack)
        /\ Len(stack') = Len(stack) /\ stack'[Len(stack)] = "object_arg"
    BY <1>2, <2>1, NestShift DEF State, KindOf, Top
  <2>3. Expecting(stack') = 0 /\ Expecting(stack) = 0 /\ Top' # "done"
    BY <1>2, <2>1, <2>2 DEF Expecting, Ready, Top
  <2>4. Built'
    BY <1>1, <1>3, <2>1, <2>2, <2>3, StillBuilt
  <2> QED
    BY <2>3, <2>4, <1>1 DEF Kept
<1>6. CASE ObjectColon
  <2> DEFINE sh == Shift(stack, "object_value")
             st == Push(sh, "value")
  <2>1. Top = "object_key" /\ UNCHANGED <<nValues, currentConf, stat>>
        /\ (stack' = st \/ pc' = "aborted")
    BY <1>6 DEF ObjectColon, At, Move, LexState, conf
  <2>2. /\ Ready(sh) /\ NestOf(sh) = NestOf(stack)
        /\ Len(sh) = Len(stack) /\ sh[Len(sh)] = "object_value"
    BY <1>2, <2>1, NestShift DEF State, KindOf, Top
  <2>3. /\ Ready(st) /\ NestOf(st) = NestOf(stack)
        /\ st[Len(st)] = "value" /\ Len(st) = Len(stack) + 1
    <3> HIDE DEF sh
    <3>1. sh \in Seq(State) /\ "value" \in State
      BY <2>2 DEF Ready, State
    <3>2. Len(st) = Len(sh) + 1
      BY <3>1, PushLemma
    <3> QED
      BY <2>2, <3>2, NestPush DEF Inner
  <2>4. Expecting(st) = 1 /\ Expecting(stack) = 1
    BY <1>2, <2>1, <2>3 DEF Expecting, Ready
  <2>5. Len(stack) > 1 /\ Len(st) > 1
    BY <1>2, <2>1, <2>3, ReadyBottom DEF Top
  <2>6. ASSUME stack' = st PROVE Built' /\ Top' # "done"
    <3> HIDE DEF st
    <3>1. Built'
      BY <1>1, <1>3, <2>1, <2>3, <2>4, <2>5, <2>6, StillBuilt
    <3> QED
      BY <2>3, <2>6, <3>1 DEF Top
  <2> QED
    BY <1>1, <2>1, <2>6 DEF Kept
<1>7. CASE ArrayElement
  <2> DEFINE sh == Shift(stack, "array_value")
             st == Push(sh, "value")
  <2>1. Top = "array" /\ UNCHANGED <<nValues, currentConf, stat>>
        /\ (stack' = st \/ pc' = "aborted")
    BY <1>7 DEF ArrayElement, At, Move, LexState, conf
  <2>2. /\ Ready(sh) /\ NestOf(sh) = NestOf(stack)
        /\ Len(sh) = Len(stack) /\ sh[Len(sh)] = "array_value"
    BY <1>2, <2>1, NestShift DEF State, KindOf, Top
  <2>3. /\ Ready(st) /\ NestOf(st) = NestOf(stack)
        /\ st[Len(st)] = "value" /\ Len(st) = Len(stack) + 1
    <3> HIDE DEF sh
    <3>1. sh \in Seq(State) /\ "value" \in State
      BY <2>2 DEF Ready, State
    <3>2. Len(st) = Len(sh) + 1
      BY <3>1, PushLemma
    <3> QED
      BY <2>2, <3>2, NestPush DEF Inner
  <2>4. NestOf(stack)[Len(NestOf(stack))] # "object"
    BY <1>2, <2>1, NestClose DEF KindOf, Top
  <2>5. Len(stack) > 1 /\ Len(st) > 1
    BY <1>2, <2>1, <2>3, ReadyBottom DEF Top
  <2>6. Gathered(objStack, NestOf(st), Expecting(st), b)
    <3> HIDE DEF st
    <3> QED BY <1>3, <2>3, <2>4, ParityFree
  <2>7. ASSUME stack' = st PROVE Built' /\ Top' # "done"
    <3> HIDE DEF st
    <3>1. Built'
      BY <1>1, <1>3, <2>1, <2>5, <2>6, <2>7, StillBuilt
    <3> QED
      BY <2>3, <2>7, <3>1 DEF Top
  <2> QED
    BY <1>1, <2>1, <2>7 DEF Kept
<1>8. CASE UnexpectedToken
  BY <1>1, <1>8, FailKeeps DEF UnexpectedToken
<1> QED
  BY <1>1, <1>4, <1>5, <1>6, <1>7, <1>8 DEF Quiet

(* A handler function that pushes one object ends the process at the limit *)
(* of the stack, and pushes it otherwise.                                  *)
LEMMA PushOrLimit ==
  ASSUME fault = "none", NEW st, NEW o, PushObj(st, o)
  PROVE  \/ fault' = "limit"
         \/ fault' = "none" /\ objStack' = Append(st, o)
BY DEF PushObj, Ensure

(* The states that call the handler. *)
LEMMA CallingStep ==
  ASSUME AstInv, fault = "none", stat' # "canceled", Calling
  PROVE  AstNeverFails' /\ Kept
<1>1. pc = "state" /\ UNCHANGED <<done, nValues, currentConf>>
  BY DEF Calling, ValueLiteral, ValueOpen, ObjectKey, ObjectComma, ObjectEnd,
         ArrayComma, ArrayEnd, At, LexState, conf
<1>2. /\ Ready(stack) /\ Len(stack) \in Nat \ {0}
      /\ stat = "ok" /\ Top # "done"
      /\ Expecting(stack) = IF Top \in {"value", "object_key"} THEN 1 ELSE 0
  BY <1>1, AtSwitch
<1>3. PICK b \in Nat : /\ Gathered(objStack, NestOf(stack), Expecting(stack), b)
                       /\ Counted(b)
  BY <1>1, AtSwitch
<1>4. ASSUME fault' = "limit" PROVE AstNeverFails' /\ Kept
  BY <1>4 DEF AstNeverFails, Kept
<1>5. ASSUME NEW h, NEW st, NEW label, Deliver(h, st, label)
      PROVE  /\ UNCHANGED stat /\ ev' = h /\ HandlerFunc(ev')
             /\ stack' = st \/ pc' = "aborted"
  BY <1>2, <1>5 DEF Deliver, Move, Return, Calling
<1>6. CASE ValueLiteral
  <2>1. Top = "value" /\ tok \in Literal
    BY <1>6 DEF ValueLiteral, At
  <2>2. CASE Deliver(tok, Pop(stack), "token")
    <3>1. PushObj(objStack, NodeObj(LeafNode(tok, tokPos)))
      BY <1>5, <2>1, <2>2 DEF HandlerFunc, Literal
    <3>2. CASE fault' = "none" /\ objStack' = Append(objStack, NodeObj(LeafNode(tok, tokPos)))
      <4>1. /\ NestOf(Pop(stack)) = NestOf(stack)
            /\ IF NestOf(stack) = <<>> THEN Pop(stack)[Len(Pop(stack))] = "start"
               ELSE Pop(stack)[Len(Pop(stack))] \in Inner
        BY <1>2, <2>1, NestLiteral DEF Top
      <4>2. Gathered(objStack, NestOf(Pop(stack)), 1, b)
        BY <1>2, <1>3, <2>1, <4>1
      <4>3. IsNode(NodeObj(LeafNode(tok, tokPos)))
        BY DEF IsNode, NodeObj
      <4>4. stack' = Pop(stack) => Built' /\ Top' # "done"
        BY <1>1, <1>2, <1>3, <1>5, <2>1, <2>2, <3>2, <4>1, <4>2, <4>3, ValueDone
      <4> QED
        BY <1>5, <2>2, <3>2, <4>4 DEF AstNeverFails, Kept
    <3> QED
      BY <1>4, <3>1, <3>2, PushOrLimit
  <2>3. CASE Fail("literal_value")
    <3>1. UNCHANGED <<objStack, fault>>
      BY <2>3 DEF Calling, Fail, Return
    <3> QED
      BY <1>1, <2>3, <3>1, FailKeeps
  <2> QED
    BY <1>6, <2>2, <2>3 DEF ValueLiteral
<1>7. CASE ValueOpen
  <2>1. PICK k \in {"object", "array"}, h \in {"object_start", "array_start"} :
          Top = "value" /\ Deliver(h, Shift(stack, k), "token")
    BY <1>7 DEF ValueOpen, At
  <2> DEFINE o  == MarkObj(tokPos)
             st == Shift(stack, k)
  <2>2. PushObj(objStack, o)
    BY <1>5, <2>1 DEF HandlerFunc, Literal
  <2>3. CASE fault' = "none" /\ objStack' = Append(objStack, o)
    <3>1. /\ Ready(st) /\ NestOf(st) = Append(NestOf(stack), k)
          /\ Len(st) = Len(stack) /\ st[Len(st)] = k
      BY <1>2, <2>1, NestOpen DEF Top
    <3>2. Gathered(objStack, NestOf(stack), 1, b)
      BY <1>2, <1>3, <2>1
    <3>3. o.type = "mark" /\ k \in Events!Container /\ 1 \in {0, 1}
      BY DEF MarkObj, Events!Container
    <3>4. Gathered(Append(objStack, o), Append(NestOf(stack), k), 0, b)
      <4> HIDE DEF o
      <4> QED BY <3>2, <3>3, MarkPushed
    <3>5. Expecting(st) = 0
      BY <3>1 DEF Expecting, Ready
    <3>6. ASSUME stack' = st PROVE Built' /\ Top' # "done"
      <4> HIDE DEF st, o
      <4>1. Gathered(objStack', NestOf(stack'), Expecting(stack'), b)
        BY <2>3, <3>1, <3>4, <3>5, <3>6
      <4>2. Counted(b)'
        BY <1>1, <1>2, <1>3, <3>1, <3>6 DEF Counted, MultiNow
      <4>3. Built'
        BY <4>1, <4>2 DEF Built
      <4> QED
        BY <3>1, <3>6, <4>3 DEF Top
    <3> QED
      BY <1>5, <2>1, <2>3, <3>6 DEF AstNeverFails, Kept
  <2> QED
    BY <1>4, <2>2, <2>3, PushOrLimit
<1>8. CASE ObjectKey
  <2>1. Top = "object_arg" /\ Deliver("object_key", Shift(stack, "object_key"), "token")
    BY <1>8 DEF ObjectKey, At
  <2> DEFINE o  == NodeObj(LeafNode("string", tokPos))
             st == Shift(stack, "object_key")
  <2>2. PushObj(objStack, o)
    BY <1>5, <2>1 DEF HandlerFunc, Literal
  <2>3. CASE fault' = "none" /\ objStack' = Append(objStack, o)
    <3>1. /\ Ready(st) /\ NestOf(st) = NestOf(stack)
          /\ Len(st) = Len(stack) /\ st[Len(st)] = "object_key"
      BY <1>2, <2>1, NestShift DEF State, KindOf, Top
    <3>2. Gathered(objStack, NestOf(stack), 0, b) /\ NestOf(stack) # <<>>
      BY <1>2, <1>3, <2>1, NestClose DEF Top
    <3>3. IsNode(o) /\ IsString(o)
      BY DEF IsNode, IsString, NodeObj, LeafNode
    <3>4. Gathered(Append(objStack, o), NestOf(stack), 1, b)
      <4> HIDE DEF o
      <4>1. 0 \in {0, 1} /\ 1 \in {0, 1} /\ 1 = 1 - 0
        OBVIOUS
      <4> QED BY <3>2, <3>3, <4>1, NodePushed
    <3>5. Expecting(st) = 1
      BY <3>1 DEF Expecting, Ready
    <3>6. ASSUME stack' = st PROVE Built' /\ Top' # "done"
      <4> HIDE DEF st, o
      <4>1. Gathered(objStack', NestOf(stack'), Expecting(stack'), b)
        BY <2>3, <3>1, <3>4, <3>5, <3>6
      <4>2. Counted(b)'
        BY <1>1, <1>2, <1>3, <3>1, <3>6 DEF Counted, MultiNow
      <4>3. Built'
        BY <4>1, <4>2 DEF Built
      <4> QED
        BY <3>1, <3>6, <4>3 DEF Top
    <3> QED
      BY <1>5, <2>1, <2>3, <3>6 DEF AstNeverFails, Kept
  <2> QED
    BY <1>4, <2>2, <2>3, PushOrLimit
<1>9. CASE ObjectComma
  <2> DEFINE st == Shift(stack, "object_arg")
  <2>1. Top = "object_value" /\ Deliver("object_sep", st, "token")
    BY <1>9 DEF ObjectComma, At
  <2>2. UNCHANGED <<objStack, fault>>
    BY <1>5, <2>1 DEF HandlerFunc, Literal
  <2>3. /\ Ready(st) /\ NestOf(st) = NestOf(stack)
        /\ Len(st) = Len(stack) /\ st[Len(st)] = "object_arg"
    BY <1>2, <2>1, NestShift DEF State, KindOf, Top
  <2>4. Expecting(st) = 0 /\ Expecting(stack) = 0
    BY <1>2, <2>1, <2>3 DEF Expecting, Ready
  <2>5. ASSUME stack' = st PROVE Built' /\ Top' # "done"
    <3> HIDE DEF st
    <3>1. Built'
      BY <1>1, <1>2, <1>3, <2>2, <2>3, <2>4, <2>5, StillBuilt
    <3> QED
      BY <2>3, <2>5, <3>1 DEF Top
  <2> QED
    BY <1>5, <2>1, <2>2, <2>5 DEF AstInv, AstNeverFails, Kept
<1>10. CASE ArrayComma
  <2> DEFINE st == Push(stack, "value")
  <2>1. Top = "array_value" /\ Deliver("array_sep", st, "token")
    BY <1>10 DEF ArrayComma, At
  <2>2. UNCHANGED <<objStack, fault>>
    BY <1>5, <2>1 DEF HandlerFunc, Literal
  <2>3. Ready(st) /\ NestOf(st) = NestOf(stack) /\ st[Len(st)] = "value"
    BY <1>2, <2>1, NestPush DEF Inner, Top
  <2>4. Len(stack) > 1 /\ Len(st) > 1
    BY <1>2, <2>1, <2>3, ReadyBottom DEF Top
  <2>5. NestOf(stack)[Len(NestOf(stack))] # "object"
    BY <1>2, <2>1, NestClose DEF KindOf, Top
  <2>6. Gathered(objStack, NestOf(st), Expecting(st), b)
    <3> HIDE DEF st
    <3> QED BY <1>3, <2>3, <2>5, ParityFree
  <2>7. ASSUME stack' = st PROVE Built' /\ Top' # "done"
    <3> HIDE DEF st
    <3>1. Built'
      BY <1>1, <1>2, <1>3, <2>2, <2>4, <2>6, <2>7, StillBuilt
    <3> QED
      BY <2>3, <2>7, <3>1 DEF Top
  <2> QED
    BY <1>5, <2>1, <2>2, <2>7 DEF AstInv, AstNeverFails, Kept
<1>11. CASE ObjectEnd \/ ArrayEnd
  <2>1. \/ /\ Top \in {"object", "object_value"}
           /\ Deliver("object_end", Pop(stack), "token")
        \/ /\ Top \in {"array", "array_value"}
           /\ Deliver("array_end", Pop(stack), "token")
    BY <1>11 DEF ObjectEnd, ArrayEnd, At
  <2>2. \/ KindOf(Top) = "object" /\ ObjectEndFunc
        \/ KindOf(Top) = "array" /\ ArrayEndFunc
    BY <1>5, <2>1 DEF HandlerFunc, KindOf, Literal
  <2>3. Gathered(objStack, NestOf(stack), 0, b) /\ Top \notin {"start", "value"}
    BY <1>2, <1>3, <2>1
  <2>4. UNCHANGED stat /\ stack' = Pop(stack)
    <3>1. Len(Pop(stack)) <= StackMax
      <4>1. Len(Pop(stack)) = Len(stack) - 1 /\ Len(stack) <= StackMax
        BY <1>2, PopLemma DEF Ready, AstInv, IInv, TypeOK
      <4> QED
        BY <1>2, <4>1, StackMaxAssumption
    <3> QED
      BY <1>2, <2>1, <3>1 DEF Deliver, Move, Return
  <2> QED
    BY <1>1, <1>2, <1>3, <2>2, <2>3, <2>4, ContainerEnds
<1> QED
  BY <1>6, <1>7, <1>8, <1>9, <1>10, <1>11 DEF Calling

(* The end of the text: the parser is at the bottom of its stack, and      *)
(* json_ast_parse_done finds the values it ENSUREs.                        *)
LEMMA EofStep ==
  ASSUME AstInv, fault = "none", AstEof
  PROVE  AstNeverFails' /\ Kept
<1>1. pc = "state" /\ Top = "start" /\ UNCHANGED currentConf
  BY DEF AstEof, StartEof, At, LexState, conf
<1>2. Ready(stack) /\ Len(stack) \in Nat \ {0} /\ stat = "ok" /\ Expecting(stack) = 0
  BY <1>1, AtSwitch
<1>3. PICK b \in Nat : /\ Gathered(objStack, NestOf(stack), Expecting(stack), b)
                       /\ Counted(b)
  BY <1>1, AtSwitch
<1>4. CASE Fail("unexpected_token")
  <2>1. UNCHANGED <<objStack, done, fault>>
    BY <1>4 DEF AstEof, Fail, Return
  <2> QED
    BY <1>1, <1>4, <2>1, FailKeeps
<1>5. CASE nValues # 0 /\ stack' = Shift(stack, "done") /\ Return("ok", err)
  <2>1. Len(stack) = 1 /\ stack = <<"start">>
    <3>1. Len(stack) = 1 /\ stack[1] = "start" /\ stack \in Seq(State)
      BY <1>1, <1>2, ReadyBottom DEF Ready, Top
    <3>2. <<"start">> \in Seq(State) /\ Len(<<"start">>) = 1 /\ <<"start">>[1] = "start"
      BY DEF State
    <3> QED
      BY <3>1, <3>2, SeqEqual
  <2>2. stack' = <<"done">>
    <3>1. stack' \in Seq(State) /\ Len(stack') = 1 /\ stack'[1] = "done"
      BY <1>2, <1>5, <2>1, ShiftLemma DEF Ready, State
    <3>2. <<"done">> \in Seq(State) /\ Len(<<"done">>) = 1 /\ <<"done">>[1] = "done"
      BY DEF State
    <3> QED
      BY <3>1, <3>2, SeqEqual
  <2>3. NestOf(stack) = <<>> /\ NestOf(stack') = <<>>
    BY <2>1, <2>2, NestBottom DEF Bottom
  <2>4. Expecting(stack') = 0
    BY <2>2 DEF Expecting
  <2>5. AllNodes(objStack) /\ b = Len(objStack)
    BY <1>3, <2>3, TopLevel
  <2>6. stat' = "ok" /\ pc' = "idle" /\ Finish
    BY <1>5 DEF AstEof, Return
  <2>7. CASE done
    <3>1. UNCHANGED <<objStack, done, fault>>
      BY <2>6, <2>7 DEF Finish
    <3>2. Gathered(objStack', NestOf(stack'), Expecting(stack'), b)
      BY <1>2, <1>3, <2>3, <2>4, <3>1
    <3>3. Counted(b)'
      BY <2>7, <3>1 DEF Counted
    <3>4. Built'
      BY <3>2, <3>3 DEF Built
    <3> QED
      BY <2>7, <3>1, <3>4 DEF Kept, AstNeverFails, AstInv
  <2>8. CASE ~done
    <3>1. b # 0 /\ (~MultiNow => b = 1)
      <4>1. b + 0 # 0 /\ (~MultiNow => b + 0 <= 1)
        BY <1>2, <1>3, <1>5, <2>1, <2>8 DEF Counted
      <4> QED
        BY <4>1
    <3>2. ~(IF MultiNow THEN Len(objStack) = 0 ELSE Len(objStack) # 1)
      BY <2>5, <3>1
    <3>3. objStack' = <<>> /\ UNCHANGED fault
      BY <2>5, <2>6, <2>8, <3>2 DEF Finish, Ensure
    <3>4. done' = TRUE
      BY <2>6, <2>8, <3>3 DEF Finish
    <3>5. Gathered(objStack', NestOf(stack'), Expecting(stack'), 0)
      BY <2>3, <3>3, NothingYet
    <3>6. Counted(0)'
      BY <3>4 DEF Counted
    <3>7. Built'
      BY <3>5, <3>6 DEF Built
    <3> QED
      BY <3>3, <3>4, <3>7 DEF Kept, AstNeverFails, AstInv
  <2> QED
    BY <2>7, <2>8
<1> QED
  BY <1>4, <1>5 DEF AstEof, StartEof

(* The lexer touches neither stack. *)
LEMMA TokenStep ==
  ASSUME AstInv, fault = "none", AstToken
  PROVE  AstNeverFails' /\ Kept
<1>1. /\ pc = "token" /\ pc' # "aborted"
      /\ UNCHANGED <<stack, objStack, nValues, done, currentConf, fault>>
  BY DEF AstToken, NextToken, BufferEmpty, LexToken, LexPart, LexWsp, LexError,
         EndToken, InsertEof, Return, conf
<1>2. stat = "ok"
  BY <1>1 DEF AstInv, IInv, StatusMatchesError
<1>3. PICK b \in Nat : /\ Gathered(objStack, NestOf(stack), Expecting(stack), b)
                       /\ Counted(b)
  BY <1>1 DEF AstInv, Built
<1>4. Gathered(objStack, NestOf(stack'), Expecting(stack'), b)
  BY <1>1, <1>3
<1>5. Built'
  BY <1>1, <1>2, <1>3, <1>4, StillBuilt
<1>6. UNCHANGED Top
  BY <1>1 DEF Top
<1> QED
  BY <1>1, <1>5, <1>6 DEF Kept, AstNeverFails, AstInv

(* A call of the client begins a text with nothing on the parser's stack.  *)
LEMMA ClientStep ==
  ASSUME AstInv, fault = "none", Client, Idle
  PROVE  AstNeverFails' /\ Kept
<1>1. /\ pc = "idle" /\ pc' # "aborted"
      /\ UNCHANGED <<objStack, done, fault, nValues, stat>>
  BY DEF Client, SetParam, Parse, ParseDone, Idle
<1>2. PICK b \in Nat : /\ Gathered(objStack, NestOf(stack), Expecting(stack), b)
                       /\ Counted(b)
  BY <1>1 DEF AstInv, Built
<1>3. CASE UNCHANGED <<stack, currentConf>>
  <2>1. Gathered(objStack, NestOf(stack'), Expecting(stack'), b)
    BY <1>2, <1>3
  <2>2. Built'
    BY <1>1, <1>2, <1>3, <2>1, StillBuilt
  <2>3. UNCHANGED Top
    BY <1>3 DEF Top
  <2> QED
    BY <1>1, <1>3, <2>2, <2>3 DEF Kept, AstNeverFails, AstInv
<1>4. CASE stack = <<>> /\ stack' = <<"start">>
  <2>1. NestOf(stack) = <<>> /\ NestOf(stack') = <<>>
    BY <1>4, NestBottom DEF Bottom
  <2>2. Expecting(stack) = 0 /\ Expecting(stack') = 0 /\ Top' = "start"
    BY <1>4 DEF Expecting, Top
  <2>3. Gathered(objStack', NestOf(stack'), Expecting(stack'), b)
    BY <1>1, <1>2, <2>1, <2>2
  <2>4. nValues = 0 /\ Len(stack) = 0 /\ Len(stack') = 1
    BY <1>4 DEF AstInv, FirstValue
  <2>5. Counted(b)'
    BY <1>1, <1>2, <2>4 DEF Counted
  <2>6. Built'
    BY <2>3, <2>5 DEF Built
  <2> QED
    BY <1>1, <2>2, <2>6 DEF Kept, AstNeverFails, AstInv
<1>5. CASE stack # <<>> /\ Top = "done" /\ stack' = Shift(stack, "start")
  <2>1. done
    BY <1>1, <1>5 DEF AstInv
  <2>2. stack \in Seq(State) /\ Shaped(stack)
    BY <1>5 DEF AstInv, IInv, TypeOK, StackShape
  <2>3. Len(stack) = 1
    <3> DEFINE n == Len(stack)
    <3>1. n \in Nat \ {0} /\ stack[n] \in Bottom
          /\ \A i \in 2..n : stack[i] \notin Bottom
      BY <1>5, <2>2, EmptySeq DEF Top, Bottom, Shaped
    <3> HIDE DEF n
    <3>2. n = 1
      BY <3>1
    <3> QED
      BY <3>2 DEF n
  <2>4. stack' \in Seq(State) /\ Len(stack') = 1 /\ stack'[1] = "start"
    BY <1>5, <2>2, <2>3, ShiftLemma DEF State
  <2>5. stack[1] = "done"
    BY <1>5, <2>3 DEF Top
  <2>6. stack = <<"done">> /\ stack' = <<"start">>
    <3>1. \A s \in State : <<s>> \in Seq(State) /\ Len(<<s>>) = 1 /\ <<s>>[1] = s
      OBVIOUS
    <3> QED
      BY <2>2, <2>3, <2>4, <2>5, <3>1, SeqEqual DEF State
  <2>7. NestOf(stack) = <<>> /\ NestOf(stack') = <<>>
    BY <2>6, NestBottom DEF Bottom
  <2>8. Expecting(stack) = 0 /\ Expecting(stack') = 0 /\ Top' = "start"
    BY <2>6 DEF Expecting, Top
  <2>9. Gathered(objStack', NestOf(stack'), Expecting(stack'), b)
    BY <1>1, <1>2, <2>7, <2>8
  <2>10. Counted(b)'
    BY <1>1, <2>1 DEF Counted
  <2>11. Built'
    BY <2>9, <2>10 DEF Built
  <2> QED
    BY <1>1, <2>8, <2>11 DEF Kept, AstNeverFails, AstInv
<1> QED
  BY <1>3, <1>4, <1>5 DEF Client, SetParam, Parse, ParseDone, Begin

(* A second json_ast_parse_done in a row does nothing. *)
LEMMA DoneAgainStep ==
  ASSUME AstInv, fault = "none", DoneAgain
  PROVE  UNCHANGED <<vars, objStack, done, fault>>
<1>1. done
  BY DEF DoneAgain, AstInv
<1> QED
  BY <1>1 DEF DoneAgain, Finish

-----------------------------------------------------------------------------
LEMMA AstStep ==
  ASSUME AstInv, AstNext
  PROVE  AstInv'
<1>1. fault = "none"
  BY DEF AstNext
<1>2. CASE DoneAgain
  <2>1. UNCHANGED <<vars, objStack, done, fault>>
    BY <1>1, <1>2, DoneAgainStep
  <2>2. (IInv /\ FirstValue)'
    BY <2>1, StepInv, FirstValueStep DEF AstInv
  <2>3. AstNeverFails' /\ Built' = Built /\ UNCHANGED <<stack, pc, Top>>
    BY <2>1 DEF AstInv, AstNeverFails, Built, Counted, MultiNow, vars, conf, Top
  <2> QED
    BY <2>1, <2>2, <2>3 DEF AstInv
<1>3. CASE AstToken \/ AstState \/ (Client /\ Idle)
  <2>1. Next
    BY <1>3 DEF AstToken, AstState, AstEof, Quiet, Calling, Next, NextState
  <2>2. (IInv /\ FirstValue)'
    BY <2>1, StepInv, FirstValueStep DEF AstInv
  <2>3. AstNeverFails' /\ Kept
    BY <1>1, <1>3, TokenStep, EofStep, QuietStep, CallingStep, ClientStep DEF AstState
  <2> QED
    BY <2>2, <2>3 DEF AstInv, Kept
<1> QED
  BY <1>2, <1>3 DEF AstNext

LEMMA AstBegins == AstInit => AstInv
<1> SUFFICES ASSUME AstInit PROVE AstInv
  OBVIOUS
<1>1. IInv /\ FirstValue
  BY InitInv DEF AstInit, Init, FirstValue
<1>2. /\ stack = <<>> /\ nValues = 0 /\ objStack = <<>> /\ fault = "none"
  BY DEF AstInit, Init
<1>3. NestOf(stack) = <<>>
  BY <1>2, NestBottom DEF Bottom
<1>4. Gathered(objStack, NestOf(stack), Expecting(stack), 0)
  BY <1>2, <1>3, NothingYet
<1>5. Counted(0)
  BY <1>2 DEF Counted
<1>6. Built
  BY <1>4, <1>5 DEF Built
<1> QED
  BY <1>1, <1>2, <1>6 DEF AstInv, AstNeverFails

(***************************************************************************)
(* Whatever the text is, however it is cut in calls, whatever the client   *)
(* configures between them and however many texts it parses, no ENSURE of  *)
(* json-ast.c about the objects on its stack ends the process: the marks   *)
(* the handler looks for are there, names and values alternate above those *)
(* of objects, and a text that is done has left the values that            *)
(* json_ast_parse_done wants.                                              *)
(***************************************************************************)
THEOREM AstNeverFailsCorrect == AstSpec => []AstNeverFails
<1>1. AstInv /\ [AstNext]_<<vars, astVars>> => AstInv'
  <2> SUFFICES ASSUME AstInv, UNCHANGED <<vars, astVars>> PROVE AstInv'
    BY AstStep
  <2>1. (IInv /\ FirstValue)'
    BY StepInv, FirstValueStep DEF AstInv
  <2>2. UNCHANGED <<vars, objStack, done, fault>>
    BY DEF astVars
  <2>3. AstNeverFails' /\ Built' = Built /\ UNCHANGED <<stack, pc, Top>>
    BY <2>2 DEF AstInv, AstNeverFails, Built, Counted, MultiNow, vars, conf, Top
  <2> QED
    BY <2>1, <2>2, <2>3 DEF AstInv
<1>2. AstInv => AstNeverFails
  BY DEF AstInv
<1> QED
  BY <1>1, <1>2, AstBegins, PTL DEF AstSpec
=============================================================================
