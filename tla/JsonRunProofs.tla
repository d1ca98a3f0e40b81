--------------------------- MODULE JsonRunProofs ---------------------------
(***************************************************************************)
(* The bytes that the program json keeps for its messages (JsonRun): for   *)
(* every input, every way to cut it into pieces and every size of the      *)
(* buffers they are a run of the input, and their address is that of the   *)
(* first of them.                                                          *)
(***************************************************************************)
EXTENDS JsonRun, WellFoundedInduction, FiniteSetTheorems, SequenceTheorems, TLAPS

-----------------------------------------------------------------------------
(* The least and the greatest of a set of numbers.  That there is a least  *)
(* one follows from the sets of what is not above each: they are finite,   *)
(* and of those one has no other within it.                                *)

Below(S, x) == { y \in S : y <= x }

LEMMA BelowFinite ==
  ASSUME NEW S \in SUBSET Nat, NEW x \in S
  PROVE  Below(S, x) \in FiniteSubsetsOf(Nat)
<1>1. Below(S, x) \in SUBSET Nat /\ \A y \in Below(S, x) : y <= x
  BY DEF Below
<1>2. IsFiniteSet(Below(S, x))
  BY <1>1, FS_BoundedSetOfNaturals
<1> QED BY <1>1, <1>2 DEF FiniteSubsetsOf

LEMMA LeastOf ==
  ASSUME NEW S \in SUBSET Nat, S # {}
  PROVE  \E x \in S : \A y \in S : x <= y
<1> DEFINE All == { Below(S, x) : x \in S }
<1>1. All \subseteq FiniteSubsetsOf(Nat) /\ All # {}
  BY BelowFinite
<1>2. PICK T \in All : \A U \in All : ~(<<U, T>> \in StrictSubsetOrdering(Nat))
  <2>1. IsWellFoundedOn(StrictSubsetOrdering(Nat), FiniteSubsetsOf(Nat))
    BY FS_StrictSubsetOrderingWellFounded
  <2> QED BY <1>1, <2>1, WFMin
<1>3. PICK x \in S : T = Below(S, x)
  OBVIOUS
<1>4. ASSUME NEW y \in S PROVE x <= y
  <2>1. SUFFICES ASSUME y < x PROVE FALSE
    OBVIOUS
  <2>2. Below(S, y) \in All
    OBVIOUS
  <2>3. x \in Nat /\ y \in Nat /\ \A z \in S : z \in Nat
    OBVIOUS
  <2>4. Below(S, y) \subseteq T /\ x \in T /\ ~(x \in Below(S, y))
    <3>1. \A z \in S : z <= y => z <= x
      BY <2>1, <2>3
    <3>2. x <= x /\ ~(x <= y)
      BY <2>1, <2>3
    <3> HIDE DEF All
    <3> QED BY <1>3, <3>1, <3>2 DEF Below
  <2>5. <<Below(S, y), T>> \in StrictSubsetOrdering(Nat)
    BY <2>3, <2>4, <1>3 DEF StrictSubsetOrdering, Below
  <2> QED BY <2>2, <2>5, <1>2
<1> QED BY <1>4

(* The least of a set of numbers, as the community modules choose it.      *)
LEMMA MinIs ==
  ASSUME NEW S \in SUBSET Nat, S # {}
  PROVE  Sets!Min(S) \in S /\ \A y \in S : Sets!Min(S) <= y
BY LeastOf DEF Sets!Min

(* The greatest of a set of numbers that has a bound.                      *)
LEMMA MaxIs ==
  ASSUME NEW S \in SUBSET Nat, NEW n \in Nat, S \subseteq 0..n, S # {}
  PROVE  Sets!Max(S) \in S /\ \A y \in S : Sets!Max(S) >= y
<1> DEFINE Over == { u \in Nat : \A y \in S : y <= u }
<1>1. n \in Over
  OBVIOUS
<1>2. PICK u \in Over : \A v \in Over : u <= v
  BY <1>1, LeastOf
<1>3. u \in S
  <2>1. SUFFICES ASSUME u \notin S PROVE FALSE
    OBVIOUS
  <2>2. PICK y \in S : y <= u /\ y # u
    BY <2>1
  <2>3. u - 1 \in Nat /\ \A z \in S : z <= u - 1
    BY <2>1, <2>2
  <2> QED BY <2>3, <1>2
<1>4. \A y \in S : u >= y
  OBVIOUS
<1> QED BY <1>3, <1>4 DEF Sets!Max

LEMMA MaxUnique ==
  ASSUME NEW S \in SUBSET Nat, NEW x \in S, \A y \in S : y <= x
  PROVE  Sets!Max(S) = x
<1>1. \A y \in S : x >= y
  OBVIOUS
<1>2. Sets!Max(S) \in S /\ \A y \in S : Sets!Max(S) >= y
  BY <1>1 DEF Sets!Max
<1>3. Sets!Max(S) \in Nat /\ Sets!Max(S) >= x /\ Sets!Max(S) <= x
  BY <1>2
<1> QED BY <1>3

-----------------------------------------------------------------------------
(* Runs of bytes: those from one on, the byte after which the run begins   *)
(* and how many they are being given.                                      *)

Run(b, l) == [ i \in 1..l |-> b + i ]

LEMMA RunIs ==
  ASSUME NEW b \in Nat, NEW l \in Nat
  PROVE  /\ Run(b, l) \in Seq(Nat) /\ Len(Run(b, l)) = l
         /\ DOMAIN Run(b, l) = 1..l /\ \A i \in 1..l : Run(b, l)[i] = b + i
<1>1. Run(b, l) \in [1..l -> Nat]
  BY DEF Run
<1>2. DOMAIN Run(b, l) = 1..l
  BY DEF Run
<1>3. Run(b, l) \in Seq(Nat)
  BY <1>1, IsASeq
<1>4. Len(Run(b, l)) = l
  BY <1>2, <1>3, LenProperties
<1> QED BY <1>2, <1>3, <1>4 DEF Run

LEMMA RunWithin ==
  ASSUME NEW b \in Nat, NEW l \in Nat, NEW i \in 1..(l + 1), NEW j \in (i - 1)..l
  PROVE  SubSeq(Run(b, l), i, j) = Run(b + i - 1, j - i + 1)
<1> DEFINE s == Run(b, l)  t == SubSeq(s, i, j)  u == Run(b + i - 1, j - i + 1)
<1>1. s \in Seq(Nat) /\ Len(s) = l /\ \A k \in 1..l : s[k] = b + k
  BY RunIs
<1>2. b + i - 1 \in Nat /\ j - i + 1 \in Nat
  OBVIOUS
<1>3. u \in Seq(Nat) /\ Len(u) = j - i + 1 /\ \A k \in 1..Len(u) : u[k] = b + i - 1 + k
  BY <1>2, RunIs
<1> HIDE DEF s
<1>4. t \in Seq(Nat) /\ Len(t) = j - i + 1 /\ \A k \in 1..Len(t) : t[k] = s[i + k - 1]
  <2>1. \A k \in i..j : k \in 1..Len(s)
    BY <1>1
  <2>4. i \in Int /\ j \in Int /\ \A k \in i..j : s[k] \in Nat
    BY <1>1, <2>1, ElementOfSeq
  <2>2. t \in Seq(Nat) /\ Len(t) = (IF i <= j THEN j - i + 1 ELSE 0)
        /\ \A k \in 1..j - i + 1 : t[k] = s[i + k - 1]
    BY <2>4, SubSeqProperties
  <2>3. Len(t) = j - i + 1
    BY <2>2
  <2> QED BY <2>2, <2>3
<1> HIDE DEF t, u
<1>5. \A k \in 1..Len(t) : t[k] = u[k]
  BY <1>1, <1>3, <1>4
<1>6. t = u
  BY <1>3, <1>4, <1>5, SeqEqual
<1> QED BY <1>6 DEF t, u, s

LEMMA RunOn ==
  ASSUME NEW b \in Nat, NEW l \in Nat, NEW k \in Nat
  PROVE  Run(b, l) \o Run(b + l, k) = Run(b, l + k)
<1> DEFINE s == Run(b, l)  t == Run(b + l, k)  u == Run(b, l + k)  c == s \o t
<1>1. s \in Seq(Nat) /\ Len(s) = l /\ \A i \in 1..l : s[i] = b + i
  BY RunIs
<1>2. t \in Seq(Nat) /\ Len(t) = k /\ \A i \in 1..k : t[i] = b + l + i
  <2>1. b + l \in Nat
    OBVIOUS
  <2> QED BY <2>1, RunIs
<1>3. u \in Seq(Nat) /\ Len(u) = l + k /\ \A i \in 1..(l + k) : u[i] = b + i
  BY RunIs
<1> HIDE DEF s, t, u
<1>4. c \in Seq(Nat) /\ Len(c) = l + k
      /\ \A i \in 1..Len(c) : c[i] = IF i <= l THEN s[i] ELSE t[i - l]
  <2>1. c \in Seq(Nat) /\ Len(c) = Len(s) + Len(t)
        /\ \A i \in 1..Len(s) + Len(t) : c[i] = IF i <= Len(s) THEN s[i] ELSE t[i - Len(s)]
    BY <1>1, <1>2, ConcatProperties
  <2> HIDE DEF c
  <2> QED BY <1>1, <1>2, <2>1
<1> HIDE DEF c
<1>5. ASSUME NEW i \in 1..Len(c) PROVE c[i] = u[i]
  <2>1. CASE i <= l
    BY <1>1, <1>3, <1>4, <2>1
  <2>2. CASE i > l
    <3>1. i - l \in 1..k /\ i \in 1..(l + k) /\ b + l + (i - l) = b + i
      BY <1>4, <2>2
    <3> QED BY <1>2, <1>3, <1>4, <2>2, <3>1
  <2> QED BY <1>4, <2>1, <2>2
<1>6. c = u
  BY <1>3, <1>4, <1>5, SeqEqual
<1> QED BY <1>6 DEF c, s, t, u

LEMMA RunFirst ==
  ASSUME NEW b \in Nat, NEW l \in Nat, NEW n \in 0..l
  PROVE  SubSeq(Run(b, l), 1, n) = Run(b, n)
<1>1. 1 \in 1..(l + 1) /\ n \in (1 - 1)..l
  OBVIOUS
<1>2. SubSeq(Run(b, l), 1, n) = Run(b + 1 - 1, n - 1 + 1)
  BY <1>1, RunWithin, Zenon
<1>3. b + 1 - 1 = b /\ n - 1 + 1 = n
  OBVIOUS
<1> QED BY <1>2, <1>3, Zenon

LEMMA RunAfter ==
  ASSUME NEW b \in Nat, NEW l \in Nat, NEW n \in 0..l
  PROVE  SubSeq(Run(b, l), n + 1, l) = Run(b + n, l - n)
<1>1. PICK i \in 1..(l + 1) : i = n + 1
  OBVIOUS
<1>2. l \in (i - 1)..l
  BY <1>1
<1>3. SubSeq(Run(b, l), i, l) = Run(b + i - 1, l - i + 1)
  BY <1>2, RunWithin, Zenon
<1>4. b + i - 1 = b + n /\ l - i + 1 = l - n
  BY <1>1
<1> QED BY <1>1, <1>3, <1>4, Zenon

LEMMA RunLast ==
  ASSUME NEW b \in Nat, NEW l \in Nat, NEW n \in 0..l
  PROVE  LastOf(Run(b, l), n) = Run(b + l - n, n)
<1>1. LastOf(Run(b, l), n) = SubSeq(Run(b, l), l - n + 1, l)
  BY RunIs DEF LastOf
<1>2. l - n \in 0..l
  OBVIOUS
<1>3. SubSeq(Run(b, l), l - n + 1, l) = Run(b + (l - n), l - (l - n))
  BY <1>2, RunAfter, Zenon
<1>4. b + (l - n) = b + l - n /\ l - (l - n) = n
  OBVIOUS
<1> QED BY <1>1, <1>3, <1>4, Zenon

-----------------------------------------------------------------------------
(* The lines and the columns of the input.                                 *)

(* The part of Inputs that says what a text is.                            *)
IsText == text.size \in Nat /\ text.nl \in SUBSET (1..text.size)

EndsBefore(i) == { k \in text.nl : k < i }

LEMMA EndsAre ==
  ASSUME IsText, NEW i \in Nat
  PROVE  /\ EndsBefore(i) \in SUBSET Nat /\ IsFiniteSet(EndsBefore(i))
         /\ EndsBefore(i) \cup {0} \subseteq 0..text.size
         /\ Cardinality(EndsBefore(i)) \in Nat
         /\ Sets!Max(EndsBefore(i) \cup {0}) \in Nat
         /\ Sets!Max(EndsBefore(i) \cup {0}) \in EndsBefore(i) \cup {0}
         /\ \A k \in EndsBefore(i) : k <= Sets!Max(EndsBefore(i) \cup {0})
<1>1. /\ EndsBefore(i) \in SUBSET Nat /\ EndsBefore(i) \in SUBSET (1..text.size)
      /\ EndsBefore(i) \cup {0} \subseteq 0..text.size
  BY DEF EndsBefore, IsText
<1>2. IsFiniteSet(EndsBefore(i))
  <2>1. IsFiniteSet(1..text.size)
    <3>1. 1 \in Int /\ text.size \in Int
      BY DEF IsText
    <3> QED BY <3>1, FS_Interval
  <2> QED BY <1>1, <2>1, FS_Subset
<1>3. Cardinality(EndsBefore(i)) \in Nat
  BY <1>2, FS_CardinalityType
<1>4. /\ Sets!Max(EndsBefore(i) \cup {0}) \in EndsBefore(i) \cup {0}
      /\ \A k \in EndsBefore(i) \cup {0} : Sets!Max(EndsBefore(i) \cup {0}) >= k
  <2>1. EndsBefore(i) \cup {0} \in SUBSET Nat /\ EndsBefore(i) \cup {0} # {}
    BY <1>1
  <2> QED BY <1>1, <2>1, MaxIs DEF IsText
<1> QED BY <1>1, <1>2, <1>3, <1>4

LEMMA PlaceIs ==
  ASSUME IsText, NEW i \in Nat
  PROVE  /\ PlaceOf(i).line = 1 + Cardinality(EndsBefore(i))
         /\ PlaceOf(i).col = i - Sets!Max(EndsBefore(i) \cup {0})
         /\ PlaceOf(i) \in [line : Int, col : Int]
         /\ PlaceOf(i) = [line |-> PlaceOf(i).line, col |-> PlaceOf(i).col]
<1>1. PlaceOf(i) = [line |-> 1 + Cardinality(EndsBefore(i)),
                    col  |-> i - Sets!Max(EndsBefore(i) \cup {0})]
  BY DEF PlaceOf, EndsBefore
<1>2. Cardinality(EndsBefore(i)) \in Nat /\ Sets!Max(EndsBefore(i) \cup {0}) \in Nat
  BY EndsAre
<1>3. /\ 1 + Cardinality(EndsBefore(i)) \in Int
      /\ i - Sets!Max(EndsBefore(i) \cup {0}) \in Int
  BY <1>2
<1> QED BY <1>1, <1>3

(* The ends of the lines in a run of bytes are, moved to where it begins,  *)
(* those of the input there.                                               *)
LEMMA EndsIn ==
  ASSUME IsText, NEW b \in Nat, NEW l \in Nat
  PROVE  LET ends == LineEnds(Run(b, l)) IN
         /\ ends = { k \in 1..l : b + k \in text.nl }
         /\ ends \in SUBSET Nat /\ ends \subseteq 0..l /\ IsFiniteSet(ends)
         /\ Cardinality(ends) \in Nat
         /\ Cardinality(EndsBefore(b + l + 1)) = Cardinality(EndsBefore(b + 1)) + Cardinality(ends)
<1> DEFINE ends == LineEnds(Run(b, l))  these == { k \in text.nl : b < k /\ k <= b + l }
<1>1. ends = { k \in 1..l : b + k \in text.nl }
  BY RunIs DEF LineEnds
<1>2. ends \in SUBSET (1..l) /\ ends \in SUBSET Nat /\ ends \subseteq 0..l
  BY <1>1
<1>3. IsFiniteSet(ends)
  <2>1. IsFiniteSet(1..l)
    BY FS_Interval
  <2> HIDE DEF ends
  <2> QED BY <1>2, <2>1, FS_Subset
<1>4. these \in SUBSET (1..text.size) /\ IsFiniteSet(these)
  <2>1. these \in SUBSET (1..text.size)
    BY DEF IsText
  <2>2. IsFiniteSet(1..text.size)
    BY FS_Interval DEF IsText
  <2> HIDE DEF these
  <2> QED BY <2>1, <2>2, FS_Subset
<1>5. Cardinality(these) = Cardinality(ends)
  <2> DEFINE f == [ k \in ends |-> b + k ]
  <2>1. f \in [ends -> these]
    BY <1>1
  <2>2. \A j, k \in ends : f[j] = f[k] => j = k
    BY <1>2
  <2>3. \A k \in these : \E j \in ends : f[j] = k
    <3>1. ASSUME NEW k \in these PROVE k - b \in ends /\ f[k - b] = k
      <4>1. k \in Nat /\ k \in text.nl /\ k - b \in 1..l /\ b + (k - b) = k
        BY DEF IsText
      <4> QED BY <4>1, <1>1
    <3> QED BY <3>1
  <2>4. ExistsBijection(ends, these)
    BY <2>1, <2>2, <2>3, Zenon DEF ExistsBijection, Bijection, Injection, Surjection, IsInjective
  <2> QED BY <1>3, <2>4, FS_Bijection
<1>6. Cardinality(EndsBefore(b + l + 1)) = Cardinality(EndsBefore(b + 1)) + Cardinality(these)
  <2>1. EndsBefore(b + l + 1) = EndsBefore(b + 1) \cup these
    BY DEF EndsBefore, IsText
  <2>2. EndsBefore(b + 1) \cap these = {}
    BY DEF EndsBefore, IsText
  <2>3. IsFiniteSet(EndsBefore(b + 1)) /\ Cardinality(EndsBefore(b + 1)) \in Nat
    <3>1. b + 1 \in Nat
      OBVIOUS
    <3> QED BY <3>1, EndsAre
  <2>4. Cardinality(these) \in Nat
    BY <1>4, FS_CardinalityType
  <2> HIDE DEF these
  <2>5. Cardinality(EndsBefore(b + 1) \cup these) = Cardinality(EndsBefore(b + 1))
          + Cardinality(these) - Cardinality(EndsBefore(b + 1) \cap these)
    BY <1>4, <2>3, FS_Union
  <2>6. Cardinality(EndsBefore(b + 1) \cap these) = 0
    BY <2>2, FS_EmptySet
  <2>7. Cardinality(EndsBefore(b + 1) \cup these)
          = Cardinality(EndsBefore(b + 1)) + Cardinality(these)
    BY <2>3, <2>4, <2>5, <2>6
  <2> QED BY <2>1, <2>7
<1>7. Cardinality(ends) \in Nat
  BY <1>3, FS_CardinalityType
<1> QED BY <1>1, <1>2, <1>3, <1>5, <1>6, <1>7

LEMMA RunNone ==
  ASSUME NEW b \in Nat, NEW c \in Nat
  PROVE  Run(b, 0) = <<>> /\ Run(b, 0) = Run(c, 0)
<1>1. Len(Run(b, 0)) = 0 /\ Len(Run(c, 0)) = 0
      /\ Run(b, 0) \in Seq(Nat) /\ Run(c, 0) \in Seq(Nat)
  BY RunIs
<1>2. Run(b, 0) = <<>> /\ Run(c, 0) = <<>>
  BY <1>1, EmptySeq
<1> QED BY <1>2

(* An address that tells the line and the column of the byte it is before. *)
Addresses == [beg : Nat, line : Int, col : Int]
Sited(a) == [line |-> a.line, col |-> a.col] = PlaceOf(a.beg + 1)

LEMMA StartSited ==
  ASSUME IsText
  PROVE  Start \in Addresses /\ Sited(Start)
<1>1. 1 \in Nat /\ EndsBefore(1) = {}
  BY DEF EndsBefore, IsText
<1>2. Cardinality(EndsBefore(1)) = 0
  BY <1>1, FS_EmptySet
<1>3. Sets!Max(EndsBefore(1) \cup {0}) = 0
  BY <1>1, EndsAre
<1>4. /\ PlaceOf(1).line = 1 + Cardinality(EndsBefore(1))
      /\ PlaceOf(1).col = 1 - Sets!Max(EndsBefore(1) \cup {0})
      /\ PlaceOf(1) = [line |-> PlaceOf(1).line, col |-> PlaceOf(1).col]
  BY <1>1, PlaceIs
<1>5. Start \in Addresses /\ Start.beg + 1 = 1 /\ Start.line = 1 /\ Start.col = 1
  BY DEF Start, Addresses
<1>6. PlaceOf(1) = [line |-> 1, col |-> 1]
  BY <1>2, <1>3, <1>4
<1> QED BY <1>5, <1>6 DEF Sited

(* text_address_update keeps the line and the column right.                *)
LEMMA Advanced ==
  ASSUME IsText, NEW a \in Addresses, Sited(a), NEW l \in Nat
  PROVE  LET u == AddressUpdate(a, Run(a.beg, l)) IN
         u \in Addresses /\ Sited(u) /\ u.beg = a.beg + l
<1> DEFINE bytes == Run(a.beg, l)
           u     == AddressUpdate(a, bytes)
           ends  == LineEnds(bytes)
           old   == EndsBefore(a.beg + 1)
           now   == EndsBefore(a.beg + l + 1)
<1>1. a.beg \in Nat /\ a.line \in Int /\ a.col \in Int
  BY DEF Addresses
<1>2. a.beg + 1 \in Nat /\ a.beg + l + 1 \in Nat
  BY <1>1
<1>3. Len(bytes) = l
  BY <1>1, RunIs
<1>4. /\ ends = { k \in 1..l : a.beg + k \in text.nl }
      /\ ends \in SUBSET Nat /\ ends \subseteq 0..l
      /\ Cardinality(ends) \in Nat /\ Cardinality(now) = Cardinality(old) + Cardinality(ends)
  BY <1>1, EndsIn
<1>5. /\ old \in SUBSET Nat /\ Cardinality(old) \in Nat /\ Sets!Max(old \cup {0}) \in Nat
      /\ Sets!Max(old \cup {0}) \in old \cup {0}
      /\ \A k \in old : k <= Sets!Max(old \cup {0})
  BY <1>2, EndsAre
<1>6. a.line = 1 + Cardinality(old) /\ a.col = (a.beg + 1) - Sets!Max(old \cup {0})
  <2>1. /\ PlaceOf(a.beg + 1).line = 1 + Cardinality(old)
        /\ PlaceOf(a.beg + 1).col = (a.beg + 1) - Sets!Max(old \cup {0})
    BY <1>2, PlaceIs
  <2> HIDE DEF old
  <2> QED BY <2>1 DEF Sited
<1>7. /\ PlaceOf(a.beg + l + 1).line = 1 + Cardinality(now)
      /\ PlaceOf(a.beg + l + 1).col = (a.beg + l + 1) - Sets!Max(now \cup {0})
      /\ PlaceOf(a.beg + l + 1) = [line |-> PlaceOf(a.beg + l + 1).line,
                                   col |-> PlaceOf(a.beg + l + 1).col]
  BY <1>2, PlaceIs
<1>8. u = [beg |-> a.beg + l, line |-> a.line + Cardinality(ends),
           col |-> IF ends = {} THEN a.col + l ELSE l - Sets!Max(ends) + 1]
  BY <1>3 DEF AddressUpdate
<1>9. IF ends = {} THEN Sets!Max(now \cup {0}) = Sets!Max(old \cup {0})
      ELSE Sets!Max(ends) \in Nat /\ Sets!Max(now \cup {0}) = a.beg + Sets!Max(ends)
  <2>1. CASE ends = {}
    <3>1. now = old
      <4>1. \A k \in text.nl : k < a.beg + l + 1 => k < a.beg + 1
        <5>1. ASSUME NEW k \in text.nl, k < a.beg + l + 1, ~(k < a.beg + 1) PROVE FALSE
          <6>1. k \in Nat /\ k - a.beg \in 1..l /\ a.beg + (k - a.beg) = k
            BY <1>1, <5>1 DEF IsText
          <6> HIDE DEF ends
          <6> QED BY <6>1, <5>1, <1>4, <2>1
        <5> QED BY <5>1
      <4>2. \A k \in text.nl : k < a.beg + 1 => k < a.beg + l + 1
        BY <1>1 DEF IsText
      <4> QED BY <4>1, <4>2 DEF EndsBefore
    <3> QED BY <2>1, <3>1, Zenon
  <2>2. CASE ends # {}
    <3> DEFINE x == Sets!Max(ends)
    <3>1. x \in ends /\ \A k \in ends : x >= k
      <4> HIDE DEF ends
      <4> QED BY <1>4, <2>2, MaxIs
    <3> HIDE DEF ends, x
    <3>2. x \in 1..l /\ a.beg + x \in text.nl
      BY <3>1, <1>4
    <3>3. now \cup {0} \in SUBSET Nat /\ a.beg + x \in now \cup {0}
      BY <1>1, <3>2 DEF EndsBefore, IsText
    <3>4. ASSUME NEW k \in now \cup {0} PROVE k <= a.beg + x
      <4>1. CASE k <= a.beg
        BY <1>1, <3>2, <4>1, <3>3
      <4>2. CASE k > a.beg
        <5>1. k \in text.nl /\ k \in Nat /\ k < a.beg + l + 1
          BY <4>2, <1>1 DEF EndsBefore, IsText
        <5>2. k - a.beg \in 1..l /\ a.beg + (k - a.beg) = k
          BY <5>1, <4>2, <1>1
        <5>3. k - a.beg \in ends
          BY <5>1, <5>2, <1>4
        <5>4. x >= k - a.beg
          BY <5>3, <3>1
        <5> QED BY <5>4, <5>1, <3>2, <1>1
      <4> QED BY <4>1, <4>2, <3>3, <1>1
    <3> HIDE DEF now
    <3>5. Sets!Max(now \cup {0}) = a.beg + x
      BY <3>3, <3>4, MaxUnique
    <3> QED BY <2>2, <3>2, <3>5 DEF x
  <2> QED BY <2>1, <2>2
<1>10. u.beg = a.beg + l /\ u \in Addresses
  <2> HIDE DEF ends, u, bytes
  <2>1. (IF ends = {} THEN a.col + l ELSE l - Sets!Max(ends) + 1) \in Int
    BY <1>1, <1>9
  <2> QED BY <1>1, <1>4, <1>8, <2>1 DEF Addresses
<1>11. Sited(u)
  <2> HIDE DEF ends, u, bytes, now, old
  <2>1. u.line = 1 + Cardinality(now)
    BY <1>4, <1>5, <1>6, <1>8
  <2>2. u.col = (a.beg + l + 1) - Sets!Max(now \cup {0})
    BY <1>1, <1>5, <1>6, <1>8, <1>9
  <2> QED BY <1>7, <1>10, <2>1, <2>2 DEF Sited
<1> QED BY <1>10, <1>11

-----------------------------------------------------------------------------
(* Buffers that hold a run of the bytes of the input, with the address of  *)
(* the first of them.                                                      *)

Buffers == [max : Nat, init : Nat, size : Nat, data : Seq(Nat), overflow : BOOLEAN]

Kept(mem, a) ==
  /\ mem \in Buffers /\ a \in Addresses /\ Sited(a)
  /\ mem.data = Run(a.beg, Len(mem.data)) /\ Len(mem.data) <= mem.size

(* The byte that a buffer ends with. *)
EndOf(mem, a) == a.beg + Len(mem.data)

LEMMA KeptHas ==
  ASSUME NEW mem, NEW a, Kept(mem, a)
  PROVE  /\ mem.size \in Nat /\ mem.max \in Nat /\ mem.data \in Seq(Nat)
         /\ Len(mem.data) \in 0..mem.size /\ a.beg \in Nat /\ EndOf(mem, a) \in Nat
BY LenProperties DEF Kept, Buffers, Addresses, EndOf

(* Bytes shifted in after those that a buffer holds, of which none leaves  *)
(* unless there is no room.                                                *)
Shifted(after, addr, mem, a, k) ==
  /\ Kept(after, addr) /\ EndOf(after, addr) = EndOf(mem, a) + k
  /\ after.size = mem.size /\ after.overflow = mem.overflow
  /\ addr.beg = a.beg \/ Len(after.data) = after.size

LEMMA ShiftInKeeps ==
  ASSUME IsText, NEW mem, NEW a, Kept(mem, a), NEW k \in Nat
  PROVE  LET bytes == Run(EndOf(mem, a), k)
         IN  Shifted(ShiftIn(mem, bytes), AddressShiftIn(a, mem, bytes), mem, a, k)
<1> DEFINE L == Len(mem.data)  z == mem.size  b == a.beg  bytes == Run(b + L, k)
           after == ShiftIn(mem, bytes)
           addr  == AddressShiftIn(a, mem, bytes)
           l == IF k > z THEN z ELSE k
           in == Run(b + L + k - l, l)
           lost == IF L > z - l THEN L - (z - l) ELSE 0
<1>1. L \in Nat /\ z \in Nat /\ L <= z /\ b \in Nat /\ b + L \in Nat
      /\ mem \in Buffers /\ mem.data = Run(b, L) /\ a \in Addresses /\ Sited(a)
  BY LenProperties DEF Kept, Buffers, Addresses
<1>2. Len(bytes) = k
  BY <1>1, RunIs
<1>3. /\ l \in 0..k /\ l \in Nat /\ l <= z /\ z - l \in Nat
      /\ lost \in 0..L /\ b + lost \in Nat /\ L - lost \in Nat /\ L - lost <= z - l
  <2> HIDE DEF L, z, b
  <2>1. l \in 0..k /\ l \in Nat /\ l <= z /\ z - l \in Nat
    BY <1>1
  <2> HIDE DEF l
  <2>2. lost \in 0..L /\ L - lost \in Nat /\ L - lost <= z - l
    BY <1>1, <2>1
  <2> HIDE DEF lost
  <2> QED BY <1>1, <2>1, <2>2
<1>4. (IF Len(bytes) > z THEN LastOf(bytes, z) ELSE bytes) = in
  <2>1. CASE k > z
    <3>1. z \in 0..k
      BY <1>1, <2>1
    <3>2. LastOf(bytes, z) = Run(b + L + k - z, z)
      BY <1>1, <3>1, RunLast, Zenon
    <3> QED BY <1>2, <2>1, <3>2
  <2>2. CASE ~(k > z)
    <3>1. b + L + k - k = b + L
      BY <1>1
    <3> QED BY <1>2, <2>2, <3>1
  <2> QED BY <2>1, <2>2
<1>5. in \in Seq(Nat) /\ Len(in) = l
  <2>1. b + L + k - l \in Nat
    <3>1. b \in Nat /\ L \in Nat /\ l \in 0..k
      BY <1>1, <1>3
    <3> HIDE DEF b, L, l
    <3> QED BY <3>1
  <2> HIDE DEF l
  <2> QED BY <2>1, <1>3, RunIs, Zenon
<1>6. after = [mem EXCEPT !.data = IF L > z - l THEN LastOf(mem.data, z - l) \o in
                                   ELSE mem.data \o in]
  <2> HIDE DEF in, l
  <2> QED BY <1>4, <1>5 DEF ShiftIn
<1>7. addr = AddressUpdate(IF L > z - l THEN AddressUpdate(a, SubSeq(mem.data, 1, L - (z - l)))
                           ELSE a, SubSeq(bytes, 1, k - l))
  BY <1>2 DEF AddressShiftIn
<1>8. /\ LastOf(mem.data, L - lost) = Run(b + lost, L - lost)
      /\ SubSeq(mem.data, 1, lost) = Run(b, lost)
      /\ SubSeq(bytes, 1, k - l) = Run(b + L, k - l)
  <2> HIDE DEF l, lost
  <2>1. L - lost \in 0..L /\ k - l \in 0..k
    BY <1>1, <1>3
  <2>2. LastOf(Run(b, L), L - lost) = Run(b + L - (L - lost), L - lost)
    BY <1>1, <2>1, RunLast
  <2>3. b + L - (L - lost) = b + lost
    BY <1>1, <1>3
  <2>4. SubSeq(Run(b, L), 1, lost) = Run(b, lost)
    BY <1>1, <1>3, RunFirst
  <2>5. SubSeq(bytes, 1, k - l) = Run(b + L, k - l)
    BY <1>1, <2>1, RunFirst
  <2> QED BY <1>1, <2>2, <2>3, <2>4, <2>5
<1>9. after.data = Run(b + lost, L - lost) \o in
  <2>1. after.data = IF L > z - l THEN LastOf(mem.data, z - l) \o in ELSE mem.data \o in
    BY <1>1, <1>6 DEF Buffers
  <2>2. IF L > z - l THEN L - lost = z - l ELSE lost = 0 /\ L - lost = L /\ b + lost = b
    BY <1>1, <1>3
  <2> HIDE DEF l, lost, in, after
  <2> QED BY <1>1, <1>8, <2>1, <2>2
<1>10. l = k \/ (lost = L /\ l = z)
  BY <1>1, <1>3
<1>11. PICK b1 \in Nat : b1 = b + lost + (k - l)
  BY <1>1, <1>3
<1>12. PICK l1 \in Nat : l1 = L - lost + l
  BY <1>1, <1>3
<1>13. b1 + l1 = b + L + k /\ l1 <= z
  <2> HIDE DEF L, z, b, l, lost
  <2> QED BY <1>1, <1>3, <1>11, <1>12
<1>14. after.data = Run(b1, l1)
  <2>1. CASE l = k
    <3>1. b + L + k - l = b + L /\ b1 = b + lost /\ (b + lost) + (L - lost) = b + L
          /\ l1 = (L - lost) + k
      <4> HIDE DEF L, z, b, l, lost
      <4> QED BY <2>1, <1>1, <1>3, <1>11, <1>12
    <3>2. PICK c \in Nat : c = L - lost
      BY <1>3
    <3>3. Run(b1, c) \o Run(b1 + c, k) = Run(b1, c + k)
      BY RunOn
    <3> HIDE DEF L, z, b, l, lost, after
    <3> QED BY <1>9, <2>1, <3>1, <3>2, <3>3 DEF in
  <2>2. CASE lost = L /\ l = z
    <3>1. L - lost = 0 /\ b1 = b + L + k - l /\ l1 = l
      BY <2>2, <1>1, <1>3, <1>11, <1>12
    <3> HIDE DEF l, lost, after, in
    <3>2. Run(b + lost, 0) = <<>>
      BY <1>3, RunNone
    <3>3. <<>> \o in = in
      BY <1>5
    <3> QED BY <1>9, <3>1, <3>2, <3>3 DEF in
  <2> QED BY <1>10, <2>1, <2>2
<1>15. b1 = b \/ l1 = z
  <2> HIDE DEF L, b, z
  <2>1. CASE L > z - l
    <3>1. L - lost = z - l
      BY <1>1, <1>3, <2>1
    <3> HIDE DEF l, lost
    <3> QED BY <1>1, <1>3, <1>12, <3>1
  <2>2. CASE ~(L > z - l)
    <3>1. lost = 0
      BY <2>2
    <3> HIDE DEF lost
    <3> QED BY <1>1, <1>3, <1>10, <1>11, <1>12, <2>2, <3>1
  <2> QED BY <2>1, <2>2
<1>16. addr \in Addresses /\ Sited(addr) /\ addr.beg = b1
  <2> DEFINE a1 == IF L > z - l THEN AddressUpdate(a, Run(b, lost)) ELSE a
  <2>1. a1 \in Addresses /\ Sited(a1) /\ a1.beg = b + lost
    <3>1. CASE L > z - l
      <4> HIDE DEF l, lost
      <4> QED BY <3>1, <1>1, <1>3, Advanced
    <3>2. CASE ~(L > z - l)
      BY <3>2, <1>1
    <3> QED BY <3>1, <3>2
  <2>2. Run(b + L, k - l) = Run(b + lost, k - l)
    <3> HIDE DEF l, lost
    <3>1. CASE l = k
      <4>1. k - l = 0
        BY <3>1, <1>3
      <4> QED BY <4>1, <1>1, <1>3, RunNone
    <3>2. CASE lost = L
      BY <3>2
    <3> QED BY <1>10, <3>1, <3>2
  <2>3. addr = AddressUpdate(a1, Run(a1.beg, k - l))
    <3>1. z - l = L - lost \/ ~(L > z - l)
      BY <1>1, <1>3
    <3>2. L > z - l => L - (z - l) = lost
      OBVIOUS
    <3> HIDE DEF l, lost, addr
    <3> QED BY <1>7, <1>8, <2>1, <2>2, <3>2
  <2>4. k - l \in Nat
    BY <1>3
  <2> HIDE DEF a1, l, lost, addr
  <2>5. AddressUpdate(a1, Run(a1.beg, k - l)) \in Addresses
        /\ Sited(AddressUpdate(a1, Run(a1.beg, k - l)))
        /\ AddressUpdate(a1, Run(a1.beg, k - l)).beg = a1.beg + (k - l)
    BY <2>1, <2>4, Advanced
  <2> QED BY <2>1, <2>3, <2>5, <1>11
<1>17. /\ Run(b1, l1) \in Seq(Nat) /\ Len(Run(b1, l1)) = l1
       /\ after \in Buffers /\ after.size = z /\ after.overflow = mem.overflow
  <2>1. Run(b1, l1) \in Seq(Nat) /\ Len(Run(b1, l1)) = l1
    BY RunIs
  <2>2. after = [mem EXCEPT !.data = Run(b1, l1)]
    <3>1. after = [mem EXCEPT !.data = after.data]
      <4> HIDE DEF l, lost, in
      <4> QED BY <1>1, <1>6 DEF Buffers
    <3> QED BY <3>1, <1>14
  <2> HIDE DEF after
  <2> QED BY <1>1, <2>1, <2>2 DEF Buffers
<1> HIDE DEF l, lost, in, after, addr
<1>18. Kept(after, addr)
  BY <1>13, <1>14, <1>16, <1>17 DEF Kept
<1>19. EndOf(after, addr) = b + L + k
  BY <1>13, <1>14, <1>16, <1>17 DEF EndOf
<1>20. after.size = z /\ (addr.beg = a.beg \/ Len(after.data) = after.size)
  BY <1>14, <1>16, <1>17, <1>15
<1>21. Shifted(after, addr, mem, a, k)
  BY <1>17, <1>18, <1>19, <1>20 DEF EndOf, Shifted
<1> QED BY <1>21 DEF after, addr, EndOf

(* Of the bytes of a buffer the last n are kept.                           *)
LEMMA FitKeeps ==
  ASSUME IsText, NEW mem, NEW a, Kept(mem, a), NEW n \in 1..Len(mem.data)
  PROVE  LET after == ShiftFit(mem, n)
             addr  == AddressFit(a, mem, n)
         IN  /\ Kept(after, addr) /\ EndOf(after, addr) = EndOf(mem, a)
             /\ after.size = mem.size /\ after.overflow = mem.overflow
             /\ Len(after.data) = n
<1> DEFINE L == Len(mem.data)  b == a.beg
           after == ShiftFit(mem, n)
           addr  == AddressFit(a, mem, n)
<1>1. L \in Nat /\ mem.size \in Nat /\ L <= mem.size /\ b \in Nat
      /\ mem \in Buffers /\ mem.data = Run(b, L) /\ a \in Addresses /\ Sited(a)
  BY LenProperties DEF Kept, Buffers, Addresses
<1>2. n \in Nat /\ n \in 0..L /\ L - n \in 0..L /\ L - n \in Nat /\ b + L - n \in Nat /\ n # 0
      /\ b + (L - n) = b + L - n
  BY <1>1
<1>3. LastOf(mem.data, n) = Run(b + L - n, n) /\ SubSeq(mem.data, 1, L - n) = Run(b, L - n)
  <2> HIDE DEF b, L
  <2>1. LastOf(Run(b, L), n) = Run(b + L - n, n)
    BY <1>1, <1>2, RunLast, Zenon
  <2>2. SubSeq(Run(b, L), 1, L - n) = Run(b, L - n)
    BY <1>1, <1>2, RunFirst, Zenon
  <2> QED BY <1>1, <2>1, <2>2
<1>4. after = [mem EXCEPT !.data = Run(b + L - n, n)]
  BY <1>2, <1>3 DEF ShiftFit
<1>5. addr = AddressUpdate(a, Run(a.beg, L - n))
  BY <1>3 DEF AddressFit
<1>6. Run(b + L - n, n) \in Seq(Nat) /\ Len(Run(b + L - n, n)) = n
  BY <1>2, RunIs, Zenon
<1> HIDE DEF L, b, after, addr
<1>7. addr \in Addresses /\ Sited(addr) /\ addr.beg = b + (L - n)
  BY <1>1, <1>2, <1>5, Advanced DEF b
<1>8. /\ after \in Buffers /\ after.size = mem.size /\ after.overflow = mem.overflow
      /\ after.data = Run(b + L - n, n)
  BY <1>1, <1>4, <1>6 DEF Buffers
<1>9. Kept(after, addr) /\ addr.beg + Len(after.data) = b + L
  BY <1>1, <1>2, <1>6, <1>7, <1>8 DEF Kept
<1> QED BY <1>6, <1>8, <1>9 DEF L, b, after, addr, EndOf

(* The room that a buffer is given suffices.                               *)
LEMMA GrownSuffices ==
  ASSUME NEW buf \in Buffers, NEW len \in Nat, Len(buf.data) + len <= buf.max
  PROVE  Grown(buf, len) \in Nat /\ Len(buf.data) + len <= Grown(buf, len)
<1> DEFINE sz    == IF buf.size = 0 THEN buf.init ELSE buf.size
           need  == Len(buf.data) + len
           sizes == { s \in need..buf.max : s = buf.max \/ \E k \in 0..need : s = sz * 2^k }
<1>1. need \in Nat /\ buf.max \in Nat /\ need <= buf.max
  BY LenProperties DEF Buffers
<1>2. Grown(buf, len) = Sets!Min(sizes)
  BY DEF Grown
<1> HIDE DEF need, sz
<1>3. sizes \in SUBSET Nat /\ buf.max \in sizes /\ \A s \in sizes : s >= need
  BY <1>1
<1> HIDE DEF sizes
<1>4. Sets!Min(sizes) \in sizes
  BY <1>3, MinIs
<1> QED BY <1>1, <1>2, <1>3, <1>4 DEF need

LEMMA EnlargeIs ==
  ASSUME NEW buf \in Buffers, NEW len \in Nat
  PROVE  LET new == Enlarge(buf, len) IN
         /\ new \in Buffers /\ new.data = buf.data
         /\ new.overflow \in {TRUE, buf.overflow}
         /\ Len(buf.data) <= buf.size => Len(buf.data) <= new.size
         /\ Len(buf.data) <= buf.size /\ new.overflow = FALSE =>
              Len(buf.data) + len <= new.size
         /\ Len(buf.data) + len <= buf.size => new.size = buf.size
<1> DEFINE new == Enlarge(buf, len)  L == Len(buf.data)
<1>1. L \in Nat /\ buf.size \in Nat /\ buf.max \in Nat /\ buf.data \in Seq(Nat)
      /\ buf.overflow \in BOOLEAN
  BY LenProperties DEF Buffers
<1>2. CASE len = 0
  <2>1. new = buf
    BY <1>2 DEF Enlarge
  <2> HIDE DEF new
  <2>2. /\ L + len = L /\ new \in Buffers /\ new.data = buf.data /\ new.size = buf.size
        /\ new.overflow = buf.overflow
    BY <1>1, <1>2, <2>1
  <2> QED BY <1>1, <2>2 DEF new
<1>3. CASE len # 0 /\ L + len > buf.max
  <2>1. new = [buf EXCEPT !.overflow = TRUE]
    BY <1>3 DEF Enlarge
  <2> HIDE DEF new
  <2>2. new \in Buffers /\ new.data = buf.data /\ new.overflow = TRUE /\ new.size = buf.size
    BY <2>1 DEF Buffers
  <2> QED BY <1>1, <2>2 DEF new
<1>4. CASE len # 0 /\ ~(L + len > buf.max) /\ L + len <= buf.size
  <2>1. new = buf
    BY <1>4 DEF Enlarge
  <2> HIDE DEF new
  <2> QED BY <1>1, <1>4, <2>1 DEF new
<1>5. CASE len # 0 /\ ~(L + len > buf.max) /\ ~(L + len <= buf.size)
  <2>1. new = [buf EXCEPT !.size = Grown(buf, len)]
    BY <1>5 DEF Enlarge
  <2>2. Grown(buf, len) \in Nat /\ L + len <= Grown(buf, len)
    BY <1>1, <1>5, GrownSuffices
  <2> HIDE DEF new
  <2>3. /\ new \in Buffers /\ new.data = buf.data /\ new.overflow = buf.overflow
        /\ new.size = Grown(buf, len)
    BY <2>1, <2>2 DEF Buffers
  <2> QED BY <1>1, <1>5, <2>2, <2>3 DEF new
<1> QED BY <1>2, <1>3, <1>4, <1>5

(* Bytes appended to those that a buffer holds.                            *)
Appended(after, mem, a, k) ==
  /\ Kept(after, a)
  /\ after.overflow = FALSE => EndOf(after, a) = EndOf(mem, a) + k
  /\ Len(mem.data) + k <= mem.size => after.size = mem.size

LEMMA AppendKeeps ==
  ASSUME NEW mem, NEW a, Kept(mem, a), NEW k \in Nat
  PROVE  Appended(AppendTo(mem, Run(EndOf(mem, a), k)), mem, a, k)
<1> DEFINE L == Len(mem.data)  b == a.beg  bytes == Run(b + L, k)
           big == Enlarge(mem, k)
           after == AppendTo(mem, bytes)
<1>1. L \in Nat /\ mem.size \in Nat /\ L <= mem.size /\ b \in Nat /\ b + L \in Nat
      /\ mem \in Buffers /\ mem.data = Run(b, L) /\ a \in Addresses /\ Sited(a)
  BY LenProperties DEF Kept, Buffers, Addresses
<1>2. Len(bytes) = k
  BY <1>1, RunIs
<1>3. /\ big \in Buffers /\ big.data = mem.data /\ big.overflow \in BOOLEAN
      /\ L <= big.size /\ (big.overflow = FALSE => L + k <= big.size)
      /\ L + k <= mem.size => big.size = mem.size
  <2>1. /\ big \in Buffers /\ big.data = mem.data
        /\ L <= big.size /\ (big.overflow = FALSE => L + k <= big.size)
        /\ L + k <= mem.size => big.size = mem.size
    BY <1>1, EnlargeIs
  <2> QED BY <2>1 DEF Buffers
<1>4. after = IF big.overflow THEN big ELSE [big EXCEPT !.data = Run(b, L) \o bytes]
  BY <1>1, <1>2, <1>3 DEF AppendTo
<1>5. Run(b, L) \o bytes = Run(b, L + k)
  <2> HIDE DEF b, L
  <2> QED BY <1>1, RunOn
<1>6. Run(b, L + k) \in Seq(Nat) /\ Len(Run(b, L + k)) = L + k
  <2>1. L + k \in Nat
    BY <1>1
  <2> HIDE DEF b, L
  <2> QED BY <1>1, <2>1, RunIs, Zenon
<1>7. CASE big.overflow
  <2>1. after = big
    BY <1>4, <1>7
  <2> HIDE DEF after, big
  <2> QED BY <1>1, <1>3, <1>7, <2>1 DEF Kept, EndOf, Appended, after
<1>8. CASE ~big.overflow
  <2>1. after = [big EXCEPT !.data = Run(b, L + k)]
    BY <1>4, <1>5, <1>8
  <2> HIDE DEF after, big, b, L
  <2>2. /\ after \in Buffers /\ after.data = Run(b, L + k) /\ after.size = big.size
        /\ Len(after.data) = L + k
    BY <1>3, <1>6, <2>1 DEF Buffers
  <2>3. L + k <= big.size /\ b + (L + k) = b + L + k
    BY <1>1, <1>3, <1>8
  <2> QED BY <1>1, <1>3, <2>2, <2>3 DEF Kept, EndOf, Appended, after, b, L
<1> QED BY <1>7, <1>8

-----------------------------------------------------------------------------
(* What the loop keeps between two reads.                                  *)

Places == [line : Int, col : Int]

Locals ==
  [mem : Buffers, buf : Addresses, input : Addresses, rest : Seq(Nat), error : Int,
   size : Nat, t : {"before_error", "after_error", "eof_error"}, small : BOOLEAN,
   failed : BOOLEAN, s : {"ok", "error"}, w : Places]

(* buf and the address of the pieces are right.                            *)
Agree(n) == n \in Locals /\ Kept(n.mem, n.buf) /\ Sited(n.input)

(* The offset of a place is one of the bytes, or the end of them.          *)
LEMMA FindNthIs ==
  ASSUME NEW bytes \in Seq(Nat), NEW i
  PROVE  FindNth(bytes, i) \in Nat /\ FindNth(bytes, i) <= Len(bytes)
<1> DEFINE nth == { k \in LineEnds(bytes) :
                      Cardinality({ j \in LineEnds(bytes) : j <= k }) = i }
<1>1. nth \in SUBSET Nat /\ \A k \in nth : k <= Len(bytes)
  BY LenProperties DEF LineEnds
<1>2. FindNth(bytes, i) = IF nth = {} THEN 0 ELSE Sets!Min(nth)
  BY DEF FindNth
<1>3. Len(bytes) \in Nat
  BY LenProperties
<1> HIDE DEF nth
<1>4. nth # {} => Sets!Min(nth) \in nth
  BY <1>1, MinIs
<1>5. CASE nth = {}
  BY <1>2, <1>3, <1>5
<1>6. CASE nth # {}
  <2>1. FindNth(bytes, i) \in nth
    BY <1>2, <1>4, <1>6
  <2> QED BY <1>1, <2>1
<1> QED BY <1>5, <1>6

LEMMA GetOffsetIs ==
  ASSUME NEW addr \in Addresses, NEW w \in Places, NEW bytes \in Seq(Nat)
  PROVE  GetOffset(addr, w, bytes) \in Int /\ GetOffset(addr, w, bytes) <= Len(bytes)
<1> DEFINE d    == w.line - addr.line
           p    == IF d = 0 THEN 0 ELSE FindNth(bytes, d)
           c    == IF d = 0 THEN w.col - addr.col ELSE w.col - 1
           ends == { k \in LineEnds(bytes) : k > p }
           q    == IF ends = {} THEN Len(bytes) ELSE Sets!Min(ends) - 1 - p
           o    == IF w.line = 0 \/ w.col = 0 THEN Failed
                   ELSE IF IsBefore(w, addr) THEN Nowhere
                   ELSE IF d > 0 /\ p = 0 THEN Failed
                   ELSE IF c > q \/ p + c > Len(bytes) THEN Nowhere
                   ELSE p + c
<1>1. GetOffset(addr, w, bytes) = o
  BY DEF GetOffset
<1>2. p \in Int
  BY FindNthIs
<1>3. c \in Int /\ Len(bytes) \in Nat
  BY LenProperties DEF Places, Addresses
<1> HIDE DEF d, p, c, q
<1>4. p + c \in Int
  BY <1>2, <1>3
<1>5. Failed \in Int /\ Nowhere \in Int /\ Failed <= Len(bytes) /\ Nowhere <= Len(bytes)
  BY <1>3 DEF Failed, Nowhere
<1>6. o \in Int /\ o <= Len(bytes)
  BY <1>2, <1>3, <1>4, <1>5
<1> QED BY <1>1, <1>6

(* What stays as buf moves on by k bytes of the input.                     *)
Moved(f, n, k) ==
  /\ Agree(f) /\ EndOf(f.mem, f.buf) = EndOf(n.mem, n.buf) + k
  /\ f.mem.size = n.mem.size /\ f.mem.overflow = n.mem.overflow
  /\ f.input = n.input /\ f.size = n.size /\ f.s = n.s /\ f.w = n.w
  /\ f.failed = n.failed

LEMMA OptsAre ==
  ASSUME Inputs
  PROVE  /\ IsText /\ text.size \in Nat /\ opts.ctxt \in Nat \ {0}
         /\ opts.fixed \in BOOLEAN /\ opts.verbose \in BOOLEAN /\ opts.noError \in BOOLEAN
         /\ opts.echo \in BOOLEAN /\ opts.typePlace \in Places
         /\ fault.at \in Nat /\ fault.place \in Nat
BY DEF Inputs, IsText, Places

LEMMA FitMoves ==
  ASSUME Inputs, NEW n, Agree(n)
  PROVE  /\ Moved(Fit(n), n, 0) /\ Fit(n).rest = n.rest /\ Fit(n).t = n.t
         /\ Fit(n).small = n.small /\ Fit(n).error = n.error
         /\ \/ Len(n.mem.data) <= opts.ctxt /\ Fit(n).mem = n.mem /\ Fit(n).buf = n.buf
            \/ Len(Fit(n).mem.data) = opts.ctxt
<1> DEFINE L == Len(n.mem.data)  c == opts.ctxt  f == Fit(n)
<1>1. n \in Locals /\ Kept(n.mem, n.buf) /\ Sited(n.input)
  BY DEF Agree
<1>2. c \in Nat \ {0} /\ IsText
  BY OptsAre
<1>3. L \in Nat /\ EndOf(n.mem, n.buf) \in Nat
  BY <1>1, KeptHas
<1>4. CASE L <= c
  <2>1. f = n
    BY <1>4 DEF Fit
  <2>2. EndOf(n.mem, n.buf) + 0 = EndOf(n.mem, n.buf)
    BY <1>3
  <2> HIDE DEF f
  <2>3. Moved(f, n, 0) /\ f = n
    BY <1>1, <2>1, <2>2 DEF Moved, Agree
  <2> QED BY <1>4, <2>3 DEF f
<1>5. CASE ~(L <= c)
  <2> DEFINE mem == ShiftFit(n.mem, c)  buf == AddressFit(n.buf, n.mem, c)
  <2>1. f = [n EXCEPT !.buf = buf, !.mem = mem]
    BY <1>5 DEF Fit
  <2>2. c \in 1..L
    BY <1>2, <1>3, <1>5
  <2>3. /\ Kept(mem, buf) /\ EndOf(mem, buf) = EndOf(n.mem, n.buf)
        /\ mem.size = n.mem.size /\ mem.overflow = n.mem.overflow /\ Len(mem.data) = c
    BY <1>1, <1>2, <2>2, FitKeeps
  <2>4. mem \in Buffers /\ buf \in Addresses
    BY <2>3 DEF Kept
  <2> HIDE DEF f, mem, buf
  <2>5. /\ f \in Locals /\ f.mem = mem /\ f.buf = buf /\ f.rest = n.rest /\ f.t = n.t
        /\ f.small = n.small /\ f.input = n.input /\ f.size = n.size /\ f.s = n.s
        /\ f.w = n.w /\ f.failed = n.failed /\ f.error = n.error
    BY <1>1, <2>1, <2>4 DEF Locals
  <2>6. EndOf(n.mem, n.buf) + 0 = EndOf(n.mem, n.buf)
    BY <1>3
  <2>7. Moved(f, n, 0)
    BY <1>1, <2>3, <2>5, <2>6 DEF Moved, Agree
  <2> QED BY <2>3, <2>5, <2>7 DEF f
<1> QED BY <1>4, <1>5

(* Once the place of an error is found, or found to be lost, the bytes up  *)
(* to it are in buf and those after it are left of the piece.              *)
Located(f, n, piece) ==
  \/ f.failed /\ f.s = n.s /\ Agree(f)
  \/ \E k \in 0..Len(piece) :
       /\ Moved(f, n, k) /\ f.t = "after_error"
       /\ f.rest = SubSeq(piece, k + 1, Len(piece))

LEMMA LocateMoves ==
  ASSUME Inputs, NEW n, Agree(n), NEW r \in Nat,
         n.rest = Run(EndOf(n.mem, n.buf), r)
  PROVE  Located(Locate(n, n.rest), n, n.rest)
<1> DEFINE piece == n.rest
           i     == GetOffset(n.input, n.w, piece)
           j     == GetOffset(n.buf, n.w, n.mem.data)
           lead  == SubSeq(piece, 1, i)
           moved == [n EXCEPT !.buf  = AddressShiftIn(n.buf, n.mem, lead),
                              !.mem  = ShiftIn(n.mem, lead),
                              !.rest = SubSeq(piece, i + 1, Len(piece))]
           f     == Locate(n, n.rest)
           e     == EndOf(n.mem, n.buf)
<1>1. n \in Locals /\ Kept(n.mem, n.buf) /\ Sited(n.input) /\ IsText
  BY OptsAre DEF Agree
<1>2. /\ n.input \in Addresses /\ n.buf \in Addresses /\ n.w \in Places
      /\ n.rest \in Seq(Nat) /\ n.mem.data \in Seq(Nat) /\ e \in Nat
  <2>1. n.mem.data \in Seq(Nat) /\ e \in Nat
    BY <1>1, KeptHas
  <2> QED BY <1>1, <2>1 DEF Locals
<1>3. i \in Int /\ i <= Len(piece) /\ j \in Int
  BY <1>2, GetOffsetIs
<1>4. Len(piece) = r
  BY <1>2, RunIs
<1>5. SubSeq(piece, 0 + 1, Len(piece)) = piece
  <2>1. 0 \in 0..r /\ e + 0 = e /\ r - 0 = r
    BY <1>2
  <2> HIDE DEF e
  <2>2. SubSeq(Run(e, r), 0 + 1, r) = Run(e + 0, r - 0)
    BY <1>2, <2>1, RunAfter, Zenon
  <2> QED BY <1>4, <2>1, <2>2 DEF e
(* What is changed besides is no part of Moved.                            *)
<1>6. ASSUME NEW g, g \in Locals, g.t = "after_error", g.rest = piece,
             g.mem = n.mem, g.buf = n.buf, g.input = n.input, g.size = n.size, g.s = n.s,
             g.w = n.w, g.failed = n.failed
      PROVE  Located(g, n, piece)
  <2>1. Agree(g)
    BY <1>1, <1>6 DEF Agree
  <2>2. e + 0 = e
    BY <1>2
  <2>3. Moved(g, n, 0)
    BY <1>6, <2>1, <2>2 DEF Moved
  <2>4. 0 \in 0..Len(piece)
    BY <1>4
  <2> QED BY <1>5, <1>6, <2>3, <2>4 DEF Located
<1>7. CASE i = Failed \/ (i = Nowhere /\ j = Failed)
  <2>1. f = [n EXCEPT !.failed = TRUE]
    BY <1>7 DEF Locate
  <2> HIDE DEF f
  <2>2. /\ f \in Locals /\ f.failed /\ f.s = n.s
        /\ f.mem = n.mem /\ f.buf = n.buf /\ f.input = n.input
    BY <1>1, <2>1 DEF Locals
  <2> QED BY <1>1, <2>2 DEF f, Located, Agree
<1>8. CASE i = Nowhere /\ j = Nowhere
  <2>1. f = [[n EXCEPT !.small = TRUE] EXCEPT !.t = "after_error"]
    BY <1>8 DEF Locate, After, Failed, Nowhere
  <2> DEFINE h == [n EXCEPT !.small = TRUE]
  <2> HIDE DEF f
  <2>2. h \in Locals /\ h.mem = n.mem /\ h.buf = n.buf /\ h.input = n.input
        /\ h.size = n.size /\ h.s = n.s /\ h.w = n.w /\ h.failed = n.failed /\ h.rest = piece
    BY <1>1 DEF Locals
  <2>3. f = [h EXCEPT !.t = "after_error"]
    BY <2>1
  <2> HIDE DEF h
  <2>4. /\ f \in Locals /\ f.t = "after_error" /\ f.rest = piece
        /\ f.mem = n.mem /\ f.buf = n.buf /\ f.input = n.input /\ f.size = n.size
        /\ f.s = n.s /\ f.w = n.w /\ f.failed = n.failed
    BY <2>2, <2>3 DEF Locals
  <2> QED BY <2>4, <1>6 DEF f
(* The two ways to keep buf.                                               *)
<1>9. ASSUME NEW h, h \in Locals, h.rest = piece,
             h.mem = n.mem, h.buf = n.buf, h.input = n.input, h.size = n.size, h.s = n.s,
             h.w = n.w, h.failed = n.failed
      PROVE  Located(After(Fit(h)), n, piece)
  <2>1. Agree(h)
    BY <1>1, <1>9 DEF Agree
  <2>2. Moved(Fit(h), h, 0) /\ Fit(h).rest = piece
    BY <2>1, <1>9, FitMoves
  <2> DEFINE g == Fit(h)  a == After(g)
  <2>3. a = [g EXCEPT !.t = "after_error"]
    BY DEF After
  <2>4. g \in Locals
    BY <2>2 DEF Moved, Agree
  <2> HIDE DEF g, a
  <2>5. /\ a \in Locals /\ a.t = "after_error" /\ a.rest = g.rest
        /\ a.mem = g.mem /\ a.buf = g.buf /\ a.input = g.input /\ a.size = g.size
        /\ a.s = g.s /\ a.w = g.w /\ a.failed = g.failed
    BY <2>3, <2>4 DEF Locals
  <2>6. Moved(a, n, 0)
    BY <1>9, <2>2, <2>5 DEF Moved, Agree, g
  <2>7. 0 \in 0..Len(piece)
    BY <1>4
  <2> QED BY <1>5, <2>2, <2>5, <2>6, <2>7 DEF Located, g, a
<1>10. CASE i = Nowhere /\ j # Nowhere /\ j # Failed
  <2> DEFINE h == [n EXCEPT !.error = n.buf.beg + j]
  <2>1. f = After(Fit(h))
    BY <1>10 DEF Locate, Failed, Nowhere
  <2>2. n.buf.beg + j \in Int
    BY <1>2, <1>3 DEF Addresses
  <2>3. h \in Locals /\ h.mem = n.mem /\ h.buf = n.buf /\ h.input = n.input
        /\ h.size = n.size /\ h.s = n.s /\ h.w = n.w /\ h.failed = n.failed /\ h.rest = piece
    BY <1>1, <2>2 DEF Locals
  <2> QED BY <2>1, <2>3, <1>9
<1>11. CASE i # Failed /\ i # Nowhere /\ ~(i > 0)
  <2> DEFINE h == [n EXCEPT !.error = n.input.beg]
  <2>1. f = After(Fit(h))
    BY <1>11 DEF Locate
  <2>2. n.input.beg \in Int
    BY <1>2 DEF Addresses
  <2>3. h \in Locals /\ h.mem = n.mem /\ h.buf = n.buf /\ h.input = n.input
        /\ h.size = n.size /\ h.s = n.s /\ h.w = n.w /\ h.failed = n.failed /\ h.rest = piece
    BY <1>1, <2>2 DEF Locals
  <2> QED BY <2>1, <2>3, <1>9
<1>12. CASE i # Failed /\ i # Nowhere /\ i > 0
  <2> DEFINE h == [moved EXCEPT !.error = moved.buf.beg + Len(moved.mem.data)]
             tail == SubSeq(piece, i + 1, Len(piece))
             buf == AddressShiftIn(n.buf, n.mem, lead)
             mem == ShiftIn(n.mem, lead)
  <2>1. f = After(Fit(h))
    BY <1>12 DEF Locate
  <2>2. i \in Nat /\ i \in 0..r /\ i \in 0..Len(piece) /\ e + i \in Nat /\ r - i \in Nat
    BY <1>2, <1>3, <1>4, <1>12
  <2>3. lead = Run(e, i)
    <3> HIDE DEF e, i
    <3>1. SubSeq(Run(e, r), 1, i) = Run(e, i)
      BY <1>2, <2>2, RunFirst, Zenon
    <3> QED BY <3>1 DEF e
  <2>4. tail = Run(e + i, r - i) /\ tail \in Seq(Nat)
    <3> HIDE DEF e, i
    <3>1. SubSeq(Run(e, r), i + 1, r) = Run(e + i, r - i)
      BY <1>2, <2>2, RunAfter, Zenon
    <3>2. Run(e + i, r - i) \in Seq(Nat)
      BY <2>2, RunIs, Zenon
    <3> QED BY <1>4, <3>1, <3>2 DEF e
  <2>5. /\ Kept(mem, buf) /\ EndOf(mem, buf) = e + i
        /\ mem.size = n.mem.size /\ mem.overflow = n.mem.overflow
    <3>1. i \in Nat
      BY <2>2
    <3>2. LET bytes == Run(EndOf(n.mem, n.buf), i)
          IN  Shifted(ShiftIn(n.mem, bytes), AddressShiftIn(n.buf, n.mem, bytes),
                      n.mem, n.buf, i)
      <4> HIDE DEF i
      <4> QED BY <1>1, <3>1, ShiftInKeeps
    <3> HIDE DEF i, lead
    <3> QED BY <2>3, <3>2 DEF Shifted
  <2>6. mem \in Buffers /\ buf \in Addresses
    BY <2>5 DEF Kept
  <2>7. moved = [n EXCEPT !.buf = buf, !.mem = mem, !.rest = tail]
    OBVIOUS
  <2> HIDE DEF mem, buf, tail, moved, lead, i
  <2>8. /\ moved \in Locals /\ moved.mem = mem /\ moved.buf = buf /\ moved.rest = tail
        /\ moved.input = n.input /\ moved.size = n.size /\ moved.s = n.s
        /\ moved.w = n.w /\ moved.failed = n.failed
    BY <1>1, <2>4, <2>6, <2>7 DEF Locals
  <2>9. moved.buf.beg + Len(moved.mem.data) \in Int
    BY <2>2, <2>5, <2>8 DEF EndOf
  <2>10. /\ h \in Locals /\ h.mem = mem /\ h.buf = buf /\ h.rest = tail
         /\ h.input = n.input /\ h.size = n.size /\ h.s = n.s
         /\ h.w = n.w /\ h.failed = n.failed
    BY <2>8, <2>9 DEF Locals
  <2> HIDE DEF h
  <2>11. Agree(h)
    BY <1>1, <2>5, <2>10 DEF Agree
  <2>12. Moved(Fit(h), h, 0) /\ Fit(h).rest = tail
    BY <2>10, <2>11, FitMoves
  <2> DEFINE g == Fit(h)  a == After(g)
  <2>13. a = [g EXCEPT !.t = "after_error"]
    BY DEF After
  <2>14. g \in Locals
    BY <2>12 DEF Moved, Agree
  <2> HIDE DEF g, a
  <2>15. /\ a \in Locals /\ a.t = "after_error" /\ a.rest = g.rest
         /\ a.mem = g.mem /\ a.buf = g.buf /\ a.input = g.input /\ a.size = g.size
         /\ a.s = g.s /\ a.w = g.w /\ a.failed = g.failed
    BY <2>13, <2>14 DEF Locals
  <2>16. EndOf(mem, buf) + 0 = e + i
    BY <2>2, <2>5
  <2>17. Moved(a, n, i)
    <3> HIDE DEF f
    <3> QED BY <2>5, <2>10, <2>12, <2>15, <2>16 DEF Moved, Agree, g
  <2>18. Located(a, n, piece)
    <3> HIDE DEF f
    <3> QED BY <2>2, <2>12, <2>15, <2>17 DEF Located, g, tail
  <2> QED BY <2>1, <2>18 DEF a, g
<1>13. \/ i = Failed \/ (i = Nowhere /\ j = Failed)
       \/ i = Nowhere /\ j = Nowhere
       \/ i = Nowhere /\ j # Nowhere /\ j # Failed
       \/ i # Failed /\ i # Nowhere /\ ~(i > 0)
       \/ i # Failed /\ i # Nowhere /\ i > 0
  OBVIOUS
<1> QED BY <1>7, <1>8, <1>10, <1>11, <1>12, <1>13

(* No more is taken of the bytes left than buf has room for.               *)
LEMMA LimitIs ==
  ASSUME NEW n, Agree(n), NEW c \in Nat, NEW k \in Nat, n.rest = Run(c, k)
  PROVE  \E l \in 0..k :
           /\ Limit(n).rest = Run(c, l)
           /\ Len(n.mem.data) + l <= n.mem.size /\ l <= n.size
           /\ Limit(n).size = n.size - l
           /\ \/ l = k
              \/ Len(n.mem.data) + l = n.mem.size
              \/ n.size - l = 0
           /\ Limit(n) \in Locals
           /\ Limit(n).mem = n.mem /\ Limit(n).buf = n.buf /\ Limit(n).input = n.input
           /\ Limit(n).t = n.t /\ Limit(n).small = n.small /\ Limit(n).s = n.s
           /\ Limit(n).w = n.w /\ Limit(n).failed = n.failed /\ Limit(n).error = n.error
<1> DEFINE L == Len(n.mem.data)  z == n.mem.size
           three == {Len(n.rest), z - L, n.size}
           l == Sets!Min(three)
           q == Limit(n)
<1>1. n \in Locals /\ Kept(n.mem, n.buf) /\ n.size \in Nat
  BY DEF Agree, Locals
<1>2. L \in Nat /\ z \in Nat /\ z - L \in Nat
  BY <1>1, KeptHas
<1>3. Len(n.rest) = k
  BY RunIs
<1>4. l \in three /\ \A x \in three : l <= x
  <2>1. three \in SUBSET Nat /\ three # {}
    BY <1>1, <1>2, <1>3
  <2> HIDE DEF three
  <2> QED BY <2>1, MinIs
<1>5. l \in 0..k /\ n.size - l \in Nat /\ L + l <= z /\ l <= n.size
  <2>1. l \in Nat /\ l <= k /\ l <= z - L /\ l <= n.size
    BY <1>1, <1>2, <1>3, <1>4
  <2> HIDE DEF l, three, L, z
  <2> QED BY <1>1, <1>2, <2>1
<1>6. l = k \/ L + l = z \/ n.size - l = 0
  BY <1>1, <1>2, <1>3, <1>4
<1>7. q = [n EXCEPT !.rest = SubSeq(n.rest, 1, l), !.size = n.size - l]
  BY <1>1 DEF Limit, Locals
<1> HIDE DEF l
<1>8. SubSeq(Run(c, k), 1, l) = Run(c, l) /\ Run(c, l) \in Seq(Nat)
  <2>1. SubSeq(Run(c, k), 1, l) = Run(c, l)
    BY <1>5, RunFirst, Zenon
  <2>2. l \in Nat
    BY <1>5
  <2> QED BY <2>1, <2>2, RunIs
<1> HIDE DEF q
<1>9. /\ q \in Locals /\ q.rest = Run(c, l) /\ q.size = n.size - l
      /\ q.mem = n.mem /\ q.buf = n.buf /\ q.input = n.input
      /\ q.t = n.t /\ q.small = n.small /\ q.s = n.s /\ q.w = n.w /\ q.failed = n.failed
      /\ q.error = n.error
  BY <1>1, <1>5, <1>7, <1>8 DEF Locals
<1> HIDE DEF L, z
<1> QED BY <1>5, <1>6, <1>9 DEF q, L, z

(* How buf stands to the bytes that were read before the byte f + 1.       *)
Full(n) == Len(n.mem.data) = n.mem.size \/ n.size = 0

Ready(n, f) ==
  /\ ~opts.fixed => EndOf(n.mem, n.buf) = f
  /\ opts.fixed /\ n.t = "before_error" =>
       EndOf(n.mem, n.buf) = f /\ n.input.beg = f /\ ~n.small
  /\ opts.fixed /\ n.t = "after_error" =>
       (EndOf(n.mem, n.buf) = f \/ Full(n)) /\ (~n.small => n.input.beg = f)
  /\ n.s = "ok" => n.t = "before_error"
  /\ n.t # "eof_error"

(* What a turn makes of n, of whose k bytes left it appends l.             *)
Filled(g, n, k, l) ==
  /\ g.buf = n.buf /\ g.mem.size = n.mem.size /\ g.size = n.size - l
  /\ g.mem.overflow = FALSE => Len(g.mem.data) = Len(n.mem.data) + l
  /\ l = k \/ Len(n.mem.data) + l = n.mem.size \/ n.size - l = 0

Turned(g, n, k, f) ==
  /\ Agree(g) /\ g.s = n.s /\ g.w = n.w /\ g.t = n.t /\ g.small = n.small
  /\ g.error = n.error /\ g.failed = n.failed
  /\ g.mem.overflow = FALSE => Ready(g, f)
  /\ \E l \in 0..k : Filled(g, n, k, l)

(* Once an error was found, what comes after it is appended as far as buf  *)
(* has room for it, and no byte after one that was left out.               *)
LEMMA RestKept ==
  ASSUME Inputs, opts.fixed, NEW n, Agree(n), n.t = "after_error", n.s # "ok",
         NEW c \in Nat, NEW k \in Nat, n.rest = Run(c, k),
         NEW f \in Nat, NEW r \in Nat, c + k = f + r,
         EndOf(n.mem, n.buf) = c \/ Full(n), ~n.small => n.input.beg = f
  PROVE  Turned(Keep(Limit(n), Run(f, r)), n, k, f + r)
<1> DEFINE q == Limit(n)  g == Keep(q, Run(f, r))
           mem == AppendTo(q.mem, q.rest)
           input == IF n.small THEN n.input ELSE AddressUpdate(n.input, Run(f, r))
<1>1. n \in Locals /\ Kept(n.mem, n.buf) /\ Sited(n.input) /\ IsText
      /\ n.input \in Addresses /\ n.size \in Nat
  BY OptsAre DEF Agree, Locals
<1>2. PICK l \in 0..k :
        /\ q.rest = Run(c, l)
        /\ Len(n.mem.data) + l <= n.mem.size /\ l <= n.size /\ q.size = n.size - l
        /\ (l = k \/ Len(n.mem.data) + l = n.mem.size \/ n.size - l = 0)
        /\ q \in Locals
        /\ q.mem = n.mem /\ q.buf = n.buf /\ q.input = n.input
        /\ q.t = n.t /\ q.small = n.small /\ q.s = n.s /\ q.w = n.w /\ q.failed = n.failed
        /\ q.error = n.error
  <2> HIDE DEF q
  <2> QED BY LimitIs DEF q
<1> HIDE DEF q
<1>3. g = [q EXCEPT !.buf = q.buf, !.input = input, !.mem = mem]
  BY <1>2 DEF Keep
<1>4. /\ Len(n.mem.data) \in Nat /\ n.mem.size \in Nat /\ n.buf.beg \in Nat
      /\ Len(n.mem.data) <= n.mem.size /\ EndOf(n.mem, n.buf) \in Nat /\ l \in Nat
  BY <1>1, KeptHas
<1>5. q.rest = Run(EndOf(n.mem, n.buf), l)
  <2>1. CASE EndOf(n.mem, n.buf) = c
    BY <1>2, <2>1
  <2>2. CASE Len(n.mem.data) = n.mem.size \/ n.size = 0
    <3>1. l = 0
      BY <1>1, <1>2, <1>4, <2>2
    <3> QED BY <1>2, <1>4, <3>1, RunNone
  <2> QED BY <2>1, <2>2 DEF Full
<1>6. /\ Kept(mem, n.buf)
      /\ mem.overflow = FALSE => EndOf(mem, n.buf) = EndOf(n.mem, n.buf) + l
      /\ mem.size = n.mem.size
  <2> HIDE DEF q
  <2>1. mem = AppendTo(n.mem, Run(EndOf(n.mem, n.buf), l))
    BY <1>2, <1>5
  <2>2. Appended(AppendTo(n.mem, Run(EndOf(n.mem, n.buf), l)), n.mem, n.buf, l)
    <3>1. Kept(n.mem, n.buf) /\ l \in Nat
      BY <1>1, <1>4
    <3> QED BY <3>1, AppendKeeps
  <2> HIDE DEF mem
  <2> QED BY <1>2, <2>1, <2>2 DEF Appended
<1>7. /\ input \in Addresses /\ Sited(input)
      /\ ~n.small => input.beg = f + r
  <2>1. CASE n.small
    BY <1>1, <2>1
  <2>2. CASE ~n.small
    <3>1. input = AddressUpdate(n.input, Run(n.input.beg, r)) /\ n.input.beg = f
      BY <2>2
    <3> HIDE DEF input
    <3> QED BY <1>1, <3>1, Advanced
  <2> QED BY <2>1, <2>2
<1> HIDE DEF g, mem, input
<1>8. /\ g \in Locals /\ g.mem = mem /\ g.buf = n.buf /\ g.input = input /\ g.t = n.t
      /\ g.small = n.small /\ g.s = n.s /\ g.size = n.size - l /\ g.w = n.w
      /\ g.error = n.error /\ g.failed = n.failed
  <2>1. mem \in Buffers
    BY <1>6 DEF Kept
  <2> QED BY <1>2, <1>3, <1>7, <2>1 DEF Locals
<1>9. Agree(g)
  BY <1>6, <1>7, <1>8 DEF Agree
<1>10. ASSUME mem.overflow = FALSE PROVE Len(mem.data) = Len(n.mem.data) + l
  <2>1. n.buf.beg + Len(mem.data) = n.buf.beg + Len(n.mem.data) + l
    BY <1>6, <1>10 DEF EndOf
  <2>2. Len(mem.data) \in Nat
    BY <1>6, KeptHas
  <2>3. Len(mem.data) = Len(n.mem.data) + l
    <3>1. PICK x \in Nat : x = Len(mem.data)
      BY <2>2
    <3>2. PICK y \in Nat, b \in Nat : y = Len(n.mem.data) /\ b = n.buf.beg
      BY <1>4
    <3>3. b + x = b + y + l
      BY <2>1, <3>1, <3>2
    <3>4. x = y + l
      BY <1>4, <3>3
    <3> QED BY <3>1, <3>2, <3>4
  <2> QED BY <2>3
<1>11. ASSUME mem.overflow = FALSE PROVE EndOf(mem, n.buf) = f + r \/ Full(g)
  <2>3. Len(mem.data) = Len(n.mem.data) + l
    BY <1>10, <1>11
  <2>4. CASE EndOf(n.mem, n.buf) = c /\ l = k
    BY <1>6, <1>11, <2>4
  <2>5. CASE Len(n.mem.data) + l = n.mem.size
    BY <1>6, <1>8, <2>3, <2>5 DEF Full
  <2>6. CASE n.size - l = 0
    BY <1>8, <2>6 DEF Full
  <2>7. CASE Full(n)
    <3>1. l = 0
      BY <1>1, <1>2, <1>4, <2>7 DEF Full
    <3> QED BY <1>1, <1>4, <1>6, <1>8, <2>3, <2>7, <3>1 DEF Full
  <2> QED BY <1>2, <2>4, <2>5, <2>6, <2>7
<1>12. mem.overflow = FALSE => Ready(g, f + r)
  BY <1>7, <1>8, <1>11 DEF Ready
<1>13. Filled(g, n, k, l)
  BY <1>2, <1>6, <1>8, <1>10 DEF Filled
<1> QED BY <1>2, <1>8, <1>9, <1>12, <1>13 DEF g, q, Turned

(* What a turn of the loop keeps for the messages stays right, whatever is *)
(* found in the piece.                                                     *)
LEMMA KeepContextKeeps ==
  ASSUME Inputs, NEW n, Agree(n), NEW f \in Nat, NEW r \in Nat,
         Ready(n, f) \/ (Ready([n EXCEPT !.s = "ok"], f) /\ n.s = "error")
  PROVE  LET g == KeepContext(n, Run(f, r)) IN
         /\ Agree(g) /\ g.s = n.s
         /\ g.failed = FALSE /\ g.mem.overflow = FALSE => Ready(g, f + r)
<1> DEFINE piece  == Run(f, r)
           found  == opts.fixed /\ n.t = "before_error" /\ n.s # "ok"
           rested == [n EXCEPT !.rest = piece]
           placed == IF found THEN Locate(rested, piece) ELSE rested
           few    == IF opts.fixed /\ n.s # "ok" THEN Limit(placed) ELSE placed
           g      == KeepContext(n, piece)
<1>1. n \in Locals /\ Kept(n.mem, n.buf) /\ Sited(n.input) /\ IsText
      /\ n.input \in Addresses /\ n.s \in {"ok", "error"} /\ opts.fixed \in BOOLEAN
  BY OptsAre DEF Agree, Locals
<1>2. g = IF placed.failed THEN placed ELSE Keep(few, piece)
  BY DEF KeepContext
<1>3. piece \in Seq(Nat) /\ Len(piece) = r
  BY RunIs
<1>4. /\ rested \in Locals /\ rested.rest = piece /\ rested.mem = n.mem
      /\ rested.buf = n.buf /\ rested.input = n.input /\ rested.size = n.size
      /\ rested.t = n.t /\ rested.small = n.small /\ rested.s = n.s /\ rested.w = n.w
      /\ rested.failed = n.failed
  BY <1>1, <1>3 DEF Locals
<1>5. /\ ~opts.fixed => EndOf(n.mem, n.buf) = f
      /\ opts.fixed /\ n.t = "before_error" =>
           EndOf(n.mem, n.buf) = f /\ n.input.beg = f /\ ~n.small
      /\ opts.fixed /\ n.t = "after_error" =>
           (EndOf(n.mem, n.buf) = f \/ Full(n)) /\ (~n.small => n.input.beg = f)
      /\ n.s = "ok" => n.t = "before_error"
      /\ n.t # "eof_error"
  <2>1. CASE Ready(n, f)
    BY <2>1 DEF Ready
  <2>2. CASE Ready([n EXCEPT !.s = "ok"], f) /\ n.s = "error"
    <3> DEFINE o == [n EXCEPT !.s = "ok"]
    <3>1. o.mem = n.mem /\ o.buf = n.buf /\ o.input = n.input /\ o.size = n.size
          /\ o.t = n.t /\ o.small = n.small /\ o.s = "ok"
      BY <1>1 DEF Locals
    <3> HIDE DEF o
    <3>2. Ready(o, f)
      BY <2>2 DEF o
    <3> QED BY <2>2, <3>1, <3>2 DEF Ready, Full
  <2> QED BY <2>1, <2>2
<1> HIDE DEF rested
<1>6. Agree(rested)
  BY <1>1, <1>4 DEF Agree
(* All of the input is kept.                                               *)
<1>7. CASE ~opts.fixed /\ ~n.failed
  <2> DEFINE mem == AppendTo(n.mem, Run(EndOf(n.mem, n.buf), r))
  <2>1. EndOf(n.mem, n.buf) = f
    BY <1>5, <1>7
  <2>2. g = [rested EXCEPT !.buf = n.buf, !.input = n.input, !.mem = mem]
    BY <1>2, <1>4, <1>7, <2>1 DEF Keep
  <2>3. Kept(mem, n.buf) /\ (mem.overflow = FALSE => EndOf(mem, n.buf) = f + r)
    <3>1. Appended(mem, n.mem, n.buf, r)
      BY <1>1, AppendKeeps
    <3> QED BY <2>1, <3>1 DEF Appended
  <2> HIDE DEF g, mem
  <2>4. /\ g \in Locals /\ g.mem = mem /\ g.buf = n.buf /\ g.input = n.input
        /\ g.t = n.t /\ g.s = n.s
    BY <1>4, <1>1, <2>2, <2>3 DEF Locals, Kept
  <2>5. Agree(g)
    BY <1>1, <2>3, <2>4 DEF Agree
  <2>6. mem.overflow = FALSE => Ready(g, f + r)
    BY <1>5, <1>7, <2>3, <2>4 DEF Ready
  <2> QED BY <2>4, <2>5, <2>6 DEF g
(* No error so far: the bytes are shifted into buf.                        *)
<1>8. CASE opts.fixed /\ n.s = "ok" /\ ~n.failed
  <2> DEFINE mem   == ShiftIn(n.mem, Run(EndOf(n.mem, n.buf), r))
             buf   == AddressShiftIn(n.buf, n.mem, Run(EndOf(n.mem, n.buf), r))
             input == AddressUpdate(n.input, Run(n.input.beg, r))
  <2>1. EndOf(n.mem, n.buf) = f /\ n.input.beg = f /\ ~n.small /\ n.t = "before_error"
    BY <1>5, <1>8
  <2>2. g = [rested EXCEPT !.buf = buf, !.input = input, !.mem = mem]
    <3>1. g = Keep(rested, piece)
      BY <1>2, <1>4, <1>8
    <3>2. Keep(rested, piece)
            = [rested EXCEPT !.buf = AddressShiftIn(rested.buf, rested.mem, rested.rest),
                             !.input = AddressUpdate(rested.input, piece),
                             !.mem = ShiftIn(rested.mem, rested.rest)]
      BY <1>4, <1>8, <2>1 DEF Keep
    <3>3. /\ AddressShiftIn(rested.buf, rested.mem, rested.rest) = buf
          /\ ShiftIn(rested.mem, rested.rest) = mem
          /\ AddressUpdate(rested.input, piece) = input
      <4>1. rested.rest = Run(EndOf(n.mem, n.buf), r) /\ piece = Run(n.input.beg, r)
        BY <1>4, <2>1
      <4> HIDE DEF piece
      <4> QED BY <1>4, <4>1
    <3> HIDE DEF g, buf, mem, input, piece
    <3> QED BY <3>1, <3>2, <3>3
  <2>3. Kept(mem, buf) /\ EndOf(mem, buf) = f + r
    BY <1>1, <2>1, ShiftInKeeps DEF Shifted
  <2>4. input \in Addresses /\ Sited(input) /\ input.beg = f + r
    BY <1>1, <2>1, Advanced
  <2> HIDE DEF g, mem, buf, input
  <2>5. /\ g \in Locals /\ g.mem = mem /\ g.buf = buf /\ g.input = input
        /\ g.t = n.t /\ g.s = n.s /\ g.small = n.small
    BY <1>4, <2>2, <2>3, <2>4 DEF Locals, Kept
  <2>6. Agree(g) /\ g.s = n.s /\ Ready(g, f + r)
    BY <1>8, <2>1, <2>3, <2>4, <2>5 DEF Agree, Ready
  <2> QED BY <2>6 DEF g
(* The error is in this piece, or before it.                               *)
<1>9. CASE opts.fixed /\ n.s = "error" /\ n.t = "before_error"
  <2>1. EndOf(n.mem, n.buf) = f /\ n.input.beg = f
    BY <1>5, <1>9
  <2>2. Located(Locate(rested, piece), rested, piece)
    BY <1>4, <1>6, <2>1, LocateMoves
  <2> DEFINE p == Locate(rested, piece)
  <2>3. g = IF p.failed THEN p ELSE Keep(Limit(p), piece)
    BY <1>2, <1>9
  <2> HIDE DEF p, g
  <2>4. CASE p.failed /\ p.s = n.s /\ Agree(p)
    BY <2>3, <2>4 DEF g
  <2>5. CASE ~p.failed /\ \E k \in 0..Len(piece) :
               /\ Moved(p, rested, k) /\ p.t = "after_error"
               /\ p.rest = SubSeq(piece, k + 1, Len(piece))
    <3>1. PICK k \in 0..r :
               /\ Moved(p, rested, k) /\ p.t = "after_error"
               /\ p.rest = SubSeq(piece, k + 1, r)
      BY <1>3, <2>5
    <3>2. SubSeq(piece, k + 1, r) = Run(f + k, r - k)
      BY RunAfter, Zenon
    <3>3. f + k \in Nat /\ r - k \in Nat /\ f + k + (r - k) = f + r
      OBVIOUS
    <3>4. /\ Agree(p) /\ EndOf(p.mem, p.buf) = f + k /\ p.input.beg = f /\ p.s # "ok"
          /\ p.s = n.s
      BY <1>4, <1>9, <2>1, <3>1 DEF Moved
    <3>5. Turned(Keep(Limit(p), piece), p, r - k, f + r)
      BY <1>9, <3>1, <3>2, <3>3, <3>4, RestKept
    <3> QED BY <2>3, <2>5, <3>4, <3>5 DEF g, Turned
  <2>6. (p.failed /\ p.s = n.s /\ Agree(p))
        \/ (~p.failed /\ \E k \in 0..Len(piece) :
               /\ Moved(p, rested, k) /\ p.t = "after_error"
               /\ p.rest = SubSeq(piece, k + 1, Len(piece)))
    <3>1. Located(p, rested, piece)
      BY <2>2 DEF p
    <3>2. \A k : Moved(p, rested, k) => Agree(p) /\ p.s = n.s
      BY <1>4 DEF Moved
    <3> QED BY <1>4, <3>1, <3>2 DEF Located
  <2> QED BY <2>4, <2>5, <2>6
(* The error was found before.                                             *)
<1>10. CASE opts.fixed /\ n.s = "error" /\ n.t = "after_error" /\ ~n.failed
  <2>1. g = Keep(Limit(rested), piece)
    BY <1>2, <1>4, <1>10
  <2>2. /\ EndOf(rested.mem, rested.buf) = f \/ Full(rested)
        /\ ~rested.small => rested.input.beg = f
    BY <1>4, <1>5, <1>10 DEF Full
  <2>3. Turned(Keep(Limit(rested), piece), rested, r, f + r)
    BY <1>4, <1>6, <1>10, <2>2, RestKept
  <2> QED BY <1>4, <2>1, <2>3 DEF Turned
<1>11. CASE n.failed
  <2>1. CASE found
    BY <1>9, <2>1, <1>1
  <2>2. CASE ~found
    <3>1. g = rested
      BY <1>2, <1>4, <1>11, <2>2
    <3> QED BY <1>4, <1>6, <1>11, <3>1
  <2> QED BY <2>1, <2>2
<1> QED BY <1>1, <1>5, <1>7, <1>8, <1>9, <1>10, <1>11 DEF Locals

-----------------------------------------------------------------------------
(* AddressesAgree.  Two facts make it inductive: what buf and the address  *)
(* of the pieces tell is always right, of the end of the run as well; and  *)
(* while the loop is reading, buf ends where the next piece begins, unless *)
(* nothing more is to be appended to it.                                   *)

RunInv ==
  /\ Inputs /\ fed \in Nat /\ Agree(m)
  /\ pc = "reading" /\ Verbose => Ready(m, fed)

LEMMA AgreeShows ==
  ASSUME Agree(m)
  PROVE  AddressesAgree
<1> DEFINE L == Len(m.mem.data)  b == m.buf.beg
<1>1. Kept(m.mem, m.buf) /\ Sited(m.input) /\ Sited(m.buf)
  BY DEF Agree, Kept
<1>2. L \in Nat /\ b \in Nat /\ m.mem.data = Run(b, L) /\ L <= m.mem.size
  <2>1. L \in Nat /\ b \in Nat
    BY <1>1, KeptHas
  <2> QED BY <1>1, <2>1 DEF Kept
<1>3. DOMAIN m.mem.data = 1..L /\ \A k \in 1..L : m.mem.data[k] = b + k
  <2> HIDE DEF L, b
  <2>1. DOMAIN Run(b, L) = 1..L /\ \A k \in 1..L : Run(b, L)[k] = b + k
    BY <1>2, RunIs
  <2> QED BY <1>2, <2>1
<1>4. IsRun(m.mem.data)
  <2> HIDE DEF L, b
  <2>1. ASSUME NEW k \in 1..L PROVE m.mem.data[k] = m.mem.data[1] + k - 1
    <3>1. 1 \in 1..L
      BY <1>2
    <3>2. m.mem.data[1] = b + 1 /\ m.mem.data[k] = b + k
      BY <1>3, <3>1
    <3> QED BY <1>2, <3>2
  <2> QED BY <1>3, <2>1 DEF IsRun
<1>5. m.mem.data # <<>> => m.mem.data[1] = b + 1
  <2>1. m.mem.data \in Seq(Nat)
    BY <1>1, KeptHas
  <2>2. m.mem.data # <<>> => L # 0
    BY <2>1, EmptySeq
  <2> HIDE DEF L, b
  <2>3. L # 0 => 1 \in 1..L
    BY <1>2
  <2> QED BY <1>3, <2>2, <2>3
<1> QED BY <1>1, <1>2, <1>4, <1>5 DEF AddressesAgree, Sited

(* What no run changes.                                                    *)
LEMMA InputsStay ==
  ASSUME Inputs, UNCHANGED <<text, fault, opts>>
  PROVE  /\ Inputs' /\ (Agree(m') => Agree(m)')
         /\ Verbose' = Verbose /\ \A f : Ready(m', f) => Ready(m, f)'
<1>1. Inputs'
  BY DEF Inputs
<1>2. Agree(m') => Agree(m)'
  BY DEF Agree, Kept, Sited, PlaceOf
<1>3. Verbose' = Verbose
  BY DEF Verbose
<1>4. ASSUME NEW f PROVE Ready(m', f) => Ready(m, f)'
  BY DEF Ready, EndOf, Full
<1> QED BY <1>1, <1>2, <1>3, <1>4

(* A change of anything but of buf and of the address of the pieces.       *)
LEMMA AgreeStays ==
  ASSUME NEW n, Agree(n), NEW g \in Locals,
         g.mem = n.mem, g.buf = n.buf, g.input = n.input
  PROVE  Agree(g)
BY DEF Agree

LEMMA BufBegins ==
  ASSUME Inputs
  PROVE  Kept(NewBuf, Start) /\ EndOf(NewBuf, Start) = 0
<1> DEFINE size == 2 * opts.ctxt + 1
           buf  == IF opts.fixed THEN Create(size, size) ELSE Create(ErrMax, ErrInit)
<1>1. IsText /\ opts.ctxt \in Nat
  BY OptsAre
<1>2. \A max, init \in Nat :
        /\ Create(max, init) \in Buffers /\ Create(max, init).data = <<>>
        /\ Create(max, init).init \in Nat
  <2>1. <<>> \in Seq(Nat)
    OBVIOUS
  <2> QED BY <2>1 DEF Create, Buffers
<1>3. buf \in Buffers /\ buf.data = <<>> /\ buf.init \in Nat
  <2>1. size \in Nat /\ ErrMax \in Nat /\ ErrInit \in Nat
    BY <1>1, SizesAssumption
  <2> HIDE DEF size
  <2> QED BY <1>2, <2>1
<1>4. NewBuf \in Buffers /\ NewBuf.data = <<>>
  <2>1. NewBuf = IF Verbose THEN Enlarge(buf, buf.init) ELSE Create(0, 0)
    BY DEF NewBuf
  <2> HIDE DEF buf
  <2>2. Enlarge(buf, buf.init) \in Buffers /\ Enlarge(buf, buf.init).data = <<>>
    BY <1>3, EnlargeIs
  <2>3. Create(0, 0) \in Buffers /\ Create(0, 0).data = <<>>
    BY <1>2
  <2> QED BY <2>1, <2>2, <2>3
<1>5. Start \in Addresses /\ Sited(Start) /\ Start.beg = 0
  BY <1>1, StartSited DEF Start
<1>6. Len(NewBuf.data) = 0 /\ NewBuf.data = Run(0, 0) /\ NewBuf.size \in Nat
  <2>1. Run(0, 0) = <<>>
    BY RunNone
  <2> QED BY <1>4, <2>1 DEF Buffers
<1> QED BY <1>4, <1>5, <1>6 DEF Kept, EndOf

LEMMA RunBegins ==
  ASSUME Inputs, RunInit
  PROVE  RunInv
<1>1. Kept(NewBuf, Start) /\ EndOf(NewBuf, Start) = 0
  BY BufBegins
<1>2. NewBuf \in Buffers /\ Start \in Addresses /\ Sited(Start) /\ Start.beg = 0
  BY <1>1 DEF Kept, Start
<1>3. opts.ctxt + 1 \in Nat /\ opts.typePlace \in Places /\ NoPlace \in Places
  BY OptsAre DEF NoPlace, Places
<1>4. /\ m \in Locals /\ m.mem = NewBuf /\ m.buf = Start /\ m.input = Start
      /\ m.t = "before_error" /\ ~m.small
  BY <1>2, <1>3 DEF RunInit, Locals
<1>5. Agree(m)
  BY <1>1, <1>2, <1>4 DEF Agree
<1>6. fed = 0
  BY DEF RunInit
<1>7. Ready(m, 0)
  BY <1>1, <1>2, <1>4 DEF Ready
<1> QED BY <1>5, <1>6, <1>7 DEF RunInv

LEMMA ParsedKeeps ==
  ASSUME Inputs, NEW n, Agree(n), NEW piece
  PROVE  LET p == Parsed(n, piece) IN
         /\ Agree(p)
         /\ \A f : Ready(n, f) =>
              Ready(p, f) \/ (Ready([p EXCEPT !.s = "ok"], f) /\ p.s = "error")
<1> DEFINE p == Parsed(n, piece)
           o == [p EXCEPT !.s = "ok"]
<1>1. n \in Locals
  BY DEF Agree
<1>2. CASE n.s = "ok" /\ Finds(piece)
  <2>1. PlaceOf(fault.place) \in Places
    BY OptsAre, PlaceIs DEF Places
  <2>2. p = [n EXCEPT !.s = "error", !.w = PlaceOf(fault.place)]
    BY <1>2 DEF Parsed
  <2> HIDE DEF p
  <2>3. /\ p \in Locals /\ p.mem = n.mem /\ p.buf = n.buf /\ p.input = n.input
        /\ p.size = n.size /\ p.t = n.t /\ p.small = n.small /\ p.s = "error"
    BY <1>1, <2>1, <2>2 DEF Locals
  <2>4. /\ o.mem = n.mem /\ o.buf = n.buf /\ o.input = n.input
        /\ o.size = n.size /\ o.t = n.t /\ o.small = n.small /\ o.s = "ok"
    BY <2>3 DEF Locals
  <2> HIDE DEF o
  <2>5. Agree(p)
    BY <2>3, AgreeStays
  <2>6. \A f : Ready(n, f) => Ready(o, f)
    BY <1>2, <2>4 DEF Ready, Full
  <2> QED BY <2>3, <2>5, <2>6 DEF p, o
<1>3. CASE ~(n.s = "ok" /\ Finds(piece))
  <2>1. p = n
    BY <1>3 DEF Parsed
  <2> QED BY <2>1
<1> QED BY <1>2, <1>3

LEMMA MemGetOffsetIs ==
  ASSUME NEW bytes \in Seq(Nat), NEW w \in Places
  PROVE  MemGetOffset(bytes, w) \in Int
<1>1. FindNth(bytes, w.line - 1) \in Nat
  BY FindNthIs
<1>2. w.col \in Int
  BY DEF Places
<1> QED BY <1>1, <1>2 DEF MemGetOffset, Failed

LEMMA ReadKeeps ==
  ASSUME RunInv, NEW r \in 1..BufSize, Read(r)
  PROVE  RunInv'
<1> DEFINE piece  == Run(fed, r)
           parsed == Parsed(m, piece)
           kept   == IF Verbose THEN KeepContext(parsed, piece) ELSE parsed
<1>1. Inputs /\ fed \in Nat /\ Agree(m) /\ r \in Nat
  BY SizesAssumption DEF RunInv
<1>2. /\ pc = "reading" /\ fed' = fed + r /\ m' = kept
      /\ pc' = "reading" => ~kept.failed /\ ~kept.mem.overflow
      /\ UNCHANGED <<text, fault, opts>>
  BY DEF Read, Run
<1>3. Verbose => Ready(m, fed)
  BY <1>2 DEF RunInv
<1>4. /\ Agree(parsed)
      /\ Verbose => \/ Ready(parsed, fed)
                    \/ Ready([parsed EXCEPT !.s = "ok"], fed) /\ parsed.s = "error"
  <2> HIDE DEF piece
  <2> QED BY <1>1, <1>3, ParsedKeeps
<1>5. /\ Agree(kept)
      /\ Verbose /\ kept.failed = FALSE /\ kept.mem.overflow = FALSE => Ready(kept, fed + r)
  <2> HIDE DEF parsed
  <2> QED BY <1>1, <1>4, KeepContextKeeps
<1>6. kept.failed \in BOOLEAN /\ kept.mem.overflow \in BOOLEAN
  <2> HIDE DEF kept
  <2> QED BY <1>5 DEF Agree, Locals, Buffers
<1>7. Agree(m') /\ (pc' = "reading" /\ Verbose => Ready(m', fed'))
  <2> HIDE DEF kept
  <2> QED BY <1>2, <1>5, <1>6
<1>8. fed' \in Nat
  BY <1>1, <1>2
<1> QED BY <1>1, <1>2, <1>7, <1>8, InputsStay DEF RunInv

LEMMA EndKeeps ==
  ASSUME RunInv, End
  PROVE  RunInv'
<1> DEFINE a == SeeEnd(m)  b == ParsedDone(a)  n == Settle(b)
<1>1. Inputs /\ fed \in Nat /\ Agree(m) /\ m \in Locals
  BY DEF RunInv, Agree
<1>2. /\ pc' \in {"done", "aborted", "ran"} /\ m' \in {m, n}
      /\ UNCHANGED <<text, fault, opts, fed>>
  BY DEF End
<1>3. a \in Locals /\ a.mem = m.mem /\ a.buf = m.buf /\ a.input = m.input
  BY <1>1 DEF SeeEnd, Locals
<1> HIDE DEF a
<1>4. b \in Locals /\ b.mem = m.mem /\ b.buf = m.buf /\ b.input = m.input
  <2>1. PlaceOf(fault.place) \in Places
    BY <1>1, OptsAre, PlaceIs DEF Places
  <2> QED BY <1>3, <2>1 DEF ParsedDone, Locals
<1> HIDE DEF b
<1>5. n \in Locals /\ n.mem = m.mem /\ n.buf = m.buf /\ n.input = m.input
  <2> DEFINE o    == GetOffset(b.buf, b.w, b.mem.data)
             size == Len(b.mem.data)
  <2>1. o \in Int
    <3>1. b.buf \in Addresses /\ b.w \in Places /\ b.mem.data \in Seq(Nat)
      BY <1>4 DEF Locals, Buffers
    <3> QED BY <3>1, GetOffsetIs
  <2>2. b.error \in Int /\ b.buf.beg \in Int /\ b.error - b.buf.beg \in Int
    BY <1>4 DEF Locals, Addresses
  <2>3. CASE b.s # "ok" /\ b.t = "before_error" /\ Verbose
    <3> DEFINE e == IF size > 0 /\ o >= 0 THEN o ELSE b.error
               small == (size > 0 /\ o = Nowhere)
               failed == (size > 0 /\ o = Failed)
    <3>1. n = [b EXCEPT !.t = "eof_error", !.error = e, !.small = small, !.failed = failed]
      BY <2>3 DEF Settle
    <3>2. e \in Int /\ small \in BOOLEAN /\ failed \in BOOLEAN
      BY <2>1, <2>2
    <3> HIDE DEF n, e, small, failed
    <3> QED BY <1>4, <3>1, <3>2 DEF Locals
  <2>4. CASE b.s # "ok" /\ b.t # "before_error" /\ ~b.small /\ b.error < b.buf.beg
    <3>1. n = [b EXCEPT !.small = TRUE]
      BY <2>4 DEF Settle
    <3> HIDE DEF n
    <3> QED BY <1>4, <3>1 DEF Locals
  <2>5. CASE b.s # "ok" /\ b.t # "before_error" /\ ~b.small /\ ~(b.error < b.buf.beg)
    <3> DEFINE small == (Verbose /\ size < b.error - b.buf.beg)
    <3>1. n = [b EXCEPT !.error = b.error - b.buf.beg, !.small = small]
      BY <2>5, <1>4 DEF Settle, Locals
    <3>2. small \in BOOLEAN
      OBVIOUS
    <3> HIDE DEF n, small
    <3> QED BY <1>4, <2>2, <3>1, <3>2 DEF Locals
  <2>6. CASE ~(b.s # "ok" /\ b.t = "before_error" /\ Verbose)
             /\ ~(b.s # "ok" /\ b.t # "before_error" /\ ~b.small)
    <3>1. n = b
      BY <2>6 DEF Settle
    <3> QED BY <1>4, <3>1
  <2> QED BY <2>3, <2>4, <2>5, <2>6
<1> HIDE DEF n
<1>6. Agree(m')
  BY <1>1, <1>2, <1>5, AgreeStays
<1> QED BY <1>1, <1>2, <1>6, InputsStay DEF RunInv

LEMMA CheckErrorKeeps ==
  ASSUME RunInv, NEW w \in Places, CheckError(w)
  PROVE  RunInv'
<1> DEFINE o == MemGetOffset(m.mem.data, w)
           refused == [m EXCEPT !.s = "error", !.w = w]
           failed == (o = Failed)
           n == [refused EXCEPT !.failed = failed, !.error = o]
<1>1. Inputs /\ fed \in Nat /\ Agree(m) /\ m \in Locals
  BY DEF RunInv, Agree
<1>2. /\ pc' \in {"done", "aborted"} /\ m' \in {refused, n}
      /\ UNCHANGED <<text, fault, opts, fed>>
  BY DEF CheckError
<1>3. o \in Int
  <2>1. m.mem.data \in Seq(Nat)
    BY <1>1 DEF Locals, Buffers
  <2> QED BY <2>1, MemGetOffsetIs
<1>4. /\ refused \in Locals /\ refused.mem = m.mem /\ refused.buf = m.buf
      /\ refused.input = m.input
  BY <1>1 DEF Locals
<1> HIDE DEF refused
<1>5. failed \in BOOLEAN
  OBVIOUS
<1> HIDE DEF o, failed
<1>6. n \in Locals /\ n.mem = m.mem /\ n.buf = m.buf /\ n.input = m.input
  BY <1>3, <1>4, <1>5 DEF Locals
<1> HIDE DEF n
<1>7. Agree(m')
  BY <1>1, <1>2, <1>4, <1>6, AgreeStays
<1> QED BY <1>1, <1>2, <1>7, InputsStay DEF RunInv

LEMMA RunSteps ==
  ASSUME RunInv, [RunNext]_runVars
  PROVE  RunInv'
<1>1. Inputs /\ fed \in Nat /\ Agree(m) /\ m \in Locals
  BY DEF RunInv, Agree
<1>2. CASE \E r \in 1..BufSize : Read(r)
  BY <1>2, ReadKeeps
<1>3. CASE ReadEnd
  <2>1. /\ pc' = "ending" /\ UNCHANGED <<text, fault, opts, fed>>
        /\ m' = [m EXCEPT !.t = IF m.t = "after_error" THEN "eof_error" ELSE m.t]
    BY <1>1, <1>3 DEF ReadEnd, Locals
  <2>2. m' \in Locals /\ m'.mem = m.mem /\ m'.buf = m.buf /\ m'.input = m.input
    BY <1>1, <2>1 DEF Locals
  <2>3. Agree(m')
    BY <1>1, <2>2, AgreeStays
  <2> QED BY <1>1, <2>1, <2>3, InputsStay DEF RunInv
<1>4. CASE End
  BY <1>4, EndKeeps
<1>5. CASE \E i \in 1..text.size : CheckError(PlaceOf(i))
  <2>1. PICK i \in 1..text.size : CheckError(PlaceOf(i))
    BY <1>5
  <2>2. PlaceOf(i) \in Places
    <3>1. i \in Nat /\ IsText
      BY <1>1, OptsAre
    <3> QED BY <3>1, PlaceIs DEF Places
  <2> QED BY <2>1, <2>2, CheckErrorKeeps
<1>6. CASE CheckError(NoPlace)
  <2>1. NoPlace \in Places
    BY DEF NoPlace, Places
  <2> QED BY <1>6, <2>1, CheckErrorKeeps
<1>7. CASE Accept
  <2>1. pc' = "done" /\ m' = m /\ UNCHANGED <<text, fault, opts, fed>>
    BY <1>7 DEF Accept
  <2> QED BY <1>1, <2>1, InputsStay DEF RunInv
<1>8. CASE UNCHANGED runVars
  <2>1. m' = m /\ pc' = pc /\ UNCHANGED <<text, fault, opts, fed>>
    BY <1>8 DEF runVars
  <2>2. pc' = "reading" /\ Verbose' => Ready(m', fed)
    BY <1>1, <2>1, InputsStay DEF RunInv
  <2> QED BY <1>1, <2>1, <2>2, InputsStay DEF RunInv
<1> QED BY <1>2, <1>3, <1>4, <1>5, <1>6, <1>7, <1>8 DEF RunNext

(* The line and the column that the program keeps for the bytes of buf,    *)
(* which it updates by every path that drops bytes, are those of its first *)
(* byte, and buf is a run of the input: whatever the sizes of the buffers, *)
(* the input, its error, and the pieces it is read in.                     *)
THEOREM AddressesAgreeCorrect == RunSpec => []AddressesAgree
<1>1. Inputs /\ RunInit => RunInv
  BY RunBegins
<1>2. RunInv /\ [RunNext]_runVars => RunInv'
  BY RunSteps
<1>3. RunInv => AddressesAgree
  BY AgreeShows DEF RunInv
<1> QED BY <1>1, <1>2, <1>3, PTL DEF RunSpec
=============================================================================
