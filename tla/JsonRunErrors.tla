--------------------------- MODULE JsonRunErrors ---------------------------
(***************************************************************************)
(* What the program json tells of an error (JsonRun): that it finds every  *)
(* one, finds the place of it in the bytes that it kept, and shows the     *)
(* byte at that place; and that it shows the bytes around it whenever it   *)
(* can: of its input it keeps, in a buffer of a fixed size, what a message *)
(* about an error found later will show; whatever the sizes of its buffers *)
(* and contexts, the input, the pieces it is read in and the options.      *)
(***************************************************************************)
EXTENDS JsonRunProofs

-----------------------------------------------------------------------------
(* Places are in the order of the bytes that have them.                    *)

LEMMA PlaceBefore ==
  ASSUME IsText, NEW i \in Nat, NEW j \in Nat, i < j
  PROVE  /\ IsBefore(PlaceOf(i), PlaceOf(j)) /\ ~IsBefore(PlaceOf(j), PlaceOf(i))
         /\ PlaceOf(i) # PlaceOf(j)
<1> DEFINE a == EndsBefore(i)  b == EndsBefore(j)
           x == Sets!Max(a \cup {0})  y == Sets!Max(b \cup {0})
<1>1. a \subseteq b /\ IsFiniteSet(b) /\ Cardinality(a) \in Nat /\ Cardinality(b) \in Nat
  <2>1. a \subseteq b
    BY DEF EndsBefore, IsText
  <2> QED BY <2>1, EndsAre
<1>2. /\ PlaceOf(i).line = 1 + Cardinality(a) /\ PlaceOf(i).col = i - x
      /\ PlaceOf(j).line = 1 + Cardinality(b) /\ PlaceOf(j).col = j - y
      /\ x \in Nat /\ y \in Nat
  BY PlaceIs, EndsAre
<1> HIDE DEF a, b, x, y
<1>3. CASE a = b
  <2>1. x = y
    BY <1>3 DEF x, y
  <2>2. PlaceOf(i).line = PlaceOf(j).line /\ PlaceOf(i).col < PlaceOf(j).col
    BY <1>2, <1>3, <2>1
  <2>3. PlaceOf(i).col \in Int /\ PlaceOf(j).col \in Int /\ PlaceOf(i).line \in Int
    BY <1>1, <1>2
  <2> QED BY <2>2, <2>3 DEF IsBefore
<1>4. CASE a # b
  <2>1. Cardinality(a) < Cardinality(b)
    <3>1. Cardinality(a) <= Cardinality(b) /\ (Cardinality(a) = Cardinality(b) => a = b)
      BY <1>1, FS_Subset
    <3> QED BY <1>1, <1>4, <3>1
  <2>2. PlaceOf(i).line < PlaceOf(j).line /\ PlaceOf(i).line \in Int /\ PlaceOf(j).line \in Int
    BY <1>1, <1>2, <2>1
  <2> QED BY <2>2 DEF IsBefore
<1> QED BY <1>3, <1>4

(* The last end of a line in the first n bytes of a run, as mem_find_nth   *)
(* finds it: by their number.                                              *)
LEMMA NthIs ==
  ASSUME IsText, NEW b \in Nat, NEW l \in Nat, NEW n \in 0..l, LineEnds(Run(b, n)) # {}
  PROVE  /\ FindNth(Run(b, l), Cardinality(LineEnds(Run(b, n)))) = Sets!Max(LineEnds(Run(b, n)))
         /\ Sets!Max(LineEnds(Run(b, n))) \in LineEnds(Run(b, n))
         /\ \A k \in LineEnds(Run(b, n)) : k <= Sets!Max(LineEnds(Run(b, n)))
<1> DEFINE all == LineEnds(Run(b, l))  these == LineEnds(Run(b, n))
           x == Sets!Max(these)  upto(k) == { j \in all : j <= k }
           nth == { k \in all : Cardinality(upto(k)) = Cardinality(these) }
<1>1. n \in Nat
  OBVIOUS
<1>2. /\ all = { k \in 1..l : b + k \in text.nl } /\ IsFiniteSet(all) /\ all \in SUBSET Nat
      /\ these = { k \in 1..n : b + k \in text.nl } /\ IsFiniteSet(these)
      /\ these \in SUBSET Nat /\ these \subseteq 0..n
  BY <1>1, EndsIn
<1>3. these = { k \in all : k <= n }
  BY <1>2
<1>4. x \in these /\ \A k \in these : k <= x
  <2>1. these # {}
    OBVIOUS
  <2> HIDE DEF these
  <2> QED BY <1>1, <1>2, <2>1, MaxIs
<1> HIDE DEF x
<1>5. upto(x) = these /\ x \in all
  <2> HIDE DEF all, these
  <2>1. \A k \in all : k \in Nat
    BY <1>2
  <2>2. x <= n /\ x \in Nat
    BY <1>2, <1>3, <1>4
  <2>3. \A k \in all : k <= x => k <= n
    BY <2>1, <2>2
  <2> QED BY <1>3, <1>4, <2>3
<1>6. ASSUME NEW k \in nth PROVE k = x
  <2> HIDE DEF all, these
  <2>1. k \in all /\ k \in Nat /\ x \in Nat /\ Cardinality(upto(k)) = Cardinality(these)
    BY <1>2, <1>4
  <2>2. IsFiniteSet(upto(k))
    <3>1. upto(k) \subseteq all
      OBVIOUS
    <3> QED BY <1>2, <3>1, FS_Subset
  <2>3. CASE k < x
    <3>1. upto(k) \subseteq these /\ upto(k) # these
      <4>1. \A j \in all : j \in Nat
        BY <1>2
      <4>2. \A j \in all : j <= k => j <= x
        BY <2>1, <2>3, <4>1
      <4>3. ~(x <= k)
        BY <2>1, <2>3
      <4> QED BY <1>4, <1>5, <4>2, <4>3
    <3>2. FALSE
      BY <1>2, <2>1, <3>1, FS_Subset
    <3> QED BY <3>2
  <2>4. CASE x < k
    <3>1. these \subseteq upto(k) /\ upto(k) # these
      <4>1. \A j \in all : j \in Nat
        BY <1>2
      <4>2. \A j \in all : j <= x => j <= k
        BY <2>1, <2>4, <4>1
      <4>3. ~(k <= x) /\ k <= k
        BY <2>1, <2>4
      <4> QED BY <1>4, <1>5, <2>1, <4>2, <4>3
    <3>2. FALSE
      BY <2>1, <2>2, <3>1, FS_Subset
    <3> QED BY <3>2
  <2> QED BY <2>1, <2>3, <2>4
<1>7. nth = {x}
  BY <1>5, <1>6
<1>8. FindNth(Run(b, l), Cardinality(these)) = IF nth = {} THEN 0 ELSE Sets!Min(nth)
  BY DEF FindNth
<1>9. Sets!Min({x}) = x
  <2>1. {x} \in SUBSET Nat /\ {x} # {}
    BY <1>2, <1>4
  <2> QED BY <2>1, MinIs
<1> HIDE DEF nth, these, all
<1>10. nth # {} /\ Sets!Min(nth) = x
  BY <1>7, <1>9
<1> QED BY <1>4, <1>8, <1>10 DEF x, these

(* The offset of a place is found where that place is.                     *)
LEMMA OffsetIs ==
  ASSUME IsText, NEW a \in Addresses, Sited(a), NEW l \in Nat,
         NEW p \in Nat \ {0}, p <= a.beg + l + 1
  PROVE  GetOffset(a, PlaceOf(p), Run(a.beg, l))
           = IF p <= a.beg THEN Nowhere ELSE p - a.beg - 1
<1> DEFINE beg == a.beg  w == PlaceOf(p)  bytes == Run(beg, l)
           d    == w.line - a.line
           q    == IF d = 0 THEN 0 ELSE FindNth(bytes, d)
           c    == IF d = 0 THEN w.col - a.col ELSE w.col - 1
           ends == { k \in LineEnds(bytes) : k > q }
           r    == IF ends = {} THEN Len(bytes) ELSE Sets!Min(ends) - 1 - q
<1>1. /\ beg \in Nat /\ beg + 1 \in Nat /\ p \in Nat /\ Len(bytes) = l
      /\ a.line = PlaceOf(beg + 1).line /\ a.col = PlaceOf(beg + 1).col
  BY RunIs, PlaceIs DEF Addresses, Sited
<1>6. IsBefore(w, a) <=> IsBefore(w, PlaceOf(beg + 1))
  BY <1>1 DEF IsBefore
<1>2. GetOffset(a, w, bytes) =
        IF w.line = 0 \/ w.col = 0 THEN Failed
        ELSE IF IsBefore(w, a) THEN Nowhere
        ELSE IF d > 0 /\ q = 0 THEN Failed
        ELSE IF c > r \/ q + c > Len(bytes) THEN Nowhere
        ELSE q + c
  BY DEF GetOffset
<1>3. w.line # 0 /\ w.col # 0
  <2> DEFINE x == Sets!Max(EndsBefore(p) \cup {0})
  <2>1. /\ Cardinality(EndsBefore(p)) \in Nat /\ x \in Nat
        /\ x \in EndsBefore(p) \cup {0}
        /\ w.line = 1 + Cardinality(EndsBefore(p)) /\ w.col = p - x
    BY EndsAre, PlaceIs
  <2> HIDE DEF x
  <2>2. x < p
    BY <2>1 DEF EndsBefore
  <2> HIDE DEF w
  <2> QED BY <1>1, <2>1, <2>2
<1> HIDE DEF d, q, c, ends, r, bytes, w
<1>4. CASE p <= beg
  <2>1. p < beg + 1
    BY <1>1, <1>4
  <2>2. IsBefore(w, a)
    BY <1>1, <1>6, <2>1, PlaceBefore DEF w
  <2> QED BY <1>2, <1>3, <1>4, <2>2 DEF w, bytes
<1>5. CASE ~(p <= beg)
  <2>1. PICK n \in 0..l : n = p - beg - 1
    BY <1>1, <1>5
  <2>2. n \in Nat /\ p = beg + n + 1
    <3>1. PICK x \in Nat : x = beg
      BY <1>1
    <3> HIDE DEF beg
    <3>2. n = p - x - 1
      BY <2>1, <3>1
    <3> QED BY <3>1, <3>2
  <2>3. ~IsBefore(w, a)
    <3>1. CASE p = beg + 1
      <4>1. PlaceOf(p).line \in Int /\ PlaceOf(p).col \in Int
        BY PlaceIs
      <4> QED BY <1>1, <3>1, <4>1 DEF w, IsBefore
    <3>2. CASE beg + 1 < p
      BY <1>1, <1>6, <3>2, PlaceBefore DEF w
    <3> QED BY <1>1, <1>5, <3>1, <3>2
  <2> DEFINE these == LineEnds(Run(beg, n))
             all   == LineEnds(bytes)
             old   == EndsBefore(beg + 1)
             now   == EndsBefore(p)
             x     == Sets!Max(old \cup {0})
             y     == Sets!Max(now \cup {0})
  <2>4. /\ these = { k \in 1..n : beg + k \in text.nl } /\ these \in SUBSET Nat
        /\ Cardinality(these) \in Nat /\ IsFiniteSet(these)
        /\ Cardinality(now) = Cardinality(old) + Cardinality(these)
        /\ all = { k \in 1..l : beg + k \in text.nl } /\ all \in SUBSET Nat
    BY <1>1, <2>2, EndsIn DEF bytes
  <2>5. /\ Cardinality(old) \in Nat /\ x \in Nat /\ y \in Nat
        /\ a.line = 1 + Cardinality(old) /\ a.col = (beg + 1) - x
        /\ w.line = 1 + Cardinality(now) /\ w.col = p - y
        /\ x \in old \cup {0} /\ y \in now \cup {0}
        /\ (\A k \in old : k <= x) /\ (\A k \in now : k <= y)
    BY <1>1, EndsAre, PlaceIs DEF w
  <2> HIDE DEF these, all, x, y
  <2>12. /\ x \in Nat /\ y \in Nat /\ a.col = (beg + 1) - x /\ w.col = p - y
         /\ a.col \in Int /\ w.col \in Int
    <3> HIDE DEF old, now
    <3> QED BY <1>1, <2>5
  <2>6. d = Cardinality(these)
    BY <2>4, <2>5 DEF d
  <2>7. now = old \cup { beg + k : k \in these }
    <3>1. ASSUME NEW k \in now PROVE k \in old \/ k \in { beg + j : j \in these }
      <4>1. k \in text.nl /\ k \in Nat /\ k < p
        BY DEF EndsBefore, IsText
      <4>2. CASE k < beg + 1
        BY <4>1, <4>2 DEF EndsBefore
      <4>3. CASE ~(k < beg + 1)
        <5>1. k - beg \in 1..n /\ beg + (k - beg) = k
          BY <1>1, <2>2, <4>1, <4>3
        <5> QED BY <2>4, <4>1, <5>1
      <4> QED BY <4>2, <4>3
    <3>2. ASSUME NEW k \in these PROVE beg + k \in now
      BY <1>1, <2>2, <2>4 DEF EndsBefore
    <3>3. old \subseteq now
      BY <1>1, <1>5 DEF EndsBefore, IsText
    <3> QED BY <3>1, <3>2, <3>3
(* The number of bytes before the place, after the last end of a line.     *)
  <2>8. q \in 0..n /\ q + c = n /\ (d > 0 => q # 0) /\ \A k \in all : k > q => k > n
    <3>1. CASE these = {}
      <4>1. d = 0
        BY <2>6, <3>1, FS_EmptySet
      <4>2. now = old
        BY <2>7, <3>1
      <4>3. x = y
        BY <4>2 DEF x, y
      <4>6. q = 0 /\ c = w.col - a.col
        BY <4>1 DEF q, c
      <4>4. q = 0 /\ c = n
        <5> HIDE DEF beg
        <5> QED BY <1>1, <2>2, <2>12, <4>3, <4>6
      <4>5. \A k \in all : k > n
        BY <2>2, <2>4, <3>1
      <4> QED BY <2>2, <4>1, <4>4, <4>5
    <3>2. CASE these # {}
      <4>1. /\ FindNth(bytes, Cardinality(these)) = Sets!Max(these)
            /\ Sets!Max(these) \in these /\ \A k \in these : k <= Sets!Max(these)
        BY <1>1, <3>2, NthIs DEF bytes, these
      <4>2. d # 0 /\ d \in Nat
        BY <2>4, <2>6, <3>2, FS_EmptySet
      <4>3. q = Sets!Max(these) /\ c = w.col - 1
        BY <2>6, <4>1, <4>2 DEF q, c
      <4>4. q \in these /\ q \in 1..n /\ \A k \in these : k <= q
        BY <2>4, <4>1, <4>3
      <4>5. beg + q \in now
        BY <2>7, <4>4
      <4>6. y = beg + q
        <5>1. y \in now /\ y >= beg + q
          <6>1. beg + q <= y /\ beg + q > 0 /\ y \in Nat /\ (y \in now \/ y = 0)
            <7> HIDE DEF now
            <7>1. y \in Nat /\ (y \in now \/ y = 0) /\ beg + q <= y
              BY <2>5, <4>5
            <7> QED BY <1>1, <4>4, <7>1
          <6> QED BY <1>1, <4>4, <6>1
        <5>2. CASE y \in old
          <6>1. y < beg + 1
            BY <5>2 DEF EndsBefore
          <6> QED BY <1>1, <2>5, <4>4, <5>1, <6>1
        <5>3. CASE y \in { beg + k : k \in these }
          <6>1. PICK k \in these : y = beg + k
            BY <5>3
          <6>2. k <= q /\ k \in Nat /\ q \in Nat
            BY <2>4, <4>4
          <6> QED BY <1>1, <5>1, <6>1, <6>2
        <5> QED BY <2>7, <5>1, <5>2, <5>3
      <4>7. q + c = n
        <5>1. q \in Nat /\ n \in Nat
          BY <2>2, <4>4
        <5>2. c = (p - y) - 1
          BY <2>12, <4>3
        <5> HIDE DEF beg
        <5>3. beg \in Nat /\ y = beg + q /\ p = beg + n + 1
          BY <1>1, <2>2, <4>6
        <5>4. (p - y) - 1 = n - q
          BY <5>1, <5>3
        <5> QED BY <5>1, <5>2, <5>4
      <4>8. ASSUME NEW k \in all, k > q PROVE k > n
        <5>1. k \in 1..l /\ beg + k \in text.nl
          BY <2>4
        <5>2. k <= n => k \in these
          BY <2>2, <2>4, <5>1
        <5> QED BY <2>2, <4>4, <4>8, <5>1, <5>2
      <4> QED BY <4>4, <4>7, <4>8
    <3> QED BY <3>1, <3>2
  <2>9. c <= r /\ q + c <= Len(bytes)
    <3>1. q \in Nat /\ c \in Int /\ q <= n
      <4>1. c \in Int
        <5>1. w.col \in Int /\ a.col \in Int
          BY <1>1, <2>5
        <5> QED BY <5>1 DEF c
      <4> QED BY <2>2, <2>8, <4>1
    <3>2. CASE ends = {}
      BY <1>1, <2>2, <2>8, <3>1, <3>2 DEF r
    <3>3. CASE ends # {}
      <4>1. ends \in SUBSET Nat
        BY <2>4 DEF ends, all
      <4>2. Sets!Min(ends) \in ends
        BY <3>3, <4>1, MinIs
      <4>3. Sets!Min(ends) > n /\ Sets!Min(ends) \in Nat
        BY <2>8, <4>1, <4>2 DEF ends, all
      <4> QED BY <1>1, <2>2, <2>8, <3>1, <3>3, <4>3 DEF r
    <3> QED BY <3>2, <3>3
  <2>10. r \in Int /\ c \in Int
    <3>1. q \in Nat /\ w.col \in Int /\ a.col \in Int
      BY <1>1, <2>2, <2>12, <2>8
    <3>2. c \in Int
      BY <3>1 DEF c
    <3>3. ends # {} => Sets!Min(ends) \in Nat
      <4>1. ends \in SUBSET Nat
        BY <2>4 DEF ends, all
      <4> QED BY <4>1, MinIs
    <3> QED BY <1>1, <3>1, <3>2, <3>3 DEF r
  <2>11. GetOffset(a, w, bytes) = q + c
    BY <1>1, <1>2, <1>3, <2>3, <2>8, <2>9, <2>10
  <2> QED BY <1>1, <1>5, <2>1, <2>8, <2>11 DEF w, bytes
<1> QED BY <1>4, <1>5

-----------------------------------------------------------------------------
(* ReadsToTheEnd.  It needs no more of a turn than that nothing in it but  *)
(* the parser finds an error, and takes none back.                         *)

Phases == {"reading", "ending", "ran", "done", "aborted", "fatal"}

ReadInv ==
  /\ RunInv
  /\ pc \in Phases /\ fed <= text.size
  /\ opts.echo => echoed = fed
  /\ Initial => m.s = "error" /\ (pc = "reading" => opts.echo)
  /\ pc \in {"reading", "ending"} /\ m.s = "ok" => fault.at \notin 1..fed
  /\ pc = "ending" => fed = text.size \/ (m.s = "error" /\ ~opts.echo)
  /\ pc = "ran" => m.s = "ok" /\ ~opts.fixed
  /\ pc \in {"ran", "done"} /\ m.s = "ok" => fed = text.size /\ fault.at = 0
  /\ pc = "done" /\ opts.echo => fed = text.size

LEMMA StatusIs ==
  ASSUME ReadInv
  PROVE  /\ Inputs /\ Agree(m) /\ m \in Locals /\ m.s \in {"ok", "error"}
         /\ fed \in Nat /\ text.size \in Nat /\ fault.at \in Nat /\ fault.at <= text.size + 1
BY DEF ReadInv, RunInv, Agree, Locals, Inputs

(* What a turn of the loop makes of the status.                            *)
LEMMA TurnStatus ==
  ASSUME Inputs, NEW n, Agree(n), NEW f \in Nat, NEW r \in Nat,
         Verbose => Ready(n, f)
  PROVE  LET p == Parsed(n, Run(f, r))
             k == IF Verbose THEN KeepContext(p, Run(f, r)) ELSE p
         IN  /\ k.s = p.s /\ p.s \in {"ok", "error"}
             /\ n.s = "error" => p.s = "error"
             /\ p.s = "ok" => n.s = "ok" /\ ~Finds(Run(f, r))
<1> DEFINE piece == Run(f, r)  p == Parsed(n, piece)
           k == IF Verbose THEN KeepContext(p, piece) ELSE p
<1>1. n \in Locals /\ n.s \in {"ok", "error"}
  BY DEF Agree, Locals
<1>2. /\ Agree(p)
      /\ Verbose => Ready(p, f) \/ (Ready([p EXCEPT !.s = "ok"], f) /\ p.s = "error")
  <2> HIDE DEF piece
  <2> QED BY ParsedKeeps
<1>3. /\ p.s \in {"ok", "error"} /\ (n.s = "error" => p.s = "error")
      /\ p.s = "ok" => n.s = "ok" /\ ~Finds(piece)
  <2> HIDE DEF piece
  <2>1. CASE n.s = "ok" /\ Finds(piece)
    <3>1. p.s = "error"
      BY <1>1, <2>1 DEF Parsed, Locals
    <3> QED BY <2>1, <3>1
  <2>2. CASE ~(n.s = "ok" /\ Finds(piece))
    <3>1. p = n
      BY <2>2 DEF Parsed
    <3> QED BY <1>1, <2>2, <3>1
  <2> QED BY <2>1, <2>2
<1>4. k.s = p.s
  <2>1. CASE Verbose
    <3> HIDE DEF p
    <3> QED BY <1>2, <2>1, KeepContextKeeps
  <2>2. CASE ~Verbose
    BY <2>2
  <2> QED BY <2>1, <2>2
<1> QED BY <1>3, <1>4

LEMMA FindsIs ==
  ASSUME Inputs, NEW f \in Nat, NEW r \in Nat
  PROVE  Finds(Run(f, r)) <=> fault.at \in f + 1..f + r
<1>1. DOMAIN Run(f, r) = 1..r /\ (\A i \in 1..r : Run(f, r)[i] = f + i) /\ fault.at \in Nat
  BY RunIs, OptsAre
<1>2. ASSUME fault.at \in f + 1..f + r PROVE Finds(Run(f, r))
  <2>1. fault.at - f \in 1..r /\ f + (fault.at - f) = fault.at
    BY <1>1, <1>2
  <2> QED BY <1>1, <2>1 DEF Finds
<1>3. ASSUME Finds(Run(f, r)) PROVE fault.at \in f + 1..f + r
  BY <1>1, <1>3 DEF Finds
<1> QED BY <1>2, <1>3

LEMMA ReadReads ==
  ASSUME ReadInv, NEW r \in 1..BufSize, Read(r)
  PROVE  ReadInv'
<1> DEFINE piece  == Run(fed, r)
           parsed == Parsed(m, piece)
           kept   == IF Verbose THEN KeepContext(parsed, piece) ELSE parsed
<1>1. /\ r \in Nat /\ r > 0 /\ Inputs /\ Agree(m) /\ fed \in Nat /\ text.size \in Nat
      /\ fault.at \in Nat /\ m.s \in {"ok", "error"}
  BY SizesAssumption, StatusIs
<1>2. /\ pc = "reading" /\ fed + r <= text.size /\ fed' = fed + r /\ m' = kept
      /\ echoed' = IF opts.echo THEN echoed + r ELSE echoed
      /\ pc' \in {"aborted", "fatal", "ending", "reading"}
      /\ pc' = "ending" => Enough(kept)
      /\ UNCHANGED <<text, fault, opts>>
  BY DEF Read, Run
<1>3. RunInv'
  BY ReadKeeps DEF ReadInv
<1>4. /\ kept.s \in {"ok", "error"} /\ (m.s = "error" => kept.s = "error")
      /\ kept.s = "ok" => m.s = "ok" /\ ~Finds(piece)
  <2>1. Verbose => Ready(m, fed)
    BY <1>2 DEF ReadInv, RunInv
  <2> QED BY <1>1, <2>1, TurnStatus
<1>5. Finds(piece) <=> fault.at \in fed + 1..fed + r
  BY <1>1, FindsIs
<1> HIDE DEF kept, piece
<1>6. kept.s = "ok" => fault.at \notin 1..(fed + r)
  <2>1. m.s = "ok" => fault.at \notin 1..fed
    BY <1>2 DEF ReadInv
  <2>2. fault.at \in 1..(fed + r) => fault.at \in 1..fed \/ fault.at \in fed + 1..fed + r
    BY <1>1
  <2> QED BY <1>4, <1>5, <2>1, <2>2
<1>7. pc' = "ending" => kept.s = "error" /\ ~opts.echo
  BY <1>2, <1>4 DEF Enough
<1>8. opts.echo => echoed' = fed'
  BY <1>1, <1>2 DEF ReadInv
<1>9. Initial' = Initial /\ (Initial => m.s = "error" /\ opts.echo)
  BY <1>2 DEF Initial, ReadInv
<1> QED BY <1>1, <1>2, <1>3, <1>4, <1>6, <1>7, <1>8, <1>9 DEF ReadInv, Phases

LEMMA ReadSteps ==
  ASSUME ReadInv, [RunNext]_runVars
  PROVE  ReadInv'
<1>1. RunInv'
  BY RunSteps DEF ReadInv
<1>2. /\ Inputs /\ Agree(m) /\ m \in Locals /\ m.s \in {"ok", "error"}
      /\ fed \in Nat /\ text.size \in Nat /\ fault.at \in Nat /\ fault.at <= text.size + 1
  BY StatusIs
<1>3. CASE \E r \in 1..BufSize : Read(r)
  BY <1>3, ReadReads
<1>4. CASE ReadEnd
  <2>1. /\ pc = "reading" /\ fed = text.size /\ pc' = "ending"
        /\ m' = [m EXCEPT !.t = IF m.t = "after_error" THEN "eof_error" ELSE m.t]
        /\ UNCHANGED <<text, fault, opts, fed, echoed>>
    BY <1>2, <1>4 DEF ReadEnd, Locals
  <2>2. m'.s = m.s
    BY <1>2, <2>1 DEF Locals
  <2> QED BY <1>1, <2>1, <2>2 DEF ReadInv, Phases, Initial
<1>5. CASE End
  <2> DEFINE a == SeeEnd(m)  b == ParsedDone(a)  n == Settle(b)
  <2>1. /\ pc = "ending" /\ UNCHANGED <<text, fault, opts, fed, echoed>>
        /\ m' = IF Initial THEN m ELSE n
        /\ pc' = IF Initial THEN "done"
                 ELSE IF n.failed THEN "aborted"
                 ELSE IF n.s = "ok" /\ ~opts.fixed THEN "ran" ELSE "done"
    BY <1>5 DEF End, Initial
  <2>2. a.s = m.s /\ a \in Locals
    BY <1>2 DEF SeeEnd, Locals
  <2> HIDE DEF a
  <2>3. /\ b.s \in {"ok", "error"} /\ b \in Locals
        /\ b.s = "ok" => m.s = "ok" /\ fault.at # text.size + 1
    <3>1. PlaceOf(fault.place) \in Places
      BY <1>2, OptsAre, PlaceIs DEF Places
    <3> QED BY <1>2, <2>2, <3>1 DEF ParsedDone, Locals
  <2> HIDE DEF b
  <2>4. n.s = b.s
    BY <2>3 DEF Settle, Locals
  <2> HIDE DEF n
  <2>5. ~Initial /\ n.s = "ok" => fed = text.size /\ fault.at = 0
    <3>1. ASSUME n.s = "ok" PROVE fed = text.size /\ fault.at = 0
      <4>1. m.s = "ok" /\ fault.at # text.size + 1
        BY <2>3, <2>4, <3>1
      <4>2. fed = text.size /\ fault.at \notin 1..fed
        BY <2>1, <4>1 DEF ReadInv
      <4> QED BY <1>2, <4>1, <4>2
    <3> QED BY <3>1
  <2>6. opts.echo => fed = text.size
    BY <2>1 DEF ReadInv
  <2> QED BY <1>1, <2>1, <2>5, <2>6 DEF ReadInv, Phases, Initial
<1>6. CASE \E w : CheckError(w)
  <2>1. PICK w : CheckError(w)
    BY <1>6
  <2>2. /\ pc = "ran" /\ m'.s = "error" /\ pc' \in {"done", "aborted"}
        /\ UNCHANGED <<text, fault, opts, fed, echoed>>
    BY <1>2, <2>1 DEF CheckError, Locals
  <2>3. ~opts.echo
    BY <1>2, <2>2 DEF ReadInv, Inputs
  <2> QED BY <1>1, <2>2, <2>3 DEF ReadInv, Phases, Initial
<1>7. CASE Accept
  BY <1>1, <1>2, <1>7 DEF Accept, ReadInv, Phases, Initial, Inputs
<1>8. CASE UNCHANGED runVars
  BY <1>1, <1>8 DEF runVars, ReadInv, Initial
<1> QED BY <1>3, <1>4, <1>5, <1>6, <1>7, <1>8 DEF RunNext

LEMMA ReadBegins ==
  ASSUME Inputs, RunInit
  PROVE  ReadInv
<1>1. RunInv
  BY RunBegins
<1>2. /\ pc = IF Initial /\ ~opts.echo THEN "done" ELSE "reading"
      /\ fed = 0 /\ echoed = 0 /\ m.s = IF Initial THEN "error" ELSE "ok"
  BY DEF RunInit, Initial
<1>3. text.size \in Nat /\ 1..0 = {}
  BY OptsAre
<1> QED BY <1>1, <1>2, <1>3 DEF ReadInv, Phases

(* Whatever the pieces that the input is read in, the program accepts it   *)
(* only after it has read and parsed all of it without an error, and what  *)
(* is to be written back is, once and to the end.                          *)
THEOREM ReadsToTheEndCorrect == RunSpec => []ReadsToTheEnd
<1>1. Inputs /\ RunInit => ReadInv
  BY ReadBegins
<1>2. ReadInv /\ [RunNext]_runVars => ReadInv'
  BY ReadSteps
<1>3. ReadInv => ReadsToTheEnd
  BY DEF ReadInv, ReadsToTheEnd
<1> QED BY <1>1, <1>2, <1>3, PTL DEF RunSpec

-----------------------------------------------------------------------------
(* The place of an error, once it is looked for: whether buf still has it, *)
(* and where.                                                              *)

(* Either the place is gone, or it is kept, or the next byte is it.        *)
Caught(p, q, f) ==
  /\ ~p.failed
  /\ ~p.small =>
       /\ p.error = q - 1 /\ p.error <= EndOf(p.mem, p.buf) /\ EndOf(p.mem, p.buf) < f
       /\ Len(p.mem.data) <= opts.ctxt /\ (Len(p.mem.data) = 0 => p.buf.beg = 0)

(* What buf keeps of the s bytes before the error, or before its piece.    *)
Begins(p, s) ==
  /\ EndOf(p.mem, p.buf) = s
  /\ p.buf.beg = IF s > opts.ctxt THEN s - opts.ctxt ELSE 0

(* The place q is lost when it was too far before the d bytes read by then.*)
Aimed(p, q, d) ==
  IF p.small THEN q <= d - opts.ctxt ELSE Begins(p, IF q > d THEN q - 1 ELSE d)

(* A buffer that lost no byte before it was full.                          *)
Filling(n) == n.buf.beg = 0 \/ Len(n.mem.data) = n.mem.size

LEMMA AfterFit ==
  ASSUME Inputs, NEW h, Agree(h), ~h.failed, Filling(h), h.mem.size > 0,
         NEW q \in Nat, h.error = q - 1, NEW f,
         h.error <= EndOf(h.mem, h.buf), EndOf(h.mem, h.buf) < f
  PROVE  /\ Caught(After(Fit(h)), q, f)
         /\ After(Fit(h)).small = h.small
         /\ h.mem.size = 2 * opts.ctxt + 1 => Begins(After(Fit(h)), EndOf(h.mem, h.buf))
<1> DEFINE g == Fit(h)  a == After(g)
<1>1. /\ Agree(g) /\ g \in Locals /\ EndOf(g.mem, g.buf) = EndOf(h.mem, h.buf) + 0
      /\ g.failed = h.failed /\ g.error = h.error /\ g.small = h.small
      /\ \/ Len(h.mem.data) <= opts.ctxt /\ g.mem = h.mem /\ g.buf = h.buf
         \/ Len(g.mem.data) = opts.ctxt
  BY FitMoves DEF Moved, Agree
<1>2. a = [g EXCEPT !.t = "after_error"]
  BY DEF After
<1> HIDE DEF g, a
<1>3. /\ a.mem = g.mem /\ a.buf = g.buf /\ a.failed = g.failed /\ a.error = g.error
      /\ a.small = g.small
  BY <1>1, <1>2 DEF Locals
<1>4. opts.ctxt \in Nat \ {0}
  BY OptsAre
<1>5. /\ Len(h.mem.data) \in Nat /\ h.mem.size \in Nat /\ EndOf(h.mem, h.buf) \in Nat
      /\ Len(g.mem.data) \in Nat
  <2>1. Kept(h.mem, h.buf) /\ Kept(g.mem, g.buf)
    BY <1>1 DEF Agree
  <2> QED BY <2>1, KeptHas
<1>6. Len(a.mem.data) <= opts.ctxt /\ (Len(a.mem.data) = 0 => a.buf.beg = 0)
  <2>1. CASE Len(h.mem.data) <= opts.ctxt /\ g.mem = h.mem /\ g.buf = h.buf
    BY <1>3, <1>5, <2>1 DEF Filling
  <2>2. CASE Len(g.mem.data) = opts.ctxt
    BY <1>3, <1>4, <2>2
  <2> QED BY <1>1, <2>1, <2>2
<1>7. EndOf(a.mem, a.buf) = EndOf(h.mem, h.buf)
  BY <1>1, <1>3, <1>5
<1>8. ASSUME h.mem.size = 2 * opts.ctxt + 1 PROVE Begins(a, EndOf(h.mem, h.buf))
  <2>1. PICK c \in Nat \ {0}, e \in Nat, l \in Nat, k \in Nat, b \in Nat, x \in Nat :
          /\ c = opts.ctxt /\ e = EndOf(h.mem, h.buf) /\ l = Len(h.mem.data)
          /\ k = Len(a.mem.data) /\ b = h.buf.beg /\ x = a.buf.beg
    <3>1. Kept(h.mem, h.buf) /\ Kept(g.mem, g.buf)
      BY <1>1 DEF Agree
    <3>2. h.buf.beg \in Nat /\ a.buf.beg \in Nat
      BY <1>3, <3>1, KeptHas
    <3> QED BY <1>3, <1>4, <1>5, <3>2
  <2>2. e = b + l /\ e = x + k /\ (b = 0 \/ l = 2 * c + 1)
        /\ ((l <= c /\ x = b) \/ k = c)
    <3>1. e = b + l /\ e = x + k
      BY <1>7, <2>1 DEF EndOf
    <3>2. (l <= c /\ x = b) \/ k = c
      BY <1>1, <1>3, <2>1
    <3> QED BY <1>8, <2>1, <3>1, <3>2 DEF Filling
  <2>3. x = IF e > c THEN e - c ELSE 0
    BY <2>2
  <2> QED BY <1>7, <2>1, <2>3 DEF Begins
<1> QED BY <1>1, <1>3, <1>6, <1>7, <1>8 DEF Caught, a, g

LEMMA ShiftedFilling ==
  ASSUME NEW mem, NEW a, Kept(mem, a), NEW after, NEW addr, NEW k \in Nat \ {0},
         Shifted(after, addr, mem, a, k), a.beg = 0 \/ Len(mem.data) = mem.size
  PROVE  addr.beg = 0 \/ Len(after.data) = after.size
<1>1. Kept(after, addr)
  BY DEF Shifted
<1>2. /\ Len(mem.data) \in Nat /\ Len(after.data) \in Nat /\ mem.size \in Nat
      /\ a.beg \in Nat /\ addr.beg \in Nat /\ Len(after.data) <= mem.size
  <2>1. /\ Len(mem.data) \in 0..mem.size /\ mem.size \in Nat /\ a.beg \in Nat
        /\ Len(after.data) \in 0..after.size /\ after.size \in Nat /\ addr.beg \in Nat
    BY <1>1, KeptHas
  <2> QED BY <2>1 DEF Shifted
<1>3. addr.beg + Len(after.data) = a.beg + Len(mem.data) + k
  BY DEF Shifted, EndOf
<1>4. after.size = mem.size /\ (addr.beg = a.beg \/ Len(after.data) = after.size)
  BY DEF Shifted
<1>5. CASE addr.beg = a.beg /\ Len(mem.data) = mem.size
  <2>1. PICK x \in Nat, y \in Nat, b \in Nat, z \in Nat :
          x = Len(mem.data) /\ y = Len(after.data) /\ b = a.beg /\ z = mem.size
    BY <1>2
  <2>2. b + y = b + z + k /\ y <= z
    BY <1>2, <1>3, <1>5, <2>1
  <2> QED BY <2>2
<1> QED BY <1>4, <1>5

LEMMA LocateFinds ==
  ASSUME Inputs, NEW n, Agree(n), NEW f \in Nat, NEW r \in Nat \ {0},
         n.rest = Run(f, r), EndOf(n.mem, n.buf) = f, n.input.beg = f,
         Filling(n), n.mem.size > 0, ~n.failed,
         NEW q \in Nat \ {0}, q <= f + r, n.w = PlaceOf(q)
  PROVE  /\ Caught(Locate(n, n.rest), q, f + r)
         /\ n.mem.size = 2 * opts.ctxt + 1 /\ ~n.small => Aimed(Locate(n, n.rest), q, f)
<1> DEFINE piece == n.rest
           i     == GetOffset(n.input, n.w, piece)
           j     == GetOffset(n.buf, n.w, n.mem.data)
           lead  == SubSeq(piece, 1, i)
           moved == [n EXCEPT !.buf  = AddressShiftIn(n.buf, n.mem, lead),
                              !.mem  = ShiftIn(n.mem, lead),
                              !.rest = SubSeq(piece, i + 1, Len(piece))]
           p     == Locate(n, n.rest)
<1>1. /\ n \in Locals /\ Kept(n.mem, n.buf) /\ Sited(n.input) /\ IsText
      /\ n.input \in Addresses /\ n.buf \in Addresses /\ Sited(n.buf)
  BY OptsAre DEF Agree, Locals, Kept
<1>2. /\ n.buf.beg \in Nat /\ Len(n.mem.data) \in Nat /\ n.mem.size \in Nat
      /\ n.mem.data = Run(n.buf.beg, Len(n.mem.data))
      /\ n.buf.beg + Len(n.mem.data) = f /\ n.buf.beg <= f
  <2>1. n.buf.beg \in Nat /\ Len(n.mem.data) \in Nat /\ n.mem.size \in Nat
    BY <1>1, KeptHas
  <2> QED BY <1>1, <2>1 DEF Kept, EndOf
<1>3. i = IF q <= f THEN Nowhere ELSE q - f - 1
  <2>1. q <= n.input.beg + r + 1
    OBVIOUS
  <2>2. GetOffset(n.input, PlaceOf(q), Run(n.input.beg, r))
          = IF q <= n.input.beg THEN Nowhere ELSE q - n.input.beg - 1
    BY <1>1, <2>1, OffsetIs
  <2> QED BY <2>2
<1>4. q <= f => j = IF q <= n.buf.beg THEN Nowhere ELSE q - n.buf.beg - 1
  <2>1. ASSUME q <= f PROVE q <= n.buf.beg + Len(n.mem.data) + 1
    BY <1>2, <2>1
  <2>2. ASSUME q <= f
        PROVE  GetOffset(n.buf, PlaceOf(q), Run(n.buf.beg, Len(n.mem.data)))
                 = IF q <= n.buf.beg THEN Nowhere ELSE q - n.buf.beg - 1
    BY <1>1, <1>2, <2>1, <2>2, OffsetIs
  <2> QED BY <1>2, <2>2
<1>5. p = IF i = Failed \/ (i = Nowhere /\ j = Failed) THEN [n EXCEPT !.failed = TRUE]
          ELSE IF i = Nowhere /\ j = Nowhere THEN After([n EXCEPT !.small = TRUE])
          ELSE IF i = Nowhere THEN After(Fit([n EXCEPT !.error = n.buf.beg + j]))
          ELSE IF i > 0
          THEN After(Fit([moved EXCEPT !.error = moved.buf.beg + Len(moved.mem.data)]))
          ELSE After(Fit([n EXCEPT !.error = n.input.beg]))
  BY DEF Locate
<1>6. ASSUME NEW e \in Int, e = q - 1, e <= f
      PROVE  LET a == After(Fit([n EXCEPT !.error = e])) IN
             /\ Caught(a, q, f + r)
             /\ n.mem.size = 2 * opts.ctxt + 1 /\ ~n.small => Aimed(a, q, f)
  <2> DEFINE h == [n EXCEPT !.error = e]
  <2>1. /\ h \in Locals /\ h.mem = n.mem /\ h.buf = n.buf /\ h.input = n.input
        /\ h.failed = n.failed /\ h.error = e /\ h.small = n.small
    BY <1>1 DEF Locals
  <2> HIDE DEF h
  <2>2. Agree(h) /\ Filling(h)
    BY <1>1, <2>1 DEF Agree, Filling
  <2>3. q \in Nat /\ f < f + r
    OBVIOUS
  <2>4. /\ Caught(After(Fit(h)), q, f + r) /\ After(Fit(h)).small = h.small
        /\ n.mem.size = 2 * opts.ctxt + 1 => Begins(After(Fit(h)), f)
    BY <1>6, <2>1, <2>2, <2>3, AfterFit
  <2>5. f = IF q > f THEN q - 1 ELSE f
    BY <1>6
  <2> QED BY <2>1, <2>4, <2>5 DEF h, Aimed
(* The place was in a piece that buf no longer has.                        *)
<1>7. CASE q <= n.buf.beg
  <2>1. i = Nowhere /\ j = Nowhere
    BY <1>2, <1>3, <1>4, <1>7
  <2> DEFINE h == [n EXCEPT !.small = TRUE]
  <2>2. p = [h EXCEPT !.t = "after_error"]
    BY <1>5, <2>1 DEF After, Nowhere, Failed
  <2> HIDE DEF p
  <2>3. h \in Locals /\ h.small /\ ~h.failed
    BY <1>1 DEF Locals
  <2> HIDE DEF h
  <2>4. p.small /\ ~p.failed
    BY <2>2, <2>3 DEF Locals
  <2>5. ASSUME n.mem.size = 2 * opts.ctxt + 1 PROVE q <= f - opts.ctxt
    <3>1. PICK b \in Nat, l \in Nat, c \in Nat : b = n.buf.beg /\ l = Len(n.mem.data) /\ c = opts.ctxt
      BY <1>2, OptsAre
    <3>2. b + l = f /\ (b = 0 \/ l = 2 * c + 1) /\ q <= b
      BY <1>2, <1>7, <2>5, <3>1 DEF Filling
    <3>3. q <= f - c
      BY <3>2
    <3> QED BY <3>1, <3>3
  <2> QED BY <2>4, <2>5 DEF Caught, Aimed, p
(* The place was in a piece before.                                        *)
<1>8. CASE n.buf.beg < q /\ q <= f
  <2>1. i = Nowhere /\ j = q - n.buf.beg - 1
    BY <1>2, <1>3, <1>4, <1>8
  <2>2. j >= 0 /\ n.buf.beg + j = q - 1
    <3>1. PICK b \in Nat : b = n.buf.beg
      BY <1>2
    <3>2. b < q /\ q \in Int
      BY <1>8, <3>1
    <3> HIDE DEF j
    <3> QED BY <2>1, <3>1, <3>2
  <2> HIDE DEF i, j
  <2>3. p = After(Fit([n EXCEPT !.error = n.buf.beg + j]))
    BY <1>5, <2>1, <2>2 DEF Nowhere, Failed
  <2>4. n.buf.beg + j \in Int /\ n.buf.beg + j <= f
    BY <1>8, <2>2
  <2> QED BY <1>6, <2>2, <2>3, <2>4
(* The place is the first byte of this piece.                              *)
<1>9. CASE q = f + 1
  <2>1. i = 0
    BY <1>3, <1>9
  <2> HIDE DEF i
  <2>2. p = After(Fit([n EXCEPT !.error = n.input.beg]))
    BY <1>5, <2>1 DEF Nowhere, Failed
  <2> QED BY <1>6, <1>9, <2>2
(* The place is one after it.                                              *)
<1>10. CASE q > f + 1
  <2>1. i = q - f - 1
    BY <1>3, <1>10
  <2> HIDE DEF i
  <2>2. i \in 0..r /\ i \in Nat \ {0} /\ f + i = q - 1 /\ r - i \in Nat /\ f + i \in Nat
    BY <1>10, <2>1
  <2> DEFINE h == [moved EXCEPT !.error = moved.buf.beg + Len(moved.mem.data)]
             buf == AddressShiftIn(n.buf, n.mem, lead)
             mem == ShiftIn(n.mem, lead)
             tail == SubSeq(piece, i + 1, Len(piece))
  <2>3. p = After(Fit(h))
    BY <1>5, <2>2 DEF Nowhere, Failed
  <2>4. lead = Run(f, i) /\ tail = Run(f + i, r - i) /\ tail \in Seq(Nat)
    <3>1. Len(Run(f, r)) = r
      BY RunIs
    <3>2. SubSeq(Run(f, r), 1, i) = Run(f, i) /\ SubSeq(Run(f, r), i + 1, r) = Run(f + i, r - i)
      BY <2>2, RunFirst, RunAfter, Zenon
    <3>3. Run(f + i, r - i) \in Seq(Nat)
      BY <2>2, RunIs, Zenon
    <3> QED BY <3>1, <3>2, <3>3
  <2>5. Shifted(mem, buf, n.mem, n.buf, i)
    <3>1. LET bytes == Run(EndOf(n.mem, n.buf), i)
          IN  Shifted(ShiftIn(n.mem, bytes), AddressShiftIn(n.buf, n.mem, bytes),
                      n.mem, n.buf, i)
      BY <1>1, <2>2, ShiftInKeeps
    <3> HIDE DEF lead
    <3> QED BY <2>4, <3>1
  <2>6. /\ Kept(mem, buf) /\ mem \in Buffers /\ buf \in Addresses
        /\ EndOf(mem, buf) = f + i /\ mem.size = n.mem.size
    BY <2>5 DEF Shifted, Kept
  <2>7. buf.beg = 0 \/ Len(mem.data) = mem.size
    <3>1. n.buf.beg = 0 \/ Len(n.mem.data) = n.mem.size
      BY DEF Filling
    <3> HIDE DEF mem, buf
    <3> QED BY <1>1, <2>2, <2>5, <3>1, ShiftedFilling
  <2>8. moved = [n EXCEPT !.buf = buf, !.mem = mem, !.rest = tail]
    OBVIOUS
  <2> HIDE DEF mem, buf, tail, moved, lead
  <2>9. /\ moved \in Locals /\ moved.mem = mem /\ moved.buf = buf /\ moved.input = n.input
        /\ moved.failed = n.failed /\ moved.small = n.small
    BY <1>1, <2>4, <2>6, <2>8 DEF Locals
  <2>10. moved.buf.beg + Len(moved.mem.data) = q - 1
    BY <2>2, <2>6, <2>9 DEF EndOf
  <2>11. /\ h \in Locals /\ h.mem = mem /\ h.buf = buf /\ h.input = n.input
         /\ h.failed = n.failed /\ h.error = q - 1 /\ h.small = n.small
    <3>1. q - 1 \in Int /\ h = [moved EXCEPT !.error = q - 1]
      BY <2>10
    <3> HIDE DEF h
    <3> QED BY <2>9, <3>1 DEF Locals
  <2> HIDE DEF h
  <2>12. Agree(h) /\ Filling(h)
    BY <1>1, <2>6, <2>7, <2>11 DEF Agree, Filling
  <2>13. h.error <= EndOf(h.mem, h.buf) /\ EndOf(h.mem, h.buf) < f + r
    BY <2>2, <2>6, <2>11
  <2>14. q \in Nat /\ h.mem.size > 0 /\ ~h.failed
    BY <2>6, <2>11
  <2>15. EndOf(h.mem, h.buf) = q - 1 /\ q > f
    BY <1>10, <2>2, <2>6, <2>11
  <2>16. /\ Caught(p, q, f + r) /\ p.small = h.small
         /\ h.mem.size = 2 * opts.ctxt + 1 => Begins(p, EndOf(h.mem, h.buf))
    <3> HIDE DEF p
    <3> QED BY <2>3, <2>11, <2>12, <2>13, <2>14, AfterFit
  <2> HIDE DEF p
  <2>17. n.mem.size = 2 * opts.ctxt + 1 /\ ~n.small => Aimed(p, q, f)
    BY <2>6, <2>11, <2>15, <2>16 DEF Aimed
  <2> QED BY <2>16, <2>17 DEF p
<1> QED BY <1>2, <1>7, <1>8, <1>9, <1>10

-----------------------------------------------------------------------------
(* What is kept for the messages while the loop is reading.                *)

(* The byte at fault is in buf, and not alone there but at the beginning   *)
(* of the input, when more is to be appended.                              *)
HoldsError(n, f) ==
  /\ n.error = fault.place - 1 /\ n.error < EndOf(n.mem, n.buf)
  /\ \/ Len(n.mem.data) > 1
     \/ Len(n.mem.data) = 1 /\ n.buf.beg = 0 /\ f = 1 /\ n.size > 0

Held(n, f) ==
  /\ ~n.failed
  /\ ~opts.fixed => n.buf = Start /\ EndOf(n.mem, n.buf) = f /\ n.t = "before_error"
  /\ n.t = "before_error" => n.size = opts.ctxt + 1 /\ n.error = 0
  /\ opts.fixed => n.mem.size = 2 * opts.ctxt + 1
  /\ opts.fixed /\ n.t = "before_error" =>
       ~n.small /\ EndOf(n.mem, n.buf) = f /\ Filling(n)
  /\ opts.fixed /\ n.t # "before_error" /\ ~n.small => HoldsError(n, f)

(* Of the bytes from the error on, buf has room for at least one.          *)
LEMMA CaughtHeld ==
  ASSUME Inputs, opts.fixed, NEW f \in Nat, NEW p, NEW g, NEW k \in Nat, k > 0,
         Agree(p), Agree(g), p.t = "after_error", p.size = opts.ctxt + 1,
         p.mem.size = 2 * opts.ctxt + 1, Caught(p, fault.place, f),
         EndOf(p.mem, p.buf) + k = f,
         Turned(g, p, k, f), g.mem.overflow = FALSE
  PROVE  Held(g, f)
<1>1. PICK l \in 0..k : Filled(g, p, k, l)
  BY DEF Turned
<1>2. /\ g.buf = p.buf /\ g.mem.size = p.mem.size /\ g.size = p.size - l
      /\ Len(g.mem.data) = Len(p.mem.data) + l
      /\ l = k \/ Len(p.mem.data) + l = p.mem.size \/ p.size - l = 0
      /\ g.t = "after_error" /\ g.small = p.small /\ g.error = p.error /\ ~g.failed
  BY <1>1 DEF Filled, Turned, Caught
<1>3. opts.ctxt \in Nat \ {0}
  BY OptsAre
<1>4. /\ Len(p.mem.data) \in Nat /\ p.buf.beg \in Nat /\ l \in Nat
      /\ EndOf(p.mem, p.buf) = p.buf.beg + Len(p.mem.data)
      /\ EndOf(g.mem, g.buf) = p.buf.beg + (Len(p.mem.data) + l)
  <2>1. Kept(p.mem, p.buf)
    BY DEF Agree
  <2>2. Len(p.mem.data) \in Nat /\ p.buf.beg \in Nat /\ l \in Nat
    BY <2>1, KeptHas
  <2> QED BY <1>2, <2>2 DEF EndOf
<1>5. ASSUME ~p.small PROVE HoldsError(g, f)
  <2>1. /\ p.error = fault.place - 1 /\ p.error <= EndOf(p.mem, p.buf)
        /\ Len(p.mem.data) <= opts.ctxt /\ (Len(p.mem.data) = 0 => p.buf.beg = 0)
        /\ fault.place \in Nat
    BY <1>5, OptsAre DEF Caught
  <2>5. PICK c \in Nat, x \in Nat, b \in Nat, e \in Int, i \in Nat :
          c = opts.ctxt /\ x = Len(p.mem.data) /\ b = p.buf.beg /\ e = p.error /\ i = l
    <3>1. p.error \in Int
      BY <2>1
    <3> QED BY <1>3, <1>4, <3>1
  <2>6. /\ i = k \/ x + i = 2 * c + 1 \/ (c + 1) - i = 0
        /\ x <= c /\ e <= b + x /\ c > 0
    <3>1. i = k \/ x + i = 2 * c + 1 \/ (c + 1) - i = 0
      BY <1>2, <2>5
    <3>2. x <= c /\ e <= b + x /\ c > 0
      BY <1>3, <1>4, <2>1, <2>5
    <3> QED BY <3>1, <3>2
  <2>7. i >= 1
    BY <2>6
  <2>2. l >= 1
    BY <2>5, <2>7
  <2>3. g.error < EndOf(g.mem, g.buf)
    <3>1. e < b + (x + i)
      BY <2>6, <2>7
    <3> QED BY <1>2, <1>4, <2>5, <3>1
  <2>4. CASE Len(p.mem.data) + l > 1
    BY <1>2, <2>1, <2>3, <2>4 DEF HoldsError
  <2>8. CASE ~(Len(p.mem.data) + l > 1)
    <3>1. Len(p.mem.data) = 0 /\ l = 1 /\ p.buf.beg = 0
      BY <1>4, <2>1, <2>2, <2>8
    <3>2. k = 1 /\ f = 1 /\ g.size > 0
      BY <1>2, <1>3, <1>4, <3>1
    <3> QED BY <1>2, <2>1, <2>3, <3>1, <3>2 DEF HoldsError
  <2> QED BY <2>4, <2>8
<1> QED BY <1>2, <1>5 DEF Held

(* Bytes that are appended after the error take none of it away.           *)
LEMMA HeldOn ==
  ASSUME Inputs, opts.fixed, NEW f \in Nat, NEW n, NEW g, NEW r \in Nat, r > 0,
         Agree(n), Agree(g), n.t = "after_error", Held(n, f),
         Turned(g, n, r, f + r), g.mem.overflow = FALSE
  PROVE  Held(g, f + r)
<1>1. PICK l \in 0..r : Filled(g, n, r, l)
  BY DEF Turned
<1>2. /\ g.buf = n.buf /\ g.mem.size = n.mem.size /\ g.size = n.size - l
      /\ Len(g.mem.data) = Len(n.mem.data) + l
      /\ l = r \/ Len(n.mem.data) + l = n.mem.size \/ n.size - l = 0
      /\ g.t = "after_error" /\ g.small = n.small /\ g.error = n.error /\ ~g.failed
  BY <1>1 DEF Filled, Turned, Held
<1>3. opts.ctxt \in Nat \ {0} /\ n.mem.size = 2 * opts.ctxt + 1 /\ fault.place \in Nat
      /\ n.size \in Nat
  BY OptsAre DEF Held, Agree, Locals
<1>4. /\ Len(n.mem.data) \in Nat /\ n.buf.beg \in Nat /\ l \in Nat
      /\ EndOf(n.mem, n.buf) = n.buf.beg + Len(n.mem.data)
      /\ EndOf(g.mem, g.buf) = n.buf.beg + (Len(n.mem.data) + l)
  <2>1. Kept(n.mem, n.buf)
    BY DEF Agree
  <2>2. Len(n.mem.data) \in Nat /\ n.buf.beg \in Nat /\ l \in Nat
    BY <2>1, KeptHas
  <2> QED BY <1>2, <2>2 DEF EndOf
<1>5. ASSUME ~n.small PROVE HoldsError(g, f + r)
  <2>1. HoldsError(n, f)
    BY <1>5 DEF Held
  <2>2. g.error = fault.place - 1 /\ g.error < EndOf(g.mem, g.buf)
    <3>1. /\ n.error = fault.place - 1 /\ n.error < n.buf.beg + Len(n.mem.data)
          /\ g.error = n.error
      BY <1>2, <1>4, <2>1 DEF HoldsError
    <3>2. fault.place - 1 < n.buf.beg + (Len(n.mem.data) + l)
      <4>1. PICK q \in Nat, b \in Nat, x \in Nat :
              q = fault.place /\ b = n.buf.beg /\ x = Len(n.mem.data)
        BY <1>3, <1>4
      <4>2. q - 1 < b + x /\ l \in Nat
        BY <1>4, <3>1, <4>1
      <4>3. q - 1 < b + (x + l)
        BY <4>2
      <4> QED BY <4>1, <4>3
    <3> QED BY <1>4, <3>1, <3>2
  <2>3. Len(n.mem.data) + l > 1
    <3>1. CASE Len(n.mem.data) > 1
      BY <1>4, <3>1
    <3>2. CASE Len(n.mem.data) = 1 /\ n.size > 0
      <4>1. l = r \/ 1 + l = 2 * opts.ctxt + 1 \/ n.size - l = 0
        BY <1>2, <1>3, <3>2
      <4>2. l >= 1
        BY <1>3, <1>4, <3>2, <4>1
      <4> QED BY <1>4, <3>2, <4>2
    <3> QED BY <2>1, <3>1, <3>2 DEF HoldsError
  <2> QED BY <1>2, <2>2, <2>3 DEF HoldsError
<1> QED BY <1>2, <1>3, <1>5 DEF Held

(* Where buf begins and ends once the error was found, d bytes being read  *)
(* before the piece it was found in, and f by now: size is what is still   *)
(* to be appended, which stops as soon as there is no more to append.      *)
Placed(n, d, f) ==
  IF n.small THEN fault.place <= d - opts.ctxt
  ELSE LET s == IF fault.place > d THEN fault.place - 1 ELSE d
       IN  /\ n.buf.beg = IF s > opts.ctxt THEN s - opts.ctxt ELSE 0
           /\ EndOf(n.mem, n.buf) = s + (opts.ctxt + 1 - n.size)
           /\ n.size > 0 => EndOf(n.mem, n.buf) = f
           /\ n.input.beg = f

LEMMA CaughtPlaced ==
  ASSUME Inputs, opts.fixed, NEW d \in Nat, NEW f \in Nat, NEW p, NEW g, NEW k \in Nat,
         Agree(p), Agree(g), p.t = "after_error", p.size = opts.ctxt + 1,
         p.mem.size = 2 * opts.ctxt + 1, Caught(p, fault.place, f), Aimed(p, fault.place, d),
         EndOf(p.mem, p.buf) + k = f,
         Turned(g, p, k, f), g.mem.overflow = FALSE
  PROVE  Placed(g, d, f)
<1>1. PICK l \in 0..k : Filled(g, p, k, l)
  BY DEF Turned
<1>2. /\ g.buf = p.buf /\ g.size = p.size - l /\ g.small = p.small
      /\ Len(g.mem.data) = Len(p.mem.data) + l
      /\ l = k \/ Len(p.mem.data) + l = p.mem.size \/ p.size - l = 0
      /\ ~p.small => g.input.beg = f
  BY <1>1 DEF Filled, Turned, Ready
<1>3. opts.ctxt \in Nat \ {0} /\ fault.place \in Nat
  BY OptsAre
<1>4. /\ Len(p.mem.data) \in Nat /\ p.buf.beg \in Nat /\ l \in Nat /\ g.size \in Nat
      /\ EndOf(p.mem, p.buf) = p.buf.beg + Len(p.mem.data)
      /\ EndOf(g.mem, g.buf) = p.buf.beg + (Len(p.mem.data) + l)
  <2>1. Kept(p.mem, p.buf) /\ g.size \in Nat
    BY DEF Agree, Locals
  <2>2. Len(p.mem.data) \in Nat /\ p.buf.beg \in Nat /\ l \in Nat
    BY <2>1, KeptHas
  <2> QED BY <1>2, <2>1, <2>2 DEF EndOf
<1>5. CASE p.small
  BY <1>2, <1>5 DEF Placed, Aimed
<1>6. CASE ~p.small
  <2> DEFINE s == IF fault.place > d THEN fault.place - 1 ELSE d
  <2>1. /\ EndOf(p.mem, p.buf) = s /\ Len(p.mem.data) <= opts.ctxt
        /\ p.buf.beg = IF s > opts.ctxt THEN s - opts.ctxt ELSE 0
    BY <1>6 DEF Aimed, Begins, Caught
  <2>2. s \in Nat
    BY <1>3
  <2> HIDE DEF s
  <2>3. PICK c \in Nat, b \in Nat, x \in Nat, z \in Nat, e \in Nat, i \in Nat :
          /\ c = opts.ctxt /\ b = p.buf.beg /\ x = Len(p.mem.data) /\ z = g.size
          /\ e = EndOf(g.mem, g.buf) /\ i = l
    <3>1. EndOf(g.mem, g.buf) \in Nat
      BY KeptHas DEF Agree
    <3> QED BY <1>3, <1>4, <3>1
  <2>4. /\ z = (c + 1) - i /\ e = b + (x + i) /\ b + x = s /\ s + k = f /\ x <= c
        /\ i = k \/ x + i = 2 * c + 1 \/ (c + 1) - i = 0
    BY <1>2, <1>4, <2>1, <2>3
  <2>5. e = s + (c + 1 - z) /\ (z > 0 => e = f)
    BY <2>2, <2>4
  <2> QED BY <1>2, <1>6, <2>1, <2>3, <2>5 DEF Placed, s
<1> QED BY <1>5, <1>6

LEMMA PlacedOn ==
  ASSUME Inputs, opts.fixed, NEW d \in Nat, NEW f \in Nat, NEW n, NEW g, NEW r \in Nat,
         Agree(n), Agree(g), n.t = "after_error", n.mem.size = 2 * opts.ctxt + 1,
         Placed(n, d, f), Turned(g, n, r, f + r), g.mem.overflow = FALSE
  PROVE  Placed(g, d, f + r)
<1>1. PICK l \in 0..r : Filled(g, n, r, l)
  BY DEF Turned
<1>2. /\ g.buf = n.buf /\ g.size = n.size - l /\ g.small = n.small
      /\ Len(g.mem.data) = Len(n.mem.data) + l
      /\ l = r \/ Len(n.mem.data) + l = n.mem.size \/ n.size - l = 0
      /\ ~n.small => g.input.beg = f + r
  BY <1>1 DEF Filled, Turned, Ready
<1>3. opts.ctxt \in Nat \ {0} /\ fault.place \in Nat
  BY OptsAre
<1>4. /\ Len(n.mem.data) \in Nat /\ n.buf.beg \in Nat /\ l \in Nat
      /\ n.size \in Nat /\ g.size \in Nat
      /\ EndOf(n.mem, n.buf) = n.buf.beg + Len(n.mem.data)
      /\ EndOf(g.mem, g.buf) = n.buf.beg + (Len(n.mem.data) + l)
  <2>1. Kept(n.mem, n.buf) /\ n.size \in Nat /\ g.size \in Nat
    BY DEF Agree, Locals
  <2>2. Len(n.mem.data) \in Nat /\ n.buf.beg \in Nat /\ l \in Nat
    BY <2>1, KeptHas
  <2> QED BY <1>2, <2>1, <2>2 DEF EndOf
<1>5. CASE n.small
  BY <1>2, <1>5 DEF Placed
<1>6. CASE ~n.small
  <2> DEFINE s == IF fault.place > d THEN fault.place - 1 ELSE d
  <2>1. /\ EndOf(n.mem, n.buf) = s + (opts.ctxt + 1 - n.size)
        /\ n.size > 0 => EndOf(n.mem, n.buf) = f
        /\ n.buf.beg = IF s > opts.ctxt THEN s - opts.ctxt ELSE 0
    BY <1>6 DEF Placed
  <2>2. s \in Nat
    BY <1>3
  <2> HIDE DEF s
  <2>3. PICK c \in Nat, b \in Nat, x \in Nat, y \in Nat, z \in Nat, e \in Nat, i \in Nat :
          /\ c = opts.ctxt /\ b = n.buf.beg /\ x = Len(n.mem.data) /\ y = n.size /\ z = g.size
          /\ e = EndOf(g.mem, g.buf) /\ i = l
    <3>1. EndOf(g.mem, g.buf) \in Nat
      BY KeptHas DEF Agree
    <3> QED BY <1>3, <1>4, <3>1
  <2>4. /\ z = y - i /\ e = b + (x + i) /\ b + x = s + (c + 1 - y)
        /\ b = IF s > c THEN s - c ELSE 0
        /\ y > 0 => b + x = f
        /\ i = r \/ x + i = 2 * c + 1 \/ y - i = 0
    BY <1>2, <1>4, <2>1, <2>3
  <2>5. e = s + (c + 1 - z)
    BY <2>2, <2>4
  <2>6. z > 0 => e = f + r
    BY <2>2, <2>4
  <2> QED BY <1>2, <1>6, <2>1, <2>3, <2>5, <2>6 DEF Placed, s
<1> QED BY <1>5, <1>6

LEMMA KeepContextHolds ==
  ASSUME Inputs, NEW n, Agree(n), NEW f \in Nat, NEW r \in Nat \ {0}, Held(n, f),
         Ready(n, f) \/ (Ready([n EXCEPT !.s = "ok"], f) /\ n.s = "error"),
         n.s = "error" => /\ n.w = PlaceOf(fault.place) /\ fault.place > 0
                          /\ fault.place <= f + r
  PROVE  LET g == KeepContext(n, Run(f, r)) IN
         /\ g.w = n.w /\ ~g.failed
         /\ opts.fixed /\ g.t = "before_error" => n.s = "ok"
         /\ g.mem.overflow = FALSE => Held(g, f + r)
         /\ ~opts.fixed => g.small = n.small
         /\ opts.fixed /\ n.s = "error" /\ g.mem.overflow = FALSE =>
              IF n.t = "before_error" THEN Placed(g, f, f + r)
              ELSE \A d \in Nat : Placed(n, d, f) => Placed(g, d, f + r)
<1> DEFINE piece  == Run(f, r)
           found  == opts.fixed /\ n.t = "before_error" /\ n.s # "ok"
           rested == [n EXCEPT !.rest = piece]
           placed == IF found THEN Locate(rested, piece) ELSE rested
           few    == IF opts.fixed /\ n.s # "ok" THEN Limit(placed) ELSE placed
           g      == KeepContext(n, piece)
<1>1. n \in Locals /\ Kept(n.mem, n.buf) /\ Sited(n.input) /\ IsText
      /\ n.input \in Addresses /\ n.s \in {"ok", "error"} /\ opts.fixed \in BOOLEAN
  BY OptsAre DEF Agree, Locals
<1>2. g = IF placed.failed THEN placed ELSE Keep(few, piece)
  BY DEF KeepContext
<1>3. piece \in Seq(Nat) /\ Len(piece) = r
  BY RunIs
<1>4. /\ rested \in Locals /\ rested.rest = piece /\ rested.mem = n.mem
      /\ rested.buf = n.buf /\ rested.input = n.input /\ rested.size = n.size
      /\ rested.t = n.t /\ rested.small = n.small /\ rested.s = n.s /\ rested.w = n.w
      /\ rested.failed = n.failed /\ rested.error = n.error /\ ~n.failed
  BY <1>1, <1>3 DEF Locals, Held
<1>5. /\ opts.fixed /\ n.t = "before_error" =>
           EndOf(n.mem, n.buf) = f /\ n.input.beg = f /\ ~n.small
      /\ opts.fixed /\ n.t = "after_error" =>
           (EndOf(n.mem, n.buf) = f \/ Full(n)) /\ (~n.small => n.input.beg = f)
      /\ n.s = "ok" => n.t = "before_error"
      /\ n.t # "eof_error"
  <2>1. CASE Ready(n, f)
    BY <2>1 DEF Ready
  <2>2. CASE Ready([n EXCEPT !.s = "ok"], f) /\ n.s = "error"
    <3> DEFINE o == [n EXCEPT !.s = "ok"]
    <3>1. o.mem = n.mem /\ o.buf = n.buf /\ o.input = n.input /\ o.size = n.size
          /\ o.t = n.t /\ o.small = n.small /\ o.s = "ok"
      BY <1>1 DEF Locals
    <3> HIDE DEF o
    <3>2. Ready(o, f)
      BY <2>2 DEF o
    <3> QED BY <2>2, <3>1, <3>2 DEF Ready, Full
  <2> QED BY <2>1, <2>2
<1> HIDE DEF rested
<1>6. Agree(rested) /\ Held(rested, f)
  <2>1. Agree(rested)
    BY <1>1, <1>4 DEF Agree
  <2>2. Held(rested, f)
    BY <1>4 DEF Held, HoldsError, Filling
  <2> QED BY <2>1, <2>2
<1>7. f + r \in Nat /\ r \in Nat /\ r > 0
  OBVIOUS
<1>8. Agree(g) /\ (g.failed = FALSE /\ g.mem.overflow = FALSE => Ready(g, f + r))
  <2> HIDE DEF g
  <2> QED BY KeepContextKeeps DEF g
(* All of the input is kept.                                               *)
<1>9. CASE ~opts.fixed
  <2> DEFINE mem == AppendTo(n.mem, piece)
  <2>1. g = [rested EXCEPT !.buf = n.buf, !.input = n.input, !.mem = mem]
    BY <1>2, <1>4, <1>9 DEF Keep
  <2>2. mem \in Buffers
    <3>1. Kept(AppendTo(n.mem, Run(EndOf(n.mem, n.buf), r)), n.buf)
      BY <1>1, AppendKeeps DEF Appended
    <3>2. EndOf(n.mem, n.buf) = f
      BY <1>9 DEF Held
    <3> QED BY <3>1, <3>2 DEF Kept
  <2> HIDE DEF g, mem
  <2>3. /\ g.mem = mem /\ g.buf = n.buf /\ g.t = n.t /\ g.s = n.s /\ g.size = n.size
        /\ g.w = n.w /\ g.small = n.small /\ ~g.failed /\ g.failed \in BOOLEAN /\ g.error = n.error
    BY <1>4, <1>1, <2>1, <2>2 DEF Locals
  <2>4. g.mem.overflow = FALSE => EndOf(g.mem, g.buf) = f + r
    BY <1>8, <1>9, <2>3 DEF Ready
  <2>5. g.mem.overflow = FALSE => Held(g, f + r)
    BY <1>9, <2>3, <2>4 DEF Held
  <2> QED BY <1>9, <2>3, <2>5 DEF g
(* No error so far: the bytes are shifted into buf.                        *)
<1>10. CASE opts.fixed /\ n.s = "ok"
  <2> DEFINE mem   == ShiftIn(n.mem, Run(EndOf(n.mem, n.buf), r))
             buf   == AddressShiftIn(n.buf, n.mem, Run(EndOf(n.mem, n.buf), r))
             input == AddressUpdate(n.input, Run(n.input.beg, r))
  <2>1. EndOf(n.mem, n.buf) = f /\ n.input.beg = f /\ ~n.small /\ n.t = "before_error"
    BY <1>5, <1>10
  <2>2. g = [rested EXCEPT !.buf = buf, !.input = input, !.mem = mem]
    <3>1. g = Keep(rested, piece)
      BY <1>2, <1>4, <1>10
    <3>2. Keep(rested, piece)
            = [rested EXCEPT !.buf = AddressShiftIn(rested.buf, rested.mem, rested.rest),
                             !.input = AddressUpdate(rested.input, piece),
                             !.mem = ShiftIn(rested.mem, rested.rest)]
      BY <1>4, <1>10, <2>1 DEF Keep
    <3>3. /\ AddressShiftIn(rested.buf, rested.mem, rested.rest) = buf
          /\ ShiftIn(rested.mem, rested.rest) = mem
          /\ AddressUpdate(rested.input, piece) = input
      <4>1. rested.rest = Run(EndOf(n.mem, n.buf), r) /\ piece = Run(n.input.beg, r)
        BY <1>4, <2>1
      <4> HIDE DEF piece
      <4> QED BY <1>4, <4>1
    <3> HIDE DEF g, buf, mem, input, piece
    <3> QED BY <3>1, <3>2, <3>3
  <2>3. Shifted(mem, buf, n.mem, n.buf, r)
    BY <1>1, <1>7, ShiftInKeeps
  <2>4. EndOf(mem, buf) = f + r /\ mem.size = n.mem.size /\ mem \in Buffers /\ buf \in Addresses
    BY <2>1, <2>3 DEF Shifted, Kept
  <2>5. buf.beg = 0 \/ Len(mem.data) = mem.size
    <3>1. n.buf.beg = 0 \/ Len(n.mem.data) = n.mem.size
      BY <1>10, <2>1 DEF Held, Filling
    <3> HIDE DEF mem, buf
    <3> QED BY <1>1, <2>3, <3>1, ShiftedFilling
  <2>6. input \in Addresses
    BY <1>1, <1>7, Advanced
  <2> HIDE DEF g, mem, buf, input
  <2>7. /\ g.mem = mem /\ g.buf = buf /\ g.t = n.t /\ g.s = n.s /\ g.small = n.small
        /\ g.size = n.size /\ g.w = n.w /\ ~g.failed /\ g.error = n.error
    BY <1>4, <2>2, <2>4, <2>6 DEF Locals
  <2>8. Held(g, f + r)
    BY <1>10, <2>1, <2>4, <2>5, <2>7 DEF Held, Filling
  <2> QED BY <1>10, <2>7, <2>8 DEF g
(* The error is in this piece, or before it.                               *)
<1>11. CASE opts.fixed /\ n.s = "error" /\ n.t = "before_error"
  <2> DEFINE p == Locate(rested, piece)
  <2>1. /\ EndOf(n.mem, n.buf) = f /\ n.input.beg = f /\ Filling(rested)
        /\ n.mem.size = 2 * opts.ctxt + 1 /\ n.size = opts.ctxt + 1
        /\ opts.ctxt \in Nat \ {0} /\ n.mem.size > 0
    <3>1. opts.ctxt \in Nat \ {0}
      BY OptsAre
    <3>2. n.mem.size = 2 * opts.ctxt + 1
      BY <1>11 DEF Held
    <3>3. n.mem.size > 0
      BY <3>1, <3>2
    <3> QED BY <1>4, <1>5, <1>6, <1>11, <3>1, <3>2, <3>3 DEF Held
  <2>2. Located(p, rested, piece)
    BY <1>4, <1>6, <2>1, LocateMoves
  <2>3. Caught(p, fault.place, f + r) /\ Aimed(p, fault.place, f)
    <3>1. fault.place \in Nat \ {0} /\ fault.place <= f + r /\ rested.w = PlaceOf(fault.place)
      BY <1>4, <1>11, OptsAre
    <3> HIDE DEF p, piece
    <3>2. /\ EndOf(rested.mem, rested.buf) = f /\ rested.input.beg = f /\ ~rested.failed
          /\ rested.mem.size > 0 /\ rested.rest = Run(f, r)
      BY <1>4, <2>1 DEF piece
    <3>3. /\ Caught(Locate(rested, rested.rest), fault.place, f + r)
          /\ Aimed(Locate(rested, rested.rest), fault.place, f)
      BY <1>4, <1>5, <1>6, <1>11, <2>1, <3>1, <3>2, LocateFinds
    <3> QED BY <1>4, <3>3 DEF p
  <2>4. g = IF p.failed THEN p ELSE Keep(Limit(p), piece)
    BY <1>2, <1>11
  <2> HIDE DEF p, g
  <2>5. PICK k \in 0..r :
             /\ Moved(p, rested, k) /\ p.t = "after_error"
             /\ p.rest = SubSeq(piece, k + 1, r)
    BY <1>3, <2>2, <2>3 DEF Located, Caught
  <2>6. p.rest = Run(f + k, r - k)
    BY <2>5, RunAfter, Zenon
  <2>7. f + k \in Nat /\ r - k \in Nat /\ f + k + (r - k) = f + r
    OBVIOUS
  <2>8. /\ Agree(p) /\ EndOf(p.mem, p.buf) = f + k /\ p.input.beg = f /\ p.s # "ok"
        /\ p.w = n.w /\ p.size = n.size /\ p.mem.size = n.mem.size /\ ~p.failed
    BY <1>4, <1>11, <2>1, <2>3, <2>5 DEF Moved, Caught
  <2>9. Turned(Keep(Limit(p), piece), p, r - k, f + r)
    BY <1>11, <2>5, <2>6, <2>7, <2>8, RestKept
  <2>10. Turned(g, p, r - k, f + r)
    BY <2>4, <2>8, <2>9
  <2>11. g.w = n.w /\ ~g.failed /\ g.t = "after_error" /\ g.small = p.small
    BY <2>5, <2>8, <2>10 DEF Turned
  <2>12. ASSUME g.mem.overflow = FALSE, ~p.small PROVE Held(g, f + r)
    <3>1. EndOf(p.mem, p.buf) < f + r
      BY <2>3, <2>12 DEF Caught
    <3>2. r - k > 0 /\ EndOf(p.mem, p.buf) + (r - k) = f + r
      BY <2>7, <2>8, <3>1
    <3>3. Agree(g)
      BY <2>10 DEF Turned
    <3> QED BY <1>7, <1>11, <2>1, <2>3, <2>5, <2>7, <2>8, <2>10, <2>12, <3>2, <3>3, CaughtHeld
  <2>13. ASSUME g.mem.overflow = FALSE, p.small PROVE Held(g, f + r)
    <3>1. g.mem.size = p.mem.size
      BY <2>10 DEF Turned, Filled
    <3> QED BY <1>11, <2>1, <2>8, <2>11, <2>13, <3>1 DEF Held
  <2>14. ASSUME g.mem.overflow = FALSE PROVE Placed(g, f, f + r)
    <3>1. Agree(g)
      BY <2>10 DEF Turned
    <3>2. EndOf(p.mem, p.buf) + (r - k) = f + r
      BY <2>7, <2>8
    <3> QED BY <1>7, <1>11, <2>1, <2>3, <2>5, <2>7, <2>8, <2>10, <2>14, <3>1, <3>2, CaughtPlaced
  <2> QED BY <1>11, <2>11, <2>12, <2>13, <2>14 DEF g
(* The error was found before.                                             *)
<1>12. CASE opts.fixed /\ n.s = "error" /\ n.t = "after_error"
  <2>1. g = Keep(Limit(rested), piece)
    BY <1>2, <1>4, <1>12
  <2>2. /\ EndOf(rested.mem, rested.buf) = f \/ Full(rested)
        /\ ~rested.small => rested.input.beg = f
    BY <1>4, <1>5, <1>12 DEF Full
  <2>3. Turned(Keep(Limit(rested), piece), rested, r, f + r)
    BY <1>4, <1>6, <1>12, <2>2, RestKept
  <2> HIDE DEF g
  <2>4. Turned(g, rested, r, f + r)
    BY <2>1, <2>3
  <2>5. g.w = n.w /\ ~g.failed /\ g.t = "after_error"
    BY <1>4, <1>12, <2>4 DEF Turned
  <2>6. ASSUME g.mem.overflow = FALSE PROVE Held(g, f + r)
    <3>1. Agree(g)
      BY <2>4 DEF Turned
    <3> QED BY <1>4, <1>6, <1>7, <1>12, <2>4, <2>6, <3>1, HeldOn
  <2>7. ASSUME g.mem.overflow = FALSE, NEW d \in Nat, Placed(n, d, f) PROVE Placed(g, d, f + r)
    <3>1. Agree(g)
      BY <2>4 DEF Turned
    <3>2. Placed(rested, d, f) /\ rested.mem.size = 2 * opts.ctxt + 1
      BY <1>4, <1>6, <1>12, <2>7 DEF Placed, Held
    <3> QED BY <1>4, <1>6, <1>7, <1>12, <2>4, <2>7, <3>1, <3>2, PlacedOn
  <2> QED BY <1>12, <2>5, <2>6, <2>7 DEF g
<1> QED BY <1>1, <1>5, <1>9, <1>10, <1>11, <1>12 DEF Locals

-----------------------------------------------------------------------------
(* What is shown.                                                          *)

(* The offset in a buffer that holds a text from its first byte on.        *)
LEMMA MemOffsetIs ==
  ASSUME IsText, NEW l \in Nat, NEW p \in 1..(l + 1)
  PROVE  MemGetOffset(Run(0, l), PlaceOf(p)) = p - 1
<1> DEFINE n == p - 1  bytes == Run(0, l)  w == PlaceOf(p)  these == LineEnds(Run(0, n))
           y == Sets!Max(EndsBefore(p) \cup {0})  r == FindNth(bytes, w.line - 1)
<1>1. n \in 0..l /\ n \in Nat /\ p \in Nat /\ p = n + 1 /\ 0 + n + 1 = p /\ 0 + 1 = 1
  OBVIOUS
<1>2. /\ these = { k \in 1..n : 0 + k \in text.nl } /\ these \in SUBSET Nat
      /\ IsFiniteSet(these) /\ Cardinality(these) \in Nat
      /\ Cardinality(EndsBefore(0 + n + 1))
           = Cardinality(EndsBefore(0 + 1)) + Cardinality(these)
  <2> HIDE DEF n
  <2> QED BY <1>1, EndsIn
<1>3. EndsBefore(1) = {} /\ EndsBefore(p) = these
  BY <1>1, <1>2 DEF EndsBefore, IsText
<1>4. /\ w.line = 1 + Cardinality(these) /\ w.col = p - y /\ y \in Nat
      /\ y \in these \cup {0} /\ \A k \in these : k <= y
  BY <1>1, <1>3, PlaceIs, EndsAre
<1>5. MemGetOffset(bytes, w)
        = IF w.line = 0 \/ w.col = 0 \/ (w.line > 1 /\ r = 0) THEN Failed
          ELSE (IF w.line > 1 THEN r ELSE 0) + w.col - 1
  BY DEF MemGetOffset
<1> HIDE DEF these, y, w, bytes, n
<1>6. w.line - 1 = Cardinality(these) /\ w.line # 0
  BY <1>2, <1>4
<1>7. y <= n
  BY <1>1, <1>2, <1>4
<1>8. w.col # 0 /\ w.col \in Int
  BY <1>1, <1>4, <1>7
<1>9. CASE these = {}
  <2>1. y = 0
    BY <1>4, <1>9
  <2>2. Cardinality(these) = 0
    BY <1>9, FS_EmptySet
  <2>3. w.line = 1 /\ w.col = p
    BY <1>1, <1>4, <2>1, <2>2
  <2>4. MemGetOffset(bytes, w) = p - 1
    BY <1>1, <1>5, <2>3
  <2> QED BY <2>4 DEF bytes, w
<1>10. CASE these # {}
  <2>1. r = Sets!Max(these) /\ Sets!Max(these) \in these
        /\ \A k \in these : k <= Sets!Max(these)
    <3>1. 0 \in Nat
      OBVIOUS
    <3> QED BY <1>1, <1>6, <1>10, <3>1, NthIs DEF r, these, bytes
  <2> HIDE DEF r
  <2>2. r \in Nat /\ r # 0 /\ r = y
    BY <1>2, <1>4, <2>1
  <2>3. Cardinality(these) # 0
    BY <1>2, <1>10, FS_EmptySet
  <2>4. w.line > 1
    BY <1>2, <1>4, <2>3
  <2>5. MemGetOffset(bytes, w) = r + w.col - 1
    BY <1>5, <1>6, <1>8, <2>2, <2>4
  <2>6. r + w.col - 1 = p - 1
    BY <1>1, <1>4, <2>2
  <2> QED BY <2>5, <2>6 DEF bytes, w
<1> QED BY <1>9, <1>10

(* The bytes of a run that are shown around an offset of it, and the caret *)
(* under one of them.                                                      *)
Pictures(c, beg, l, o, atEof) ==
  LET strip == l > 0 /\ beg + l \in text.nl /\ atEof
  IN  /\ c.what = "context" /\ IsRun(c.bytes)
      /\ c.bytes = <<>> => l = 0 \/ (l = 1 /\ strip)
      /\ l = 0 => c.bytes = <<>>
      /\ c.bytes # <<>> =>
           c.bytes[1] + c.caret - 1 = IF strip /\ o = l THEN beg + o ELSE beg + o + 1
      /\ \A i \in beg + 1..beg + (IF strip THEN l - 1 ELSE l) :
           beg + o + 1 - opts.ctxt <= i /\ i <= beg + o + 1 + opts.ctxt =>
             \E k \in DOMAIN c.bytes : c.bytes[k] = i

LEMMA ContextShows ==
  ASSUME IsText, opts.ctxt \in Nat \ {0},
         NEW beg \in Nat, NEW l \in Nat, NEW o \in 0..l, NEW atEof
  PROVE  Pictures(Context(Run(beg, l), o, atEof), beg, l, o, atEof)
<1> DEFINE bytes == Run(beg, l)
           strip == bytes # <<>> /\ bytes[Len(bytes)] \in text.nl /\ atEof
           len   == IF strip THEN Len(bytes) - 1 ELSE Len(bytes)
           off   == IF strip /\ o = Len(bytes) THEN o - 1 ELSE o
           x     == IF off > opts.ctxt THEN off - opts.ctxt ELSE 0
           e     == IF off + opts.ctxt + 1 < len THEN off + opts.ctxt + 1 ELSE len
           c     == Context(bytes, o, atEof)
           caret == off - x + (IF len > 0 THEN 1 ELSE 0)
<1>1. /\ bytes \in Seq(Nat) /\ Len(bytes) = l /\ o \in Nat /\ o <= l
      /\ \A i \in 1..l : bytes[i] = beg + i
  <2>1. o \in Nat /\ o <= l
    OBVIOUS
  <2>2. /\ bytes \in Seq(Nat) /\ Len(bytes) = l
        /\ \A i \in 1..l : bytes[i] = beg + i
    BY RunIs
  <2> QED BY <2>1, <2>2
<1>2. c = [what |-> "context", bytes |-> SubSeq(bytes, x + 1, e), caret |-> caret]
  BY DEF Context
<1>3. strip <=> l > 0 /\ beg + l \in text.nl /\ atEof
  <2>1. bytes # <<>> <=> l > 0
    <3> HIDE DEF bytes
    <3> QED BY <1>1, EmptySeq
  <2>2. l > 0 => bytes[Len(bytes)] = beg + l
    <3>1. l > 0 => l \in 1..l
      OBVIOUS
    <3> HIDE DEF bytes
    <3> QED BY <1>1, <3>1
  <2> HIDE DEF bytes
  <2> QED BY <2>1, <2>2
<1> HIDE DEF strip, bytes
<1>4. /\ len = IF strip THEN l - 1 ELSE l
      /\ off = IF strip /\ o = l THEN o - 1 ELSE o
      /\ strip => l > 0
  BY <1>1, <1>3
<1>5. len \in Nat /\ off \in Nat /\ off <= len /\ len <= l
  <2> HIDE DEF len, off
  <2> QED BY <1>1, <1>4
<1> HIDE DEF len, off
<1>6. /\ x \in Nat /\ e \in Nat /\ x <= e /\ e <= len /\ x <= off
      /\ len > 0 => x < e
  BY <1>5
<1> HIDE DEF x, e
<1>7. SubSeq(bytes, x + 1, e) = Run(beg + x, e - x)
  <2>1. x + 1 \in 1..(l + 1) /\ e \in ((x + 1) - 1)..l
    BY <1>5, <1>6
  <2>2. SubSeq(Run(beg, l), x + 1, e) = Run(beg + (x + 1) - 1, e - (x + 1) + 1)
    BY <2>1, RunWithin, Zenon
  <2>3. beg + (x + 1) - 1 = beg + x /\ e - (x + 1) + 1 = e - x
    BY <1>6
  <2> QED BY <2>2, <2>3 DEF bytes
<1>8. /\ c.what = "context" /\ c.bytes = Run(beg + x, e - x) /\ c.caret = caret
  BY <1>2, <1>7
<1> HIDE DEF c
<1>9. beg + x \in Nat /\ e - x \in Nat
  BY <1>6
<1>10. /\ c.bytes \in Seq(Nat) /\ Len(c.bytes) = e - x /\ DOMAIN c.bytes = 1..(e - x)
       /\ \A i \in 1..(e - x) : c.bytes[i] = (beg + x) + i
  <2>1. PICK b \in Nat, k \in Nat : b = beg + x /\ k = e - x
    BY <1>9
  <2>2. /\ Run(b, k) \in Seq(Nat) /\ Len(Run(b, k)) = k /\ DOMAIN Run(b, k) = 1..k
        /\ \A i \in 1..k : Run(b, k)[i] = b + i
    BY RunIs
  <2>3. c.bytes = Run(b, k)
    BY <1>8, <2>1
  <2> QED BY <2>1, <2>2, <2>3
<1>11. IsRun(c.bytes)
  <2>1. ASSUME NEW k \in 1..(e - x) PROVE c.bytes[k] = c.bytes[1] + k - 1
    <3>1. 1 \in 1..(e - x)
      BY <1>9
    <3>2. c.bytes[1] = (beg + x) + 1 /\ c.bytes[k] = (beg + x) + k
      BY <1>10, <3>1
    <3> QED BY <1>9, <3>2
  <2> QED BY <1>10, <2>1 DEF IsRun
<1>12. c.bytes = <<>> <=> e - x = 0
  BY <1>10, EmptySeq
<1>13. /\ c.bytes = <<>> => l = 0 \/ (l = 1 /\ strip)
       /\ l = 0 => c.bytes = <<>>
  <2>1. l = 0 => e - x = 0
    BY <1>4, <1>5, <1>6, <1>9
  <2> QED BY <1>4, <1>5, <1>6, <1>12, <2>1
<1>14. ASSUME c.bytes # <<>>
       PROVE  c.bytes[1] + c.caret - 1 = IF strip /\ o = l THEN beg + o ELSE beg + o + 1
  <2>1. e - x # 0 /\ len > 0 /\ 1 \in 1..(e - x)
    BY <1>5, <1>6, <1>9, <1>12, <1>14
  <2>2. c.bytes[1] = (beg + x) + 1
    BY <1>10, <2>1
  <2>3. c.caret = (off - x) + 1
    BY <1>8, <2>1
  <2>4. c.bytes[1] + c.caret - 1 = beg + off + 1
    BY <1>5, <1>6, <2>2, <2>3
  <2> QED BY <1>1, <1>4, <2>4
<1>15. /\ c.what = "context" /\ IsRun(c.bytes)
       /\ c.bytes = <<>> => l = 0 \/ (l = 1 /\ strip)
       /\ l = 0 => c.bytes = <<>>
       /\ c.bytes # <<>> =>
            c.bytes[1] + c.caret - 1 = IF strip /\ o = l THEN beg + o ELSE beg + o + 1
  BY <1>8, <1>11, <1>13, <1>14
<1>16. ASSUME NEW i \in beg + 1..beg + len,
              beg + o + 1 - opts.ctxt <= i, i <= beg + o + 1 + opts.ctxt
       PROVE  \E k \in DOMAIN c.bytes : c.bytes[k] = i
  <2>1. PICK z \in Nat, y \in Nat, k \in Int : z = x /\ y = e /\ k = i - beg - x
    BY <1>6
  <2>2. /\ z = IF off > opts.ctxt THEN off - opts.ctxt ELSE 0
        /\ y = IF off + opts.ctxt + 1 < len THEN off + opts.ctxt + 1 ELSE len
        /\ k = i - beg - z
    BY <2>1 DEF x, e
  <2>3. off = o \/ (off = o - 1 /\ o = len + 1)
    BY <1>4
  <2>4. k \in 1..(y - z) /\ beg + z + k = i
    <3>1. PICK t \in Nat, n \in Nat, f \in Nat, j \in Int, h \in Nat :
            t = opts.ctxt /\ n = len /\ f = off /\ j = i /\ h = o
      BY <1>1, <1>5
    <3>2. /\ beg + 1 <= j /\ j <= beg + n /\ beg + h + 1 - t <= j /\ j <= beg + h + 1 + t
          /\ z = (IF f > t THEN f - t ELSE 0) /\ y = (IF f + t + 1 < n THEN f + t + 1 ELSE n)
          /\ k = j - beg - z /\ (f = h \/ (f = h - 1 /\ h = n + 1)) /\ f <= n
      BY <1>5, <1>16, <2>2, <2>3, <3>1
    <3>3. k >= 1 /\ k <= y - z /\ beg + z + k = j
      BY <3>2
    <3> QED BY <3>1, <3>3
  <2> QED BY <1>10, <2>1, <2>4
<1> QED BY <1>1, <1>3, <1>4, <1>15, <1>16 DEF Pictures, c, bytes

(* A message about the place p.                                            *)
Tells(sh, p) ==
  /\ IsRun(sh.bytes)
  /\ IF sh.bytes = <<>> THEN text.size = 0 \/ text.nl = 1..text.size
     ELSE sh.bytes[1] + sh.caret - 1 =
            IF p > text.size /\ text.size \in text.nl THEN p - 1 ELSE p

(* What is shown around the offset x in a buffer tells of the place q.     *)
LEMMA ContextTells ==
  ASSUME IsText, opts.ctxt \in Nat \ {0}, text.size \in Nat,
         NEW b \in Nat, NEW l \in Nat, NEW x \in 0..l, NEW e \in BOOLEAN,
         NEW q \in Nat \ {0}, b + x + 1 = q \/ l = 0,
         l = 0 => text.size = 0,
         l = 1 /\ e => b = 0 /\ text.size = 1,
         x = l => b + l = text.size /\ e,
         x < l => q <= text.size
  PROVE  Tells(Context(Run(b, l), x, e), q)
<1> DEFINE c == Context(Run(b, l), x, e)  strip == l > 0 /\ b + l \in text.nl /\ e
<1>1. /\ IsRun(c.bytes)
      /\ c.bytes = <<>> => l = 0 \/ (l = 1 /\ strip)
      /\ l = 0 => c.bytes = <<>>
      /\ c.bytes # <<>> =>
           c.bytes[1] + c.caret - 1 = IF strip /\ x = l THEN b + x ELSE b + x + 1
  <2>1. Pictures(c, b, l, x, e)
    BY ContextShows
  <2> QED BY <2>1 DEF Pictures
<1>2. x \in Nat /\ x <= l /\ strip \in BOOLEAN
  OBVIOUS
<1>3. strip => b + l \in text.nl /\ e /\ l > 0
  OBVIOUS
<1>4. l > 0 /\ b + l \in text.nl /\ e => strip
  OBVIOUS
<1> HIDE DEF c, strip
<1>5. CASE c.bytes = <<>>
  <2>1. ASSUME l = 1, strip PROVE text.nl = 1..text.size
    <3>1. b = 0 /\ text.size = 1 /\ b + l \in text.nl
      BY <1>3, <2>1
    <3>2. text.nl \subseteq 1..text.size /\ 1 \in text.nl
      BY <2>1, <3>1 DEF IsText
    <3>3. 1..text.size = {1}
      BY <3>1
    <3> QED BY <3>2, <3>3
  <2> QED BY <1>1, <1>5, <2>1 DEF Tells, c
<1>6. CASE c.bytes # <<>>
  <2>1. l # 0 /\ l > 0 /\ b + x + 1 = q
    BY <1>1, <1>6
  <2>2. c.bytes[1] + c.caret - 1 = IF strip /\ x = l THEN b + x ELSE b + x + 1
    BY <1>1, <1>6
  <2>3. c.bytes[1] + c.caret - 1 = IF q > text.size /\ text.size \in text.nl THEN q - 1 ELSE q
    <3>1. CASE x = l
      <4>1. b + l = text.size /\ e /\ q = text.size + 1 /\ q - 1 = b + x
        BY <2>1, <3>1
      <4>2. strip <=> text.size \in text.nl
        BY <1>3, <1>4, <2>1, <4>1
      <4>3. q > text.size
        BY <4>1
      <4> QED BY <2>1, <2>2, <3>1, <4>1, <4>2, <4>3
    <3>2. CASE x # l
      <4>1. ~(q > text.size)
        BY <1>2, <3>2
      <4> QED BY <2>1, <2>2, <3>2, <4>1
    <3> QED BY <3>1, <3>2
  <2> QED BY <1>1, <1>6, <2>3 DEF Tells, c
<1> QED BY <1>5, <1>6

LEMMA WrongIs ==
  ASSUME IsText, UNCHANGED text, NEW p \in 1..text.size + 1, (m.w)' = PlaceOf(p)
  PROVE  Wrong' = p
<1>1. Wrong' = CHOOSE i \in 1..text.size + 1 : PlaceOf(i) = m'.w
  BY DEF Wrong, PlaceOf
<1>2. ASSUME NEW i \in 1..text.size + 1, PlaceOf(i) = PlaceOf(p) PROVE i = p
  <2>1. i \in Nat /\ p \in Nat
    BY DEF IsText
  <2> QED BY <1>2, <2>1, PlaceBefore
<1> QED BY <1>1, <1>2

LEMMA CaretShows ==
  ASSUME IsText, UNCHANGED text,
         (shown.what)' = "context" =>
           \E p \in 1..text.size + 1 : (m.w)' = PlaceOf(p) /\ Tells(shown', p)
  PROVE  CaretIsRight'
<1>1. SUFFICES ASSUME (shown.what)' = "context"
               PROVE  /\ IsRun(shown'.bytes)
                      /\ IF shown'.bytes = <<>> THEN text.size = 0 \/ text.nl = 1..text.size
                         ELSE shown'.bytes[1] + shown'.caret - 1 =
                                IF Wrong' > text.size /\ text.size \in text.nl
                                THEN Wrong' - 1 ELSE Wrong'
  BY DEF CaretIsRight, Shows
<1>2. PICK p \in 1..text.size + 1 : m'.w = PlaceOf(p) /\ Tells(shown', p)
  BY <1>1
<1>3. Wrong' = p
  BY <1>2, WrongIs
<1> QED BY <1>2, <1>3 DEF Tells

-----------------------------------------------------------------------------
(* NeverAborts and CaretIsRight.  They are inductive with what is known of *)
(* an error while the loop reads, and of what it kept by then.             *)

ErrorInv ==
  /\ ReadInv /\ CaretIsRight
  /\ Initial \/ pc # "done" => ~Shows
  /\ ~Initial =>
       /\ pc \in {"reading", "ending"} =>
            /\ ~m.failed
            /\ m.s = "error" => m.w = PlaceOf(fault.place) /\ fault.at \in 1..fed
            /\ Verbose => /\ Held(m, fed)
                          /\ opts.fixed /\ m.t = "before_error" => m.s = "ok"
                          /\ m.s = "ok" => m.t = "before_error"
       /\ pc = "ending" /\ Verbose /\ m.t # "after_error" => fed = text.size
       /\ pc = "ran" /\ Verbose => m.buf = Start /\ EndOf(m.mem, m.buf) = fed
       /\ pc # "aborted"

LEMMA ErrorBegins ==
  ASSUME Inputs, RunInit
  PROVE  ErrorInv
<1>1. ReadInv
  BY ReadBegins
<1>2. /\ pc \in {"done", "reading"} /\ (~Initial => pc = "reading") /\ fed = 0
      /\ shown.what \in {"message", "nothing"}
  BY DEF RunInit, Initial, Message, Nothing
<1>3. /\ m.mem = NewBuf /\ m.buf = Start /\ m.error = 0 /\ m.size = opts.ctxt + 1
      /\ m.t = "before_error" /\ ~m.small /\ ~m.failed /\ (~Initial => m.s = "ok")
  BY DEF RunInit, Initial
<1>4. ~Shows
  BY <1>2 DEF Shows
<1>5. CaretIsRight
  BY <1>4 DEF CaretIsRight
<1>6. EndOf(NewBuf, Start) = 0
  BY BufBegins
<1>7. Verbose /\ opts.fixed => NewBuf.size = 2 * opts.ctxt + 1
  <2> DEFINE size == 2 * opts.ctxt + 1  buf == Create(size, size)
             sizes == { s \in size..size : s = size \/ \E k \in 0..size : s = size * 2^k }
  <2>1. size \in Nat /\ size > 0
    BY OptsAre
  <2>2. ASSUME Verbose, opts.fixed PROVE NewBuf = Enlarge(buf, size)
    <3>1. buf.init = size
      BY DEF Create
    <3> QED BY <2>2, <3>1 DEF NewBuf
  <2> HIDE DEF size
  <2>3. /\ buf = [max |-> size, init |-> size, size |-> 0, data |-> <<>>, overflow |-> FALSE]
        /\ Len(buf.data) = 0
    BY <2>1 DEF Create
  <2>4. Enlarge(buf, size) = [buf EXCEPT !.size = Grown(buf, size)]
    BY <2>1, <2>3 DEF Enlarge
  <2>5. Grown(buf, size) = Sets!Min(sizes)
    BY <2>1, <2>3 DEF Grown
  <2>6. sizes \in SUBSET Nat /\ size \in sizes /\ \A s \in sizes : s = size
    BY <2>1
  <2> HIDE DEF sizes
  <2>7. Sets!Min(sizes) = size
    <3>1. Sets!Min(sizes) \in sizes
      BY <2>6, MinIs
    <3> QED BY <2>6, <3>1
  <2> QED BY <2>2, <2>3, <2>4, <2>5, <2>7 DEF size
<1>8. Verbose => Held(m, 0)
  <2>1. Start.beg = 0
    BY DEF Start
  <2> QED BY <1>3, <1>6, <1>7, <2>1 DEF Held, Filling
<1> QED BY <1>1, <1>2, <1>3, <1>4, <1>5, <1>8 DEF ErrorInv

(* What is held does not depend on the status.                             *)
LEMMA ParsedHolds ==
  ASSUME Inputs, NEW n, Agree(n), NEW f \in Nat, NEW r \in Nat,
         n.s = "error" => n.w = PlaceOf(fault.place) /\ fault.at \in 1..f
  PROVE  LET p == Parsed(n, Run(f, r)) IN
         /\ p.s = "error" => p.w = PlaceOf(fault.place) /\ fault.at \in 1..f + r
         /\ p.failed = n.failed /\ p.t = n.t
         /\ Held(n, f) => Held(p, f)
<1> DEFINE piece == Run(f, r)  p == Parsed(n, piece)
<1>1. n \in Locals /\ n.s \in {"ok", "error"} /\ fault.at \in Nat
  BY OptsAre DEF Agree, Locals
<1>2. Finds(piece) <=> fault.at \in f + 1..f + r
  BY FindsIs
<1> HIDE DEF piece
<1>3. CASE n.s = "ok" /\ Finds(piece)
  <2>1. p = [n EXCEPT !.s = "error", !.w = PlaceOf(fault.place)]
    BY <1>3 DEF Parsed
  <2> HIDE DEF p
  <2>2. /\ p.s = "error" /\ p.w = PlaceOf(fault.place) /\ p.mem = n.mem /\ p.buf = n.buf
        /\ p.size = n.size /\ p.t = n.t /\ p.small = n.small /\ p.failed = n.failed
        /\ p.error = n.error
    BY <1>1, <2>1 DEF Locals
  <2>3. Held(n, f) => Held(p, f)
    BY <2>2 DEF Held, HoldsError, Filling
  <2>4. fault.at \in 1..f + r
    BY <1>1, <1>2, <1>3
  <2> QED BY <2>2, <2>3, <2>4 DEF p, piece
<1>4. CASE ~(n.s = "ok" /\ Finds(piece))
  <2>1. p = n
    BY <1>4 DEF Parsed
  <2>2. fault.at \in 1..f => fault.at \in 1..f + r
    BY <1>1
  <2> QED BY <2>1, <2>2 DEF p, piece
<1> QED BY <1>3, <1>4

LEMMA ReadTells ==
  ASSUME ErrorInv, NEW r \in 1..BufSize, Read(r)
  PROVE  ErrorInv'
<1> DEFINE piece  == Run(fed, r)
           parsed == Parsed(m, piece)
           kept   == IF Verbose THEN KeepContext(parsed, piece) ELSE parsed
<1>1. /\ r \in Nat \ {0} /\ r \in Nat /\ Inputs /\ Agree(m) /\ fed \in Nat
      /\ fault.at \in Nat /\ fault.place \in Nat /\ ReadInv
      /\ fault.place <= fault.at /\ (fault.at > 0 => fault.place > 0)
      /\ IsText
  BY SizesAssumption, StatusIs, OptsAre DEF ErrorInv, Inputs
<1>2. /\ pc = "reading" /\ fed' = fed + r /\ m' = kept
      /\ pc' = IF kept.failed THEN "aborted"
               ELSE IF kept.mem.overflow THEN "fatal"
               ELSE IF Enough(kept) THEN "ending" ELSE "reading"
      /\ UNCHANGED <<text, fault, opts, shown>>
  BY DEF Read, Run
<1>3. ReadInv'
  BY <1>1, ReadReads
<1>4. ~Shows /\ ~Shows' /\ CaretIsRight'
  BY <1>2 DEF ErrorInv, Shows, CaretIsRight
<1>5. Initial' = Initial /\ Verbose' = Verbose
  BY <1>2 DEF Initial, Verbose
<1>6. CASE Initial
  BY <1>3, <1>4, <1>5, <1>6 DEF ErrorInv
<1>7. CASE ~Initial
  <2>1. /\ ~m.failed /\ (m.s = "error" => m.w = PlaceOf(fault.place) /\ fault.at \in 1..fed)
        /\ Verbose => Held(m, fed)
    BY <1>2, <1>7 DEF ErrorInv
  <2>2. /\ parsed.s = "error" => parsed.w = PlaceOf(fault.place) /\ fault.at \in 1..fed + r
        /\ ~parsed.failed /\ parsed.t = m.t
        /\ Verbose => Held(parsed, fed)
    BY <1>1, <2>1, ParsedHolds
  <2>3. /\ Agree(parsed)
        /\ Verbose => Ready(parsed, fed)
                      \/ (Ready([parsed EXCEPT !.s = "ok"], fed) /\ parsed.s = "error")
    <3>1. Verbose => Ready(m, fed)
      BY <1>1, <1>2 DEF ReadInv, RunInv
    <3> HIDE DEF piece
    <3> QED BY <1>1, <3>1, ParsedKeeps
  <2>4. kept.s = parsed.s
    <3>1. Verbose => Ready(m, fed)
      BY <1>1, <1>2 DEF ReadInv, RunInv
    <3> QED BY <1>1, <3>1, TurnStatus
  <2>5. parsed.s = "error" => /\ parsed.w = PlaceOf(fault.place) /\ fault.place > 0
                              /\ fault.place <= fed + r
    BY <1>1, <2>2
  <2> HIDE DEF parsed
  <2>6. /\ kept.w = parsed.w /\ ~kept.failed
        /\ Verbose => /\ opts.fixed /\ kept.t = "before_error" => kept.s = "ok"
                      /\ kept.mem.overflow = FALSE => Held(kept, fed + r)
    <3>1. CASE Verbose
      <4>1. kept = KeepContext(parsed, Run(fed, r))
        BY <3>1
      <4> HIDE DEF kept, piece
      <4>2. /\ kept.w = parsed.w /\ ~kept.failed
            /\ opts.fixed /\ kept.t = "before_error" => parsed.s = "ok"
            /\ kept.mem.overflow = FALSE => Held(kept, fed + r)
        <5> HIDE DEF Verbose
        <5> QED BY <1>1, <2>2, <2>3, <2>5, <3>1, <4>1, KeepContextHolds
      <4> QED BY <2>4, <4>2
    <3>2. CASE ~Verbose
      BY <2>2, <3>2
    <3> QED BY <3>1, <3>2
  <2>7. Verbose /\ kept.mem.overflow = FALSE => Ready(kept, fed + r)
    <3>1. CASE Verbose
      <4>1. kept.failed = FALSE
        <5>1. Agree(kept)
          BY <1>1, <2>3, <3>1, KeepContextKeeps
        <5> QED BY <2>6, <5>1 DEF Agree, Locals
      <4> QED BY <1>1, <2>3, <3>1, <4>1, KeepContextKeeps
    <3> QED BY <3>1
  <2>8. kept.mem.overflow \in BOOLEAN /\ kept.t \in {"before_error", "after_error", "eof_error"}
    <3>1. Agree(kept)
      BY <1>1, <2>3, KeepContextKeeps
    <3> QED BY <3>1 DEF Agree, Locals, Buffers
  <2> HIDE DEF kept
  <2>9. /\ pc' \in {"fatal", "ending", "reading"}
        /\ pc' \in {"ending", "reading"} => kept.mem.overflow = FALSE
        /\ pc' = "ending" => Enough(kept)
    BY <1>2, <2>6, <2>8
  <2>10. /\ m'.s = "error" => m'.w = PlaceOf(fault.place) /\ fault.at \in 1..fed'
         /\ ~m'.failed
    BY <1>2, <2>2, <2>4, <2>6
  <2>11. Verbose /\ pc' \in {"ending", "reading"} =>
           /\ Held(m', fed')
           /\ opts.fixed /\ m'.t = "before_error" => m'.s = "ok"
           /\ m'.s = "ok" => m'.t = "before_error"
           /\ m'.t # "eof_error"
    BY <1>2, <2>6, <2>7, <2>9 DEF Ready
(* While there is no error, or all is kept, the loop goes on to the end.   *)
  <2>12. ASSUME Verbose, pc' = "ending" PROVE m'.t = "after_error"
    <3>1. SUFFICES ASSUME m'.t = "before_error" PROVE FALSE
      BY <1>2, <2>8, <2>11, <2>12
    <3>2. kept.s # "ok" /\ kept.size = 0
      BY <2>9, <2>12 DEF Enough
    <3>3. kept.size = opts.ctxt + 1
      BY <1>2, <2>11, <2>12, <3>1 DEF Held
    <3>4. opts.ctxt \in Nat
      BY <1>1, OptsAre
    <3> QED BY <3>2, <3>3, <3>4
  <2>14. Verbose /\ pc' \in {"ending", "reading"} => Held(m, fed)'
    BY <1>2, <2>11 DEF Held, HoldsError, Filling, EndOf, Start
  <2>15. (PlaceOf(fault.place))' = PlaceOf(fault.place)
    BY <1>2 DEF PlaceOf
  <2>16. pc' \in {"reading", "ending"} =>
           /\ ~(m.failed)'
           /\ (m.s)' = "error" => (m.w)' = (PlaceOf(fault.place))' /\ (fault.at)' \in 1..fed'
           /\ Verbose' => /\ Held(m, fed)'
                          /\ (opts.fixed)' /\ (m.t)' = "before_error" => (m.s)' = "ok"
                          /\ (m.s)' = "ok" => (m.t)' = "before_error"
    BY <1>2, <1>5, <2>10, <2>11, <2>14, <2>15
  <2> HIDE DEF piece
  <2> QED BY <1>3, <1>4, <1>5, <2>9, <2>12, <2>16 DEF ErrorInv
<1> QED BY <1>6, <1>7

(* What is known after the loop of an error that was found.                *)
Ended(n) ==
  /\ Agree(n) /\ n.s = "error" /\ ~n.failed /\ Held(n, fed)
  /\ fed \in Nat /\ fed <= text.size /\ fault.at \in 1..text.size + 1
  /\ n.w = PlaceOf(fault.place)
  /\ n.t # "after_error" => fed = text.size
  /\ n.t # "before_error" => opts.fixed /\ fault.at <= fed

(* The offset of the error is within buf, or the error is before it.       *)
LEMMA SettleFinds ==
  ASSUME Inputs, Verbose, NEW n, Ended(n)
  PROVE  LET g == Settle(n)  L == Len(n.mem.data)  b == n.buf.beg  q == fault.place IN
         /\ g.s = "error" /\ g.w = n.w /\ ~g.failed /\ g.mem = n.mem
         /\ ~g.small => g.error \in 0..L /\ (b + g.error + 1 = q \/ L = 0)
         /\ n.t = "before_error" =>
              /\ g.t = "eof_error" /\ b + L = text.size
              /\ b = 0 \/ (opts.fixed /\ L = 2 * opts.ctxt + 1)
              /\ g.small <=> L > 0 /\ q <= b
         /\ n.t # "before_error" =>
              /\ g.t = n.t /\ (g.small <=> n.small \/ q <= b) /\ q <= fed
              /\ ~g.small => /\ g.error < L
                             /\ L > 1 \/ (L = 1 /\ b = 0 /\ fed = 1)
<1> DEFINE o == GetOffset(n.buf, n.w, n.mem.data)
           L == Len(n.mem.data)  b == n.buf.beg  q == fault.place  g == Settle(n)
<1>1. /\ IsText /\ opts.ctxt \in Nat \ {0} /\ text.size \in Nat
      /\ q \in Nat \ {0} /\ q <= fault.at /\ q <= text.size + 1 /\ fault.at \in Nat
      /\ fed \in Nat
  BY OptsAre DEF Inputs, Ended
<1>2. n \in Locals /\ Kept(n.mem, n.buf) /\ n.s = "error" /\ ~n.failed /\ Held(n, fed)
      /\ n.w = PlaceOf(q)
  BY DEF Agree, Ended
<1>3. /\ L \in Nat /\ b \in Nat /\ n.mem.data = Run(b, L) /\ n.buf \in Addresses /\ Sited(n.buf)
      /\ EndOf(n.mem, n.buf) = b + L
  <2>1. L \in Nat /\ b \in Nat
    BY <1>2, KeptHas
  <2> QED BY <1>2, <2>1 DEF Kept, EndOf
(* The place was not looked for while the loop was reading.                *)
<1>6. CASE n.t = "before_error"
  <2>1. b + L = text.size
    BY <1>2, <1>3, <1>6 DEF Held, Ended
  <2>2. b = 0 \/ (opts.fixed /\ L = 2 * opts.ctxt + 1)
    <3>1. CASE ~opts.fixed
      BY <1>2, <3>1 DEF Held, Start
    <3>2. CASE opts.fixed
      BY <1>2, <1>6, <3>2 DEF Held, Filling
    <3> QED BY <3>1, <3>2
  <2>3. o = IF q <= b THEN Nowhere ELSE q - b - 1
    <3>1. q <= b + L + 1
      BY <1>1, <2>1
    <3> HIDE DEF b, L
    <3>2. GetOffset(n.buf, PlaceOf(q), Run(b, L)) = IF q <= b THEN Nowhere ELSE q - b - 1
      BY <1>1, <1>3, <3>1, OffsetIs DEF b
    <3> QED BY <1>2, <1>3, <3>2
  <2> DEFINE e == IF L > 0 /\ o >= 0 THEN o ELSE n.error
             small == (L > 0 /\ o = Nowhere)
             failed == (L > 0 /\ o = Failed)
  <2>4. g = [n EXCEPT !.t = "eof_error", !.error = e, !.small = small, !.failed = failed]
    BY <1>2, <1>6 DEF Settle
  <2>5. ~failed /\ failed \in BOOLEAN /\ small \in BOOLEAN /\ (small <=> L > 0 /\ q <= b)
    <3> HIDE DEF o, b, L
    <3> QED BY <1>1, <1>3, <2>3 DEF Failed, Nowhere
  <2>6. n.error = 0
    BY <1>2, <1>6 DEF Held
  <2> HIDE DEF g, o, e, small, failed
  <2>7. /\ g.s = "error" /\ g.w = n.w /\ g.failed = failed /\ g.small = small
        /\ g.t = "eof_error" /\ g.error = e /\ g.mem = n.mem
    BY <1>2, <2>4 DEF Locals
  <2>8. ~small => e \in 0..L /\ (b + e + 1 = q \/ L = 0)
    <3>1. SUFFICES ASSUME ~small PROVE e \in 0..L /\ (b + e + 1 = q \/ L = 0)
      OBVIOUS
    <3>2. CASE L > 0
      <4>1. ~(q <= b) /\ o = q - b - 1
        BY <2>3, <2>5, <3>1, <3>2
      <4>2. o >= 0 /\ o <= L /\ o \in Int /\ b + o + 1 = q
        <5> HIDE DEF b, L
        <5> QED BY <1>1, <1>3, <2>1, <4>1
      <4>3. e = o
        BY <3>2, <4>2 DEF e
      <4> QED BY <1>3, <4>2, <4>3
    <3>3. CASE ~(L > 0)
      <4>1. e = 0 /\ L = 0
        BY <1>3, <2>6, <3>3 DEF e
      <4> QED BY <4>1
    <3> QED BY <3>2, <3>3
  <2> HIDE DEF b, L
  <2>9. /\ g.s = "error" /\ g.w = n.w /\ ~g.failed /\ g.mem = n.mem
        /\ ~g.small => g.error \in 0..L /\ (b + g.error + 1 = q \/ L = 0)
        /\ g.t = "eof_error" /\ b + L = text.size
        /\ b = 0 \/ (opts.fixed /\ L = 2 * opts.ctxt + 1)
        /\ g.small <=> L > 0 /\ q <= b
    BY <2>1, <2>2, <2>5, <2>7, <2>8
  <2> QED BY <1>6, <2>9 DEF g, b, L
<1>7. CASE n.t # "before_error" /\ n.small
  <2>1. g = n
    BY <1>7 DEF Settle
  <2>2. q <= fed
    BY <1>1, <1>7 DEF Ended
  <2> QED BY <1>2, <1>7, <2>1, <2>2
<1>8. CASE n.t # "before_error" /\ ~n.small
  <2>1. /\ n.error = q - 1 /\ n.error < b + L
        /\ L > 1 \/ (L = 1 /\ b = 0 /\ fed = 1)
        /\ q <= fed
    <3>1. HoldsError(n, fed) /\ fault.at <= fed
      BY <1>2, <1>8 DEF Held, Ended
    <3> HIDE DEF b, L
    <3> QED BY <1>1, <1>3, <3>1 DEF HoldsError, b, L
  <2>2. CASE n.error < b
    <3>1. g = [n EXCEPT !.small = TRUE]
      BY <1>2, <1>8, <2>2 DEF Settle
    <3> HIDE DEF g
    <3>2. g.small /\ g.s = "error" /\ g.w = n.w /\ ~g.failed /\ g.mem = n.mem /\ g.t = n.t
      BY <1>2, <3>1 DEF Locals
    <3>3. q <= b
      <4> HIDE DEF b
      <4> QED BY <1>1, <1>3, <2>1, <2>2
    <3> HIDE DEF b
    <3> QED BY <1>8, <2>1, <3>2, <3>3 DEF g, b
  <2>3. CASE ~(n.error < b)
    <3> DEFINE e == n.error - b  small == (Verbose /\ L < e)
    <3>1. g = [n EXCEPT !.error = e, !.small = small]
      BY <1>2, <1>8, <2>3 DEF Settle
    <3>2. e \in 0..L /\ e < L /\ b + e + 1 = q /\ ~(q <= b)
      <4> HIDE DEF b, L
      <4> QED BY <1>1, <1>3, <2>1, <2>3
    <3>4. ~small /\ small \in BOOLEAN
      <4> HIDE DEF e, L
      <4> QED BY <1>3, <3>2
    <3> HIDE DEF e, small, g
    <3>3. /\ g.s = "error" /\ g.w = n.w /\ ~g.failed /\ g.error = e /\ g.mem = n.mem
          /\ g.t = n.t /\ ~g.small
      BY <1>2, <3>1, <3>4 DEF Locals
    <3> HIDE DEF b, L
    <3>5. /\ ~g.small => g.error \in 0..L /\ (b + g.error + 1 = q \/ L = 0)
          /\ g.small <=> n.small \/ q <= b
          /\ g.error < L
          /\ L > 1 \/ (L = 1 /\ b = 0 /\ fed = 1)
      BY <1>8, <2>1, <3>2, <3>3
    <3> QED BY <1>8, <2>1, <3>3, <3>5 DEF g, b, L
  <2> QED BY <2>2, <2>3
<1> QED BY <1>6, <1>7, <1>8

LEMMA SettleTells ==
  ASSUME Inputs, Verbose, NEW n, Ended(n)
  PROVE  LET g == Settle(n) IN
         ~g.small => Tells(Context(g.mem.data, g.error, g.t = "eof_error"), fault.place)
<1>1. PICK g : g = Settle(n)
  OBVIOUS
<1>2. SUFFICES ASSUME ~g.small
               PROVE  Tells(Context(n.mem.data, g.error, g.t = "eof_error"), fault.place)
  BY <1>1, SettleFinds
<1>3. PICK q \in Nat \ {0} : q = fault.place /\ q <= text.size + 1
  BY OptsAre DEF Inputs, Ended
<1>4. PICK L \in Nat, b \in Nat : L = Len(n.mem.data) /\ b = n.buf.beg /\ n.mem.data = Run(b, L)
  <2>1. Kept(n.mem, n.buf)
    BY DEF Ended, Agree
  <2>2. Len(n.mem.data) \in Nat /\ n.buf.beg \in Nat
    BY <2>1, KeptHas
  <2> QED BY <2>1, <2>2 DEF Kept
<1>5. PICK x \in 0..L, e \in BOOLEAN : x = g.error /\ e = (g.t = "eof_error")
  BY <1>1, <1>2, <1>4, SettleFinds
<1>6. b + x + 1 = q \/ L = 0
  BY <1>1, <1>2, <1>3, <1>4, <1>5, SettleFinds
<1>7. IsText /\ opts.ctxt \in Nat \ {0} /\ text.size \in Nat
  BY OptsAre
<1>8. /\ L = 0 => text.size = 0
      /\ L = 1 /\ e => b = 0 /\ text.size = 1
      /\ x = L => b + L = text.size /\ e
      /\ x < L => q <= text.size
  <2>1. CASE n.t = "before_error"
    <3>1. e /\ b + L = text.size /\ (b = 0 \/ L = 2 * opts.ctxt + 1)
      BY <1>1, <1>3, <1>4, <1>5, <2>1, SettleFinds
    <3>2. x < L => q <= text.size
      BY <1>6, <3>1
    <3>3. L = 0 \/ L = 1 => b = 0
      BY <1>7, <3>1
    <3> QED BY <3>1, <3>2, <3>3
  <2>2. CASE n.t # "before_error"
    <3>1. x < L /\ (L > 1 \/ (L = 1 /\ b = 0 /\ fed = 1)) /\ g.t = n.t /\ q <= fed
      BY <1>1, <1>2, <1>3, <1>4, <1>5, <2>2, SettleFinds
    <3>2. fed \in Nat /\ fed <= text.size /\ (e => fed = text.size)
      BY <1>5, <3>1 DEF Ended
    <3> QED BY <1>7, <3>1, <3>2
  <2> QED BY <2>1, <2>2
<1>9. Tells(Context(Run(b, L), x, e), q)
  BY <1>6, <1>7, <1>8, ContextTells
<1> QED BY <1>3, <1>4, <1>5, <1>9

(* At the end of the input, an error it was not found before is found.     *)
LEMMA EndFinds ==
  ASSUME ErrorInv, pc = "ending", ~Initial
  PROVE  LET b == ParsedDone(SeeEnd(m)) IN
         /\ Agree(b) /\ ~b.failed /\ b.s \in {"ok", "error"}
         /\ b.s = "error" => b.w = PlaceOf(fault.place) /\ fault.at \in 1..text.size + 1
         /\ Verbose => /\ Held(b, fed)
                       /\ b.t # "after_error" => fed = text.size
                       /\ b.t # "before_error" =>
                            opts.fixed /\ fault.at <= fed /\ b.s = "error"
         /\ b.mem = m.mem /\ b.buf = m.buf /\ b.input = m.input /\ b.size = m.size
         /\ b.small = m.small /\ (m.s = "error" => b.s = "error")
         /\ m.s = "ok" /\ b.s = "error" => fault.at = text.size + 1
         /\ \/ b.t = m.t
            \/ /\ m.t = "after_error" /\ b.t = "eof_error" /\ fed = text.size
               /\ EndOf(m.mem, m.buf) = m.input.beg
<1> DEFINE a == SeeEnd(m)  b == ParsedDone(a)
<1>1. /\ Inputs /\ Agree(m) /\ m \in Locals /\ m.s \in {"ok", "error"} /\ IsText
      /\ fed \in Nat /\ text.size \in Nat /\ fed <= text.size /\ fault.at \in Nat
      /\ fault.place \in Nat /\ m.t \in {"before_error", "after_error", "eof_error"}
  BY StatusIs, OptsAre DEF ErrorInv, ReadInv, Locals
<1>2. /\ ~m.failed
      /\ m.s = "error" => m.w = PlaceOf(fault.place) /\ fault.at \in 1..fed
      /\ Verbose => /\ Held(m, fed)
                    /\ m.s = "ok" => m.t = "before_error"
                    /\ m.t # "after_error" => fed = text.size
  BY DEF ErrorInv
<1>3. /\ a \in Locals /\ a.mem = m.mem /\ a.buf = m.buf /\ a.input = m.input
      /\ a.error = m.error /\ a.size = m.size /\ a.small = m.small /\ a.failed = m.failed
      /\ a.s = m.s /\ a.w = m.w
      /\ \/ a.t = m.t
         \/ /\ m.t = "after_error" /\ a.t = "eof_error" /\ fed = text.size
            /\ EndOf(m.mem, m.buf) = m.input.beg
  <2>1. CASE a = m
    BY <1>1, <2>1
  <2>2. CASE a # m
    <3>1. /\ a = [m EXCEPT !.t = "eof_error"] /\ m.t = "after_error" /\ fed = text.size
          /\ Len(m.mem.data) + m.buf.beg = m.input.beg
      BY <2>2 DEF SeeEnd
    <3>2. EndOf(m.mem, m.buf) = m.input.beg
      <4>1. Len(m.mem.data) \in Nat /\ m.buf.beg \in Nat
        BY <1>1, KeptHas DEF Agree
      <4> QED BY <3>1, <4>1 DEF EndOf
    <3> HIDE DEF a
    <3> QED BY <1>1, <3>1, <3>2 DEF Locals
  <2> QED BY <2>1, <2>2
<1> HIDE DEF a
<1>4. b = a \/ (/\ a.s = "ok" /\ fault.at = text.size + 1
                /\ b = [a EXCEPT !.s = "error", !.w = PlaceOf(fault.place)])
  BY DEF ParsedDone
<1>5. a.s = "ok" /\ fault.at = text.size + 1 => b.s = "error"
  BY <1>3 DEF ParsedDone, Locals
<1> HIDE DEF b
<1>6. PlaceOf(fault.place) \in Places
  BY <1>1, PlaceIs DEF Places
<1>7. /\ b \in Locals /\ b.mem = m.mem /\ b.buf = m.buf /\ b.input = m.input
      /\ b.error = m.error /\ b.size = m.size /\ b.small = m.small /\ b.failed = m.failed
      /\ b.t = a.t
      /\ \/ b.s = m.s /\ b.w = m.w
         \/ m.s = "ok" /\ b.s = "error" /\ b.w = PlaceOf(fault.place) /\ fault.at = text.size + 1
  BY <1>3, <1>4, <1>6 DEF Locals
<1>8. Agree(b)
  BY <1>1, <1>7, AgreeStays
<1>9. b.s = "error" => b.w = PlaceOf(fault.place) /\ fault.at \in 1..text.size + 1
  BY <1>1, <1>2, <1>7
<1>10. ~b.failed /\ b.s \in {"ok", "error"}
  BY <1>1, <1>2, <1>7
<1>11. ASSUME Verbose
       PROVE  /\ Held(b, fed)
              /\ b.t # "after_error" => fed = text.size
              /\ b.t # "before_error" => opts.fixed /\ fault.at <= fed /\ b.s = "error"
  <2>1. b.t = "before_error" <=> m.t = "before_error"
    BY <1>3, <1>7
  <2>2. Held(b, fed)
    BY <1>2, <1>7, <1>11, <2>1 DEF Held, HoldsError, Filling
  <2>3. b.t # "after_error" => fed = text.size
    BY <1>2, <1>3, <1>7, <1>11
  <2>4. m.t # "before_error" => opts.fixed /\ fault.at <= fed /\ b.s = "error"
    BY <1>1, <1>2, <1>7, <1>11 DEF Held
  <2> QED BY <2>1, <2>2, <2>3, <2>4
<1> QED BY <1>1, <1>3, <1>7, <1>8, <1>9, <1>10, <1>11 DEF a, b

LEMMA EndTells ==
  ASSUME ErrorInv, End
  PROVE  ErrorInv'
<1> DEFINE b == ParsedDone(SeeEnd(m))  n == Settle(b)
<1>1. /\ Inputs /\ IsText /\ fed \in Nat /\ text.size \in Nat /\ fed <= text.size
      /\ fault.at \in Nat /\ fault.place \in Nat /\ fault.place <= fault.at
      /\ fault.at > 0 => fault.place > 0
  BY StatusIs, OptsAre DEF ErrorInv, ReadInv, Inputs
<1>2. /\ pc = "ending"
      /\ m' = IF Initial THEN m ELSE n
      /\ shown' = IF Initial THEN shown ELSE Report(n)
      /\ pc' = IF Initial THEN "done"
               ELSE IF n.failed THEN "aborted"
               ELSE IF n.s = "ok" /\ ~opts.fixed THEN "ran" ELSE "done"
      /\ UNCHANGED <<text, fault, opts, fed>>
  BY DEF End, Initial
<1>3. ReadInv'
  BY ReadSteps DEF ErrorInv, RunNext
<1>4. Initial' = Initial /\ Verbose' = Verbose /\ ~Shows
  BY <1>2 DEF Initial, Verbose, ErrorInv
<1>5. CASE Initial
  <2>1. ~Shows' /\ CaretIsRight'
    BY <1>2, <1>4, <1>5 DEF Shows, CaretIsRight
  <2> QED BY <1>2, <1>3, <1>4, <1>5, <2>1 DEF ErrorInv
<1>6. CASE ~Initial
  <2>1. /\ Agree(b) /\ b \in Locals /\ ~b.failed /\ b.s \in {"ok", "error"}
        /\ b.s = "error" => b.w = PlaceOf(fault.place) /\ fault.at \in 1..text.size + 1
        /\ Verbose => /\ Held(b, fed)
                      /\ b.t # "after_error" => fed = text.size
                      /\ b.t # "before_error" => opts.fixed /\ fault.at <= fed /\ b.s = "error"
    BY <1>2, <1>6, EndFinds DEF Agree
  <2> HIDE DEF b
  <2>2. CASE b.s = "ok"
    <3>1. n = b
      BY <2>2 DEF Settle
    <3>2. /\ shown' = Nothing /\ m' = b /\ pc' \in {"ran", "done"}
          /\ pc' = "ran" => ~opts.fixed
      BY <1>2, <1>6, <2>1, <2>2, <3>1 DEF Report
    <3>3. ~Shows' /\ CaretIsRight'
      BY <3>2 DEF Shows, Nothing, CaretIsRight
    <3>4. pc' = "ran" /\ Verbose => b.buf = Start /\ EndOf(b.mem, b.buf) = fed
      BY <2>1, <3>2 DEF Held
    <3>5. (pc = "ran")' /\ Verbose' => (m.buf)' = Start' /\ EndOf(m.mem, m.buf)' = fed'
      BY <1>2, <1>4, <3>2, <3>4 DEF EndOf, Start
    <3> QED BY <1>3, <1>4, <1>6, <3>2, <3>3, <3>5 DEF ErrorInv
  <2>3. CASE b.s = "error"
    <3> DEFINE p == fault.place
    <3>1. /\ n.s = "error" /\ n.w = b.w /\ ~n.failed
          /\ Verbose /\ ~n.small => Tells(Context(n.mem.data, n.error, n.t = "eof_error"), p)
      <4>1. CASE Verbose
        <5>1. Ended(b)
          BY <1>1, <2>1, <2>3, <4>1 DEF Ended
        <5> QED BY <1>1, <4>1, <5>1, SettleFinds, SettleTells
      <4>2. CASE ~Verbose
        <5>1. /\ n = b
              \/ n = [b EXCEPT !.small = TRUE]
              \/ n = [b EXCEPT !.error = @ - b.buf.beg, !.small = FALSE]
          BY <4>2 DEF Settle
        <5> HIDE DEF n
        <5>2. n.s = "error" /\ n.w = b.w /\ ~n.failed
          BY <2>1, <2>3, <5>1 DEF Locals
        <5> QED BY <4>2, <5>2
      <4> QED BY <4>1, <4>2
    <3> HIDE DEF n
    <3>2. m' = n /\ shown' = Report(n) /\ pc' = "done"
      BY <1>2, <1>6, <3>1
    <3>3. (shown.what)' = "context" =>
            \E i \in 1..text.size + 1 : (m.w)' = PlaceOf(i) /\ Tells(shown', i)
      <4>1. SUFFICES ASSUME shown'.what = "context"
                     PROVE  m'.w = PlaceOf(p) /\ Tells(shown', p)
        BY <1>1, <2>1, <2>3
      <4>2. m'.w = PlaceOf(p)
        BY <2>1, <2>3, <3>1, <3>2
      <4>3. Verbose /\ ~n.small
            /\ shown' = Context(n.mem.data, n.error, n.t = "eof_error")
        BY <3>1, <3>2, <4>1 DEF Report, PosError, Nothing, Message
      <4> QED BY <3>1, <4>2, <4>3
    <3>4. CaretIsRight'
      BY <1>1, <1>2, <3>3, CaretShows
    <3> QED BY <1>3, <1>4, <1>6, <3>2, <3>4 DEF ErrorInv
  <2> QED BY <2>1, <2>2, <2>3
<1> QED BY <1>5, <1>6

(* What was read in is held from its first byte on, and a place of it is   *)
(* the place of one of its bytes.                                          *)
LEMMA CheckShows ==
  ASSUME ErrorInv, Verbose, NEW i \in 1..text.size, CheckError(PlaceOf(i))
  PROVE  /\ pc = "ran" /\ pc' = "done" /\ m'.s = "error" /\ m'.w = PlaceOf(i)
         /\ m'.small = m.small /\ UNCHANGED <<text, fault, opts, fed>>
         /\ shown' = Context(Run(0, text.size), i - 1, TRUE)
<1> DEFINE w == PlaceOf(i)  o == MemGetOffset(m.mem.data, w)
<1>1. /\ Inputs /\ IsText /\ fed \in Nat /\ text.size \in Nat /\ Agree(m) /\ m \in Locals
      /\ i \in Nat
  BY StatusIs, OptsAre DEF ErrorInv, ReadInv
<1>2. w # NoPlace
  <2>1. w.line = 1 + Cardinality(EndsBefore(i)) /\ Cardinality(EndsBefore(i)) \in Nat
    BY <1>1, PlaceIs, EndsAre
  <2>2. NoPlace.line = 0
    BY DEF NoPlace
  <2> HIDE DEF w
  <2> QED BY <2>1, <2>2
<1>3. /\ pc = "ran" /\ UNCHANGED <<text, fault, opts, fed>>
      /\ m' = [[m EXCEPT !.s = "error", !.w = w] EXCEPT !.failed = (o = Failed), !.error = o]
      /\ shown' = IF o = Failed THEN shown
                  ELSE PosError(w, m.mem.data, o, opts.verbose, TRUE)
      /\ pc' = IF o = Failed THEN "aborted" ELSE "done"
  BY <1>2 DEF CheckError
<1>4. m.mem.data = Run(0, text.size)
  <2>1. m.buf = Start /\ EndOf(m.mem, m.buf) = fed /\ fed = text.size
    BY <1>3 DEF ErrorInv, ReadInv
  <2>2. m.mem.data = Run(m.buf.beg, Len(m.mem.data)) /\ Len(m.mem.data) \in Nat
    BY <1>1, KeptHas DEF Agree, Kept
  <2>3. m.buf.beg = 0
    BY <2>1 DEF Start
  <2>4. Len(m.mem.data) = text.size
    BY <2>1, <2>2, <2>3 DEF EndOf
  <2> QED BY <2>2, <2>3, <2>4
<1>5. o = i - 1
  <2>1. i \in 1..(text.size + 1)
    BY <1>1
  <2> QED BY <1>1, <1>4, <2>1, MemOffsetIs
<1>6. o # Failed
  BY <1>1, <1>5 DEF Failed
<1>7. m'.s = "error" /\ m'.w = w /\ m'.small = m.small
  <2> HIDE DEF o, w
  <2> QED BY <1>1, <1>3 DEF Locals
<1> HIDE DEF o
<1>8. shown' = Context(Run(0, text.size), i - 1, TRUE)
  BY <1>2, <1>3, <1>4, <1>5, <1>6 DEF PosError, Verbose
<1> QED BY <1>3, <1>6, <1>7, <1>8

LEMMA CheckTells ==
  ASSUME ErrorInv, NEW w, CheckError(w),
         w = NoPlace \/ \E i \in 1..text.size : w = PlaceOf(i)
  PROVE  ErrorInv'
<1>1. /\ Inputs /\ IsText /\ fed \in Nat /\ text.size \in Nat /\ Agree(m) /\ m \in Locals
      /\ opts.ctxt \in Nat \ {0}
  BY StatusIs, OptsAre DEF ErrorInv, ReadInv
<1>2. ReadInv'
  <2>1. PICK i : (CheckError(PlaceOf(i)) /\ i \in 1..text.size) \/ CheckError(NoPlace)
    OBVIOUS
  <2>2. RunNext
    BY <2>1 DEF RunNext
  <2> QED BY <2>2, ReadSteps DEF ErrorInv
<1>3. Initial' = Initial /\ Verbose' = Verbose /\ ~Initial
  BY DEF CheckError, Initial, Verbose, ErrorInv, ReadInv
<1>4. CASE ~(Verbose /\ w # NoPlace)
  <2>1. pc' = "done" /\ shown'.what # "context"
    <3>1. PosError(w, <<>>, 0, FALSE, FALSE) \in {Nothing, Message}
      BY DEF PosError
    <3>2. Nothing.what # "context" /\ Message.what # "context"
      BY DEF Nothing, Message
    <3>3. pc' = "done" /\ shown' = PosError(w, <<>>, 0, FALSE, FALSE)
      BY <1>4 DEF CheckError
    <3> QED BY <3>1, <3>2, <3>3
  <2>2. CaretIsRight'
    BY <2>1 DEF Shows, CaretIsRight
  <2> QED BY <1>2, <1>3, <2>1, <2>2 DEF ErrorInv
<1>5. CASE Verbose /\ w # NoPlace
  <2>1. PICK i \in 1..text.size : w = PlaceOf(i)
    BY <1>5
  <2>2. /\ pc' = "done" /\ m'.w = PlaceOf(i) /\ UNCHANGED text
        /\ shown' = Context(Run(0, text.size), i - 1, TRUE)
    BY <1>5, <2>1, CheckShows
  <2>3. Tells(shown', i)
    <3>1. PICK l \in Nat, x \in Nat, b \in Nat, e \in BOOLEAN, p \in Nat \ {0} :
            l = text.size /\ x = i - 1 /\ b = 0 /\ e = TRUE /\ p = i
      <4>1. i \in Nat \ {0} /\ i - 1 \in Nat /\ text.size \in Nat /\ 0 \in Nat /\ TRUE \in BOOLEAN
        BY <1>1
      <4> QED BY <4>1, Zenon
    <3>2. /\ x \in 0..l /\ l # 0 /\ x # l /\ b + x + 1 = p /\ p <= text.size /\ b = 0
          /\ l = 1 => text.size = 1
      BY <1>1, <3>1
    <3>3. IsText /\ opts.ctxt \in Nat \ {0} /\ text.size \in Nat
      BY <1>1
    <3>4. Tells(Context(Run(b, l), x, e), p)
      BY <3>2, <3>3, ContextTells
    <3> QED BY <2>2, <3>1, <3>4
  <2>4. CaretIsRight'
    <3>1. i \in 1..text.size + 1 /\ (m.w)' = PlaceOf(i)
      BY <1>1, <2>2
    <3> QED BY <1>1, <2>2, <2>3, <3>1, CaretShows
  <2> QED BY <1>2, <1>3, <2>2, <2>4 DEF ErrorInv
<1> QED BY <1>4, <1>5

LEMMA ErrorSteps ==
  ASSUME ErrorInv, [RunNext]_runVars
  PROVE  ErrorInv'
<1>1. ReadInv'
  BY ReadSteps DEF ErrorInv
<1>2. m \in Locals
  BY DEF ErrorInv, ReadInv, RunInv, Agree
<1>3. CASE \E r \in 1..BufSize : Read(r)
  BY <1>3, ReadTells
<1>4. CASE ReadEnd
  <2>1. /\ pc = "reading" /\ fed = text.size /\ pc' = "ending"
        /\ m' = [m EXCEPT !.t = IF m.t = "after_error" THEN "eof_error" ELSE m.t]
        /\ UNCHANGED <<text, fault, opts, fed, shown>>
    BY <1>2, <1>4 DEF ReadEnd, Locals
  <2>2. /\ m'.mem = m.mem /\ m'.buf = m.buf /\ m'.error = m.error /\ m'.size = m.size
        /\ m'.small = m.small /\ m'.failed = m.failed /\ m'.s = m.s /\ m'.w = m.w
        /\ m'.t = IF m.t = "after_error" THEN "eof_error" ELSE m.t
    BY <1>2, <2>1 DEF Locals
  <2>3. ~Shows /\ ~Shows' /\ CaretIsRight'
    BY <2>1 DEF ErrorInv, Shows, CaretIsRight
  <2>4. Initial' = Initial /\ Verbose' = Verbose /\ PlaceOf(fault.place)' = PlaceOf(fault.place)
    BY <2>1 DEF Initial, Verbose, PlaceOf
  <2>5. CASE Initial
    BY <1>1, <2>1, <2>3, <2>4, <2>5 DEF ErrorInv
  <2>6. CASE ~Initial
    <3>1. /\ ~m.failed /\ (m.s = "error" => m.w = PlaceOf(fault.place) /\ fault.at \in 1..fed)
          /\ Verbose => /\ Held(m, fed)
                        /\ opts.fixed /\ m.t = "before_error" => m.s = "ok"
                        /\ m.s = "ok" => m.t = "before_error"
      BY <2>1, <2>6 DEF ErrorInv
    <3>2. Verbose => Held(m, fed)'
      BY <2>1, <2>2, <3>1 DEF Held, HoldsError, Filling, EndOf, Start
    <3>3. /\ ~(m.failed)'
          /\ (m.s)' = "error" => (m.w)' = PlaceOf(fault.place)' /\ (fault.at)' \in 1..fed'
          /\ Verbose' => /\ Held(m, fed)'
                         /\ (opts.fixed)' /\ (m.t)' = "before_error" => (m.s)' = "ok"
                         /\ (m.s)' = "ok" => (m.t)' = "before_error"
      BY <2>1, <2>2, <2>4, <3>1, <3>2
    <3>4. fed' = (text.size)'
      BY <2>1
    <3> QED BY <1>1, <2>1, <2>3, <2>4, <2>6, <3>3, <3>4 DEF ErrorInv
  <2> QED BY <2>5, <2>6
<1>5. CASE End
  BY <1>5, EndTells
<1>6. CASE \E i \in 1..text.size : CheckError(PlaceOf(i))
  BY <1>6, CheckTells
<1>7. CASE CheckError(NoPlace)
  BY <1>7, CheckTells
<1>8. CASE Accept
  <2>1. pc = "ran" /\ pc' = "done" /\ UNCHANGED <<text, fault, opts, fed, m, shown>>
    BY <1>8 DEF Accept
  <2>2. Initial' = Initial /\ ~Initial /\ ~Shows
    BY <2>1 DEF Initial, ErrorInv, ReadInv
  <2>3. CaretIsRight'
    BY <2>1, <2>2 DEF Shows, CaretIsRight
  <2> QED BY <1>1, <2>1, <2>2, <2>3 DEF ErrorInv
<1>9. CASE UNCHANGED runVars
  BY <1>1, <1>9 DEF runVars, ErrorInv, CaretIsRight, Shows, Wrong, Initial, Verbose, PlaceOf,
       Held, HoldsError, Filling, EndOf, Start
<1> QED BY <1>3, <1>4, <1>5, <1>6, <1>7, <1>8, <1>9 DEF RunNext

(* The assertions of the run loop hold, whatever the sizes, the input and  *)
(* its error and the pieces it is read in: the place of an error is looked *)
(* for where the line it names begins, and its offset is one of buf.       *)
THEOREM NeverAbortsCorrect == RunSpec => []NeverAborts
<1>1. Inputs /\ RunInit => ErrorInv
  BY ErrorBegins
<1>2. ErrorInv /\ [RunNext]_runVars => ErrorInv'
  BY ErrorSteps
<1>3. ErrorInv => NeverAborts
  BY DEF ErrorInv, NeverAborts
<1> QED BY <1>1, <1>2, <1>3, PTL DEF RunSpec

(* What a message shows is a run of the input with the caret under the     *)
(* byte at fault, or where the input ends: of the bytes that the loop kept *)
(* it never shows others, nor marks another.                               *)
THEOREM CaretIsRightCorrect == RunSpec => []CaretIsRight
<1>1. Inputs /\ RunInit => ErrorInv
  BY ErrorBegins
<1>2. ErrorInv /\ [RunNext]_runVars => ErrorInv'
  BY ErrorSteps
<1>3. ErrorInv => CaretIsRight
  BY DEF ErrorInv
<1> QED BY <1>1, <1>2, <1>3, PTL DEF RunSpec

-----------------------------------------------------------------------------
(* What is shown is enough.                                                *)

(* The bytes around the place p are shown, a new line at the end of the    *)
(* input aside.                                                            *)
Surrounds(sh, p) ==
  Around(p - opts.ctxt, p + opts.ctxt) \ { sh.bytes[k] : k \in DOMAIN sh.bytes }
    \subseteq {text.size} \cap text.nl

LEMMA ContextSurrounds ==
  ASSUME IsText, opts.ctxt \in Nat \ {0}, text.size \in Nat,
         NEW b \in Nat, NEW l \in Nat, NEW x \in 0..l, NEW e \in BOOLEAN,
         NEW p \in Nat \ {0}, b + x + 1 = p \/ l = 0,
         l = 0 => text.size = 0,
         b = 0 \/ b < p - opts.ctxt,
         b + l = text.size \/ p + opts.ctxt <= b + l,
         e => b + l = text.size
  PROVE  Surrounds(Context(Run(b, l), x, e), p)
<1> DEFINE c == Context(Run(b, l), x, e)  strip == l > 0 /\ b + l \in text.nl /\ e
           around == Around(p - opts.ctxt, p + opts.ctxt)
           bytes  == { c.bytes[k] : k \in DOMAIN c.bytes }
<1>1. \A i \in b + 1..b + (IF strip THEN l - 1 ELSE l) :
        b + x + 1 - opts.ctxt <= i /\ i <= b + x + 1 + opts.ctxt => i \in bytes
  <2>1. Pictures(c, b, l, x, e)
    BY ContextShows
  <2>2. ASSUME NEW i, \E k \in DOMAIN c.bytes : c.bytes[k] = i PROVE i \in bytes
    BY <2>2
  <2> HIDE DEF bytes, c
  <2> QED BY <2>1, <2>2 DEF Pictures
<1>2. \A i \in around : /\ i \in Int /\ p - opts.ctxt <= i /\ i <= p + opts.ctxt
                        /\ 1 <= i /\ i <= text.size
  BY DEF Around
<1> HIDE DEF bytes, around
<1>3. ASSUME NEW i \in around, i \notin bytes PROVE i = text.size /\ i \in text.nl
  <2>1. l # 0
    BY <1>2, <1>3
  <2>2. b + x + 1 = p
    BY <2>1
  <2>3. PICK t \in Nat, j \in Int : t = opts.ctxt /\ j = i
    BY <1>2
  <2>4. p - t <= j /\ j <= p + t /\ 1 <= j /\ j <= text.size
    BY <1>2, <2>3
  <2>5. (b = 0 \/ b < p - t) /\ (b + l = text.size \/ p + t <= b + l)
    BY <2>3
  <2>6. j \in b + 1..b + l
    BY <2>4, <2>5
  <2>7. ~(j \in b + 1..b + (IF strip THEN l - 1 ELSE l))
    <3>1. b + x + 1 - t <= j /\ j <= b + x + 1 + t
      BY <2>2, <2>4
    <3> QED BY <1>1, <1>3, <2>3, <3>1
  <2>8. strip /\ j = b + l
    BY <2>1, <2>6, <2>7
  <2> QED BY <2>3, <2>8
<1> QED BY <1>3 DEF Surrounds, around, bytes, c

-----------------------------------------------------------------------------
(* After the loop.  Here d stands for foundAt, as it is from then on.      *)

(* What the loop has left for the message about an error.                  *)
Left(n, d) ==
  /\ ~opts.fixed => ~n.small
  /\ opts.fixed /\ n.t = "before_error" => fault.at > text.size /\ d = text.size
  /\ n.t # "before_error" => Placed(n, d, fed)
  /\ ~opts.echo /\ ~n.small =>
       /\ n.t = "after_error" => n.size = 0
       /\ n.t = "eof_error" => EndOf(n.mem, n.buf) = text.size

ReachOf(d) ==
  IF ~opts.fixed THEN 1
  ELSE IF fault.at > text.size THEN text.size - 2 * opts.ctxt
  ELSE d - opts.ctxt + 1

(* The error is given up as too far away only where it is.                 *)
LEMMA SettleReaches ==
  ASSUME Inputs, Verbose, NEW n, Ended(n), NEW d \in Nat, Left(n, d)
  PROVE  Settle(n).small <=> fault.place < ReachOf(d)
<1>1. PICK g : g = Settle(n)
  OBVIOUS
<1>2. PICK q \in Nat \ {0}, c \in Nat \ {0}, z \in Nat :
        q = fault.place /\ c = opts.ctxt /\ z = text.size
  BY OptsAre DEF Inputs, Ended
<1>3. PICK L \in Nat, b \in Nat : L = Len(n.mem.data) /\ b = n.buf.beg
  <2>1. Kept(n.mem, n.buf)
    BY DEF Ended, Agree
  <2> QED BY <2>1, KeptHas
<1>4. fault.at <= z + 1 /\ fed <= z /\ fault.at \in Nat /\ fed \in Nat /\ q <= fault.at
  BY <1>2, OptsAre DEF Ended, Inputs
<1>5. CASE n.t = "before_error"
  <2>1. b + L = z /\ (b = 0 \/ (opts.fixed /\ L = 2 * c + 1)) /\ (g.small <=> L > 0 /\ q <= b)
    BY <1>1, <1>2, <1>3, <1>5, SettleFinds
  <2>2. CASE ~opts.fixed
    <3>1. b = 0 /\ ReachOf(d) = 1
      BY <2>1, <2>2 DEF ReachOf
    <3> QED BY <1>1, <1>2, <2>1, <3>1
  <2>3. CASE opts.fixed
    <3>1. ReachOf(d) = z - 2 * c
      BY <1>2, <1>5, <2>3 DEF ReachOf, Left
    <3>2. g.small <=> q < z - 2 * c
      <4>1. CASE b = 0
        <5>1. L <= 2 * c + 1
          <6>1. n.mem.size = 2 * c + 1
            BY <1>2, <2>3 DEF Ended, Held
          <6>2. Len(n.mem.data) <= n.mem.size
            BY DEF Ended, Agree, Kept
          <6> QED BY <1>3, <6>1, <6>2
        <5> QED BY <2>1, <4>1, <5>1
      <4>2. CASE b # 0
        BY <2>1, <4>2
      <4> QED BY <4>1, <4>2
    <3> QED BY <1>1, <1>2, <3>1, <3>2
  <2> QED BY <2>2, <2>3
<1>6. CASE n.t # "before_error"
  <2>1. g.small <=> n.small \/ q <= b
    BY <1>1, <1>2, <1>3, <1>6, SettleFinds
  <2>2. ReachOf(d) = d - c + 1
    <3>1. opts.fixed /\ fault.at <= fed
      BY <1>6 DEF Ended
    <3>2. ~(fault.at > text.size)
      BY <1>2, <1>4, <3>1
    <3> QED BY <1>2, <3>1, <3>2 DEF ReachOf
  <2>3. Placed(n, d, fed)
    BY <1>6 DEF Left
  <2>4. CASE n.small
    <3>1. q <= d - c
      BY <1>2, <2>3, <2>4 DEF Placed
    <3> QED BY <1>1, <1>2, <2>1, <2>2, <2>4, <3>1
  <2>5. CASE ~n.small
    <3> DEFINE s == IF q > d THEN q - 1 ELSE d
    <3>1. b = IF s > c THEN s - c ELSE 0
      BY <1>2, <1>3, <2>3, <2>5 DEF Placed
    <3>2. q <= b <=> q < d - c + 1
      BY <3>1
    <3> QED BY <1>1, <1>2, <2>1, <2>2, <2>5, <3>2
  <2> QED BY <2>4, <2>5
<1> QED BY <1>5, <1>6

(* What was kept around the error is as much as is asked for.              *)
LEMMA SettleSurrounds ==
  ASSUME Inputs, Verbose, NEW n, Ended(n), NEW d \in Nat, Left(n, d), ~Settle(n).small,
         ~opts.echo, fault.place > d \/ ~opts.fixed
  PROVE  LET g == Settle(n) IN
         Surrounds(Context(g.mem.data, g.error, g.t = "eof_error"), fault.place)
<1>1. PICK g : g = Settle(n)
  OBVIOUS
<1>2. PICK q \in Nat \ {0} : q = fault.place /\ q <= text.size + 1
  BY OptsAre DEF Inputs, Ended
<1>3. IsText /\ opts.ctxt \in Nat \ {0} /\ text.size \in Nat
  BY OptsAre
<1>4. PICK L \in Nat, b \in Nat : L = Len(n.mem.data) /\ b = n.buf.beg /\ n.mem.data = Run(b, L)
                                  /\ EndOf(n.mem, n.buf) = b + L
  <2>1. Kept(n.mem, n.buf)
    BY DEF Ended, Agree
  <2>2. Len(n.mem.data) \in Nat /\ n.buf.beg \in Nat
    BY <2>1, KeptHas
  <2> QED BY <2>1, <2>2 DEF Kept, EndOf
<1>5. PICK x \in 0..L, e \in BOOLEAN : x = g.error /\ e = (g.t = "eof_error")
  BY <1>1, <1>4, SettleFinds
<1>6. b + x + 1 = q \/ L = 0
  BY <1>1, <1>2, <1>4, <1>5, SettleFinds
<1>7. g.mem = n.mem
  BY <1>1, SettleFinds
<1>8. /\ L = 0 => text.size = 0
      /\ b = 0 \/ b < q - opts.ctxt
      /\ b + L = text.size \/ q + opts.ctxt <= b + L
      /\ e => b + L = text.size
  <2> DEFINE c == opts.ctxt
  <2>1. CASE n.t = "before_error"
    <3>1. b + L = text.size /\ (b = 0 \/ (opts.fixed /\ L = 2 * c + 1))
      BY <1>1, <1>4, <2>1, SettleFinds
    <3>2. b = 0 \/ (L = 2 * c + 1 /\ q > text.size)
      BY <1>2, <2>1, <3>1 DEF Left
    <3> HIDE DEF c
    <3>3. c \in Nat \ {0}
      BY <1>3 DEF c
    <3>4. /\ L = 0 => text.size = 0
          /\ b = 0 \/ b < q - c
      BY <1>3, <3>1, <3>2, <3>3
    <3> QED BY <3>1, <3>4 DEF c
  <2>2. CASE n.t # "before_error"
    <3>1. /\ opts.fixed /\ Placed(n, d, fed) /\ q > d /\ ~n.small /\ g.t = n.t
          /\ x < L
      BY <1>1, <1>2, <1>4, <1>5, <2>2, SettleFinds DEF Left, Ended
    <3>2. /\ b = IF q - 1 > c THEN q - 1 - c ELSE 0
          /\ b + L = q - 1 + (c + 1 - n.size)
      BY <1>2, <1>4, <3>1 DEF Placed
    <3>3. /\ n.t = "after_error" => n.size = 0
          /\ n.t = "eof_error" => b + L = text.size
      BY <1>4, <3>1 DEF Left
    <3>4. n.t \in {"after_error", "eof_error"}
      BY <2>2 DEF Ended, Agree, Locals
    <3> HIDE DEF c
    <3>5. c \in Nat \ {0}
      BY <1>3 DEF c
    <3>6. L # 0 /\ (b = 0 \/ b < q - c)
      BY <3>1, <3>2, <3>5
    <3>7. n.size = 0 => q + c <= b + L
      BY <3>2, <3>5
    <3>8. e => n.t = "eof_error"
      BY <1>5, <3>1
    <3> QED BY <3>3, <3>4, <3>6, <3>7, <3>8 DEF c
  <2> QED BY <2>1, <2>2
<1>9. Surrounds(Context(Run(b, L), x, e), q)
  BY <1>3, <1>6, <1>8, ContextSurrounds
<1> QED BY <1>1, <1>2, <1>4, <1>5, <1>7, <1>9

-----------------------------------------------------------------------------
(* ContextIsWhole.  It is inductive with where buf is while the loop goes  *)
(* on after an error.                                                      *)

Watched ==
  /\ pc \in {"reading", "ending", "ran"} /\ ~opts.fixed => ~m.small
  /\ pc \in {"reading", "ending"} =>
       /\ m.s = "error" => foundAt \in Nat
       /\ opts.fixed /\ m.t # "before_error" => Placed(m, foundAt, fed)
  /\ ~opts.echo =>
       /\ pc = "reading" /\ m.t # "before_error" => m.size > 0
       /\ pc = "ending" => /\ m.t = "after_error" => m.size = 0
                           /\ m.t = "eof_error" => m.size > 0
  /\ pc = "reading" => m.t # "eof_error"

WholeInv == ErrorInv /\ ContextIsWhole /\ (~Initial /\ Verbose => Watched)

LEMMA WholeBegins ==
  ASSUME Inputs, RunInit
  PROVE  WholeInv
<1>1. ErrorInv
  BY ErrorBegins
<1>2. pc \in {"done", "reading"} /\ (~Initial => pc = "reading") /\ m.t = "before_error" /\ ~m.small
  BY DEF RunInit, Initial
<1>3. ContextIsWhole
  BY <1>2 DEF ContextIsWhole, ShowsInReach, ShowsEnough, Explains
<1>4. ~Initial => m.s = "ok"
  BY DEF RunInit, Initial
<1> QED BY <1>1, <1>2, <1>3, <1>4 DEF WholeInv, Watched

(* Nothing is to be explained after a step that does not end the run with  *)
(* an error at a place of the input.                                       *)
LEMMA NothingToExplain ==
  ASSUME ~Explains'
  PROVE  ContextIsWhole'
BY DEF ContextIsWhole, ShowsInReach, ShowsEnough

(* What is to be shown of an error at the place p.                         *)
LEMMA WholeShows ==
  ASSUME IsText, UNCHANGED <<text, fault, opts>>,
         NEW p \in 1..text.size + 1, (m.w)' = PlaceOf(p),
         Reach' \in Int,
         Shows' <=> ~(m.small)', (m.small)' <=> p < Reach',
         Shows' /\ ~opts.echo /\ (p > foundAt' \/ ~opts.fixed) => Surrounds(shown', p)
  PROVE  ContextIsWhole'
<1>1. Wrong' = p /\ p \in Nat
  BY WrongIs DEF IsText
<1>2. ShowsInReach'
  <2>1. (Wrong >= Reach)' <=> ~(p < Reach')
    BY <1>1
  <2>2. (Wrong < Reach)' <=> p < Reach'
    BY <1>1
  <2> QED BY <2>1, <2>2 DEF ShowsInReach
<1>3. ShowsEnough'
  <2>1. SUFFICES ASSUME Shows', ~opts.echo, p > foundAt' \/ ~opts.fixed
                 PROVE  (Around(Wrong - opts.ctxt, Wrong + opts.ctxt)
                           \ { shown.bytes[k] : k \in DOMAIN shown.bytes }
                         \subseteq {text.size} \cap text.nl)'
    BY <1>1 DEF ShowsEnough
  <2>2. Surrounds(shown', p)
    BY <2>1
  <2>3. Around(p - opts.ctxt, p + opts.ctxt)' = Around(p - opts.ctxt, p + opts.ctxt)
    BY DEF Around
  <2> QED BY <1>1, <2>2, <2>3 DEF Surrounds, Around
<1> QED BY <1>2, <1>3 DEF ContextIsWhole

LEMMA ReadWatches ==
  ASSUME WholeInv, ~Initial, Verbose, NEW r \in 1..BufSize, Read(r),
         foundAt' = IF m.s = "ok" /\ m'.s # "ok" THEN fed ELSE foundAt
  PROVE  Watched'
<1> DEFINE piece  == Run(fed, r)
           parsed == Parsed(m, piece)
           kept   == KeepContext(parsed, piece)
<1>1. /\ r \in Nat \ {0} /\ r \in Nat /\ Inputs /\ Agree(m) /\ m \in Locals /\ fed \in Nat
      /\ fault.at \in Nat /\ fault.place \in Nat /\ ErrorInv /\ ReadInv /\ Watched
      /\ fault.place <= fault.at /\ (fault.at > 0 => fault.place > 0)
      /\ opts.fixed \in BOOLEAN
  BY SizesAssumption, StatusIs, OptsAre DEF WholeInv, ErrorInv, Inputs
<1>2. /\ pc = "reading" /\ fed' = fed + r /\ m' = kept
      /\ pc' = IF kept.failed THEN "aborted"
               ELSE IF kept.mem.overflow THEN "fatal"
               ELSE IF Enough(kept) THEN "ending" ELSE "reading"
      /\ UNCHANGED <<text, fault, opts, shown>>
  BY DEF Read, Run
<1>3. /\ ~m.failed /\ (m.s = "error" => m.w = PlaceOf(fault.place) /\ fault.at \in 1..fed)
      /\ Held(m, fed) /\ Ready(m, fed)
      /\ opts.fixed /\ m.t = "before_error" => m.s = "ok"
      /\ m.s = "ok" => m.t = "before_error"
  BY <1>1, <1>2 DEF ErrorInv, ReadInv, RunInv
<1>4. /\ parsed.s = "error" => parsed.w = PlaceOf(fault.place) /\ fault.at \in 1..fed + r
      /\ parsed.t = m.t /\ Held(parsed, fed)
  BY <1>1, <1>3, ParsedHolds
<1>5. /\ Agree(parsed)
      /\ Ready(parsed, fed) \/ (Ready([parsed EXCEPT !.s = "ok"], fed) /\ parsed.s = "error")
  <2> HIDE DEF piece
  <2> QED BY <1>1, <1>3, ParsedKeeps
<1>6. /\ kept.s = parsed.s /\ parsed.s \in {"ok", "error"}
      /\ m.s = "error" => parsed.s = "error"
  BY <1>1, <1>3, TurnStatus
<1>7. /\ parsed.mem = m.mem /\ parsed.buf = m.buf /\ parsed.input = m.input
      /\ parsed.size = m.size /\ parsed.small = m.small
  <2>1. CASE m.s = "ok" /\ Finds(piece)
    <3>1. parsed = [m EXCEPT !.s = "error", !.w = PlaceOf(fault.place)]
      BY <2>1 DEF Parsed
    <3> HIDE DEF parsed
    <3> QED BY <1>1, <3>1 DEF Locals
  <2>2. CASE ~(m.s = "ok" /\ Finds(piece))
    BY <2>2 DEF Parsed
  <2> QED BY <2>1, <2>2
<1>8. parsed.s = "error" => /\ parsed.w = PlaceOf(fault.place) /\ fault.place > 0
                            /\ fault.place <= fed + r
  BY <1>1, <1>4
<1> HIDE DEF parsed
<1>9. /\ ~kept.failed
      /\ ~opts.fixed => kept.small = parsed.small
      /\ opts.fixed /\ parsed.s = "error" /\ kept.mem.overflow = FALSE =>
           IF parsed.t = "before_error" THEN Placed(kept, fed, fed + r)
           ELSE \A d \in Nat : Placed(parsed, d, fed) => Placed(kept, d, fed + r)
  BY <1>1, <1>4, <1>5, <1>8, KeepContextHolds
<1>10. Agree(kept) /\ (kept.failed = FALSE /\ kept.mem.overflow = FALSE => Ready(kept, fed + r))
  BY <1>1, <1>5, KeepContextKeeps
<1> HIDE DEF kept, piece
<1>11. /\ kept \in Locals /\ kept.failed = FALSE /\ kept.mem.overflow \in BOOLEAN
       /\ kept.size \in Nat /\ kept.s \in {"ok", "error"}
  BY <1>9, <1>10 DEF Agree, Locals, Buffers
<1>12. SUFFICES ASSUME pc' \in {"reading", "ending"} PROVE Watched'
  BY <1>2, <1>9, <1>11 DEF Watched
<1>13. /\ kept.mem.overflow = FALSE /\ Ready(kept, fed + r)
       /\ pc' = IF Enough(kept) THEN "ending" ELSE "reading"
  BY <1>2, <1>9, <1>10, <1>11, <1>12
<1>14. kept.s = "ok" => kept.t = "before_error"
  BY <1>13 DEF Ready
<1>15. ~opts.fixed => ~kept.small
  BY <1>1, <1>2, <1>7, <1>9 DEF Watched
<1>16. ASSUME opts.fixed, kept.t # "before_error"
       PROVE  Placed(kept, foundAt', fed + r)
  <2>1. parsed.s = "error"
    BY <1>6, <1>11, <1>14, <1>16
  <2>2. CASE m.t = "before_error"
    <3>1. foundAt' = fed
      BY <1>2, <1>3, <1>6, <1>16, <2>1, <2>2
    <3> QED BY <1>1, <1>4, <1>9, <1>13, <1>16, <2>1, <2>2, <3>1
  <2>3. CASE m.t # "before_error"
    <3>1. foundAt' = foundAt
      BY <1>3, <2>3
    <3>2. foundAt \in Nat /\ Placed(m, foundAt, fed)
      BY <1>1, <1>2, <1>3, <1>16, <2>3 DEF Watched, Locals
    <3>3. Placed(parsed, foundAt, fed)
      BY <1>7, <3>2 DEF Placed
    <3> QED BY <1>4, <1>9, <1>13, <1>16, <2>1, <2>3, <3>1, <3>2, <3>3
  <2> QED BY <2>2, <2>3
<1>17. ASSUME opts.fixed, kept.t # "before_error" PROVE Placed(m, foundAt, fed)'
  BY <1>2, <1>16, <1>17 DEF Placed, EndOf
<1>18. pc' = "ending" => kept.size = 0
  BY <1>13 DEF Enough
<1>19. ASSUME pc' = "reading", kept.t # "before_error", ~opts.echo PROVE kept.size > 0
  <2>1. kept.s # "ok" /\ ~Enough(kept)
    BY <1>11, <1>13, <1>14, <1>19
  <2>2. kept.size # 0
    BY <1>19, <2>1 DEF Enough
  <2> QED BY <1>11, <2>2
<1>20. kept.t # "eof_error"
  BY <1>13 DEF Ready
<1>21. kept.s = "error" => foundAt' \in Nat
  <2>1. m.s = "error" => foundAt \in Nat
    BY <1>1, <1>2 DEF Watched
  <2> QED BY <1>1, <1>2, <2>1 DEF Locals
<1> QED BY <1>2, <1>12, <1>15, <1>17, <1>18, <1>19, <1>20, <1>21 DEF Watched

LEMMA EndShows ==
  ASSUME WholeInv, End,
         foundAt' = IF m.s = "ok" /\ m'.s # "ok" THEN fed ELSE foundAt
  PROVE  ContextIsWhole' /\ (~Initial' /\ Verbose' => Watched')
<1> DEFINE b == ParsedDone(SeeEnd(m))  n == Settle(b)  q == fault.place
<1>1. /\ ErrorInv /\ Inputs /\ IsText /\ fed \in Nat /\ text.size \in Nat /\ fed <= text.size
      /\ fault.at \in Nat /\ q \in Nat /\ q <= fault.at /\ (fault.at > 0 => q > 0)
      /\ opts.ctxt \in Nat \ {0} /\ m \in Locals /\ m.s \in {"ok", "error"}
  BY StatusIs, OptsAre DEF WholeInv, ErrorInv, ReadInv, Inputs
<1>2. /\ pc = "ending"
      /\ m' = IF Initial THEN m ELSE n
      /\ shown' = IF Initial THEN shown ELSE Report(n)
      /\ pc' = IF Initial THEN "done"
               ELSE IF n.failed THEN "aborted"
               ELSE IF n.s = "ok" /\ ~opts.fixed THEN "ran" ELSE "done"
      /\ UNCHANGED <<text, fault, opts, fed>>
  BY DEF End, Initial
<1>3. Initial' = Initial /\ Verbose' = Verbose
  BY <1>2 DEF Initial, Verbose
<1>4. CASE Initial \/ ~Verbose
  <2>1. ~Explains'
    BY <1>3, <1>4 DEF Explains
  <2> QED BY <1>3, <1>4, <2>1, NothingToExplain
<1>5. CASE ~Initial /\ Verbose
  <2>1. /\ Agree(b) /\ ~b.failed /\ b.s \in {"ok", "error"}
        /\ b.s = "error" => b.w = PlaceOf(q) /\ fault.at \in 1..text.size + 1
        /\ Held(b, fed)
        /\ b.t # "after_error" => fed = text.size
        /\ b.t # "before_error" => opts.fixed /\ fault.at <= fed /\ b.s = "error"
        /\ b.mem = m.mem /\ b.buf = m.buf /\ b.input = m.input /\ b.size = m.size
        /\ b.small = m.small /\ (m.s = "error" => b.s = "error")
        /\ m.s = "ok" /\ b.s = "error" => fault.at = text.size + 1
        /\ \/ b.t = m.t
           \/ /\ m.t = "after_error" /\ b.t = "eof_error" /\ fed = text.size
              /\ EndOf(m.mem, m.buf) = m.input.beg
    BY <1>1, <1>2, <1>5, EndFinds
  <2>2. Watched /\ (opts.fixed /\ m.t = "before_error" => m.s = "ok")
    BY <1>1, <1>2, <1>5 DEF WholeInv, ErrorInv
  <2> HIDE DEF b
  <2>3. CASE b.s = "ok"
    <3>1. n = b
      BY <2>3 DEF Settle
    <3>2. m' = b /\ pc' \in {"ran", "done"} /\ (pc' = "ran" => ~opts.fixed)
      BY <1>2, <1>5, <2>1, <2>3, <3>1
    <3>3. ~Explains'
      BY <2>3, <3>2 DEF Explains
    <3>4. pc' = "ran" => ~(m.small)'
      BY <1>2, <2>1, <2>2, <3>2 DEF Watched
    <3>5. Watched'
      BY <3>2, <3>4 DEF Watched
    <3> QED BY <3>3, <3>5, NothingToExplain
  <2>4. CASE b.s = "error"
    <3>1. Ended(b)
      BY <1>1, <2>1, <2>4 DEF Ended
    <3>2. n.s = "error" /\ n.w = PlaceOf(q) /\ ~n.failed
      BY <1>1, <1>5, <2>1, <2>4, <3>1, SettleFinds
    <3> HIDE DEF n
    <3>3. m' = n /\ shown' = Report(n) /\ pc' = "done"
      BY <1>2, <1>5, <3>2
    <3>4. foundAt' = IF m.s = "ok" THEN fed ELSE foundAt
      BY <3>2, <3>3
    <3>5. foundAt' \in Nat /\ Left(b, foundAt')
      <4>1. CASE m.s = "ok"
        <5>1. fault.at = text.size + 1 /\ m.t = "before_error"
          BY <1>2, <1>5, <2>1, <2>4, <4>1 DEF WholeInv, ErrorInv
        <5>2. b.t = "before_error" /\ fed = text.size /\ foundAt' = fed
          BY <2>1, <3>4, <4>1, <5>1
        <5>3. ~opts.fixed => ~b.small
          BY <1>2, <2>1, <2>2 DEF Watched
        <5> QED BY <1>1, <5>1, <5>2, <5>3 DEF Left
      <4>2. CASE m.s = "error"
        <5>1. foundAt' = foundAt
          BY <3>4, <4>2
        <5>2. foundAt \in Nat /\ (opts.fixed => m.t # "before_error" /\ Placed(m, foundAt, fed))
          BY <1>2, <2>2, <4>2 DEF Watched
        <5>3. CASE opts.fixed
          <6>1. Placed(b, foundAt, fed) /\ b.t # "before_error"
            BY <2>1, <5>2, <5>3 DEF Placed
          <6>2. ASSUME ~opts.echo, ~b.small
                PROVE  /\ b.t = "after_error" => b.size = 0
                       /\ b.t = "eof_error" => EndOf(b.mem, b.buf) = text.size
            <7>1. /\ m.t = "after_error" => m.size = 0
                  /\ m.t = "eof_error" => m.size > 0
              BY <1>2, <2>2, <6>2 DEF Watched
            <7>2. m.input.beg = fed /\ (m.size > 0 => EndOf(m.mem, m.buf) = fed)
              BY <2>1, <5>2, <5>3, <6>2 DEF Placed
            <7> QED BY <2>1, <7>1, <7>2
          <6> QED BY <5>1, <5>2, <5>3, <6>1, <6>2 DEF Left
        <5>4. CASE ~opts.fixed
          <6>1. b.t = "before_error" /\ ~b.small
            BY <1>2, <2>1, <2>2, <5>4 DEF Watched
          <6> QED BY <5>1, <5>2, <5>4, <6>1 DEF Left
        <5> QED BY <5>3, <5>4
      <4> QED BY <1>1, <4>1, <4>2
    <3>6. Reach' = ReachOf(foundAt') /\ Reach' \in Int
      <4>1. Reach' = ReachOf(foundAt')
        BY <1>2 DEF Reach, ReachOf
      <4>2. ReachOf(foundAt') \in Int
        BY <1>1, <3>5 DEF ReachOf
      <4> QED BY <4>1, <4>2
    <3>7. n.small <=> q < Reach'
      BY <1>1, <1>5, <3>1, <3>5, <3>6, SettleReaches DEF n
    <3>8. ASSUME ~n.small PROVE shown' = Context(n.mem.data, n.error, n.t = "eof_error")
      <4>1. n.w # NoPlace
        <5>1. PlaceOf(q).line = 1 + Cardinality(EndsBefore(q)) /\ Cardinality(EndsBefore(q)) \in Nat
          BY <1>1, PlaceIs, EndsAre
        <5>2. NoPlace.line = 0
          BY DEF NoPlace
        <5> QED BY <3>2, <5>1, <5>2
      <4> QED BY <1>5, <3>2, <3>3, <3>8, <4>1 DEF Report, PosError, Verbose
    <3>9. Shows' <=> ~n.small
      <4>1. ~n.small => (shown.what)' = "context"
        BY <3>8 DEF Context
      <4>2. n.small => shown' \in {Nothing, Message}
        BY <3>2, <3>3 DEF Report, PosError
      <4>3. Nothing.what # "context" /\ Message.what # "context"
        BY DEF Nothing, Message
      <4> QED BY <4>1, <4>2, <4>3 DEF Shows
    <3>10. ASSUME ~n.small, ~opts.echo, q > foundAt' \/ ~opts.fixed PROVE Surrounds(shown', q)
      BY <1>1, <1>5, <3>1, <3>5, <3>8, <3>10, SettleSurrounds DEF n
    <3>11. q \in 1..text.size + 1 /\ (m.w)' = PlaceOf(q) /\ ((m.small)' <=> n.small)
      BY <1>1, <2>1, <2>4, <3>2, <3>3
    <3>12. ContextIsWhole'
      BY <1>1, <1>2, <3>6, <3>7, <3>9, <3>10, <3>11, WholeShows
    <3> QED BY <3>3, <3>12 DEF Watched
  <2> QED BY <2>1, <2>3, <2>4
<1> QED BY <1>4, <1>5

LEMMA CheckWatches ==
  ASSUME WholeInv, NEW w, CheckError(w),
         w = NoPlace \/ \E i \in 1..text.size : w = PlaceOf(i)
  PROVE  ContextIsWhole' /\ (~Initial' /\ Verbose' => Watched')
<1>1. /\ ErrorInv /\ Inputs /\ IsText /\ text.size \in Nat /\ opts.ctxt \in Nat \ {0}
      /\ m \in Locals /\ pc = "ran" /\ ~opts.fixed /\ ~Initial
  BY StatusIs, OptsAre DEF WholeInv, ErrorInv, ReadInv, CheckError
<1>2. /\ pc' \in {"done", "aborted"} /\ m'.w = w /\ UNCHANGED <<text, fault, opts>>
  BY <1>1 DEF CheckError, Locals
<1>3. Watched'
  BY <1>2 DEF Watched
<1>4. CASE ~Verbose \/ w = NoPlace
  <2>1. ~Explains'
    BY <1>2, <1>4 DEF Explains, Verbose
  <2> QED BY <1>3, <2>1, NothingToExplain
<1>5. CASE Verbose /\ w # NoPlace
  <2>1. PICK i \in 1..text.size : w = PlaceOf(i)
    BY <1>5
  <2>2. /\ pc' = "done" /\ m'.w = PlaceOf(i) /\ m'.small = m.small
        /\ shown' = Context(Run(0, text.size), i - 1, TRUE)
    BY <1>1, <1>5, <2>1, CheckShows
  <2>3. ~m.small
    BY <1>1, <1>5 DEF WholeInv, Watched
  <2>4. Shows'
    BY <2>2 DEF Shows, Context
  <2>5. Reach' = 1
    BY <1>1, <1>2 DEF Reach
  <2>6. Surrounds(shown', i)
    <3>1. PICK l \in Nat, x \in Nat, b \in Nat, e \in BOOLEAN, p \in Nat \ {0} :
            l = text.size /\ x = i - 1 /\ b = 0 /\ e = TRUE /\ p = i
      <4>1. /\ i \in Nat \ {0} /\ i - 1 \in Nat /\ text.size \in Nat /\ 0 \in Nat
            /\ TRUE \in BOOLEAN
        BY <1>1
      <4> QED BY <4>1, Zenon
    <3>2. x \in 0..l /\ b + x + 1 = p /\ b = 0 /\ b + l = text.size /\ l = text.size
      BY <1>1, <3>1
    <3>3. IsText /\ opts.ctxt \in Nat \ {0} /\ text.size \in Nat
      BY <1>1
    <3>4. Surrounds(Context(Run(b, l), x, e), p)
      BY <3>2, <3>3, ContextSurrounds
    <3> QED BY <2>2, <3>1, <3>4
  <2>7. i \in 1..text.size + 1 /\ i \in Int /\ ~(i < 1)
    BY <1>1
  <2>8. ContextIsWhole'
    <3>1. PICK p \in 1..text.size + 1 : p = i
      BY <2>7
    <3>2. (m.w)' = PlaceOf(p) /\ ~(m.small)' /\ Reach' \in Int /\ ~(p < Reach')
      BY <2>2, <2>3, <2>5, <2>7, <3>1
    <3>3. Surrounds(shown', p)
      BY <2>6, <3>1
    <3>4. UNCHANGED <<text, fault, opts>> /\ IsText
      BY <1>1, <1>2
    <3> QED BY <2>4, <3>2, <3>3, <3>4, WholeShows
  <2> QED BY <1>3, <2>8
<1> QED BY <1>4, <1>5

LEMMA WholeSteps ==
  ASSUME WholeInv, [WatchNext]_watchVars
  PROVE  WholeInv'
<1>1. ErrorInv'
  <2>1. [RunNext]_runVars
    BY DEF WatchNext, watchVars
  <2> QED BY <2>1, ErrorSteps DEF WholeInv
<1>2. m \in Locals /\ m.s \in {"ok", "error"} /\ ErrorInv
  BY StatusIs DEF WholeInv, ErrorInv
<1>3. CASE WatchNext
  <2>1. foundAt' = IF m.s = "ok" /\ m'.s # "ok" THEN fed ELSE foundAt
    BY <1>3 DEF WatchNext
  <2>2. CASE \E r \in 1..BufSize : Read(r)
    <3>1. PICK r \in 1..BufSize : Read(r)
      BY <2>2
    <3>2. pc' # "done" /\ Initial' = Initial /\ Verbose' = Verbose
      BY <3>1 DEF Read, Initial, Verbose
    <3>3. ContextIsWhole'
      BY <3>2, NothingToExplain DEF Explains
    <3>4. ~Initial /\ Verbose => Watched'
      BY <2>1, <3>1, ReadWatches
    <3> QED BY <1>1, <3>2, <3>3, <3>4 DEF WholeInv
  <2>3. CASE ReadEnd
    <3>1. /\ pc = "reading" /\ pc' = "ending"
          /\ m' = [m EXCEPT !.t = IF m.t = "after_error" THEN "eof_error" ELSE m.t]
          /\ UNCHANGED <<text, fault, opts, fed, shown>>
      BY <1>2, <2>3 DEF ReadEnd, Locals
    <3>2. /\ m'.mem = m.mem /\ m'.buf = m.buf /\ m'.input = m.input /\ m'.size = m.size
          /\ m'.small = m.small /\ m'.s = m.s
          /\ m'.t = IF m.t = "after_error" THEN "eof_error" ELSE m.t
      BY <1>2, <3>1 DEF Locals
    <3>3. Initial' = Initial /\ Verbose' = Verbose /\ foundAt' = foundAt
      BY <2>1, <3>1, <3>2 DEF Initial, Verbose
    <3>4. ContextIsWhole'
      BY <3>1, NothingToExplain DEF Explains
    <3>5. ASSUME ~Initial, Verbose PROVE Watched'
      <4>1. Watched
        BY <3>5 DEF WholeInv
      <4>2. m.t # "eof_error" /\ m.t \in {"before_error", "after_error", "eof_error"}
        BY <1>2, <3>1, <4>1 DEF Watched, Locals
      <4>3. Placed(m, foundAt, fed) => Placed(m, foundAt, fed)'
        BY <3>1, <3>2, <3>3 DEF Placed, EndOf
      <4> QED BY <3>1, <3>2, <3>3, <4>1, <4>2, <4>3 DEF Watched
    <3> QED BY <1>1, <3>3, <3>4, <3>5 DEF WholeInv
  <2>4. CASE End
    BY <1>1, <2>1, <2>4, EndShows DEF WholeInv
  <2>5. CASE \E i \in 1..text.size : CheckError(PlaceOf(i))
    BY <1>1, <2>5, CheckWatches DEF WholeInv
  <2>6. CASE CheckError(NoPlace)
    BY <1>1, <2>6, CheckWatches DEF WholeInv
  <2>7. CASE Accept
    <3>1. pc = "ran" /\ pc' = "done" /\ m' = m
      BY <2>7 DEF Accept
    <3>2. m.s = "ok"
      BY <1>2, <3>1 DEF ErrorInv, ReadInv
    <3>3. ContextIsWhole'
      BY <3>1, <3>2, NothingToExplain DEF Explains
    <3> QED BY <1>1, <3>1, <3>3 DEF WholeInv, Watched
  <2> QED BY <1>3, <2>2, <2>3, <2>4, <2>5, <2>6, <2>7 DEF WatchNext, RunNext
<1>4. CASE UNCHANGED watchVars
  <2>1. UNCHANGED <<text, fault, opts, pc, fed, m, shown, foundAt>>
    BY <1>4 DEF watchVars, runVars
  <2>2. Initial' = Initial /\ Verbose' = Verbose
    BY <2>1 DEF Initial, Verbose
  <2>3. Watched => Watched'
    BY <2>1 DEF Watched, Placed, EndOf
  <2>4. ContextIsWhole'
    BY <2>1 DEF WholeInv, ContextIsWhole, ShowsInReach, ShowsEnough, Explains, Shows, Wrong,
         Reach, Around, PlaceOf, Initial, Verbose
  <2> QED BY <1>1, <2>2, <2>3, <2>4 DEF WholeInv
<1> QED BY <1>3, <1>4

(* The program shows the bytes around an error if and only if buf can      *)
(* still have them, and then all those that were asked for on either side, *)
(* whatever the sizes of its buffers and contexts, the input and its error *)
(* and the pieces it is read in; where it cannot it tells the reason.      *)
THEOREM ContextIsWholeCorrect == WatchSpec => []ContextIsWhole
<1>1. Inputs /\ RunInit => WholeInv
  BY WholeBegins
<1>2. WholeInv /\ [WatchNext]_watchVars => WholeInv'
  BY WholeSteps
<1>3. WholeInv => ContextIsWhole
  BY DEF WholeInv
<1> QED BY <1>1, <1>2, <1>3, PTL DEF WatchSpec
============================================================================
