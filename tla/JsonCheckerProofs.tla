------------------------- MODULE JsonCheckerProofs -------------------------
(***************************************************************************)
(* Proofs about the type checker, for all types, names and plain values:   *)
(* it calls the functions of the handler in the order that JsonEvents      *)
(* allows, and obj_stack holds one frame for each container the parser has *)
(* open, of the right kind and at the right point of it.                   *)
(***************************************************************************)
EXTENDS JsonChecker, SequenceTheorems, TLAPS

-----------------------------------------------------------------------------
(* A call of the parser that the checker answers is a call of the handler, *)
(* with the same answer, when the check passes; when it fails the handler  *)
(* is not called, and the parser makes no further call.                    *)
LEMMA AnswerLemma ==
  ASSUME NEW h, NEW ns, NEW p, NEW e, Up!Call(h, ns, p), Answer(e)
  PROVE  \/ Down!Call(h, ns, p)
         \/ Down!Stop
<1>1. CASE e = "none"
  <2>1. sent' = h
    BY <1>1 DEF Answer, Up!Call
  <2> QED BY <2>1 DEF Up!Call, Down!Call
<1>2. CASE e # "none"
  <2>1. alive' = FALSE /\ UNCHANGED sent
    BY <1>2 DEF Answer
  <2> QED BY <2>1 DEF Up!Call, Down!Stop
<1> QED BY <1>1, <1>2

(* The calls of the parser start where the handler's calls start. *)
LEMMA DownInit == Init => Down!Init
  BY DEF Init, Up!Init, Down!Init

(* Every step of the checker is a step the handler may see, or none. *)
LEMMA DownStep == [Next]_vars => [Down!Next]_Down!vars
<1> SUFFICES ASSUME [Next]_vars
             PROVE  Down!Next \/ UNCHANGED Down!vars
  OBVIOUS
<1>1. ASSUME NEW input \in Plains, PlainValue(input)
      PROVE  Down!Next
  <2>1. phase = "value" /\ input.type \in Down!Scalar
    BY <1>1, PlainsAssumption DEF PlainValue, Up!Value, PlainType, Down!Scalar
  <2>2. PICK e : Up!Call(input.type, nest, Up!Completed(nest)) /\ Answer(e)
    BY <1>1 DEF PlainValue, Up!Value, Check
  <2>3. \/ Down!Call(input.type, nest, Up!Completed(nest))
        \/ Down!Stop
    BY <2>2, AnswerLemma
  <2> QED BY <2>1, <2>3 DEF Down!Next, Down!Value, Down!Completed, Up!Completed
<1>2. ASSUME ObjectStart PROVE Down!Next
  <2>1. PICK e : /\ phase = "value"
                 /\ Up!Call("object_start", Append(nest, "object"), "open")
                 /\ Answer(e)
    BY <1>2 DEF ObjectStart, Up!Start, Check
  <2>2. \/ Down!Call("object_start", Append(nest, "object"), "open")
        \/ Down!Stop
    BY <2>1, AnswerLemma
  <2> QED BY <2>1, <2>2 DEF Down!Next, Down!Start
<1>3. ASSUME ArrayStart PROVE Down!Next
  <2>1. PICK e : /\ phase = "value"
                 /\ Up!Call("array_start", Append(nest, "array"), "open")
                 /\ Answer(e)
    BY <1>3 DEF ArrayStart, Up!Start, Check
  <2>2. \/ Down!Call("array_start", Append(nest, "array"), "open")
        \/ Down!Stop
    BY <2>1, AnswerLemma
  <2> QED BY <2>1, <2>2 DEF Down!Next, Down!Start
<1>4. ASSUME NEW k \in Names, ObjectKeyOf(k)
      PROVE  Down!Next
  <2>1. PICK e : /\ phase = "key"
                 /\ Up!Call("object_key", nest, "value")
                 /\ Answer(e)
    BY <1>4 DEF ObjectKeyOf, Up!Key, Check
  <2>2. Down!Call("object_key", nest, "value") \/ Down!Stop
    BY <2>1, AnswerLemma
  <2> QED BY <2>1, <2>2 DEF Down!Next, Down!Key
<1>5. ASSUME ObjectSep PROVE Down!Next
  <2>1. PICK e : /\ phase = "after" /\ Up!Inside("object")
                 /\ Up!Call("object_sep", nest, "key")
                 /\ Answer(e)
    BY <1>5 DEF ObjectSep, Up!Sep, Check
  <2>2. Down!Call("object_sep", nest, "key") \/ Down!Stop
    BY <2>1, AnswerLemma
  <2> QED BY <2>1, <2>2 DEF Down!Next, Down!Sep, Up!Inside, Down!Inside
<1>6. ASSUME ArraySep PROVE Down!Next
  <2>1. PICK e : /\ phase = "after" /\ Up!Inside("array")
                 /\ Up!Call("array_sep", nest, "value")
                 /\ Answer(e)
    BY <1>6 DEF ArraySep, Up!Sep, Check
  <2>2. Down!Call("array_sep", nest, "value") \/ Down!Stop
    BY <2>1, AnswerLemma
  <2> QED BY <2>1, <2>2 DEF Down!Next, Down!Sep, Up!Inside, Down!Inside
<1>7. ASSUME NEW c, NEW h, EndOf(c, h),
             Down!End(c, h) => Down!Next
      PROVE  Down!Next
  <2> DEFINE ns == SubSeq(nest, 1, Len(nest) - 1)
  <2>1. PICK e : /\ phase \in {"open", "after"} /\ Up!Inside(c)
                 /\ Up!Call(h, ns, Up!Completed(ns))
                 /\ Answer(e)
    BY <1>7 DEF EndOf, Up!End, Check
  <2>2. Down!Call(h, ns, Up!Completed(ns)) \/ Down!Stop
    BY <2>1, AnswerLemma
  <2>3. CASE Down!Call(h, ns, Up!Completed(ns))
    BY <1>7, <2>1, <2>3
    DEF Down!End, Up!Inside, Down!Inside, Up!Completed, Down!Completed
  <2>4. CASE Down!Stop
    BY <2>4 DEF Down!Next
  <2> QED BY <2>2, <2>3, <2>4
<1>8. ASSUME ValueSep PROVE Down!Next
  <2>1. PICK e : /\ phase = "top"
                 /\ Up!Call("value_sep", nest, "value")
                 /\ Answer(e)
    BY <1>8 DEF ValueSep, Up!ValueSep
  <2>2. Down!Call("value_sep", nest, "value") \/ Down!Stop
    BY <2>1, AnswerLemma
  <2> QED BY <2>1, <2>2 DEF Down!Next, Down!ValueSep
<1>9. ASSUME Commit PROVE Down!Next
  BY <1>9 DEF Commit, Up!Commit, Down!Next, Down!Commit, Up!Inside, Down!Inside
<1>10. ASSUME Stop \/ ParseDone PROVE Down!Next
  BY <1>10 DEF Stop, ParseDone, Up!Stop, Down!Next, Down!Stop
<1>11. CASE UNCHANGED vars
  BY <1>11 DEF vars, Down!vars
<1>12. CASE EndOf("object", "object_end")
  BY <1>7, <1>12 DEF Down!Next
<1>13. CASE EndOf("array", "array_end")
  BY <1>7, <1>13 DEF Down!Next
<1> QED
  BY <1>1, <1>2, <1>3, <1>4, <1>5, <1>6, <1>8, <1>9, <1>10, <1>11, <1>12, <1>13
  DEF Next

(* The handler behind the checker receives a legal sequence of calls,      *)
(* whatever types the texts are checked against: it can rely on all that   *)
(* the parser itself promises (JSON_TYPE_CALL_HANDLER).                    *)
THEOREM HandlersImplemented == Spec => ImplementsHandlers
<1>1. Init => Down!Init
  BY DownInit
<1>2. [Next]_vars => [Down!Next]_Down!vars
  BY DownStep
<1> QED
  BY <1>1, <1>2, PTL DEF Spec, ImplementsHandlers, Down!Spec

-----------------------------------------------------------------------------
(* What may be left of a key of an object trie: names and types in turn,   *)
(* a name first where a name is awaited, a type first where a value is.    *)

IsName(s) == s.node = "name"

Keyed(s) ==
  /\ s \in Seq(Sym) /\ Len(s) % 2 = 0
  /\ \A i \in 1..Len(s) : IsName(s[i]) <=> i % 2 = 1

Valued(s) ==
  /\ s \in Seq(Sym) /\ Len(s) % 2 = 1
  /\ \A i \in 1..Len(s) : IsName(s[i]) <=> i % 2 = 0

KeyFrame(o) ==
  \/ o \in ObjectFrames \cup DictFrames /\ o.n_arg % 2 = 0
  \/ o \in ObjectTrieFrames /\ \A s \in o.trie : Keyed(s)

ValueFrame(o) ==
  \/ o \in ObjectFrames /\ o.n_arg % 2 = 1
  \/ o \in DictFrames /\ o.n_arg % 2 = 1 /\ o.last \in DOMAIN o.node.args \ o.args
  \/ o \in ObjectTrieFrames /\ \A s \in o.trie : Valued(s)

ElementFrame(o) == o \in ArrayFrames \cup ArrayTrieFrames

(* Where the parser stands: at the top level nothing is open, and the name *)
(* of a member comes in an object only.                                    *)
UpShape ==
  /\ phase \in {"first", "top"} => nest = <<>>
  /\ phase = "key" => Up!Inside("object")

(* The frame of an open container c where ph says what c is waiting for.   *)
FrameOf(c, ph, o) ==
  IF c = "array" THEN ElementFrame(o)
  ELSE IF ph = "value" THEN ValueFrame(o) ELSE KeyFrame(o)

(* A container with others inside will be after one when they have ended.  *)
PhaseIn(ns, ph, i) == IF i = Len(ns) THEN ph ELSE "after"

MatchedWith(st, ns, ph) ==
  /\ Len(st) = Len(ns) + 1
  /\ st[1] = NodeObj(root)
  /\ \A i \in 1..Len(ns) : FrameOf(ns[i], PhaseIn(ns, ph, i), st[i + 1])

Matched == MatchedWith(objStack, nest, phase)

(* The inductive invariant. *)
IInv == TypeOK /\ UpShape /\ (alive => Matched)

-----------------------------------------------------------------------------
(* The tries.                                                              *)

LEMMA OddEven ==
  ASSUME NEW n \in Nat
  PROVE  /\ n % 2 = 0 \/ n % 2 = 1
         /\ (n + 1) % 2 = 1 <=> n % 2 = 0
         /\ (n + 1) % 2 = 0 <=> n % 2 = 1
OBVIOUS

(* A node of a type is not a name, nor NULL. *)
LEMMA NodeIsNoName ==
  ASSUME NEW t \in Nodes \cup {Any("type")}
  PROVE  ~IsName(t) /\ t # Null /\ t.node # "name" /\ t.node # "null"
BY NodesAssumption DEF IsName, Null, Any

LEMMA SymIsNode ==
  ASSUME NEW s \in Sym, ~IsName(s)
  PROVE  s \in Nodes
BY DEF Sym, IsName

(* The name at the head leads to what follows it, and so does a type. *)
LEMMA TailKeyed ==
  ASSUME NEW s, Keyed(s), s # <<>>
  PROVE  IsName(Head(s)) /\ Valued(Tail(s))
<1> DEFINE n == Len(s)
           r == Tail(s)
<1>1. s \in Seq(Sym) /\ n \in Nat /\ n # 0 /\ n % 2 = 0
      /\ \A i \in 1..n : IsName(s[i]) <=> i % 2 = 1
  BY EmptySeq DEF Keyed
<1>2. /\ Head(s) = s[1] /\ r \in Seq(Sym) /\ Len(r) = n - 1
      /\ \A i \in 1..(n - 1) : r[i] = s[i + 1]
  BY <1>1, HeadTailProperties
<1> HIDE DEF n, r
<1>3. IsName(Head(s))
  BY <1>1, <1>2
<1>4. (n - 1) % 2 = 1 /\ n - 1 \in Nat
  BY <1>1, OddEven
<1>5. ASSUME NEW i \in 1..(n - 1)
      PROVE  IsName(r[i]) <=> i % 2 = 0
  <2>1. i \in Nat /\ i + 1 \in 1..n
    BY <1>1
  <2>2. IsName(r[i]) <=> (i + 1) % 2 = 1
    BY <1>1, <1>2, <2>1
  <2> QED
    BY <2>1, <2>2, OddEven
<1> QED
  BY <1>2, <1>3, <1>4, <1>5 DEF Valued, r

LEMMA TailValued ==
  ASSUME NEW s, Valued(s)
  PROVE  s # <<>> /\ Head(s) \in Nodes /\ Keyed(Tail(s))
<1> DEFINE n == Len(s)
           r == Tail(s)
<1>1. s \in Seq(Sym) /\ n \in Nat /\ n % 2 = 1 /\ n # 0 /\ s # <<>>
      /\ \A i \in 1..n : IsName(s[i]) <=> i % 2 = 0
  BY EmptySeq DEF Valued
<1>2. /\ Head(s) = s[1] /\ r \in Seq(Sym) /\ Len(r) = n - 1
      /\ \A i \in 1..(n - 1) : r[i] = s[i + 1]
  BY <1>1, HeadTailProperties
<1>3. s[1] \in Sym
  BY <1>1, ElementOfSeq
<1> HIDE DEF n, r
<1>4. Head(s) \in Nodes
  BY <1>1, <1>2, <1>3, SymIsNode
<1>5. (n - 1) % 2 = 0 /\ n - 1 \in Nat
  BY <1>1, OddEven
<1>6. ASSUME NEW i \in 1..(n - 1)
      PROVE  IsName(r[i]) <=> i % 2 = 1
  <2>1. i \in Nat /\ i + 1 \in 1..n
    BY <1>1
  <2>2. IsName(r[i]) <=> (i + 1) % 2 = 0
    BY <1>1, <1>2, <2>1
  <2> QED
    BY <2>1, <2>2, OddEven
<1> QED
  BY <1>1, <1>2, <1>4, <1>5, <1>6 DEF Keyed, r

(* A child of a trie node (TRIE_EQ_). *)
LEMMA EqKeyed ==
  ASSUME NEW trie, \A s \in trie : Keyed(s), NEW sym
  PROVE  /\ \A s \in Eq(trie, sym) : Valued(s)
         /\ Eq(trie, sym) \in SUBSET Seq(Sym)
BY TailKeyed DEF Eq, Valued

LEMMA EqValued ==
  ASSUME NEW trie, \A s \in trie : Valued(s), NEW sym
  PROVE  /\ \A s \in Eq(trie, sym) : Keyed(s)
         /\ Eq(trie, sym) \in SUBSET Seq(Sym)
BY TailValued DEF Eq, Keyed

LEMMA EqNodes ==
  ASSUME NEW trie \in SUBSET Seq(Nodes), NEW sym
  PROVE  Eq(trie, sym) \in SUBSET Seq(Nodes)
BY HeadTailProperties DEF Eq

LEMMA HeadsOfNodes ==
  ASSUME NEW trie \in SUBSET Seq(Nodes)
  PROVE  Heads(trie) \subseteq Nodes
BY HeadTailProperties DEF Heads

(* The lookup finds one of the symbols it looks among. *)
LEMMA LookupAmongHeads ==
  ASSUME NEW trie, NEW input
  PROVE  LookupTrieNode(trie, input) \subseteq Heads(trie)
<1> DEFINE first == CASE input = AnyObject -> { s \in Heads(trie) : s.node = "object" }
                      [] input = AnyArray  -> { s \in Heads(trie) : IsArray(s) }
                      [] OTHER             -> {}
<1>1. first \subseteq Heads(trie)
  OBVIOUS
<1> HIDE DEF first
<1>2. LookupTrieNode(trie, input) =
        IF input \in Heads(trie) THEN {input}
        ELSE IF input.node = "plain" /\ NodeAny(input) \in Heads(trie)
             THEN {NodeAny(input)}
        ELSE IF Any("type") \in Heads(trie) THEN {Any("type")}
        ELSE first
  BY DEF LookupTrieNode, first
<1> QED
  BY <1>1, <1>2

(* The tries of a list. *)
LEMMA ElemsAreNodes ==
  ASSUME NEW t \in NodeWith({"list"}), NEW k
  PROVE  Elems(t, k) \subseteq NodeWith({k})
<1>1. t.args \in Seq(Nodes)
  BY NodesAssumption DEF NodeWith
<1>2. \A i \in DOMAIN t.args : t.args[i] \in Nodes
  BY <1>1, LenProperties, ElementOfSeq
<1> QED
  BY <1>2 DEF Elems, NodeWith

LEMMA ArrayTries ==
  ASSUME NEW t \in NodeWith({"list"})
  PROVE  /\ OpenArrayTrie(t) \in SUBSET Seq(Nodes)
         /\ ClosedArrayTrie(t) \in SUBSET Seq(Nodes)
         /\ \A r \in Heads(OpenArrayTrie(t)) : <<r>> \in OpenArrayTrie(t)
<1>1. \A a \in Elems(t, "open") : a.arg \in Nodes
  BY ElemsAreNodes, NodesAssumption DEF NodeWith
<1>2. \A a \in Elems(t, "closed") : a.args \in Seq(Nodes)
  BY ElemsAreNodes, NodesAssumption DEF NodeWith
<1>3. \A x : Head(<<x>>) = x /\ <<x>> # <<>> /\ (x \in Nodes => <<x>> \in Seq(Nodes))
  OBVIOUS
<1>4. OpenArrayTrie(t) \in SUBSET Seq(Nodes)
  BY <1>1, <1>3 DEF OpenArrayTrie
<1>5. ClosedArrayTrie(t) \in SUBSET Seq(Nodes)
  BY <1>2 DEF ClosedArrayTrie
<1>6. ASSUME NEW r \in Heads(OpenArrayTrie(t))
      PROVE  <<r>> \in OpenArrayTrie(t)
  <2>1. PICK s \in OpenArrayTrie(t) : r = Head(s)
    BY DEF Heads
  <2>2. PICK a : s = <<a>>
    BY DEF OpenArrayTrie
  <2> QED
    BY <1>3, <2>1, <2>2
<1> QED
  BY <1>4, <1>5, <1>6

(* The members of an object or a dict. *)
LEMMA ArgsAreNodes ==
  ASSUME NEW t \in Nodes, t.node \in {"object", "dict"}
  PROVE  /\ t.args \in Seq([name : STRING, type : Nodes])
         /\ Len(t.args) \in Nat
         /\ DOMAIN t.args = 1..Len(t.args)
         /\ \A i \in 1..Len(t.args) :
              t.args[i].name \in STRING /\ t.args[i].type \in Nodes
<1> DEFINE A == [name : STRING, type : Nodes]
           as == t.args
<1>1. as \in Seq(A)
  BY NodesAssumption
<1>2. \A a \in A : a.name \in STRING /\ a.type \in Nodes
  OBVIOUS
<1> HIDE DEF A, as
<1>3. Len(as) \in Nat /\ DOMAIN as = 1..Len(as) /\ \A i \in 1..Len(as) : as[i] \in A
  BY <1>1, LenProperties, ElementOfSeq
<1> QED
  BY <1>1, <1>2, <1>3 DEF A, as

(* The key of an object in the trie: its names and types in turn. *)
LEMMA ObjectKeyed ==
  ASSUME NEW o \in NodeWith({"object"})
  PROVE  Keyed(ObjectKey(o))
<1> DEFINE n == Len(o.args)
           k == ObjectKey(o)
<1>1. /\ o.args \in Seq([name : STRING, type : Nodes])
      /\ n \in Nat
      /\ \A i \in 1..n : o.args[i].name \in STRING /\ o.args[i].type \in Nodes
  BY ArgsAreNodes DEF NodeWith
<1> HIDE DEF n
<1>3. k = [ i \in 1..2 * n |->
              IF i % 2 = 1 THEN NameSym(o.args[(i + 1) \div 2].name)
                           ELSE o.args[i \div 2].type ]
  BY DEF ObjectKey, n
<1>4. ASSUME NEW i \in 1..2 * n
      PROVE  k[i] \in Sym /\ (IsName(k[i]) <=> i % 2 = 1)
  <2>1. CASE i % 2 = 1
    <3>1. (i + 1) \div 2 \in 1..n
      BY <1>1, <2>1
    <3>2. k[i] = NameSym(o.args[(i + 1) \div 2].name)
      BY <1>3, <2>1
    <3>3. o.args[(i + 1) \div 2].name \in STRING
      BY <1>1, <3>1
    <3> QED
      BY <2>1, <3>2, <3>3 DEF NameSym, Sym, IsName
  <2>2. CASE i % 2 # 1
    <3>1. i \div 2 \in 1..n
      BY <1>1, <2>2
    <3>2. k[i] = o.args[i \div 2].type
      BY <1>3, <2>2
    <3>3. k[i] \in Nodes
      BY <1>1, <3>1, <3>2
    <3> QED
      BY <2>2, <3>3, NodeIsNoName DEF Sym
  <2> QED
    BY <2>1, <2>2
<1>5. 2 * n \in Nat /\ (2 * n) % 2 = 0
  BY <1>1
<1>6. k \in Seq(Sym) /\ Len(k) = 2 * n
  <2>1. k \in [1..2 * n -> Sym]
    BY <1>3, <1>4
  <2> QED
    BY <1>5, <2>1, IsASeq, LenProperties
<1> QED
  BY <1>4, <1>5, <1>6 DEF Keyed

-----------------------------------------------------------------------------
(* json_type_check_base: the frame it pushes.                              *)

Inputs == Plains \cup {AnyObject, AnyArray}

LEMMA InputKinds ==
  /\ AnyObject # AnyArray
  /\ AnyObject.node = "any" /\ AnyArray.node = "any"
  /\ \A p \in Plains : p.node = "plain" /\ p # AnyObject /\ p # AnyArray
BY PlainsAssumption DEF AnyObject, AnyArray, Any

(* One frame more for an object or an array, none for a plain value. *)
Entered(input, push) ==
  /\ input = AnyObject => \E f : KeyFrame(f) /\ push = <<f>>
  /\ input = AnyArray  => \E f : ElementFrame(f) /\ push = <<f>>
  /\ input \in Plains  => push = <<>>

LEMMA ObjectFrameOK ==
  ASSUME NEW t \in Nodes \cup {Any("type")}, NEW f \in ObjectFrame(t)
  PROVE  KeyFrame(f)
<1>1. 0 % 2 = 0 /\ {} \in SUBSET Nat /\ {} \in SUBSET Seq(Sym)
  OBVIOUS
<1>2. t.node # "any" => t \in Nodes
  BY DEF Any
<1>3. CASE t.node = "list"
  <2>1. t \in NodeWith({"list"})
    BY <1>2, <1>3 DEF NodeWith
  <2>2. \A s \in ObjectTrie(t) : Keyed(s)
    BY <2>1, ElemsAreNodes, ObjectKeyed DEF ObjectTrie
  <2>3. ObjectTrie(t) \in SUBSET Seq(Sym)
    BY <2>2 DEF Keyed
  <2>4. PICK trie \in {{}, ObjectTrie(t)} : f = ObjectTrieArgs(trie)
    BY <1>3 DEF ObjectFrame
  <2>5. f \in ObjectTrieFrames /\ f.trie = trie
    BY <1>1, <2>3, <2>4 DEF ObjectTrieArgs, ObjectTrieFrames
  <2> QED
    BY <2>2, <2>4, <2>5 DEF KeyFrame
<1>4. CASE t.node = "dict"
  <2>1. f = DictArgs(t) /\ t \in NodeWith({"dict"})
    BY <1>2, <1>4 DEF ObjectFrame, NodeWith
  <2> QED
    BY <1>1, <2>1 DEF DictArgs, DictFrames, KeyFrame
<1>5. CASE t.node = "object"
  <2>1. f = ObjectArgs(t, 0) /\ t \in NodeWith({"object"})
    BY <1>2, <1>5 DEF ObjectFrame, NodeWith
  <2> QED
    BY <1>1, <2>1 DEF ObjectArgs, ObjectFrames, KeyFrame
<1>6. CASE t.node \notin {"list", "dict", "object"}
  <2>1. f = ObjectArgs(Null, 0)
    BY <1>6 DEF ObjectFrame
  <2> QED
    BY <1>1, <2>1 DEF ObjectArgs, ObjectFrames, KeyFrame
<1> QED
  BY <1>3, <1>4, <1>5, <1>6

LEMMA ArrayFrameOK ==
  ASSUME NEW t \in Nodes \cup {Any("type")}, NEW f \in ArrayFrame(t)
  PROVE  ElementFrame(f)
<1>2. t.node # "any" => t \in Nodes
  BY DEF Any
<1>3. CASE t.node = "list"
  <2>1. t \in NodeWith({"list"})
    BY <1>2, <1>3 DEF NodeWith
  <2>2. OpenArrayTrie(t) \in SUBSET Seq(Nodes) /\ ClosedArrayTrie(t) \in SUBSET Seq(Nodes)
    BY <2>1, ArrayTries
  <2>3. \/ f = ArrayTrieArgs(t, {}, FALSE)
        \/ f = ArrayTrieArgs(t, OpenArrayTrie(t), FALSE)
        \/ f = ArrayTrieArgs(t, ClosedArrayTrie(t), TRUE)
    BY <1>3 DEF ArrayFrame, IsArray
  <2>4. ASSUME NEW trie \in SUBSET Seq(Nodes), NEW closed \in BOOLEAN,
               ~closed => trie \in {{}, OpenArrayTrie(t)}
        PROVE  ArrayTrieArgs(t, trie, closed) \in ArrayTrieFrames
    BY <2>1, <2>4 DEF ArrayTrieArgs, ArrayTrieFrames
  <2> QED
    BY <2>2, <2>3, <2>4 DEF ElementFrame
<1>4. CASE IsArray(t)
  <2>1. f = ArrayArgs(t, 0) /\ t \in NodeWith({"open", "closed"})
    BY <1>2, <1>4 DEF ArrayFrame, NodeWith, IsArray
  <2> QED
    BY <2>1 DEF ArrayArgs, ArrayFrames, ElementFrame
<1>5. CASE t.node # "list" /\ ~IsArray(t)
  <2>1. f = ArrayArgs(Null, 0)
    BY <1>5 DEF ArrayFrame
  <2> QED
    BY <2>1 DEF ArrayArgs, ArrayFrames, ElementFrame
<1> QED
  BY <1>3, <1>4, <1>5

(* What an outcome must be for the stack to stay in step with the calls.   *)
Sound(r, input, top) ==
  /\ r.err \in CheckError \cup {"none"}
  /\ r.top = top
  /\ r.err # "none" => r.push = <<>>
  /\ r.err = "none" => Entered(input, r.push)

LEMMA FailSound ==
  ASSUME NEW input, NEW top, NEW e \in CheckError
  PROVE  Sound(Fail(e, top), input, top) /\ Fail(e, top).err # "none"
BY DEF Sound, Fail, Outcome, CheckError

LEMMA CheckBaseOK ==
  ASSUME NEW top, NEW input \in Inputs, NEW t \in Nodes \cup {Any("type")}
  PROVE  Sound(CheckBase(top, input, t), input, top)
<1> DEFINE frame == IF input = AnyObject THEN ObjectFrame(t) ELSE ArrayFrame(t)
           r     == CheckBase(top, input, t)
<1>1. r = IF input.node = "plain"
          THEN IF CheckPlain(t, input) THEN Pass(top) ELSE Fail("type_mismatch", top)
          ELSE IF frame = {} THEN Fail("type_mismatch", top)
          ELSE Outcome("none", top, <<CHOOSE f \in frame : TRUE>>)
  BY DEF CheckBase
<1>2. CASE r = Fail("type_mismatch", top)
  BY <1>2, FailSound DEF CheckError
<1>3. CASE r = Pass(top) /\ input \in Plains
  <2>1. r.err = "none" /\ r.top = top /\ r.push = <<>>
    BY <1>3 DEF Pass, Outcome
  <2>2. Sound(r, input, top)
    <3> HIDE DEF r
    <3> QED
      BY <1>3, <2>1, InputKinds DEF Sound, Entered
  <2> QED
    BY <2>2
<1>4. CASE /\ input \notin Plains /\ frame # {}
           /\ r = Outcome("none", top, <<CHOOSE f \in frame : TRUE>>)
  <2>1. PICK f \in frame : r = Outcome("none", top, <<f>>)
    BY <1>4
  <2>2. r.err = "none" /\ r.top = top /\ r.push = <<f>>
    BY <2>1 DEF Outcome
  <2>3. input = AnyObject => KeyFrame(f)
    BY <2>1, ObjectFrameOK
  <2>4. input = AnyArray => ElementFrame(f)
    BY <2>1, ArrayFrameOK, InputKinds
  <2>5. Sound(r, input, top)
    <3> HIDE DEF r, frame
    <3> QED
      BY <1>4, <2>2, <2>3, <2>4 DEF Sound, Entered
  <2> QED
    BY <2>5
<1>5. input \in Plains <=> input.node = "plain"
  BY InputKinds DEF Inputs
<1> HIDE DEF r, frame
<1> QED
  BY <1>1, <1>2, <1>3, <1>4, <1>5

-----------------------------------------------------------------------------
(* json_type_check_node, one kind of frame after the other.                *)

LEMMA FramesAreFrames ==
  /\ \A o : KeyFrame(o) \/ ValueFrame(o) \/ ElementFrame(o) => o \in Frame
  /\ \A o : KeyFrame(o) \/ ValueFrame(o) =>
       o.obj \in {"object", "dict", "object_trie"}
  /\ \A o : ElementFrame(o) => o.obj \in {"array", "array_trie"}
<1>1. ASSUME NEW o, KeyFrame(o) \/ ValueFrame(o)
      PROVE  o \in Frame /\ o.obj \in {"object", "dict", "object_trie"}
  <2>1. o \in ObjectFrames \/ o \in DictFrames \/ o \in ObjectTrieFrames
    BY <1>1 DEF KeyFrame, ValueFrame
  <2> QED
    BY <2>1 DEF Frame, ObjectFrames, DictFrames, ObjectTrieFrames
<1>2. ASSUME NEW o, ElementFrame(o)
      PROVE  o \in Frame /\ o.obj \in {"array", "array_trie"}
  <2>1. o \in ArrayFrames \/ o \in ArrayTrieFrames
    BY <1>2 DEF ElementFrame
  <2> QED
    BY <2>1 DEF Frame, ArrayFrames, ArrayTrieFrames
<1> QED
  BY <1>1, <1>2

(* A value of the whole text: the root node stays. *)
LEMMA RootValue ==
  ASSUME NEW o \in NodeFrames, NEW input \in Inputs, NEW r \in CheckNode(o, input)
  PROVE  Sound(r, input, o)
<1>1. r = CheckBase(o, input, o.node) /\ o.node \in Nodes
  BY NodesAssumption DEF NodeFrames, CheckNode
<1> QED
  BY <1>1, CheckBaseOK

(* The value of a member of an object. *)
LEMMA ObjectValue ==
  ASSUME NEW o \in ObjectFrames, o.n_arg % 2 = 1, NEW input \in Inputs,
         NEW r \in CheckNode(o, input)
  PROVE  \E top \in Frame : Sound(r, input, top) /\ (r.err = "none" => KeyFrame(top))
<1> DEFINE next == [o EXCEPT !.n_arg = @ + 1]
           k    == o.n_arg \div 2 + 1
<1>1. r = InObject(o, input) /\ o.n_arg \in Nat /\ o.node \in NodeWith({"object"}) \cup {Null}
  BY DEF CheckNode, ObjectFrames
<1>2. next \in ObjectFrames /\ next.n_arg = o.n_arg + 1
  BY DEF ObjectFrames
<1>3. KeyFrame(next)
  BY <1>1, <1>2, OddEven DEF KeyFrame
<1>4. next \in Frame /\ o \in Frame
  BY <1>2 DEF Frame
<1>5. CASE o.node = Null
  <2>1. r = CheckBase(next, input, Any("type"))
    BY <1>1, <1>5 DEF InObject
  <2> QED
    BY <1>3, <1>4, <2>1, CheckBaseOK
<1>6. CASE o.node # Null
  <2>1. o.node \in Nodes /\ o.node.node = "object" /\ k \in Nat /\ k > 0
    BY <1>1, <1>6 DEF NodeWith
  <2>2. CASE k > Len(o.node.args)
    <3>1. r = Fail("too_many_args", o)
      BY <1>1, <1>6, <2>2 DEF InObject
    <3> QED
      BY <1>4, <3>1, FailSound DEF CheckError
  <2>3. CASE ~(k > Len(o.node.args))
    <3>1. r = CheckBase(next, input, o.node.args[k].type)
      BY <1>1, <1>6, <2>3 DEF InObject
    <3>2. o.node.args[k].type \in Nodes
      <4> HIDE DEF k
      <4> QED BY <2>1, <2>3, ArgsAreNodes
    <3> QED
      BY <1>3, <1>4, <3>1, <3>2, CheckBaseOK
  <2> QED
    BY <2>2, <2>3
<1> QED
  BY <1>5, <1>6

(* The value of a member of a dict. *)
LEMMA DictValue ==
  ASSUME NEW o \in DictFrames, o.n_arg % 2 = 1, o.last \in DOMAIN o.node.args,
         NEW input \in Inputs, NEW r \in CheckNode(o, input)
  PROVE  \E top \in Frame : Sound(r, input, top) /\ (r.err = "none" => KeyFrame(top))
<1> DEFINE next == [o EXCEPT !.n_arg = @ + 1, !.args = @ \cup {o.last}]
<1>1. r = InDict(o, input) /\ o.n_arg \in Nat /\ o.last \in Nat
      /\ o.node \in Nodes /\ o.node.node = "dict"
  BY DEF CheckNode, DictFrames, NodeWith
<1>2. next \in DictFrames /\ next.n_arg = o.n_arg + 1
  <2>1. next = [ obj |-> o.obj, node |-> o.node, n_arg |-> o.n_arg + 1,
                 args |-> o.args \cup {o.last}, last |-> o.last ]
    <3> DEFINE m == [o EXCEPT !.n_arg = @ + 1]
    <3>1. next = [m EXCEPT !.args = o.args \cup {o.last}]
      OBVIOUS
    <3>2. m = [ obj |-> o.obj, node |-> o.node, n_arg |-> o.n_arg + 1,
                args |-> o.args, last |-> o.last ]
      BY DEF DictFrames
    <3> HIDE DEF m, next
    <3> QED
      BY <3>1, <3>2
  <2>2. /\ o.obj = "dict" /\ o.node \in NodeWith({"dict"}) /\ o.n_arg + 1 \in Nat
        /\ o.args \cup {o.last} \in SUBSET Nat /\ o.last \in Nat
    BY DEF DictFrames
  <2> HIDE DEF next
  <2> QED
    BY <2>1, <2>2 DEF DictFrames
<1>3. KeyFrame(next)
  BY <1>1, <1>2, OddEven DEF KeyFrame
<1>4. next \in Frame /\ o \in Frame
  BY <1>2 DEF Frame
<1>5. o.node.args[o.last].type \in Nodes
  BY <1>1, ArgsAreNodes
<1>6. CASE r = Fail("too_many_args", o)
  BY <1>4, <1>6, FailSound DEF CheckError
<1>7. CASE r = CheckBase(next, input, o.node.args[o.last].type)
  BY <1>3, <1>4, <1>5, <1>7, CheckBaseOK
<1> QED
  BY <1>1, <1>6, <1>7 DEF InDict

(* The value of a member, where a list of objects is expected. *)
LEMMA ObjectTrieValue ==
  ASSUME NEW o \in ObjectTrieFrames, \A s \in o.trie : Valued(s),
         NEW input \in Inputs, NEW r \in CheckNode(o, input)
  PROVE  \E top \in Frame : Sound(r, input, top) /\ (r.err = "none" => KeyFrame(top))
<1>1. r \in InObjectTrie(o, input) /\ o \in Frame
  BY DEF CheckNode, ObjectTrieFrames, Frame
<1>2. CASE o.trie = {} /\ r = CheckBase(o, input, Any("type"))
  <2>1. KeyFrame(o)
    BY <1>2 DEF KeyFrame
  <2> QED
    BY <1>1, <1>2, <2>1, CheckBaseOK
<1>3. CASE r = Fail("type_mismatch", o)
  BY <1>1, <1>3, FailSound DEF CheckError
<1>4. ASSUME NEW t \in LookupTrieNode(o.trie, input),
             r = CheckBase([o EXCEPT !.trie = Eq(@, t)], input, t)
      PROVE  \E top \in Frame : Sound(r, input, top) /\ (r.err = "none" => KeyFrame(top))
  <2> DEFINE top == [o EXCEPT !.trie = Eq(@, t)]
  <2>1. t \in Nodes
    BY <1>4, LookupAmongHeads, TailValued DEF Heads
  <2>2. top \in ObjectTrieFrames /\ top.trie = Eq(o.trie, t)
    BY EqValued DEF ObjectTrieFrames
  <2>3. KeyFrame(top) /\ top \in Frame
    BY <2>2, EqValued DEF KeyFrame, Frame
  <2> HIDE DEF top
  <2>4. Sound(CheckBase(top, input, t), input, top)
    BY <2>1, CheckBaseOK
  <2> QED
    BY <1>4, <2>3, <2>4 DEF top
<1> QED
  BY <1>1, <1>2, <1>3, <1>4 DEF InObjectTrie

(* An element of an array. *)
LEMMA ArrayElementOK ==
  ASSUME NEW o \in ArrayFrames, NEW input \in Inputs, NEW r \in CheckNode(o, input)
  PROVE  \E top : ElementFrame(top) /\ Sound(r, input, top)
<1> DEFINE next == [o EXCEPT !.n_arg = @ + 1]
<1>1. r = InArray(o, input) /\ o.n_arg \in Nat
      /\ o.node \in NodeWith({"open", "closed"}) \cup {Null}
  BY DEF CheckNode, ArrayFrames
<1>2. next \in ArrayFrames
  BY DEF ArrayFrames
<1>3. ElementFrame(o) /\ ElementFrame(next)
  BY <1>2 DEF ElementFrame
<1>4. CASE o.node = Null
  <2>1. r = CheckBase(o, input, Any("type"))
    BY <1>1, <1>4 DEF InArray
  <2> QED
    BY <1>3, <2>1, CheckBaseOK
<1>5. CASE o.node # Null /\ o.node.node = "open"
  <2>1. r = CheckBase(o, input, o.node.arg) /\ o.node.arg \in Nodes
    BY <1>1, <1>5, NodesAssumption DEF InArray, NodeWith
  <2> QED
    BY <1>3, <2>1, CheckBaseOK
<1>6. CASE o.node # Null /\ o.node.node = "closed"
  <2>1. CASE r = Fail("too_many_args", o)
    BY <1>3, <2>1, FailSound DEF CheckError
  <2>2. CASE ~(o.n_arg >= Len(o.node.args))
             /\ r = CheckBase(next, input, o.node.args[o.n_arg + 1])
    <3>1. o.node.args \in Seq(Nodes)
      BY <1>1, <1>6, NodesAssumption DEF NodeWith
    <3>2. o.node.args[o.n_arg + 1] \in Nodes
      BY <1>1, <2>2, <3>1, ElementOfSeq, LenProperties
    <3> QED
      BY <1>3, <2>2, <3>2, CheckBaseOK
  <2> QED
    BY <1>1, <1>6, <2>1, <2>2 DEF InArray
<1> QED
  BY <1>1, <1>4, <1>5, <1>6 DEF NodeWith

(***************************************************************************)
(* An element of an array, where a list of arrays is expected.  First the  *)
(* frame is told which open array may still be meant, then the element is  *)
(* looked for in the trie.                                                 *)
(***************************************************************************)
ArrayTrieFields(o) ==
  /\ o.obj = "array_trie" /\ o.base \in NodeWith({"list"})
  /\ o.trie \in SUBSET Seq(Nodes) /\ o.is_closed \in BOOLEAN
  /\ o.open_node \in Nodes \cup {Null} /\ o.open_found \in BOOLEAN /\ o.n_arg \in Nat
  /\ o.open_node = Null \/ <<o.open_node>> \in OpenArrayTrie(o.base)
  /\ ~o.is_closed => o.trie \in {{}, OpenArrayTrie(o.base)}

ArrayTrieRecord(base, trie, closed, node, found, n) ==
  [ obj |-> "array_trie", base |-> base, trie |-> trie, is_closed |-> closed,
    open_node |-> node, open_found |-> found, n_arg |-> n ]

LEMMA ArrayTrieIn ==
  ASSUME NEW base \in NodeWith({"list"}), NEW trie \in SUBSET Seq(Nodes),
         NEW closed \in BOOLEAN, NEW node \in Nodes \cup {Null}, NEW found \in BOOLEAN,
         NEW n \in Nat,
         node = Null \/ <<node>> \in OpenArrayTrie(base),
         ~closed => trie \in {{}, OpenArrayTrie(base)}
  PROVE  ArrayTrieRecord(base, trie, closed, node, found, n) \in ArrayTrieFrames
BY DEF ArrayTrieFrames, ArrayTrieRecord

LEMMA ArrayTrieOut ==
  ASSUME NEW o \in ArrayTrieFrames
  PROVE  /\ ArrayTrieFields(o)
         /\ o = ArrayTrieRecord(o.base, o.trie, o.is_closed, o.open_node,
                                o.open_found, o.n_arg)
         /\ ElementFrame(o)
BY DEF ArrayTrieFrames, ArrayTrieRecord, ArrayTrieFields, ElementFrame

LEMMA TrackOpenOK ==
  ASSUME NEW o \in ArrayTrieFrames, NEW input, NEW p \in TrackOpen(o, input)
  PROVE  p \in ArrayTrieFrames
<1> DEFINE n     == [o EXCEPT !.n_arg = @ + 1]
           found == LookupTrieNode(OpenArrayTrie(o.base), input)
<1>1. ArrayTrieFields(o)
      /\ o = ArrayTrieRecord(o.base, o.trie, o.is_closed, o.open_node, o.open_found,
                             o.n_arg)
  BY ArrayTrieOut
<1>2. n = ArrayTrieRecord(o.base, o.trie, o.is_closed, o.open_node, o.open_found,
                          o.n_arg + 1)
  BY <1>1 DEF ArrayTrieRecord
<1>3. \A r : [n EXCEPT !.open_node = r, !.open_found = TRUE] =
             ArrayTrieRecord(o.base, o.trie, o.is_closed, r, TRUE, o.n_arg + 1)
  <2> HIDE DEF n
  <2> TAKE r
  <2> DEFINE m == [n EXCEPT !.open_node = r]
  <2>1. [n EXCEPT !.open_node = r, !.open_found = TRUE] = [m EXCEPT !.open_found = TRUE]
    OBVIOUS
  <2>2. m = ArrayTrieRecord(o.base, o.trie, o.is_closed, r, o.open_found, o.n_arg + 1)
    BY <1>2 DEF ArrayTrieRecord
  <2> HIDE DEF m
  <2>3. \A found_ : [m EXCEPT !.open_found = found_] =
          ArrayTrieRecord(o.base, o.trie, o.is_closed, r, found_, o.n_arg + 1)
    BY <2>2 DEF ArrayTrieRecord
  <2> QED
    BY <2>1, <2>3
<1>4. [n EXCEPT !.open_node = Null] =
        ArrayTrieRecord(o.base, o.trie, o.is_closed, Null, o.open_found, o.n_arg + 1)
  <2> HIDE DEF n
  <2> QED
    BY <1>2 DEF ArrayTrieRecord
<1>5. o.n_arg + 1 \in Nat
  BY <1>1 DEF ArrayTrieFields
<1>6. \/ p = n
      \/ \E r \in found : p = [n EXCEPT !.open_node = r, !.open_found = TRUE]
      \/ p = [n EXCEPT !.open_node = Null]
  BY DEF TrackOpen
<1> HIDE DEF n
<1>7. CASE p = n
  BY <1>1, <1>2, <1>5, <1>7, ArrayTrieIn DEF ArrayTrieFields
<1>8. ASSUME NEW r \in found, p = [n EXCEPT !.open_node = r, !.open_found = TRUE]
      PROVE  p \in ArrayTrieFrames
  <2>1. <<r>> \in OpenArrayTrie(o.base) /\ r \in Nodes
    BY <1>1, LookupAmongHeads, ArrayTries, HeadsOfNodes DEF ArrayTrieFields
  <2>2. p = ArrayTrieRecord(o.base, o.trie, o.is_closed, r, TRUE, o.n_arg + 1)
    BY <1>3, <1>8
  <2> QED
    BY <1>1, <1>5, <2>1, <2>2, ArrayTrieIn DEF ArrayTrieFields
<1>9. CASE p = [n EXCEPT !.open_node = Null]
  <2>1. p = ArrayTrieRecord(o.base, o.trie, o.is_closed, Null, o.open_found, o.n_arg + 1)
    BY <1>4, <1>9
  <2> QED
    BY <1>1, <1>5, <2>1, ArrayTrieIn DEF ArrayTrieFields
<1> QED
  BY <1>6, <1>7, <1>8, <1>9

LEMMA InArrayTrieOK ==
  ASSUME NEW o \in ArrayTrieFrames, NEW input \in Inputs, NEW r \in InArrayTrie(o, input)
  PROVE  \E top : ElementFrame(top) /\ Sound(r, input, top)
<1> DEFINE left  == [o EXCEPT !.is_closed = FALSE, !.trie = {}]
           found == LookupTrieNode(o.trie, input)
<1>1. /\ ArrayTrieFields(o) /\ ElementFrame(o)
      /\ o = ArrayTrieRecord(o.base, o.trie, o.is_closed, o.open_node, o.open_found,
                             o.n_arg)
  BY ArrayTrieOut
<1>2. left = ArrayTrieRecord(o.base, {}, FALSE, o.open_node, o.open_found, o.n_arg)
  <2> DEFINE m == [o EXCEPT !.is_closed = FALSE]
  <2>1. left = [m EXCEPT !.trie = {}]
    OBVIOUS
  <2>2. \A closed : [o EXCEPT !.is_closed = closed] =
          ArrayTrieRecord(o.base, o.trie, closed, o.open_node, o.open_found, o.n_arg)
    BY <1>1 DEF ArrayTrieRecord
  <2>3. m = ArrayTrieRecord(o.base, o.trie, FALSE, o.open_node, o.open_found, o.n_arg)
    BY <2>2
  <2> HIDE DEF m, left
  <2>4. \A closed :
          m = ArrayTrieRecord(o.base, o.trie, closed, o.open_node, o.open_found, o.n_arg)
          => [m EXCEPT !.trie = {}] =
               ArrayTrieRecord(o.base, {}, closed, o.open_node, o.open_found, o.n_arg)
    BY DEF ArrayTrieRecord
  <2> QED
    BY <2>1, <2>3, <2>4
<1>3. \A t : [left EXCEPT !.open_node = t] =
               ArrayTrieRecord(o.base, {}, FALSE, t, o.open_found, o.n_arg)
  <2> HIDE DEF left
  <2>1. \A closed, t :
          left = ArrayTrieRecord(o.base, {}, closed, o.open_node, o.open_found, o.n_arg)
          => [left EXCEPT !.open_node = t] =
               ArrayTrieRecord(o.base, {}, closed, t, o.open_found, o.n_arg)
    BY DEF ArrayTrieRecord
  <2> QED
    BY <1>2, <2>1
<1>4. \A t : [o EXCEPT !.trie = Eq(@, t)] =
               ArrayTrieRecord(o.base, Eq(o.trie, t), o.is_closed, o.open_node,
                               o.open_found, o.n_arg)
  BY <1>1 DEF ArrayTrieRecord
<1>5. found \subseteq Heads(o.trie) /\ found \subseteq Nodes
  BY <1>1, LookupAmongHeads, HeadsOfNodes DEF ArrayTrieFields
<1>6. {} \in SUBSET Seq(Nodes)
  OBVIOUS
<1>7. \/ r = CheckBase(o, input, IF o.open_node # Null THEN o.open_node ELSE Any("type"))
      \/ o.open_node # Null /\ r = CheckBase(left, input, o.open_node)
      \/ r \in {Fail("too_many_args", o), Fail("type_mismatch", o)}
      \/ o.is_closed /\ \E t \in found : r = CheckBase([o EXCEPT !.trie = Eq(@, t)], input, t)
      \/ /\ ~o.is_closed /\ o.trie # {}
         /\ \E t \in found : r = CheckBase([left EXCEPT !.open_node = t], input, t)
  BY DEF InArrayTrie
<1> HIDE DEF left, found
<1>8. CASE r = CheckBase(o, input, IF o.open_node # Null THEN o.open_node ELSE Any("type"))
  BY <1>1, <1>8, CheckBaseOK DEF ArrayTrieFields
<1>9. CASE o.open_node # Null /\ r = CheckBase(left, input, o.open_node)
  <2>1. left \in ArrayTrieFrames
    BY <1>1, <1>2, <1>6, ArrayTrieIn DEF ArrayTrieFields
  <2>2. ElementFrame(left) /\ o.open_node \in Nodes
    BY <1>1, <1>9, <2>1 DEF ElementFrame, ArrayTrieFields
  <2> QED
    BY <1>9, <2>2, CheckBaseOK
<1>10. CASE r \in {Fail("too_many_args", o), Fail("type_mismatch", o)}
  BY <1>1, <1>10, FailSound DEF CheckError
<1>11. ASSUME o.is_closed, NEW t \in found,
              r = CheckBase([o EXCEPT !.trie = Eq(@, t)], input, t)
       PROVE  \E top : ElementFrame(top) /\ Sound(r, input, top)
  <2> DEFINE top == [o EXCEPT !.trie = Eq(@, t)]
  <2>1. Eq(o.trie, t) \in SUBSET Seq(Nodes)
    BY <1>1, EqNodes DEF ArrayTrieFields
  <2>2. top \in ArrayTrieFrames
    <3>1. top = ArrayTrieRecord(o.base, Eq(o.trie, t), o.is_closed, o.open_node,
                                o.open_found, o.n_arg)
      BY <1>4
    <3> HIDE DEF top
    <3> QED
      BY <1>1, <1>11, <2>1, <3>1, ArrayTrieIn DEF ArrayTrieFields
  <2>3. ElementFrame(top) /\ t \in Nodes
    BY <1>5, <2>2 DEF ElementFrame
  <2> HIDE DEF top
  <2>4. Sound(CheckBase(top, input, t), input, top)
    BY <2>3, CheckBaseOK
  <2> QED
    BY <1>11, <2>3, <2>4 DEF top
<1>12. ASSUME ~o.is_closed, o.trie # {}, NEW t \in found,
              r = CheckBase([left EXCEPT !.open_node = t], input, t)
       PROVE  \E top : ElementFrame(top) /\ Sound(r, input, top)
  <2> DEFINE top == [left EXCEPT !.open_node = t]
  <2>1. o.trie = OpenArrayTrie(o.base) /\ t \in Nodes
    BY <1>1, <1>5, <1>12 DEF ArrayTrieFields
  <2>2. <<t>> \in OpenArrayTrie(o.base)
    BY <1>1, <1>5, <2>1, ArrayTries DEF ArrayTrieFields
  <2>3. top \in ArrayTrieFrames
    <3>1. top = ArrayTrieRecord(o.base, {}, FALSE, t, o.open_found, o.n_arg)
      BY <1>3
    <3> HIDE DEF top
    <3> QED
      BY <1>1, <1>6, <2>1, <2>2, <3>1, ArrayTrieIn DEF ArrayTrieFields
  <2>4. ElementFrame(top)
    BY <2>3 DEF ElementFrame
  <2> HIDE DEF top
  <2>5. Sound(CheckBase(top, input, t), input, top)
    BY <2>1, CheckBaseOK
  <2> QED
    BY <1>12, <2>4, <2>5 DEF top
<1> QED
  BY <1>7, <1>8, <1>9, <1>10, <1>11, <1>12

LEMMA ArrayTrieElement ==
  ASSUME NEW o \in ArrayTrieFrames, NEW input \in Inputs, NEW r \in CheckNode(o, input)
  PROVE  \E top : ElementFrame(top) /\ Sound(r, input, top)
<1>1. o.obj = "array_trie"
  BY ArrayTrieOut DEF ArrayTrieFields
<1>2. PICK p \in TrackOpen(o, input) : r \in InArrayTrie(p, input)
  BY <1>1 DEF CheckNode
<1> QED
  BY <1>2, TrackOpenOK, InArrayTrieOK

-----------------------------------------------------------------------------
(* json_type_object_key                                                    *)

LEMMA KeyOK ==
  ASSUME NEW o, KeyFrame(o), NEW k
  PROVE  LET r == CheckKey(o, k)
         IN  /\ r.err \in CheckError \cup {"none"} /\ r.push = <<>>
             /\ r.top \in Frame
             /\ r.err = "none" => ValueFrame(r.top)
<1> DEFINE r == CheckKey(o, k)
           Goal == /\ r.err \in CheckError \cup {"none"} /\ r.push = <<>>
                   /\ r.top \in Frame
                   /\ r.err = "none" => ValueFrame(r.top)
<1> SUFFICES Goal
  OBVIOUS
<1>1. ASSUME NEW e \in CheckError, r = Fail(e, o)
      PROVE  Goal
  <2>1. r.err = e /\ r.top = o /\ r.push = <<>>
    BY <1>1 DEF Fail, Outcome
  <2>2. e # "none"
    BY DEF CheckError
  <2> HIDE DEF r
  <2> QED
    BY <1>1, <2>1, <2>2, FramesAreFrames
<1>2. ASSUME NEW top, ValueFrame(top), r = Pass(top)
      PROVE  Goal
  <2>1. r.err = "none" /\ r.top = top /\ r.push = <<>>
    BY <1>2 DEF Pass, Outcome
  <2> HIDE DEF r
  <2> QED
    BY <1>2, <2>1, FramesAreFrames
<1>3. {"too_many_args", "invalid_arg_name", "duplicate_arg_name"} \subseteq CheckError
  BY DEF CheckError
<1>4. CASE o \in ObjectFrames /\ o.n_arg % 2 = 0
  <2> DEFINE next == [o EXCEPT !.n_arg = @ + 1]
  <2>1. next \in ObjectFrames /\ next.n_arg = o.n_arg + 1 /\ o.n_arg \in Nat
    BY <1>4 DEF ObjectFrames
  <2>2. ValueFrame(next)
    BY <1>4, <2>1, OddEven DEF ValueFrame
  <2>3. r = KeyInObject(o, k)
    BY <1>4 DEF CheckKey, ObjectFrames
  <2>4. \/ r \in {Fail("too_many_args", o), Fail("invalid_arg_name", o)}
        \/ r = Pass(next)
    BY <2>3 DEF KeyInObject
  <2> HIDE DEF next, r, Goal
  <2> QED
    BY <1>1, <1>2, <1>3, <2>2, <2>4
<1>5. CASE o \in ObjectTrieFrames /\ \A s \in o.trie : Keyed(s)
  <2> DEFINE top == [o EXCEPT !.trie = Eq(@, NameSym(k))]
  <2>1. r = KeyInObjectTrie(o, k)
    BY <1>5 DEF CheckKey, ObjectTrieFrames
  <2>2. top \in ObjectTrieFrames /\ top.trie = Eq(o.trie, NameSym(k))
    BY <1>5, EqKeyed DEF ObjectTrieFrames
  <2>3. ValueFrame(top)
    BY <1>5, <2>2, EqKeyed DEF ValueFrame
  <2>4. o.trie = {} => ValueFrame(o)
    BY <1>5 DEF ValueFrame
  <2>5. \/ o.trie = {} /\ r = Pass(o)
        \/ r = Pass(top)
        \/ r \in {Fail("invalid_arg_name", o), Fail("too_many_args", o)}
    BY <2>1 DEF KeyInObjectTrie
  <2> HIDE DEF top, r, Goal
  <2> QED
    BY <1>1, <1>2, <1>3, <2>3, <2>4, <2>5
<1>6. CASE o \in DictFrames /\ o.n_arg % 2 = 0
  <2> DEFINE found == { i \in DOMAIN o.node.args : o.node.args[i].name = k }
             last  == CHOOSE i \in found : TRUE
             top   == [o EXCEPT !.last = last, !.n_arg = @ + 1]
  <2>1. r = KeyInDict(o, k)
    BY <1>6 DEF CheckKey, DictFrames
  <2>2. o.node \in Nodes /\ o.node.node = "dict" /\ o.node \in NodeWith({"dict"})
        /\ o.args \in SUBSET Nat /\ o.n_arg \in Nat /\ o.obj = "dict"
    BY <1>6 DEF DictFrames, NodeWith
  <2>3. \/ r \in { Fail("too_many_args", o), Fail("invalid_arg_name", o),
                   Fail("duplicate_arg_name", o) }
        \/ found # {} /\ ~(found \subseteq o.args) /\ r = Pass(top)
    BY <2>1 DEF KeyInDict
  <2>4. ASSUME found # {}, ~(found \subseteq o.args)
        PROVE  ValueFrame(top)
    <3>1. last \in found
      BY <2>4
    <3>2. last \in DOMAIN o.node.args /\ last \in Nat
      <4>1. DOMAIN o.node.args = 1..Len(o.node.args)
        BY <2>2, ArgsAreNodes
      <4> QED
        BY <3>1, <4>1
    <3>3. \A i \in found : i = last
      BY <2>2, <3>1, NodesAssumption
    <3>4. last \notin o.args
      BY <2>4, <3>3
    <3> HIDE DEF last, found
    <3>5. top = [ obj |-> "dict", node |-> o.node, n_arg |-> o.n_arg + 1,
                  args |-> o.args, last |-> last ]
      <4> DEFINE m == [o EXCEPT !.last = last]
      <4>1. top = [m EXCEPT !.n_arg = o.n_arg + 1]
        OBVIOUS
      <4>2. m = [ obj |-> "dict", node |-> o.node, n_arg |-> o.n_arg,
                  args |-> o.args, last |-> last ]
        BY <1>6 DEF DictFrames
      <4> HIDE DEF m, top
      <4> QED
        BY <4>1, <4>2
    <3> HIDE DEF top
    <3>6. top \in DictFrames
      BY <2>2, <3>2, <3>5 DEF DictFrames
    <3>7. top.n_arg % 2 = 1
      BY <1>6, <2>2, <3>5, OddEven
    <3> QED
      BY <3>2, <3>4, <3>5, <3>6, <3>7 DEF ValueFrame
  <2> HIDE DEF top, r, Goal, found, last
  <2> QED
    BY <1>1, <1>2, <1>3, <2>3, <2>4
<1> QED
  BY <1>4, <1>5, <1>6 DEF KeyFrame

-----------------------------------------------------------------------------
(* The stack: what a call makes of it while it goes with the calls.        *)

(* The top is replaced and at most one frame is pushed. *)
Stacked(s2, st, top, push) ==
  /\ s2 \in Seq(Frame)
  /\ Len(s2) = Len(st) + Len(push)
  /\ \A i \in 1..(Len(st) - 1) : s2[i] = st[i]
  /\ s2[Len(st)] = top
  /\ \A i \in 1..Len(push) : s2[Len(st) + i] = push[i]

LEMMA StackOf ==
  ASSUME NEW st \in Seq(Frame), st # <<>>, NEW top \in Frame, NEW push \in Seq(Frame)
  PROVE  Stacked((SubSeq(st, 1, Len(st) - 1) \o <<top>>) \o push, st, top, push)
<1> DEFINE n == Len(st)
           F == Frame
           rest == SubSeq(st, 1, n - 1)
           one == rest \o <<top>>
           s2 == one \o push
<1>1. n \in Nat \ {0}
  BY EmptySeq
<1>2. rest \in Seq(F) /\ Len(rest) = n - 1 /\ \A i \in 1..(n - 1) : rest[i] = st[i]
  <2> DEFINE m == n - 1
  <2>1. 1 \in Int /\ m \in Nat /\ \A i \in 1..m : st[i] \in F
    BY <1>1, ElementOfSeq
  <2> HIDE DEF m, n, F
  <2>2. /\ SubSeq(st, 1, m) \in Seq(F)
        /\ Len(SubSeq(st, 1, m)) = IF 1 <= m THEN m - 1 + 1 ELSE 0
        /\ \A i \in 1..(m - 1 + 1) : SubSeq(st, 1, m)[i] = st[1 + i - 1]
    BY <2>1, SubSeqProperties
  <2>3. m - 1 + 1 = m /\ \A i \in 1..m : 1 + i - 1 = i
    BY <2>1
  <2> QED
    BY <2>1, <2>2, <2>3 DEF m
<1>3. <<top>> \in Seq(F) /\ Len(<<top>>) = 1 /\ <<top>>[1] = top
  <2> HIDE DEF F
  <2> QED
    BY DEF F
<1>4. /\ one \in Seq(F) /\ Len(one) = n /\ one[n] = top
      /\ \A i \in 1..(n - 1) : one[i] = st[i]
  <2>1. \A s, t \in Seq(F) : /\ s \o t \in Seq(F)
                             /\ Len(s \o t) = Len(s) + Len(t)
                             /\ \A i \in 1..Len(s) + Len(t) :
                                  (s \o t)[i] = IF i <= Len(s) THEN s[i] ELSE t[i - Len(s)]
    BY ConcatProperties
  <2> HIDE DEF n, F, rest
  <2> QED
    BY <1>1, <1>2, <1>3, <2>1
<1>5. /\ s2 \in Seq(F) /\ Len(s2) = n + Len(push)
      /\ \A i \in 1..n : s2[i] = one[i]
      /\ \A i \in 1..Len(push) : s2[n + i] = push[i]
  <2>1. /\ Len(push) \in Nat
        /\ one \o push \in Seq(F)
        /\ Len(one \o push) = Len(one) + Len(push)
        /\ \A i \in 1..Len(one) + Len(push) :
             (one \o push)[i] = IF i <= Len(one) THEN one[i] ELSE push[i - Len(one)]
    BY <1>4, ConcatProperties, LenProperties
  <2> HIDE DEF n, F, one
  <2> QED
    BY <1>1, <1>4, <2>1
<1> HIDE DEF n, F, rest, one, s2
<1>6. \A i \in 1..(n - 1) : s2[i] = st[i]
  BY <1>1, <1>4, <1>5
<1>7. s2[n] = top
  BY <1>1, <1>4, <1>5
<1> QED
  BY <1>5, <1>6, <1>7 DEF Stacked, n, F, rest, one, s2

LEMMA SeqFacts ==
  ASSUME NEW f, f \in Frame
  PROVE  <<>> \in Seq(Frame) /\ Len(<<>>) = 0
         /\ <<f>> \in Seq(Frame) /\ Len(<<f>>) = 1 /\ <<f>>[1] = f
<1> DEFINE F == Frame
<1>1. f \in F
  OBVIOUS
<1> HIDE DEF F
<1>2. <<>> \in Seq(F) /\ Len(<<>>) = 0 /\ <<f>> \in Seq(F) /\ Len(<<f>>) = 1 /\ <<f>>[1] = f
  BY <1>1
<1> QED
  BY <1>2 DEF F

(* A value, a name or a separator at the same depth: only the frame on top *)
(* has to be looked at again.                                              *)
LEMMA SameLevel ==
  ASSUME NEW ns \in Seq(Up!Container), NEW st, NEW ph, MatchedWith(st, ns, ph),
         NEW s2, NEW p2, Len(s2) = Len(st),
         \A i \in 1..(Len(st) - 1) : s2[i] = st[i],
         IF ns = <<>> THEN s2[Len(st)] = NodeObj(root)
         ELSE FrameOf(ns[Len(ns)], p2, s2[Len(st)])
  PROVE  MatchedWith(s2, ns, p2)
<1> DEFINE n == Len(ns)
           m == Len(st)
<1>1. n \in Nat /\ m = n + 1 /\ (ns = <<>> <=> n = 0)
  BY EmptySeq DEF MatchedWith
<1>2. st[1] = NodeObj(root)
      /\ \A i \in 1..n : FrameOf(ns[i], IF i = n THEN ph ELSE "after", st[i + 1])
  BY DEF MatchedWith, PhaseIn
<1> HIDE DEF n, m
<1>3. s2[1] = NodeObj(root)
  BY <1>1, <1>2 DEF m
<1>4. ASSUME NEW i \in 1..n
      PROVE  FrameOf(ns[i], IF i = n THEN p2 ELSE "after", s2[i + 1])
  <2>1. CASE i = n
    <3>1. ns # <<>> /\ m = i + 1
      BY <1>1, <2>1
    <3>2. FrameOf(ns[i], p2, s2[i + 1])
      BY <2>1, <3>1 DEF n, m
    <3> QED
      BY <2>1, <3>2
  <2>2. CASE i # n
    <3>1. i + 1 \in 1..(m - 1)
      BY <1>1, <2>2
    <3>2. s2[i + 1] = st[i + 1]
      BY <3>1 DEF m
    <3>3. FrameOf(ns[i], "after", st[i + 1])
      BY <1>2, <2>2 DEF FrameOf
    <3> QED
      BY <2>2, <3>2, <3>3 DEF FrameOf
  <2> QED
    BY <2>1, <2>2
<1> QED
  BY <1>1, <1>3, <1>4 DEF MatchedWith, PhaseIn, n, m

(* A container begins in the one on top. *)
LEMMA Opened ==
  ASSUME NEW ns \in Seq(Up!Container), NEW st, NEW ph, MatchedWith(st, ns, ph),
         NEW s2, NEW c \in Up!Container, Len(s2) = Len(st) + 1,
         \A i \in 1..(Len(st) - 1) : s2[i] = st[i],
         IF ns = <<>> THEN s2[Len(st)] = NodeObj(root)
         ELSE FrameOf(ns[Len(ns)], "after", s2[Len(st)]),
         FrameOf(c, "open", s2[Len(st) + 1])
  PROVE  MatchedWith(s2, Append(ns, c), "open")
<1> DEFINE n == Len(ns)
           m == Len(st)
           os == Append(ns, c)
<1>1. n \in Nat /\ m = n + 1 /\ (ns = <<>> <=> n = 0)
  BY EmptySeq DEF MatchedWith
<1>2. st[1] = NodeObj(root)
      /\ \A i \in 1..n : FrameOf(ns[i], IF i = n THEN ph ELSE "after", st[i + 1])
  BY DEF MatchedWith, PhaseIn
<1>3. Len(os) = n + 1 /\ os[n + 1] = c /\ \A i \in 1..n : os[i] = ns[i]
  BY AppendProperties
<1> HIDE DEF n, m, os
<1>4. s2[1] = NodeObj(root)
  BY <1>1, <1>2 DEF m
<1>5. ASSUME NEW i \in 1..(n + 1)
      PROVE  FrameOf(os[i], "after", s2[i + 1])
  <2>1. CASE i = n + 1
    BY <1>1, <1>3, <2>1 DEF m, FrameOf
  <2>2. CASE i = n
    <3>1. ns # <<>> /\ m = i + 1 /\ os[i] = ns[i]
      BY <1>1, <1>3, <2>2
    <3> QED
      BY <2>2, <3>1 DEF n, m
  <2>3. CASE i < n
    <3>1. i + 1 \in 1..(m - 1) /\ os[i] = ns[i]
      BY <1>1, <1>3, <2>3
    <3>2. s2[i + 1] = st[i + 1]
      BY <3>1 DEF m
    <3>3. i \in 1..n /\ i # n
      BY <1>1, <2>3
    <3>4. FrameOf(ns[i], "after", st[i + 1])
      BY <1>2, <3>3 DEF FrameOf
    <3> QED
      BY <3>1, <3>2, <3>4
  <2> QED
    BY <1>1, <2>1, <2>2, <2>3
<1>6. \A i \in 1..(n + 1) : FrameOf(os[i], IF i = n + 1 THEN "open" ELSE "after", s2[i + 1])
  BY <1>5 DEF FrameOf
<1> QED
  BY <1>1, <1>3, <1>4, <1>6 DEF MatchedWith, PhaseIn, n, m, os

(* The container on top ends. *)
LEMMA Ended ==
  ASSUME NEW ns \in Seq(Up!Container), ns # <<>>, NEW st, NEW ph, MatchedWith(st, ns, ph),
         NEW s2, Len(s2) = Len(st) - 1,
         \A i \in 1..(Len(st) - 1) : s2[i] = st[i],
         NEW p2 \in {"top", "after"}
  PROVE  MatchedWith(s2, SubSeq(ns, 1, Len(ns) - 1), p2)
<1> DEFINE n == Len(ns)
           m == Len(st)
           os == SubSeq(ns, 1, n - 1)
           C == Up!Container
<1>1. n \in Nat /\ n # 0 /\ m = n + 1
  BY EmptySeq DEF MatchedWith
<1>2. st[1] = NodeObj(root)
      /\ \A i \in 1..n : FrameOf(ns[i], IF i = n THEN ph ELSE "after", st[i + 1])
  BY DEF MatchedWith, PhaseIn
<1>3. Len(os) = n - 1 /\ \A i \in 1..(n - 1) : os[i] = ns[i]
  <2> DEFINE k == n - 1
  <2>1. 1 \in Int /\ k \in Nat /\ \A i \in 1..k : ns[i] \in C
    BY <1>1, ElementOfSeq
  <2> HIDE DEF k, n, C
  <2>2. /\ Len(SubSeq(ns, 1, k)) = IF 1 <= k THEN k - 1 + 1 ELSE 0
        /\ \A i \in 1..(k - 1 + 1) : SubSeq(ns, 1, k)[i] = ns[1 + i - 1]
    BY <2>1, SubSeqProperties
  <2>3. k - 1 + 1 = k /\ \A i \in 1..k : 1 + i - 1 = i
    BY <2>1
  <2> QED
    BY <2>1, <2>2, <2>3 DEF k
<1> HIDE DEF n, m, os
<1>4. s2[1] = NodeObj(root)
  BY <1>1, <1>2 DEF m
<1>5. ASSUME NEW i \in 1..(n - 1)
      PROVE  FrameOf(os[i], IF i = n - 1 THEN p2 ELSE "after", s2[i + 1])
  <2>1. i + 1 \in 1..(m - 1) /\ os[i] = ns[i] /\ i \in 1..n /\ i # n
    BY <1>1, <1>3
  <2>2. s2[i + 1] = st[i + 1] /\ FrameOf(ns[i], "after", st[i + 1])
    BY <1>2, <2>1 DEF FrameOf, m
  <2>3. p2 # "value"
    OBVIOUS
  <2> QED
    BY <2>1, <2>2, <2>3 DEF FrameOf
<1>6. Len(s2) = n /\ Len(os) = n - 1 /\ n - 1 + 1 = n
  BY <1>1, <1>3 DEF m
<1> QED
  BY <1>4, <1>5, <1>6 DEF MatchedWith, PhaseIn, n, os

-----------------------------------------------------------------------------
(* The steps.                                                              *)

(* A call of the parser, as far as JsonEvents goes. *)
LEMMA CallShape ==
  ASSUME Up!TypeOK, UpShape,
         NEW h \in Up!Handler, NEW ns \in Seq(Up!Container), NEW p \in Up!Phase,
         Up!Call(h, ns, p),
         p \in {"first", "top"} => ns = <<>>,
         p = "key" => ns # <<>> /\ ns[Len(ns)] = "object"
  PROVE  /\ Up!TypeOK' /\ UpShape'
         /\ alive /\ (alive' => nest' = ns /\ phase' = p)
BY DEF Up!TypeOK, UpShape, Up!Call, Up!Inside

(* The frame on top, for what the parser is about to call. *)
LEMMA TopFrame ==
  ASSUME IInv, alive
  PROVE  /\ objStack # <<>> /\ Len(objStack) = Len(nest) + 1
         /\ nest = <<>> => Top = NodeObj(root) /\ Top \in NodeFrames
         /\ nest # <<>> => FrameOf(nest[Len(nest)], phase, Top)
<1>1. nest \in Seq(Up!Container) /\ root \in Types /\ objStack \in Seq(Frame) /\ Matched
  BY DEF IInv, TypeOK, Up!TypeOK
<1> DEFINE n == Len(nest)
<1>2. n \in Nat /\ (nest = <<>> <=> n = 0)
  BY <1>1, EmptySeq
<1>3. /\ Len(objStack) = n + 1 /\ objStack[1] = NodeObj(root)
      /\ \A i \in 1..n : FrameOf(nest[i], IF i = n THEN phase ELSE "after", objStack[i + 1])
  BY <1>1 DEF Matched, MatchedWith, PhaseIn
<1>4. NodeObj(root) \in NodeFrames
  BY <1>1 DEF NodeObj, NodeFrames
<1> HIDE DEF n
<1>5. n # 0 => FrameOf(nest[n], phase, objStack[n + 1])
  BY <1>2, <1>3
<1>6. objStack # <<>>
  BY <1>1, <1>2, <1>3, EmptySeq
<1> QED
  BY <1>2, <1>3, <1>4, <1>5, <1>6 DEF Top, n

(***************************************************************************)
(* A handler of the checker: when the check fails, or when the client      *)
(* refuses, the frames need no longer match; else the parser moves on.     *)
(***************************************************************************)
LEMMA CheckStep ==
  ASSUME IInv, NEW h \in Up!Handler, NEW ns \in Seq(Up!Container), NEW p \in Up!Phase,
         Up!Call(h, ns, p),
         p \in {"first", "top"} => ns = <<>>,
         p = "key" => ns # <<>> /\ ns[Len(ns)] = "object",
         NEW r, r.err \in CheckError \cup {"none"}, r.top \in Frame,
         r.push \in Seq(Frame), Check(r),
         r.err = "none" =>
           \A s2 \in Seq(Frame) :
             /\ Len(s2) = Len(objStack) + Len(r.push)
             /\ \A i \in 1..(Len(objStack) - 1) : s2[i] = objStack[i]
             /\ s2[Len(objStack)] = r.top
             /\ \A i \in 1..Len(r.push) : s2[Len(objStack) + i] = r.push[i]
             => MatchedWith(s2, ns, p)
  PROVE  IInv'
<1>1. /\ Up!TypeOK' /\ UpShape' /\ alive /\ (alive' => nest' = ns /\ phase' = p)
      /\ ev' = h
  <2>1. Up!TypeOK /\ UpShape
    BY DEF IInv, TypeOK
  <2> QED
    BY <2>1, CallShape DEF Up!Call
<1>2. objStack \in Seq(Frame) /\ objStack # <<>>
  BY <1>1, TopFrame DEF IInv, TypeOK
<1>3. /\ objStack' \in Seq(Frame)
      /\ Len(objStack') = Len(objStack) + Len(r.push)
      /\ \A i \in 1..(Len(objStack) - 1) : objStack'[i] = objStack[i]
      /\ objStack'[Len(objStack)] = r.top
      /\ \A i \in 1..Len(r.push) : objStack'[Len(objStack) + i] = r.push[i]
  <2> DEFINE s2 == (SubSeq(objStack, 1, Len(objStack) - 1) \o <<r.top>>) \o r.push
  <2>1. objStack' = s2
    BY DEF Check, Rest
  <2>2. Stacked(s2, objStack, r.top, r.push)
    BY <1>2, StackOf
  <2> HIDE DEF s2
  <2> QED
    BY <2>1, <2>2 DEF Stacked
<1>4. /\ root' = root /\ err' = r.err
      /\ r.err # "none" => alive' = FALSE /\ UNCHANGED <<sent, canceled>>
      /\ r.err = "none" => sent' = ev' /\ canceled' = ~alive'
  BY DEF Check, Answer
<1>5. TypeOK'
  <2>1. sent' \in Up!Handler \cup {"none"}
    BY <1>1, <1>4 DEF IInv, TypeOK
  <2>2. canceled' \in BOOLEAN
    BY <1>4 DEF IInv, TypeOK
  <2> QED
    BY <1>1, <1>3, <1>4, <2>1, <2>2 DEF IInv, TypeOK
<1>6. alive' => Matched'
  <2>1. ASSUME alive' PROVE MatchedWith(objStack', ns, p)
    BY <1>3, <1>4, <2>1
  <2>2. ASSUME alive' PROVE Matched'
    BY <1>1, <1>4, <2>1, <2>2 DEF Matched, MatchedWith
  <2> QED
    BY <2>2
<1> QED
  BY <1>1, <1>5, <1>6 DEF IInv

(* A check that changes the frame on top, and pushes nothing. *)
LEMMA LevelStep ==
  ASSUME IInv, NEW h \in Up!Handler, NEW p \in Up!Phase, Up!Call(h, nest, p),
         p \in {"first", "top"} => nest = <<>>,
         p = "key" => nest # <<>> /\ nest[Len(nest)] = "object",
         NEW r, r.err \in CheckError \cup {"none"}, r.top \in Frame,
         r.push = <<>>, Check(r),
         r.err = "none" => IF nest = <<>> THEN r.top = NodeObj(root)
                           ELSE FrameOf(nest[Len(nest)], p, r.top)
  PROVE  IInv'
<1>1. nest \in Seq(Up!Container) /\ alive /\ Matched
  BY DEF IInv, TypeOK, Up!TypeOK, Up!Call
<1>2. r.push \in Seq(Frame) /\ Len(r.push) = 0
  BY SeqFacts
<1>3. Len(objStack) \in Nat
  BY LenProperties DEF IInv, TypeOK
<1>4. ASSUME r.err = "none", NEW s2 \in Seq(Frame),
             Len(s2) = Len(objStack) + Len(r.push),
             \A i \in 1..(Len(objStack) - 1) : s2[i] = objStack[i],
             s2[Len(objStack)] = r.top
      PROVE  MatchedWith(s2, nest, p)
  <2>1. Len(s2) = Len(objStack)
    BY <1>2, <1>3, <1>4
  <2> QED
    BY <1>1, <1>4, <2>1, SameLevel DEF Matched
<1> QED
  BY <1>1, <1>2, <1>4, CheckStep

(* The phase after a value leaves the container on top awaiting no value. *)
LEMMA CompletedPhase ==
  ASSUME NEW ns
  PROVE  /\ Up!Completed(ns) \in {"top", "after"} /\ Up!Completed(ns) \in Up!Phase
         /\ Up!Completed(ns) \in {"first", "top"} => ns = <<>>
         /\ Up!Completed(ns) # "key"
         /\ \A c, o : FrameOf(c, Up!Completed(ns), o) <=> FrameOf(c, "after", o)
BY DEF Up!Completed, Up!Phase, FrameOf

LEMMA InputSound ==
  ASSUME IInv, alive, phase = "value", NEW input \in Inputs,
         NEW r \in CheckNode(Top, input)
  PROVE  /\ r.err \in CheckError \cup {"none"} /\ r.top \in Frame
         /\ r.err # "none" => r.push = <<>>
         /\ r.err = "none" => Entered(input, r.push)
         /\ r.err = "none" => IF nest = <<>> THEN r.top = NodeObj(root)
                              ELSE FrameOf(nest[Len(nest)], "after", r.top)
<1>1. CASE nest = <<>>
  <2>1. Top = NodeObj(root) /\ Top \in NodeFrames
    BY <1>1, TopFrame
  <2> QED
    BY <1>1, <2>1, RootValue DEF Sound, Frame
<1>2. CASE nest # <<>> /\ nest[Len(nest)] = "array"
  <2>1. ElementFrame(Top)
    BY <1>2, TopFrame DEF FrameOf
  <2>2. PICK top : ElementFrame(top) /\ Sound(r, input, top)
    BY <2>1, ArrayElementOK, ArrayTrieElement DEF ElementFrame
  <2> QED
    BY <1>2, <2>2, FramesAreFrames DEF Sound, FrameOf
<1>3. CASE nest # <<>> /\ nest[Len(nest)] # "array"
  <2>1. ValueFrame(Top)
    BY <1>3, TopFrame DEF FrameOf
  <2>2. PICK top \in Frame : Sound(r, input, top) /\ (r.err = "none" => KeyFrame(top))
    BY <2>1, ObjectValue, DictValue, ObjectTrieValue DEF ValueFrame
  <2> QED
    BY <1>3, <2>2 DEF Sound, FrameOf
<1> QED
  BY <1>1, <1>2, <1>3

(* json_type_null, json_type_boolean, json_type_number, json_type_string *)
LEMMA PlainStep ==
  ASSUME IInv, NEW input \in Plains, PlainValue(input)
  PROVE  IInv'
<1>1. phase = "value" /\ alive /\ Up!Call(input.type, nest, Up!Completed(nest))
  BY DEF PlainValue, Up!Value, Up!Call
<1>2. PICK r \in CheckNode(Top, input) : Check(r)
  BY DEF PlainValue
<1>3. input \in Inputs /\ input.type \in Up!Handler
  BY PlainsAssumption DEF Inputs, Up!Handler, Up!Scalar, PlainType
<1>4. /\ r.err \in CheckError \cup {"none"} /\ r.top \in Frame
      /\ r.err # "none" => r.push = <<>>
      /\ r.err = "none" => Entered(input, r.push)
      /\ r.err = "none" => IF nest = <<>> THEN r.top = NodeObj(root)
                           ELSE FrameOf(nest[Len(nest)], "after", r.top)
  BY <1>1, <1>2, <1>3, InputSound
<1>5. r.push = <<>>
  BY <1>4 DEF Entered
<1>6. r.err = "none" => IF nest = <<>> THEN r.top = NodeObj(root)
                        ELSE FrameOf(nest[Len(nest)], Up!Completed(nest), r.top)
  BY <1>4, CompletedPhase
<1> QED
  BY <1>1, <1>2, <1>3, <1>4, <1>5, <1>6, CompletedPhase, LevelStep

(* json_type_object_start, json_type_array_start *)
LEMMA OpenStep ==
  ASSUME IInv, NEW c \in Up!Container, NEW h \in Up!Handler, Up!Start(c, h),
         NEW input \in {AnyObject, AnyArray},
         c = "object" <=> input = AnyObject,
         NEW r \in CheckNode(Top, input), Check(r)
  PROVE  IInv'
<1>1. phase = "value" /\ alive /\ Up!Call(h, Append(nest, c), "open")
  BY DEF Up!Start, Up!Call
<1>2. nest \in Seq(Up!Container) /\ Matched
  BY <1>1 DEF IInv, TypeOK, Up!TypeOK
<1>3. Append(nest, c) \in Seq(Up!Container) /\ "open" \in Up!Phase
  BY <1>2, AppendProperties DEF Up!Phase
<1>4. /\ r.err \in CheckError \cup {"none"} /\ r.top \in Frame
      /\ r.err # "none" => r.push = <<>>
      /\ r.err = "none" => Entered(input, r.push)
      /\ r.err = "none" => IF nest = <<>> THEN r.top = NodeObj(root)
                           ELSE FrameOf(nest[Len(nest)], "after", r.top)
  BY <1>1, InputSound DEF Inputs
<1>5. r.err = "none" =>
        \E f \in Frame : r.push = <<f>> /\ FrameOf(c, "open", f)
  <2>1. c = "array" <=> input = AnyArray
    BY InputKinds DEF Up!Container
  <2> QED
    BY <1>4, <2>1, FramesAreFrames DEF Entered, FrameOf, Up!Container
<1>6. r.push \in Seq(Frame)
  BY <1>4, <1>5, SeqFacts
<1>7. ASSUME r.err = "none", NEW s2 \in Seq(Frame),
             Len(s2) = Len(objStack) + Len(r.push),
             \A i \in 1..(Len(objStack) - 1) : s2[i] = objStack[i],
             s2[Len(objStack)] = r.top,
             \A i \in 1..Len(r.push) : s2[Len(objStack) + i] = r.push[i]
      PROVE  MatchedWith(s2, Append(nest, c), "open")
  <2>1. PICK f \in Frame : r.push = <<f>> /\ FrameOf(c, "open", f)
    BY <1>5, <1>7
  <2>2. Len(r.push) = 1 /\ r.push[1] = f
    BY <2>1, SeqFacts
  <2>3. Len(s2) = Len(objStack) + 1 /\ s2[Len(objStack) + 1] = f
    BY <1>7, <2>2
  <2> QED
    BY <1>2, <1>4, <1>7, <2>1, <2>3, Opened DEF Matched
<1> QED
  BY <1>1, <1>3, <1>4, <1>6, <1>7, CheckStep

(* json_type_object_key *)
LEMMA KeyStep ==
  ASSUME IInv, NEW k \in Names, ObjectKeyOf(k)
  PROVE  IInv'
<1> DEFINE r == CheckKey(Top, k)
<1>1. phase = "key" /\ alive /\ Up!Call("object_key", nest, "value") /\ Check(r)
  BY DEF ObjectKeyOf, Up!Key, Up!Call
<1>2. nest # <<>> /\ nest[Len(nest)] = "object"
  BY <1>1 DEF IInv, UpShape, Up!Inside
<1>3. KeyFrame(Top)
  BY <1>1, <1>2, TopFrame DEF FrameOf
<1>4. /\ r.err \in CheckError \cup {"none"} /\ r.push = <<>>
      /\ r.top \in Frame
      /\ r.err = "none" => ValueFrame(r.top)
  BY <1>3, KeyOK
<1> HIDE DEF r
<1>5. r.err = "none" => FrameOf(nest[Len(nest)], "value", r.top)
  BY <1>2, <1>4 DEF FrameOf
<1>6. "object_key" \in Up!Handler /\ "value" \in Up!Phase
  BY DEF Up!Handler, Up!Phase
<1> QED
  BY <1>1, <1>2, <1>4, <1>5, <1>6, LevelStep

(* json_type_object_sep, json_type_array_sep *)
LEMMA SepStep ==
  ASSUME IInv, NEW c \in Up!Container, NEW h \in Up!Handler, NEW p \in {"key", "value"},
         p = "key" <=> c = "object", Up!Sep(c, h, p), Check(CheckSep(Top))
  PROVE  IInv'
<1> DEFINE r == CheckSep(Top)
<1>1. phase = "after" /\ alive /\ Up!Call(h, nest, p) /\ nest # <<>> /\ nest[Len(nest)] = c
  BY DEF Up!Sep, Up!Call, Up!Inside
<1>2. FrameOf(c, "after", Top)
  BY <1>1, TopFrame
<1>3. FrameOf(c, p, Top) /\ Top \in Frame
  BY <1>2, FramesAreFrames DEF FrameOf, Up!Container
<1>4. r.err \in CheckError \cup {"none"} /\ r.push = <<>> /\ r.top = Top
  BY DEF CheckSep, Fail, Pass, Outcome, CheckError
<1> HIDE DEF r
<1>5. Check(r) /\ p \in Up!Phase
  BY DEF Up!Phase, r
<1> QED
  BY <1>1, <1>3, <1>4, <1>5, LevelStep

(* json_type_object_end, json_type_array_end *)
LEMMA EndStep ==
  ASSUME IInv, NEW c \in Up!Container, NEW h \in Up!Handler, EndOf(c, h)
  PROVE  IInv'
<1> DEFINE ns == SubSeq(nest, 1, Len(nest) - 1)
           p  == Up!Completed(ns)
           C  == Up!Container
           st == objStack
<1>1. /\ phase \in {"open", "after"} /\ alive /\ nest # <<>> /\ nest[Len(nest)] = c
      /\ Up!Call(h, ns, p)
  BY DEF EndOf, Up!End, Up!Call, Up!Inside
<1>2. nest \in Seq(C) /\ Matched /\ st \in Seq(Frame) /\ st # <<>>
  BY <1>1, TopFrame DEF IInv, TypeOK, Up!TypeOK
<1>3. ns \in Seq(C)
  <2> DEFINE k == Len(nest) - 1
  <2>1. 1 \in Int /\ k \in Nat /\ \A i \in 1..k : nest[i] \in C
    BY <1>1, <1>2, EmptySeq, ElementOfSeq
  <2> HIDE DEF k, C
  <2>2. SubSeq(nest, 1, k) \in Seq(C)
    BY <2>1, SubSeqProperties
  <2> QED
    BY <2>2 DEF k
<1>4. /\ p \in Up!Phase /\ p \in {"top", "after"} /\ p # "key"
      /\ p \in {"first", "top"} => ns = <<>>
  BY CompletedPhase
<1>5. Top \in Frame
  BY <1>1, TopFrame, FramesAreFrames DEF FrameOf
<1>6. CASE ArgsMissing(Top)
  <2> DEFINE r == Fail("too_few_args", Top)
  <2>1. Check(r)
    BY <1>6 DEF EndOf
  <2>2. r.err = "too_few_args" /\ r.top = Top /\ r.push = <<>>
    BY DEF Fail, Outcome
  <2> HIDE DEF r, ns, p
  <2>3. /\ r.err \in CheckError \cup {"none"} /\ r.err # "none" /\ r.top \in Frame
        /\ r.push \in Seq(Frame)
    BY <1>5, <2>2, SeqFacts DEF CheckError
  <2> QED
    BY <1>1, <1>3, <1>4, <2>1, <2>3, CheckStep
<1>7. CASE ~ArgsMissing(Top)
  <2>1. st' = SubSeq(st, 1, Len(st) - 1) /\ Answer("none")
    BY <1>7 DEF EndOf, Rest
  <2>2. /\ st' \in Seq(Frame) /\ Len(st') = Len(st) - 1
        /\ \A i \in 1..(Len(st) - 1) : st'[i] = st[i]
    <3> DEFINE k == Len(st) - 1
               F == Frame
    <3>1. 1 \in Int /\ k \in Nat /\ \A i \in 1..k : st[i] \in F
      BY <1>2, EmptySeq, ElementOfSeq
    <3> HIDE DEF k, F
    <3>2. /\ SubSeq(st, 1, k) \in Seq(F)
          /\ Len(SubSeq(st, 1, k)) = IF 1 <= k THEN k - 1 + 1 ELSE 0
          /\ \A i \in 1..(k - 1 + 1) : SubSeq(st, 1, k)[i] = st[1 + i - 1]
      BY <3>1, SubSeqProperties
    <3>3. k - 1 + 1 = k /\ \A i \in 1..k : 1 + i - 1 = i
      BY <3>1
    <3> QED
      BY <2>1, <3>1, <3>2, <3>3 DEF k, F
  <2>3. /\ Up!TypeOK' /\ UpShape' /\ (alive' => nest' = ns /\ phase' = p) /\ ev' = h
    <3>1. Up!TypeOK /\ UpShape
      BY DEF IInv, TypeOK
    <3> QED
      BY <1>1, <1>3, <1>4, <3>1, CallShape DEF Up!Call
  <2>4. root' = root /\ err' = "none" /\ sent' = h /\ canceled' \in BOOLEAN
    BY <2>1, <2>3 DEF Answer
  <2>5. TypeOK'
    BY <2>2, <2>3, <2>4 DEF IInv, TypeOK
  <2>6. MatchedWith(st', ns, p)
    BY <1>1, <1>2, <1>4, <2>2, Ended DEF Matched
  <2>7. alive' => Matched'
    BY <2>3, <2>4, <2>6 DEF Matched, MatchedWith
  <2> QED
    BY <2>3, <2>5, <2>7 DEF IInv
<1> QED
  BY <1>6, <1>7

(* The text goes on with another value: only the root node is on the stack. *)
LEMMA ValueSepStep ==
  ASSUME IInv, ValueSep
  PROVE  IInv'
<1>1. phase = "top" /\ alive /\ Up!Call("value_sep", nest, "value") /\ nest = <<>>
  BY DEF ValueSep, Up!ValueSep, Up!Call, IInv, UpShape
<1>2. /\ Up!TypeOK' /\ UpShape' /\ (alive' => nest' = nest /\ phase' = "value")
      /\ ev' = "value_sep"
  <2>1. Up!TypeOK /\ UpShape
    BY DEF IInv, TypeOK
  <2>2. "value_sep" \in Up!Handler /\ "value" \in Up!Phase
    BY DEF Up!Handler, Up!Phase
  <2> QED
    BY <1>1, <2>1, <2>2, CallShape DEF Up!Call, Up!TypeOK
<1>3. root' = root /\ err' = "none" /\ sent' = "value_sep" /\ canceled' \in BOOLEAN
      /\ UNCHANGED objStack
  BY <1>2 DEF ValueSep, Answer
<1>4. TypeOK'
  BY <1>2, <1>3 DEF IInv, TypeOK, Up!Handler
<1>5. Matched /\ Len(nest) = 0
  BY <1>1 DEF IInv
<1>6. alive' => Matched'
  BY <1>2, <1>3, <1>5 DEF Matched, MatchedWith
<1> QED
  BY <1>2, <1>4, <1>6 DEF IInv

(* The parser commits itself: no value is awaited that was not before, but *)
(* an element of an array or the value of the whole text.                  *)
LEMMA CommitStep ==
  ASSUME IInv, Commit
  PROVE  IInv'
<1>1. /\ alive /\ Matched /\ UNCHANGED <<root, objStack, err, canceled, sent>>
      /\ UNCHANGED <<nest, ev, alive>>
  BY DEF Commit, Up!Commit, IInv
<1>2. Up!TypeOK' /\ UpShape'
  BY <1>1 DEF Commit, Up!Commit, Up!Inside, IInv, TypeOK, UpShape, Up!TypeOK, Up!Phase
<1>3. TypeOK'
  BY <1>1, <1>2 DEF IInv, TypeOK
<1>4. \/ nest = <<>>
      \/ nest # <<>> /\ nest[Len(nest)] = "array"
      \/ phase = "open" /\ phase' = "key"
  BY DEF Commit, Up!Commit, Up!Inside, IInv, UpShape
<1>5. nest \in Seq(Up!Container)
  BY DEF IInv, TypeOK, Up!TypeOK
<1>6. \A i \in 1..Len(nest) :
        FrameOf(nest[i], PhaseIn(nest, phase, i), objStack[i + 1])
        => FrameOf(nest[i], PhaseIn(nest, phase', i), objStack[i + 1])
  <2>1. CASE nest = <<>>
    BY <2>1, EmptySeq
  <2>2. CASE nest # <<>> /\ nest[Len(nest)] = "array"
    BY <2>2 DEF FrameOf, PhaseIn
  <2>3. CASE phase = "open" /\ phase' = "key"
    BY <2>3 DEF FrameOf, PhaseIn
  <2> QED
    BY <1>4, <2>1, <2>2, <2>3
<1>7. Matched'
  BY <1>1, <1>6 DEF Matched, MatchedWith, PhaseIn, NodeObj
<1> QED
  BY <1>2, <1>3, <1>7 DEF IInv

(* The end of the parser, and json_type_parse_done. *)
LEMMA StopStep ==
  ASSUME IInv, Stop \/ ParseDone
  PROVE  IInv'
<1>1. /\ alive /\ alive' = FALSE /\ UNCHANGED <<nest, phase, ev>>
      /\ UNCHANGED <<root, err, canceled, sent>>
      /\ objStack' \in {objStack, Rest}
  BY DEF Stop, ParseDone, Up!Stop
<1>2. Rest \in Seq(Frame)
  <2> DEFINE k == Len(objStack) - 1
             F == Frame
  <2>1. 1 \in Int /\ k \in Nat /\ \A i \in 1..k : objStack[i] \in F
    BY <1>1, TopFrame, EmptySeq, ElementOfSeq DEF IInv, TypeOK
  <2> HIDE DEF k, F
  <2>2. SubSeq(objStack, 1, k) \in Seq(F)
    BY <2>1, SubSeqProperties
  <2> QED
    BY <2>2 DEF k, F, Rest
<1> QED
  BY <1>1, <1>2 DEF IInv, TypeOK, UpShape, Up!TypeOK, Up!Inside

-----------------------------------------------------------------------------
(* The theorem.                                                            *)

LEMMA InitInv == Init => IInv
<1> SUFFICES ASSUME Init PROVE IInv
  OBVIOUS
<1>1. NodeObj(root) \in NodeFrames /\ NodeObj(root) \in Frame
  BY DEF Init, NodeObj, NodeFrames, Frame
<1>2. /\ objStack \in Seq(Frame) /\ Len(objStack) = 1 /\ objStack[1] = NodeObj(root)
  BY <1>1, SeqFacts DEF Init
<1>3. nest = <<>> /\ nest \in Seq(Up!Container) /\ Len(nest) = 0
  BY DEF Init, Up!Init
<1>4. Up!TypeOK /\ UpShape
  BY <1>3 DEF Init, Up!Init, Up!TypeOK, UpShape, Up!Phase
<1>5. Matched
  BY <1>2, <1>3 DEF Matched, MatchedWith
<1> QED
  BY <1>2, <1>4, <1>5 DEF Init, IInv, TypeOK

LEMMA StepInv == IInv /\ [Next]_vars => IInv'
<1> SUFFICES ASSUME IInv, [Next]_vars PROVE IInv'
  OBVIOUS
<1>1. /\ {"object", "array"} = Up!Container
      /\ { "object_start", "array_start", "object_end", "array_end",
           "object_sep", "array_sep" } \subseteq Up!Handler
  BY DEF Up!Container, Up!Handler
<1>2. ASSUME NEW p \in Plains, PlainValue(p) PROVE IInv'
  BY <1>2, PlainStep
<1>3. CASE ObjectStart
  BY <1>1, <1>3, OpenStep DEF ObjectStart
<1>4. CASE ArrayStart
  BY <1>1, <1>4, OpenStep, InputKinds DEF ArrayStart
<1>5. ASSUME NEW k \in Names, ObjectKeyOf(k) PROVE IInv'
  BY <1>5, KeyStep
<1>6. CASE ObjectSep
  BY <1>1, <1>6, SepStep DEF ObjectSep
<1>7. CASE ArraySep
  BY <1>1, <1>7, SepStep DEF ArraySep
<1>8. CASE EndOf("object", "object_end") \/ EndOf("array", "array_end")
  BY <1>1, <1>8, EndStep
<1>9. CASE ValueSep
  BY <1>9, ValueSepStep
<1>10. CASE Commit
  BY <1>10, CommitStep
<1>11. CASE Stop \/ ParseDone
  BY <1>11, StopStep
<1>12. CASE UNCHANGED vars
  BY <1>12 DEF vars, IInv, TypeOK, UpShape, Matched, MatchedWith, PhaseIn,
               Up!TypeOK, Up!Inside, NodeObj
<1> QED
  BY <1>2, <1>3, <1>4, <1>5, <1>6, <1>7, <1>8, <1>9, <1>10, <1>11, <1>12 DEF Next

(* What the invariant says of a frame is what the handlers ask of it.      *)
LEMMA FramesAsked ==
  ASSUME NEW o
  PROVE  /\ KeyFrame(o) => IsObjectArgs(o) /\ AwaitsKey(o)
         /\ ValueFrame(o) => IsObjectArgs(o) /\ AwaitsValue(o)
         /\ ElementFrame(o) => IsArrayArgs(o)
<1>1. ASSUME KeyFrame(o) PROVE IsObjectArgs(o) /\ AwaitsKey(o)
  <2>1. CASE o \in ObjectFrames \cup DictFrames /\ o.n_arg % 2 = 0
    BY <2>1 DEF ObjectFrames, DictFrames, IsObjectArgs, AwaitsKey
  <2>2. CASE o \in ObjectTrieFrames /\ \A s \in o.trie : Keyed(s)
    <3>1. \A s \in Heads(o.trie) : s.node = "name"
      BY <2>2, TailKeyed DEF Heads, IsName
    <3> QED
      BY <2>2, <3>1 DEF ObjectTrieFrames, IsObjectArgs, AwaitsKey
  <2> QED
    BY <1>1, <2>1, <2>2 DEF KeyFrame
<1>2. ASSUME ValueFrame(o) PROVE IsObjectArgs(o) /\ AwaitsValue(o)
  <2>1. CASE o \in ObjectFrames /\ o.n_arg % 2 = 1
    BY <2>1 DEF ObjectFrames, IsObjectArgs, AwaitsValue
  <2>2. CASE o \in DictFrames /\ o.n_arg % 2 = 1 /\ o.last \in DOMAIN o.node.args \ o.args
    BY <2>2 DEF DictFrames, IsObjectArgs, AwaitsValue
  <2>3. CASE o \in ObjectTrieFrames /\ \A s \in o.trie : Valued(s)
    <3>1. <<>> \notin o.trie
      BY <2>3, TailValued
    <3>2. \A s \in Heads(o.trie) : s.node # "name"
      BY <2>3, TailValued, NodeIsNoName DEF Heads
    <3> QED
      BY <2>3, <3>1, <3>2 DEF ObjectTrieFrames, IsObjectArgs, AwaitsValue, HasNullSib
  <2> QED
    BY <1>2, <2>1, <2>2, <2>3 DEF ValueFrame
<1>3. ASSUME ElementFrame(o) PROVE IsArrayArgs(o)
  BY <1>3, FramesAreFrames DEF IsArrayArgs
<1> QED
  BY <1>1, <1>2, <1>3

(***************************************************************************)
(* However the parser's calls and the types go together, obj_stack holds   *)
(* one frame for each open container over the root node, each of its kind  *)
(* and awaiting a name or a value exactly when the parser will call for    *)
(* one: no ENSURE on the type of the top of the stack ever fails.          *)
(***************************************************************************)
THEOREM FramesMatchCallsCorrect == Spec => []FramesMatchCalls
<1>1. IInv => FramesMatchCalls
  <2> SUFFICES ASSUME IInv PROVE FramesMatchCalls
    OBVIOUS
  <2>1. TypeOK
    BY DEF IInv
  <2>2. ASSUME alive
        PROVE  /\ Len(objStack) = Len(nest) + 1
               /\ objStack[1] = NodeObj(root)
               /\ \A i \in DOMAIN nest :
                    LET o == objStack[i + 1]
                    IN  IF nest[i] = "array" THEN IsArrayArgs(o)
                        ELSE /\ IsObjectArgs(o)
                             /\ IF i = Len(nest) /\ phase = "value" THEN AwaitsValue(o)
                                ELSE AwaitsKey(o)
    <3>1. Matched
      BY <2>2 DEF IInv
    <3>2. DOMAIN nest = 1..Len(nest)
      BY LenProperties DEF IInv, TypeOK, Up!TypeOK
    <3>3. ASSUME NEW i \in 1..Len(nest)
          PROVE  LET o == objStack[i + 1]
                 IN  IF nest[i] = "array" THEN IsArrayArgs(o)
                     ELSE /\ IsObjectArgs(o)
                          /\ IF i = Len(nest) /\ phase = "value" THEN AwaitsValue(o)
                             ELSE AwaitsKey(o)
      BY <3>1, FramesAsked DEF Matched, MatchedWith, PhaseIn, FrameOf
    <3> QED
      BY <3>1, <3>2, <3>3 DEF Matched, MatchedWith
  <2> QED
    BY <2>1, <2>2 DEF FramesMatchCalls
<1> QED
  BY <1>1, InitInv, StepInv, PTL DEF Spec
=============================================================================
