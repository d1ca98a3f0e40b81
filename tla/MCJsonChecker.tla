---------------------------- MODULE MCJsonChecker ----------------------------
(***************************************************************************)
(* The checker of JsonChecker, given whole values of a small set one after *)
(* the other: what it answers is compared with what the types mean.        *)
(***************************************************************************)
EXTENDS JsonChecker

CONSTANTS
  Words,     \* the names and the plain values, in increasing order
  Values(_)  \* the values of a text, for each type

VARIABLES
  value,  \* the value the parser is reading
  pos     \* how many of the calls it makes for it have been made

S   == INSTANCE JsonTypeSpec
Lib == INSTANCE JsonTypeLib

mcVars == <<vars, value, pos>>

CallsOf(v) == S!Calls(v)
Current == CallsOf(value)[pos + 1]
AtEnd   == pos = Len(CallsOf(value))

-----------------------------------------------------------------------------
MCInit ==
  /\ Init
  /\ value \in Values(root) /\ pos = 0

(* The handler of the checker that the parser calls next. *)
Handle(c) ==
  \/ c.func \in PlainType /\ PlainValue(c.arg)
  \/ c.func = "object_start" /\ ObjectStart
  \/ c.func = "array_start"  /\ ArrayStart
  \/ c.func = "object_key"   /\ ObjectKeyOf(c.arg)
  \/ c.func = "object_sep"   /\ ObjectSep
  \/ c.func = "array_sep"    /\ ArraySep
  \/ c.func = "object_end"   /\ EndOf("object", "object_end")
  \/ c.func = "array_end"    /\ EndOf("array", "array_end")

Read ==
  /\ ~AtEnd
  /\ Handle(Current)
  /\ pos' = pos + 1
  /\ UNCHANGED value

Prepare ==
  /\ ~AtEnd
  /\ Current.func \notin {"object_end", "array_end"}
  /\ Commit
  /\ UNCHANGED <<value, pos>>

NextValue ==
  /\ AtEnd
  /\ ValueSep
  /\ value' \in Values(root) /\ pos' = 0

EndOfText ==
  /\ AtEnd
  /\ ParseDone
  /\ UNCHANGED <<value, pos>>

ParserStops ==
  /\ Stop
  /\ UNCHANGED <<value, pos>>

MCNext == Read \/ Prepare \/ NextValue \/ EndOfText \/ ParserStops

MCSpec == MCInit /\ [][MCNext]_mcVars

-----------------------------------------------------------------------------
(* The checker never refuses a value that matches the type, and a value    *)
(* it has let through to its end matches (doc/type-spec.txt, M1 to M3):    *)
(* whatever the frames and tries went through on the way.                  *)
AcceptsMatching == err # "none" => ~S!Matches(value, root)

RejectsOthers == alive /\ AtEnd => S!Matches(value, root)

-----------------------------------------------------------------------------
(* Small instances.                                                        *)
One  == Plain("number", "1")
Word == Plain("string", "w")
MCPlains == {One, Word}
MCNames  == {"a", "b"}
MCWords  == <<"", "1", "a", "b", "w">>

Numbers == Open(Any("number"))
ObjectA(t) == Object(<<Arg("a", t)>>)

Simple ==
  { Any("type"), Any("number"), Any("object"), Any("array"), One,
    ObjectA(Any("number")), ObjectA(Word),
    Object(<<Arg("a", Any("number")), Arg("b", Any("type"))>>),
    Open(Any("type")), Numbers, Open(One), Open(ObjectA(One)), Open(Numbers),
    Closed(<<>>), Closed(<<Any("number")>>), Closed(<<Any("type")>>),
    Closed(<<One, Word>>), Closed(<<Any("string"), Any("type")>>),
    Closed(<<Any("type"), Any("number")>>),
    Closed(<<ObjectA(One), One>>), Closed(<<Any("number"), ObjectA(One)>>),
    Closed(<<Any("number"), Word, One>>) }

Lists == { List(<<>>) } \cup { List(<<x>>) : x \in Simple }
         \cup { List(<<x, y>>) : x, y \in Simple }

Leaf   == {One, Word}
Level1 == Leaf \cup { S!ArrayOf(<<>>), S!ArrayOf(<<One>>), S!ArrayOf(<<Word>>),
                      S!ObjectOf(<<>>), S!ObjectOf(<<S!Member("a", One)>>),
                      S!ObjectOf(<<S!Member("a", Word)>>),
                      S!ObjectOf(<<S!Member("b", One)>>) }
Level2 ==
  { S!ArrayOf(<<x>>) : x \in Level1 } \cup
  { S!ArrayOf(<<x, y>>) : x, y \in Level1 } \cup
  { S!ArrayOf(<<x, y, z>>) : x \in {One, S!ArrayOf(<<>>)}, y, z \in Leaf } \cup
  { S!ObjectOf(<<S!Member("a", x)>>) : x \in Level1 } \cup
  { S!ObjectOf(<<S!Member(k, x), S!Member(l, y)>>) :
      k, l \in MCNames, x \in Level1, y \in Leaf }
ListValues == Level1 \cup Level2

NestedValues ==
  ListValues \cup
  { S!ObjectOf(<<S!Member("a", x), S!Member(k, y)>>) :
      k \in MCNames, x \in Level1, y \in Level1 \ Leaf } \cup
  { S!ObjectOf(<<S!Member("a", One), S!Member("b", One), S!Member("a", One)>>) } \cup
  { S!ArrayOf(<<S!ObjectOf(<<S!Member("b", Word), S!Member(k, One)>>)>>) :
      k \in MCNames }

(* An open array of objects or of arrays beside a closed array that begins *)
(* with any value at all.                                                  *)
TypeBesideOpen(list) ==
  /\ \E a \in OpenArrayTrie(list) :
       Head(a) \in {AnyObject, AnyArray} \/ Head(a).node = "object" \/ IsArray(Head(a))
  /\ Any("type") \in Heads(ClosedArrayTrie(list))

(* Types of lists and dicts in one another, and of longer lists. *)
Pair == List(<<Any("number"), Numbers, ObjectA(Any("array"))>>)
Dict2(x, y) == Dict(<<Arg("a", x), Arg("b", y)>>)
NestedTypes ==
  { Dict(<<>>), Object(<<>>), ObjectA(Pair), Open(Pair), Closed(<<Pair, Pair>>),
    Dict2(Pair, Any("number")), Dict2(Any("type"), One),
    Object(<<Arg("a", Dict2(One, One)), Arg("b", One)>>),
    Object(<<Arg("a", Pair), Arg("a", Word)>>),
    Open(Dict2(One, Word)), Closed(<<Dict2(One, One), Numbers>>),
    List(<<ObjectA(One), Object(<<Arg("a", One), Arg("b", One)>>), Object(<<>>)>>),
    List(<<ObjectA(Numbers), Object(<<Arg("a", Any("object")), Arg("b", Word)>>),
           Object(<<Arg("b", Any("type"))>>)>>),
    List(<<Numbers, Open(Any("string")), Closed(<<Any("array"), Any("array")>>),
           Closed(<<Any("array"), One>>)>>),
    List(<<Closed(<<One, One, Word>>), Open(One), Closed(<<One, Word>>), Word>>),
    Object(<<Arg("a", List(<<Any("null"), Open(Numbers)>>)), Arg("b", Any("number"))>>),
    Any("type"), Any("object"), Any("array"), Word }

ListTypes == { t \in Lists : Lib!Accepted(t) /\ ~TypeBesideOpen(t) }

MCTypes == ListTypes \cup NestedTypes

MCValues(t) == IF t \in NestedTypes THEN NestedValues ELSE ListValues

OpenBesideType ==
  { List(<<Open(ObjectA(One)), Closed(<<Any("type"), Any("number")>>)>>),
    List(<<Closed(<<Any("type"), Any("number")>>), Open(Numbers)>>) }

DictsInLists ==
  { List(<<Open(Dict2(One, Word))>>), List(<<ObjectA(Dict(<<>>)), One>>) }

(* The nodes a type is made of, itself included. *)
PartsOf(t) ==
  CASE t.node \in {"object", "dict"} -> { t.args[i].type : i \in DOMAIN t.args }
    [] t.node = "open"               -> {t.arg}
    [] t.node \in {"closed", "list"} -> { t.args[i] : i \in DOMAIN t.args }
    [] OTHER                         -> {}

RECURSIVE NodesOf(_)
NodesOf(t) == {t} \cup UNION { NodesOf(p) : p \in PartsOf(t) }

MCNodes == UNION { NodesOf(t) : t \in Types }

(* The checker is only ever given types that the library accepts. *)
ASSUME TypesAccepted == \A t \in Types : Lib!Accepted(t)
=============================================================================
