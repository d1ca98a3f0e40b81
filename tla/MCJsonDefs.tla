----------------------------- MODULE MCJsonDefs -----------------------------
(***************************************************************************)
(* JsonDefs on five libraries, as their texts are built, and as a shared   *)
(* object may hold them: with every one of their pointers in turn NULL or  *)
(* pointing to another object of its type, with a name twice, and lying in *)
(* memory in three orders; on one that has no types, and on none.          *)
(***************************************************************************)
EXTENDS JsonDefs
LOCAL INSTANCE SequencesExt

O(kind, ptr, data) == [kind |-> kind, ptr |-> ptr, data |-> data]
AnyType(type) == O("any", <<>>, <<type>>)
Cell(sym, lo, eq, hi) == O("cell", <<sym, lo, eq, hi>>, <<>>)
ObjCell(data, sym, lo, eq, hi) == O("objcell", <<sym, lo, eq, hi>>, data)
DictCell(data, lo, eq, hi) == O("dictcell", <<0, lo, eq, hi>>, data)

\* {"a": number, "b": [string...]}
AnObject == <<AnyType("number"), AnyType("string"), O("open", <<2>>, <<>>),
              O("args", <<1, 3>>, <<"a", "b">>), O("object", <<4>>, <<>>)>>

\* A list of a type and of an object, in an array.
AList == <<AnyType("number"), AnyType("null"), O("args", <<2>>, <<"x">>),
           O("object", <<3>>, <<>>), O("array", <<1, 4, 0>>, <<>>),
           O("list", <<5, 8>>, <<>>), O("open", <<6>>, <<>>),
           O("attrs", <<9, 0, 12, 0, 0>>, <<>>),
           O("trie", <<10>>, <<>>), Cell(1, 0, 11, 0), Cell(0, 0, 1, 0),
           O("trie", <<13>>, <<>>), ObjCell(<<"name", "x">>, 0, 0, 14, 0),
           ObjCell(<<"node">>, 2, 0, 15, 0), ObjCell(<<"null">>, 0, 0, 4, 0)>>

\* Two types with names: a dict, and an array of one element.
SomeDefs == <<AnyType("number"), AnyType("null"), O("args", <<1, 2>>, <<"f", "b">>),
              O("dict", <<3, 10>>, <<>>), AnyType("string"), O("array", <<5, 0>>, <<>>),
              O("closed", <<6>>, <<>>), O("args", <<4, 7>>, <<"m", "n">>),
              O("defs", <<8>>, <<>>),
              O("trie", <<11>>, <<>>), DictCell(<<"f">>, 12, 13, 0),
              DictCell(<<"b">>, 0, 14, 0), DictCell(<<"null", "0">>, 0, 0, 0),
              DictCell(<<"null", "1">>, 0, 0, 0)>>

\* A list of two values and of two arrays.
AListOfArrays ==
  <<O("plain", <<>>, <<"true">>), O("plain", <<>>, <<"12">>), AnyType("null"),
    O("open", <<3>>, <<>>), AnyType("string"), O("array", <<5, 0>>, <<>>),
    O("closed", <<6>>, <<>>), O("array", <<1, 2, 4, 7, 0>>, <<>>),
    O("list", <<8, 10>>, <<>>), O("attrs", <<0, 11, 0, 16, 19>>, <<>>),
    O("trie", <<12>>, <<>>), Cell(1, 0, 13, 14), Cell(0, 0, 1, 0),
    Cell(2, 0, 15, 0), Cell(0, 0, 2, 0),
    O("trie", <<17>>, <<>>), Cell(3, 0, 18, 0), Cell(0, 0, 4, 0),
    O("trie", <<20>>, <<>>), Cell(5, 0, 21, 0), Cell(0, 0, 7, 0)>>

\* [{}, string, a dict of nothing]
WithEmpties == <<O("args", <<>>, <<>>), O("object", <<1>>, <<>>), AnyType("string"),
                 O("args", <<>>, <<>>), O("dict", <<4, 8>>, <<>>),
                 O("array", <<2, 3, 5, 0>>, <<>>), O("closed", <<6>>, <<>>),
                 O("trie", <<0>>, <<>>)>>

Made == {<<AnObject, 5>>, <<AList, 7>>, <<SomeDefs, 9>>, <<AListOfArrays, 9>>,
         <<WithEmpties, 7>>}

\* A library of no types, which no text is of.
NoTypes == <<O("args", <<>>, <<>>), O("defs", <<1>>, <<>>)>>

\* What may be pointed to in place of an object, the types of C being kept.
Class(h, id) ==
  IF h[id].kind \in NodeKinds THEN <<"node">>
  ELSE IF h[id].kind = "trie" /\ h[id].ptr[1] # 0
    THEN <<"trie", h[h[id].ptr[1]].kind>>
  ELSE <<h[id].kind>>

Damaged(h) ==
  LET fields == {f \in (DOMAIN h) \X (1 .. 5) : f[2] \in DOMAIN h[f[1]].ptr}
      target(f) == h[f[1]].ptr[f[2]]
      others(f) ==
        IF target(f) # 0
          THEN {0} \cup {id \in DOMAIN h : Class(h, id) = Class(h, target(f))}
        ELSE IF h[f[1]].kind \in Cells /\ f[2] \in {2, 4}
          THEN {id \in DOMAIN h : h[id].kind = h[f[1]].kind}
        ELSE {}
  IN  {[h EXCEPT ![f[1]].ptr[f[2]] = id] :
         <<f, id>> \in {p \in fields \X (0 .. Len(h)) : p[2] \in others(p[1])}}

SameName(h) ==
  {[h EXCEPT ![id].data[2] = h[id].data[1]] :
     id \in {i \in DOMAIN h : h[i].kind = "args" /\ Len(h[i].data) = 2}}

Orders(n) == {[i \in 1 .. n |-> i], [i \in 1 .. n |-> n + 1 - i],
              [i \in 1 .. n |-> 1 + ((i * 5) % 23)]}

Apart == {l \in UNION {[heap : {m[1]} \cup Damaged(m[1]) \cup SameName(m[1]),
                         root : {m[2]}, at : Orders(Len(m[1])),
                         origin : {"sobj"}] : m \in Made} :
            IsTyped(l.heap, l.root)}

OfTexts ==
  {[heap |-> m[1], root |-> m[2], at |-> Allocated(m[1]), origin |-> "text"] :
     m \in Made}

MCLibraries ==
  OfTexts \cup Apart
  \cup {[heap |-> NoTypes, root |-> 2, at |-> Allocated(NoTypes), origin |-> "sobj"]}
  \cup {[heap |-> AnObject, root |-> 0, at |-> Allocated(AnObject), origin |-> "sobj"]}
=============================================================================
