---------------------------- MODULE JsonGrammar -----------------------------
(***************************************************************************)
(* The grammar of lib/json.g over the tokens of lib/json.c, as sets of     *)
(* token sequences by length: what derives from "value", from a list of    *)
(* elements, from a list of members, and what is a prefix of such a word.  *)
(* It is the reference the parser is compared with; it knows nothing of    *)
(* stacks and states.                                                      *)
(***************************************************************************)
EXTENDS Naturals, Sequences

CONSTANT GLiteral   \* the literal tokens, "string" among them

Joined(A, sep, B) == { a \o sep \o b : a \in A, b \in B }

Bracketed(open, body, close) == { open \o b \o close : b \in body }

MemberHead == {<<"string", "colon">>}

(* The classes of the words of n tokens, where w[i] has those of the words *)
(* of i - 1 tokens: the sequences of the form A sep B, for instance, are   *)
(* made of the words of class A of some length and of the rest.            *)
WordsOf(n, w) ==
  LET Of(class, i) == IF i < 0 THEN {} ELSE w[i + 1][class]
      Body(class)  == IF n = 2 THEN {<<>>} ELSE Of(class, n - 2)
      value ==
        IF n = 1 THEN { <<t>> : t \in GLiteral }
        ELSE Bracketed(<<"left_sqbrk">>, Body("elements"), <<"right_sqbrk">>) \cup
             Bracketed(<<"left_cbrace">>, Body("members"), <<"right_cbrace">>)
      List(class, m) ==     \* value "," class, in m tokens
        UNION { Joined(Of("value", i), <<"comma">>, Of(class, m - 1 - i)) :
                  i \in 1..(m - 1) }
      Member(class) == Joined(MemberHead, <<>>, Of(class, n - 2))
      Members(class) == Joined(MemberHead, <<>>, List(class, n - 2))
      preValue ==
        value \cup Bracketed(<<"left_sqbrk">>, Of("preElements", n - 1), <<>>)
              \cup Bracketed(<<"left_cbrace">>, Of("preMembers", n - 1), <<>>)
  IN [ value       |-> value,
       elements    |-> value \cup List("elements", n),
       members     |-> Member("value") \cup Members("members"),
       preValue    |-> preValue,
       preElements |-> preValue \cup List("preElements", n),
       preMembers  |-> (IF n = 1 THEN {<<"string">>} ELSE {}) \cup
                       Member("preValue") \cup Members("preMembers") ]

NoWords == [ value |-> {}, elements |-> {}, members |-> {}, preValue |-> {<<>>},
             preElements |-> {<<>>}, preMembers |-> {<<>>} ]

RECURSIVE WordsUpTo(_, _)
WordsUpTo(max, w) ==
  IF Len(w) > max THEN w
  ELSE WordsUpTo(max, Append(w, WordsOf(Len(w), w)))

Words(max) == WordsUpTo(max, <<NoWords>>)

(* The texts, and the prefixes of texts: values one after the other, none  *)
(* of them a bare literal unless literals are allowed.                     *)
TextsOf(n, w, t, literals, multi) ==
  LET Top(i, class) ==
        { x \in w[i + 1][class] : literals \/ i # 1 \/ x[1] \notin GLiteral }
      More(part) ==
        IF ~multi THEN {}
        ELSE UNION { Joined(Top(i, "value"), <<>>, t[n - i + 1][part]) :
                       i \in 1..(n - 1) }
  IN  [ whole  |-> Top(n, "value") \cup More("whole"),
        prefix |-> Top(n, "preValue") \cup More("prefix") ]

RECURSIVE TextsUpTo(_, _, _, _)
TextsUpTo(w, t, literals, multi) ==
  IF Len(t) = Len(w) THEN t
  ELSE TextsUpTo(w, Append(t, TextsOf(Len(t), w, t, literals, multi)),
                 literals, multi)

(* Texts(max, ..)[n + 1]: the texts of n tokens and the prefixes of texts. *)
Texts(max, literals, multi) ==
  TextsUpTo(Words(max), <<[whole |-> {<<>>}, prefix |-> {<<>>}]>>, literals, multi)
=============================================================================
