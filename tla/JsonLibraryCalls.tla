-------------------------- MODULE JsonLibraryCalls --------------------------
(***************************************************************************)
(* The life of a type library (lib/json-type.c): a client gives it the     *)
(* text of a type, or has it load a shared object, and then has the type   *)
(* validated, printed, checked or turned into definitions, in any order.   *)
(*                                                                         *)
(* A call is one step: the library is sequential and never calls back.     *)
(* The pieces in which a text comes are abstracted to the one that ends    *)
(* it: what the parser does with the others is the concern of JsonParser.  *)
(* What the ruler and the checks of attributes make of a text is part of   *)
(* the source here; JsonLibrary has it worked out by them.                 *)
(***************************************************************************)
EXTENDS Naturals, Sequences

CONSTANT Names  \* the names a client may load a definition by, and "none"

VARIABLES
  source,  \* what the client has: a text or a shared object
  lib,     \* json_type_lib_t, with its text_impl or its sobj_impl
  answer,  \* the last call and what it answered
  early    \* history: the client asked before there was a text

libVars == <<source, lib, answer, early>>

NoDef == [obj |-> "none"]

(***************************************************************************)
(* A text that is JSON is refused by the ruler, or has a definition, which *)
(* may not be sound; good says whether its attributes pass the checks.  A  *)
(* shared object fails to load, or has a definition that may be wrong.     *)
(***************************************************************************)
IsSource(s) == s.kind = "text" \/ (s.kind = "sobj" /\ (s.err = "none" => s.def # NoDef))

(* json_type_lib_init_base, and json_type_lib_sobj_load for a shared object *)
NewText == [impl |-> "text", stat |-> "ok", error |-> "none", ast |-> "none",
            doneParse |-> FALSE, doneBuild |-> FALSE, def |-> NoDef, flat |-> FALSE]

Fail(l, e) == [l EXCEPT !.error = e, !.stat = "error"]

NewSobj(s) ==
  LET l == [NewText EXCEPT !.impl = "sobj"]
  IN  IF s.err # "none" THEN Fail(l, "lib") ELSE [l EXCEPT !.def = s.def]

New(s) == IF s.kind = "text" THEN NewText ELSE NewSobj(s)

LibraryInit ==
  /\ IsSource(source) /\ lib = New(source)
  /\ answer = [call |-> "none", yes |-> TRUE] /\ early = FALSE

-----------------------------------------------------------------------------
(* The parsing of a text.  The tree is "open" until the text is whole, and *)
(* is the "root" when json_ast_parse_done has accepted it.  The parser     *)
(* takes one value: a second one is an error, blanks are not.              *)

Piece == {"blank", "text"}

(* Deviation: the status is not asked *)
TextParseAnyway(l, piece) ==
  LET m == IF l.ast = "none" THEN [l EXCEPT !.ast = "open"] ELSE l
  IN  IF piece = "blank" THEN m
      ELSE IF m.ast = "open" /\ source.json THEN [m EXCEPT !.ast = "whole"]
      ELSE Fail(m, "ast")

(* json_type_lib_text_do_parse *)
TextParse(l, piece) ==
  LET m == IF l.ast = "none" THEN [l EXCEPT !.ast = "open"] ELSE l
  IN  IF l.stat # "ok" \/ piece = "blank" THEN m
      ELSE IF m.ast = "open" /\ source.json THEN [m EXCEPT !.ast = "whole"]
      ELSE Fail(m, "ast")

(* json_type_lib_text_do_parse_done *)
TextParseDone(l) ==
  LET m == IF l.ast = "none" \/ l.stat # "ok" THEN l
           ELSE IF l.ast = "whole" THEN [l EXCEPT !.ast = "root"]
           ELSE Fail(l, "ast")
  IN  IF l.doneParse THEN l ELSE [m EXCEPT !.doneParse = TRUE]

-----------------------------------------------------------------------------
(* The building of a type.                                                 *)

(***************************************************************************)
(* json_type_lib_text_validate_base: where there is no tree nothing is     *)
(* asked, and no error tells so.  A tree without its root, parsed after    *)
(* the client has said that the text is done, ends the process: the ruler  *)
(* visits NULL.                                                            *)
(***************************************************************************)
HasTree(l) == l.stat = "ok" /\ l.doneParse /\ l.ast # "none"

(* Deviation: the status does not tell that the type was refused *)
TextValidateBaseOnce(l) ==
  IF ~HasTree(l) THEN l
  ELSE IF l.ast # "root" THEN Fail(l, "crash")
  ELSE [l EXCEPT !.error = IF source.refused THEN "meta" ELSE "none"]

TextValidateBase(l) ==
  IF ~HasTree(l) THEN l
  ELSE IF l.ast # "root" THEN Fail(l, "crash")
  ELSE IF source.refused THEN Fail(l, "meta")
  ELSE [l EXCEPT !.error = "none"]

IsValid(l) == HasTree(l) /\ TextValidateBase(l).error = "none"

(* json_type_lib_text_build: what was not built the first time never is.   *)
TextBuild(l) ==
  LET m == IF ~IsValid(l) THEN TextValidateBase(l)
           ELSE IF source.def = NoDef THEN Fail(l, "fault")
           ELSE IF source.sound THEN [l EXCEPT !.def = source.def]
           ELSE Fail(l, "attr")
  IN  IF l.error # "none" \/ l.doneBuild THEN l ELSE [m EXCEPT !.doneBuild = TRUE]

(* json_type_lib_build, and the pointer that it answers *)
Build(l)   == IF l.impl = "text" THEN TextBuild(l) ELSE l
Def(l)     == IF l.error = "none" THEN l.def ELSE NoDef
IsBuilt(l) == Def(l) # NoDef

CheckAttrs(l) ==
  IF IsBuilt(l) /\ ~source.good[l.flat] THEN Fail(l, "attr") ELSE l

-----------------------------------------------------------------------------
(* The calls.                                                              *)

Answers(c, l, yes) == lib' = l /\ answer' = [call |-> c, yes |-> yes] /\ UNCHANGED source

(* json_type_lib_parse, json_type_lib_parse_done: not for a shared object  *)
Parse(piece) ==
  LET l == IF lib.impl = "text" THEN TextParse(lib, piece) ELSE Fail(lib, "oper")
  IN  Answers("parse", l, l.stat = "ok")

ParseDone ==
  LET l == IF lib.impl = "text" THEN TextParseDone(lib) ELSE Fail(lib, "oper")
  IN  Answers("parse_done", l, l.stat = "ok")

(* json_type_lib_validate; json_type_lib_sobj_validate has the definitions *)
(* of a shared object validated.                                           *)
Validate ==
  IF lib.impl = "text"
  THEN Answers("validate", TextValidateBase(lib), IsValid(lib))
  ELSE LET l == IF IsBuilt(lib) /\ ~source.valid THEN Fail(lib, "lib") ELSE lib
       IN  Answers("validate", l, IsBuilt(l))

(* json_type_lib_print, json_type_lib_print_attr *)
PrintType == LET l == Build(lib) IN Answers("print", l, IsBuilt(l))

CheckAttr == LET l == CheckAttrs(Build(lib)) IN Answers("check_attr", l, IsBuilt(l))

(* json_type_lib_gen_def: the trees of the type are balanced on the way. *)
GenDef ==
  LET b == Build(lib)
      l == IF lib.impl = "text" THEN CheckAttrs(b) ELSE b
  IN  Answers("gen_def", [l EXCEPT !.flat = @ \/ (lib.impl = "text" /\ IsBuilt(l))],
              IsBuilt(l))

Ended == lib.error \in {"crash", "fault"}

Call ==
  /\ ~Ended
  /\ \/ \E piece \in Piece : Parse(piece)
     \/ ParseDone \/ Validate \/ PrintType \/ CheckAttr \/ GenDef

-----------------------------------------------------------------------------
(* json_type_lib_init_from_spec: the library of a type that json_type_t    *)
(* checks values against, by the name of a definition, or none.            *)

SpecName(l, name) ==
  LET d == Def(l)
  IN  IF d.obj = "node" THEN IF name = "none" THEN l ELSE Fail(l, "lib")
      ELSE IF \E i \in DOMAIN d.args : d.args[i].name = name THEN l
      ELSE Fail(l, "lib")

(* json_type_lib_text_load *)
TextLoad(l) == CheckAttrs(TextBuild(TextParseDone(TextParse(l, "text"))))

InitFromSpec(name) ==
  LET l == IF lib.impl = "text" THEN TextLoad(lib) ELSE lib
      m == IF IsBuilt(l) THEN SpecName(l, name) ELSE l
  IN  Answers("load", m, IsBuilt(m))

-----------------------------------------------------------------------------
(* A client: calls in any order, of which the loading is the first and     *)
(* only one of a library that is made for it.  It is "early" once it asks  *)
(* for the type of a text, or says that it is done, before there is one.   *)

IsFresh == answer.call = "none"

AsksEarly(call) ==
  /\ lib.impl = "text" /\ lib.stat = "ok"
  /\ IF call = "parse_done" THEN lib.ast = "none"
     ELSE call \notin {"parse", "load"} /\ ~HasTree(lib)

LibraryNext ==
  /\ answer.call # "load"
  /\ \/ Call
     \/ IsFresh /\ \E name \in Names : InitFromSpec(name)
  /\ early' = (early \/ AsksEarly(answer'.call))

LibrarySpec == LibraryInit /\ [][LibraryNext]_libVars

-----------------------------------------------------------------------------
(* Every refusal has an error to show, and every error makes the calls     *)
(* that follow refuse; for a client that asks once the text is whole.      *)
AnswersExplained ==
  /\ lib.stat = "error" <=> lib.error # "none"
  /\ ~early => (answer.yes <=> lib.error = "none") \/ IsFresh

(* The first error of a text stays: nothing is built or shown after it. *)
ErrorIsFinal ==
  [][lib.error # "none" /\ lib.impl = "text" => lib'.error = lib.error /\ ~answer'.yes]_libVars
=============================================================================
