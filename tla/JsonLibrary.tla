----------------------------- MODULE JsonLibrary -----------------------------
(***************************************************************************)
(* A type library (lib/json-type.c) whose texts are judged by the ruler    *)
(* and by the checks of attributes.                                        *)
(***************************************************************************)
EXTENDS JsonRuler, JsonTypeLib, JsonLibraryCalls

GenDefAttrs(d) ==
  IF d.obj = "node" THEN GenNodeAttrs(d.node)
  ELSE \A i \in DOMAIN d.args : GenNodeAttrs(d.args[i].type)

(* json_type_defs_check_dup_keys *)
NoDupKeys(d) == DistinctElems([ i \in DOMAIN d.args |-> d.args[i].name ])

(* Deviation: the names of the definitions are not compared *)
CheckDefAttrsOnly(d, flat) ==
  IF d.obj = "node" THEN CheckNodeAttrs(d.node, flat)
  ELSE \A i \in DOMAIN d.args : CheckNodeAttrs(d.args[i].type, flat)

CheckDefAttrs(d, flat) ==
  IF d.obj = "node" THEN CheckNodeAttrs(d.node, flat)
  ELSE NoDupKeys(d) /\ \A i \in DOMAIN d.args : CheckNodeAttrs(d.args[i].type, flat)

(***************************************************************************)
(* What a client may have: the text of a tree, a text that is not JSON or, *)
(* built for the library to load, a shared object, which may be wrong.  A  *)
(* tree comes with what the ruler, and then the attributes, make of it:    *)
(* these depend on nothing else, and are worked out here once.             *)
(***************************************************************************)
IsDef(o) == Len(o.stack) = 1 /\ o.stack[1].obj \in {"node", "defs"}

Judged(tree, o) ==
  LET isSound == ~IsError(o) /\ IsDef(o) /\ GenDefAttrs(o.stack[1])
  IN  [kind |-> "text", json |-> TRUE, tree |-> tree, visited |-> o,
       refused |-> IsError(o), def |-> IF IsDef(o) THEN o.stack[1] ELSE NoDef,
       sound |-> isSound,
       good |-> [ flat \in BOOLEAN |-> isSound /\ CheckDefAttrs(o.stack[1], flat) ]]

TextOf(tree)       == Judged(tree, Eval(tree))
WrongText          == [kind |-> "text", json |-> FALSE]
SharedObj(e, d, v) == [kind |-> "sobj", err |-> e, def |-> d, valid |-> v,
                       good |-> [ flat \in BOOLEAN |-> d # NoDef => CheckDefAttrs(d, flat) ]]

SobjError ==
  {"invalid_name", "load_lib_failed", "get_lib_version_sym_not_found",
   "get_type_def_sym_not_found", "wrong_lib_version", "def_is_null"}
=============================================================================
