----------------------------- MODULE JsonEvents -----------------------------
(***************************************************************************)
(* What the JSON parser promises its client: the order in which the        *)
(* functions of "struct json_handler_t" may be called.  The client (the    *)
(* type checker, the AST builder, the printers) may assume that every call *)
(* it receives is one of the actions below, and that it is never called    *)
(* again once one of its functions has answered FALSE.                     *)
(*                                                                         *)
(* Nothing here mentions tokens, parser states or calls of json_parse:     *)
(* module JsonParser is shown to implement this specification.             *)
(***************************************************************************)
EXTENDS Naturals, Sequences

VARIABLES
  nest,   \* the containers still open, outermost first
  phase,  \* what the innermost container is waiting for
  ev,     \* the last handler function called
  alive   \* FALSE once a handler function has answered FALSE

vars == <<nest, phase, ev, alive>>

Container == {"object", "array"}

Phase ==
  { "first",  \* no top-level value has begun yet
    "open",   \* a container has just been started
    "key",    \* the name of a member must come
    "value",  \* a value must come
    "after",  \* a member or an element is complete
    "top" }   \* a top-level value is complete

Scalar  == {"null", "boolean", "number", "string"}
Handler == Scalar \cup
           { "object_start", "object_key", "object_sep", "object_end",
             "array_start", "array_sep", "array_end", "value_sep" }

TypeOK ==
  /\ nest \in Seq(Container)
  /\ phase \in Phase
  /\ ev \in Handler \cup {"none"}
  /\ alive \in BOOLEAN

Init ==
  /\ nest = <<>>
  /\ phase = "first"
  /\ ev = "none"
  /\ alive = TRUE

Inside(c) == nest # <<>> /\ nest[Len(nest)] = c

(* The phase that follows a complete value in the containers ns. *)
Completed(ns) == IF ns = <<>> THEN "top" ELSE "after"

(***************************************************************************)
(* A call of handler function h: either accepted, and the protocol moves   *)
(* on to <<ns, p>>, or refused, and it is the last call ever made.         *)
(***************************************************************************)
Call(h, ns, p) ==
  /\ alive
  /\ ev' = h
  /\ \/ nest' = ns /\ phase' = p /\ alive' = TRUE
     \/ alive' = FALSE /\ UNCHANGED <<nest, phase>>

(* The caller commits itself to a value or a member; it makes no call yet. *)
Commit ==
  /\ alive
  /\ \/ phase = "first" /\ phase' = "value"
     \/ phase = "open" /\ Inside("array") /\ phase' = "value"
     \/ phase = "open" /\ Inside("object") /\ phase' = "key"
  /\ UNCHANGED <<nest, ev, alive>>

Value(h) == phase = "value" /\ Call(h, nest, Completed(nest))

Start(c, h) == phase = "value" /\ Call(h, Append(nest, c), "open")

End(c, h) ==
  /\ phase \in {"open", "after"}
  /\ Inside(c)
  /\ LET ns == SubSeq(nest, 1, Len(nest) - 1)
     IN  Call(h, ns, Completed(ns))

Key == phase = "key" /\ Call("object_key", nest, "value")

Sep(c, h, p) == phase = "after" /\ Inside(c) /\ Call(h, nest, p)

ValueSep == phase = "top" /\ Call("value_sep", nest, "value")

(* The caller ends: it met an error, or a limit of its own. *)
Stop ==
  /\ alive
  /\ alive' = FALSE
  /\ UNCHANGED <<nest, phase, ev>>

Next ==
  \/ Commit
  \/ Stop
  \/ \E h \in Scalar : Value(h)
  \/ Start("object", "object_start")
  \/ Start("array", "array_start")
  \/ End("object", "object_end")
  \/ End("array", "array_end")
  \/ Key
  \/ Sep("object", "object_sep", "key")
  \/ Sep("array", "array_sep", "value")
  \/ ValueSep

Spec == Init /\ [][Next]_vars
=============================================================================
