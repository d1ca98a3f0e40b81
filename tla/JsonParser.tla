----------------------------- MODULE JsonParser -----------------------------
(***************************************************************************)
(* The push parser of lib/json.c: json_do_parse and the calls that drive   *)
(* it (json_parse, json_parse_done, json_config_set_param).                *)
(*                                                                         *)
(* The client hands the text over in buffers cut at arbitrary places.  A   *)
(* buffer is seen here as a number of lexemes ("room"): which lexeme comes *)
(* next is a free choice, and only the last one of a buffer can be cut     *)
(* (module JsonLexer models the characters).  Each handler function may    *)
(* answer FALSE, which cancels the parse.                                  *)
(*                                                                         *)
(* The variable pc tells where json_do_parse stands: between two calls     *)
(* ("idle"), at its label next_token ("token") or next_state ("state"), or *)
(* in a process that ENSURE has ended ("aborted").                         *)
(***************************************************************************)
EXTENDS Naturals, Sequences

CONSTANTS
  StackMax,  \* json_obj_sizes_t.stack_max
  MaxRoom    \* bound: the most lexemes in a buffer

ASSUME StackMaxAssumption == StackMax \in Nat \ {0}
ASSUME MaxRoomAssumption == MaxRoom \in Nat

VARIABLES
  stack,        \* parser_stack: <<>> until the first call initialises it
  config,       \* config: what json_config_set_param has set
  currentConf,  \* current_conf: the configuration of the text being parsed
  nValues,      \* n_values: a two-bit counter of top-level values
  stat,         \* current_stat
  err,          \* error_info.what ("none" for json_error_none)
  tok,          \* current_tok.type
  complete,     \* current_tok.part.type = json_token_complete_part
  room,         \* lexemes left in the buffer of this call
  call,         \* the function being executed
  pc,           \* where json_do_parse stands
  ev            \* the last handler function called

conf == <<config, currentConf>>
vars == <<stack, config, currentConf, nValues, stat, err, tok, complete,
          room, call, pc, ev>>

-----------------------------------------------------------------------------
Param   == {"allow_literal_value", "allow_multi_objects"}
Literal == {"null", "boolean", "number", "string"}
Opening == {"left_cbrace", "left_sqbrk"}
Token   == Literal \cup Opening \cup
           {"right_cbrace", "right_sqbrk", "comma", "colon"}
State   == { "start", "value", "object", "object_arg", "object_key",
             "object_value", "array", "array_value", "done" }
Error   == {"lex", "literal_value", "multi_objects", "unexpected_token"}

NValuesMax == 3   \* (1 << n_values_bits) - 1

TypeOK ==
  /\ stack \in Seq(State) /\ Len(stack) <= StackMax
  /\ config \subseteq Param
  /\ currentConf \subseteq Param
  /\ nValues \in 0..NValuesMax
  /\ stat \in {"ok", "error", "canceled"}
  /\ err \in Error \cup {"none"}
  /\ tok \in Token \cup {"none", "wsp", "eof"}
  /\ complete \in BOOLEAN
  /\ room \in 0..MaxRoom
  /\ call \in {"none", "parse", "done"}
  /\ pc \in {"idle", "token", "state", "aborted"}
  /\ ev \in Literal \cup
       { "object_start", "object_key", "object_sep", "object_end",
         "array_start", "array_sep", "array_end", "value_sep", "none" }

Init ==
  /\ stack = <<>>
  /\ config = {} /\ currentConf = {}
  /\ nValues = 0
  /\ stat = "ok" /\ err = "none"
  /\ tok = "none" /\ complete = TRUE
  /\ room = 0 /\ call = "none" /\ pc = "idle"
  /\ ev = "none"

Top == stack[Len(stack)]

(* STACK_SHIFT_TOP, STACK_POP and STACK_PUSH. *)
Shift(st, s) == [st EXCEPT ![Len(st)] = s]
Pop(st)      == SubSeq(st, 1, Len(st) - 1)
Push(st, s)  == Append(st, s)

-----------------------------------------------------------------------------
(* The client, between two calls.                                          *)

SetParam(p, on) ==
  /\ pc = "idle"
  /\ config' = IF on THEN config \cup {p} ELSE config \ {p}
  /\ UNCHANGED <<stack, currentConf, nValues, stat, err, tok, complete,
                 room, call, pc, ev>>

(* The head of json_do_parse: the first call of all creates the stack, and *)
(* a call that finds the previous text done begins another one.            *)
Begin ==
  \/ /\ stack = <<>>
     /\ stack' = <<"start">>
     /\ currentConf' = config
  \/ /\ stack # <<>> /\ Top = "done"
     /\ stack' = Shift(stack, "start")
     /\ currentConf' = config
  \/ /\ stack # <<>> /\ Top # "done"
     /\ UNCHANGED <<stack, currentConf>>

(* Deviation: json_parse does not look at the status first. *)
ParseAnyway(n) ==
  /\ pc = "idle"
  /\ Begin
  /\ room' = n /\ call' = "parse" /\ pc' = "token"
  /\ UNCHANGED <<config, nValues, stat, err, tok, complete, ev>>

(* A call made when the status is not "ok" returns that status, whatever   *)
(* its arguments: it is a stuttering step.                                 *)
Parse(n) ==
  /\ pc = "idle" /\ stat = "ok"
  /\ Begin
  /\ room' = n /\ call' = "parse" /\ pc' = "token"
  /\ UNCHANGED <<config, nValues, stat, err, tok, complete, ev>>

(* On a text that is already done json_parse_done returns at once. *)
ParseDone ==
  /\ pc = "idle" /\ stat = "ok"
  /\ stack # <<>> => Top # "done"
  /\ Begin
  /\ room' = 0 /\ call' = "done" /\ pc' = "token"
  /\ UNCHANGED <<config, nValues, stat, err, tok, complete, ev>>

-----------------------------------------------------------------------------
(* Label next_token: json_parse_token.                                     *)

Return(s, e) ==
  /\ stat' = s /\ err' = e
  /\ pc' = "idle" /\ call' = "none"

BufferEmpty ==
  /\ pc = "token" /\ call = "parse" /\ room = 0
  /\ Return("ok", err)
  /\ UNCHANGED <<stack, conf, nValues, tok, complete, room, ev>>

(* json_parse_begin_token, or json_parse_part_token on a pending token. *)
LexToken(t) ==
  /\ pc = "token" /\ call = "parse" /\ room > 0
  /\ complete \/ t = tok
  /\ tok' = t /\ complete' = TRUE
  /\ room' = room - 1
  /\ pc' = "state"
  /\ UNCHANGED <<stack, conf, nValues, stat, err, call, ev>>

(* The buffer ends within a token: the rest of it is for the next call. *)
LexPart(t) ==
  /\ pc = "token" /\ call = "parse" /\ room = 1
  /\ complete \/ t = tok
  /\ tok' = t /\ complete' = FALSE
  /\ room' = 0
  /\ Return("ok", err)
  /\ UNCHANGED <<stack, conf, nValues, ev>>

(* Nothing but white space is left. *)
LexWsp ==
  /\ pc = "token" /\ call = "parse" /\ room = 1
  /\ complete
  /\ tok' = "wsp" /\ room' = 0
  /\ Return("ok", err)
  /\ UNCHANGED <<stack, conf, nValues, complete, ev>>

(* Either the character begins no token (white space may come before it), *)
(* or a token cannot go on.                                                *)
LexError ==
  /\ pc = "token" /\ call = "parse" /\ room > 0
  /\ \/ UNCHANGED <<tok, complete>>
     \/ complete /\ tok' = "wsp" /\ UNCHANGED complete
     \/ complete /\ tok' \in Literal /\ complete' = FALSE
  /\ Return("error", "lex")
  /\ UNCHANGED <<stack, conf, nValues, room, ev>>

(* json_parse_end_token: only a number can be ended by the end of input, *)
(* and only if it is not cut before a digit it needs.                    *)
EndToken ==
  /\ pc = "token" /\ call = "done" /\ ~complete
  /\ \/ /\ tok = "number"
        /\ complete' = TRUE /\ pc' = "state"
        /\ UNCHANGED <<stat, err, call>>
     \/ /\ Return("error", "lex")
        /\ UNCHANGED complete
  /\ UNCHANGED <<stack, conf, nValues, tok, room, ev>>

InsertEof ==
  /\ pc = "token" /\ call = "done" /\ complete
  /\ tok' = "eof"
  /\ pc' = "state"
  /\ UNCHANGED <<stack, conf, nValues, stat, err, complete, room, call, ev>>

-----------------------------------------------------------------------------
(* Label next_state: one action per case of the switch on the state.       *)

At(s, t) == pc = "state" /\ Top = s /\ tok \in t

(* JSON_PUSH_STATE ends the process when the stack is at its limit. *)
Move(st, label) ==
  IF Len(st) <= StackMax
  THEN stack' = st /\ pc' = label
  ELSE pc' = "aborted" /\ UNCHANGED stack

(* Deviation: the state is shifted before the handler is asked. *)
DeliverLate(h, st, label) ==
  /\ ev' = h
  /\ \/ Move(st, label) /\ UNCHANGED <<stat, err, call>>
     \/ Return("canceled", err) /\ stack' = st

(* JSON_CALL_HANDLER, then the move to stack st; FALSE cancels the parse *)
(* and leaves the stack as it was.                                       *)
Deliver(h, st, label) ==
  /\ ev' = h
  /\ \/ Move(st, label) /\ UNCHANGED <<stat, err, call>>
     \/ Return("canceled", err) /\ UNCHANGED stack

(* Deviation: the error is recorded but the status stays "ok". *)
FailSilently(e) == Return("ok", e) /\ UNCHANGED <<stack, ev>>

Fail(e) == Return("error", e) /\ UNCHANGED <<stack, ev>>

LexState == <<conf, tok, complete, room>>

StartEof ==
  /\ At("start", {"eof"})
  /\ IF nValues = 0
     THEN Fail("unexpected_token")
     ELSE stack' = Shift(stack, "done") /\ Return("ok", err) /\ UNCHANGED ev
  /\ UNCHANGED <<LexState, nValues>>

(* BITS_INC_MAX saturates; nothing resets the counter for the next text. *)
IncMax(n) == IF n >= NValuesMax THEN NValuesMax ELSE n + 1

StartValue ==
  /\ At("start", Literal \cup Opening)
  /\ nValues' = IncMax(nValues)
  /\ LET st == Push(stack, "value")
     IN  IF nValues' <= 1
         THEN Move(st, "state") /\ UNCHANGED <<stat, err, call, ev>>
         ELSE IF "allow_multi_objects" \in currentConf
         THEN Deliver("value_sep", st, "state")
         ELSE Fail("multi_objects")
  /\ UNCHANGED LexState

(* Deviation: the configuration restricts literals at every depth. *)
LiteralAllowedByConf == "allow_literal_value" \in currentConf

(* JSON_PARSER_CONF: a literal is restricted only where a text begins. *)
LiteralAllowed ==
  \/ stack[Len(stack) - 1] # "start"
  \/ "allow_literal_value" \in currentConf

ValueLiteral ==
  /\ At("value", Literal)
  /\ IF LiteralAllowed
     THEN Deliver(tok, Pop(stack), "token")
     ELSE Fail("literal_value")
  /\ UNCHANGED <<LexState, nValues>>

ValueOpen ==
  /\ \/ /\ At("value", {"left_cbrace"})
        /\ Deliver("object_start", Shift(stack, "object"), "token")
     \/ /\ At("value", {"left_sqbrk"})
        /\ Deliver("array_start", Shift(stack, "array"), "token")
  /\ UNCHANGED <<LexState, nValues>>

(* Deviation: the state is dispatched again without having been shifted. *)
ObjectMemberAgain ==
  /\ At("object", {"string"})
  /\ UNCHANGED vars

ObjectMember ==
  /\ At("object", {"string"})
  /\ stack' = Shift(stack, "object_arg")
  /\ UNCHANGED <<LexState, nValues, stat, err, call, pc, ev>>

ObjectKey ==
  /\ At("object_arg", {"string"})
  /\ Deliver("object_key", Shift(stack, "object_key"), "token")
  /\ UNCHANGED <<LexState, nValues>>

ObjectColon ==
  /\ At("object_key", {"colon"})
  /\ Move(Push(Shift(stack, "object_value"), "value"), "token")
  /\ UNCHANGED <<LexState, nValues, stat, err, call, ev>>

ObjectComma ==
  /\ At("object_value", {"comma"})
  /\ Deliver("object_sep", Shift(stack, "object_arg"), "token")
  /\ UNCHANGED <<LexState, nValues>>

ObjectEnd ==
  /\ At("object", {"right_cbrace"}) \/ At("object_value", {"right_cbrace"})
  /\ Deliver("object_end", Pop(stack), "token")
  /\ UNCHANGED <<LexState, nValues>>

ArrayElement ==
  /\ At("array", Literal \cup Opening)
  /\ Move(Push(Shift(stack, "array_value"), "value"), "state")
  /\ UNCHANGED <<LexState, nValues, stat, err, call, ev>>

ArrayComma ==
  /\ At("array_value", {"comma"})
  /\ Deliver("array_sep", Push(stack, "value"), "token")
  /\ UNCHANGED <<LexState, nValues>>

ArrayEnd ==
  /\ At("array", {"right_sqbrk"}) \/ At("array_value", {"right_sqbrk"})
  /\ Deliver("array_end", Pop(stack), "token")
  /\ UNCHANGED <<LexState, nValues>>

(* The tokens that have a case of their own, for each state. *)
Expected ==
  [ start        |-> Literal \cup Opening \cup {"eof"},
    value        |-> Literal \cup Opening,
    object       |-> {"right_cbrace", "string"},
    object_arg   |-> {"string"},
    object_key   |-> {"colon"},
    object_value |-> {"comma", "right_cbrace"},
    array        |-> Literal \cup Opening \cup {"right_sqbrk"},
    array_value  |-> {"comma", "right_sqbrk"} ]

UnexpectedToken ==
  /\ pc = "state"
  /\ Top \in DOMAIN Expected /\ tok \notin Expected[Top]
  /\ Fail("unexpected_token")
  /\ UNCHANGED <<LexState, nValues>>

-----------------------------------------------------------------------------
NextToken ==
  \/ BufferEmpty
  \/ \E t \in Token : LexToken(t)
  \/ \E t \in Literal : LexPart(t)
  \/ LexWsp
  \/ LexError
  \/ EndToken
  \/ InsertEof

NextState ==
  \/ StartEof \/ StartValue
  \/ ValueLiteral \/ ValueOpen
  \/ ObjectMember \/ ObjectKey \/ ObjectColon \/ ObjectComma \/ ObjectEnd
  \/ ArrayElement \/ ArrayComma \/ ArrayEnd
  \/ UnexpectedToken

Client ==
  \/ \E p \in Param, on \in BOOLEAN : SetParam(p, on)
  \/ \E n \in 0..MaxRoom : Parse(n)
  \/ ParseDone

Next == Client \/ NextToken \/ NextState

Spec == Init /\ [][Next]_vars

(* json_do_parse is one sequential function: a call that was made runs on. *)
FairSpec == Spec /\ WF_vars(NextToken \/ NextState)

-----------------------------------------------------------------------------
(* Properties.                                                             *)

(***************************************************************************)
(* StackShape: "start" or "done" is at the bottom of the stack and only    *)
(* there, "done" is alone, and below the top every container has already   *)
(* been shifted to the state it resumes in.  This is what makes the        *)
(* unguarded look of JSON_PARSER_CONF below the top of the stack, and the  *)
(* ASSERTs of JSON_POP_STATE and JSON_SHIFT_STATES, safe.                  *)
(***************************************************************************)
Inner == {"object_value", "array_value"}
Bottom == {"start", "done"}

Shaped(st) ==
  /\ st[1] \in Bottom
  /\ \A i \in 2..Len(st) : /\ st[1] = "start"
                           /\ st[i] \notin Bottom
                           /\ i < Len(st) => st[i] \in Inner

StackShape ==
  /\ stack = <<>> => pc = "idle"
  /\ stack # <<>> => Shaped(stack)
  /\ pc \in {"token", "state"} => Top # "done"

(***************************************************************************)
(* StatusMatchesError: json_get_is_error looks at the error type only, and *)
(* json_do_parse asserts that no error is recorded when it is entered.     *)
(* They agree with the status: an error is recorded exactly when the parse *)
(* failed, never when the client canceled it or while it goes on.          *)
(***************************************************************************)
StatusMatchesError ==
  /\ stat = "error" <=> err # "none"
  /\ stat # "ok" => pc = "idle"

(***************************************************************************)
(* TokenPart: only a literal can be pending between two calls (any other   *)
(* token would reach UNEXPECT_VAR in json_parse_part_token), and the state *)
(* machine never sees a token that is not whole.                           *)
(***************************************************************************)
TokenPart ==
  /\ ~complete => tok \in Literal
  /\ pc = "state" => complete

(***************************************************************************)
(* FirstValue: the counter of top-level values is zero exactly as long as  *)
(* no value has been met, and then the stack holds its bottom at most.     *)
(***************************************************************************)
FirstValue ==
  /\ nValues = 0 => stack \in {<<>>, <<"start">>}
  /\ stack = <<>> => nValues = 0

(***************************************************************************)
(* Consistent: what json_do_parse takes for granted whenever a call begins *)
(* or a token comes in: the types of its variables and these four.         *)
(* Each is needed for others to last, or for the events to be legal.       *)
(***************************************************************************)
Consistent ==
  TypeOK /\ StackShape /\ StatusMatchesError /\ TokenPart /\ FirstValue

(***************************************************************************)
(* StickyStatus: once a call has answered "error" or "canceled" no later   *)
(* call changes what the parser recorded or reaches a handler function.    *)
(***************************************************************************)
StickyStatus ==
  [][stat # "ok" => UNCHANGED <<stack, currentConf, nValues, stat, err, tok,
                                complete, room, call, pc, ev>>]_vars

(***************************************************************************)
(* CallReturns: every call of json_parse and json_parse_done comes back    *)
(* (or ends the process at the limit of the stack): the jumps to           *)
(* next_state, which consume nothing, cannot go round for ever.            *)
(***************************************************************************)
CallReturns == pc \in {"token", "state"} ~> pc \in {"idle", "aborted"}

(***************************************************************************)
(* The events the handler sees, as JsonEvents describes them.  A value     *)
(* being parsed stands on top of its container, which does not count as    *)
(* one more level.                                                         *)
(***************************************************************************)
KindOf(s) ==
  IF s \in {"array", "array_value"} THEN "array" ELSE "object"

Depth(st) ==
  IF st = <<>> THEN 0
  ELSE IF st[Len(st)] = "value" THEN Len(st) - 2 ELSE Len(st) - 1

NestOf(st) == [i \in 1..Depth(st) |-> KindOf(st[i + 1])]

(* n_values is incremented before the push that may end the process: with *)
(* room for one state only, the first value is counted and never begins.  *)
NoValueBegun == nValues = 0 \/ (nValues = 1 /\ pc = "aborted")

PhaseOf(s) ==
  CASE s = "start"                       -> IF NoValueBegun THEN "first" ELSE "top"
    [] s = "done"                        -> "top"
    [] s \in {"value", "object_key"}     -> "value"
    [] s \in {"object", "array"}         -> "open"
    [] s = "object_arg"                  -> "key"
    [] OTHER                             -> "after"

Events == INSTANCE JsonEvents WITH
  nest  <- NestOf(stack),
  phase <- IF stack = <<>> THEN "first" ELSE PhaseOf(Top),
  ev    <- ev,
  alive <- stat # "canceled" /\ pc # "aborted"

(***************************************************************************)
(* ImplementsEvents: whatever tokens come, however they are cut in calls   *)
(* and wherever the client refuses, the handler sees only the sequences of *)
(* calls that JsonEvents allows.                                           *)
(***************************************************************************)
ImplementsEvents == Events!Spec
=============================================================================
