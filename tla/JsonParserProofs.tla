-------------------------- MODULE JsonParserProofs --------------------------
(***************************************************************************)
(* Proofs about the push parser, for every limit of the stack and every    *)
(* size of the buffers.  Its stack is what the states need it to be; and   *)
(* it keeps the promise of JsonEvents: every step of it, seen through the  *)
(* mapping of JsonParser!Events, is a call that JsonEvents allows or       *)
(* leaves the handler's view as it was.                                    *)
(***************************************************************************)
EXTENDS JsonParser, SequenceTheorems, TLAPS

-----------------------------------------------------------------------------
(* What the three stack operations return.                                 *)

(* STACK_PUSH: one state more, on top of those there were. *)
LEMMA PushLemma ==
  ASSUME NEW st \in Seq(State), NEW s \in State
  PROVE  /\ Push(st, s) \in Seq(State)
         /\ Push(st, s) # <<>>
         /\ Len(Push(st, s)) = Len(st) + 1
         /\ \A i \in 1..Len(st) : Push(st, s)[i] = st[i]
         /\ Push(st, s)[Len(st) + 1] = s
  BY AppendProperties DEF Push

(* STACK_POP_: the states below the top remain, in their places. *)
LEMMA PopLemma ==
  ASSUME NEW st \in Seq(State), st # <<>>
  PROVE  /\ Pop(st) \in Seq(State)
         /\ Len(Pop(st)) = Len(st) - 1
         /\ \A i \in 1..(Len(st) - 1) : Pop(st)[i] = st[i]
<1>1. Len(st) \in Nat \ {0}
  BY EmptySeq
<1> DEFINE n == Len(st) - 1
<1>2. 1 \in Int /\ n \in Int /\ \A i \in 1..n : st[i] \in State
  BY <1>1, ElementOfSeq
<1>3. /\ SubSeq(st, 1, n) \in Seq(State)
      /\ Len(SubSeq(st, 1, n)) = IF 1 <= n THEN n - 1 + 1 ELSE 0
      /\ \A i \in 1..(n - 1 + 1) : SubSeq(st, 1, n)[i] = st[1 + i - 1]
  <2> HIDE DEF n
  <2> QED BY <1>2, SubSeqProperties
<1>4. n \in Nat /\ n - 1 + 1 = n /\ \A i \in 1..n : 1 + i - 1 = i
  BY <1>1
<1> QED
  BY <1>3, <1>4 DEF Pop

(* STACK_TOP_SHIFT: the top is replaced, and nothing else. *)
LEMMA ShiftLemma ==
  ASSUME NEW st \in Seq(State), st # <<>>, NEW s \in State
  PROVE  /\ Shift(st, s) \in Seq(State)
         /\ Shift(st, s) # <<>>
         /\ Len(Shift(st, s)) = Len(st)
         /\ \A i \in 1..(Len(st) - 1) : Shift(st, s)[i] = st[i]
         /\ Shift(st, s)[Len(st)] = s
<1>1. Len(st) \in Nat \ {0}
  BY EmptySeq
<1>2. /\ Shift(st, s) \in Seq(State)
      /\ Len(Shift(st, s)) = Len(st)
      /\ \A j \in 1..Len(st) : Shift(st, s)[j] = IF j = Len(st) THEN s ELSE st[j]
  BY <1>1, ExceptSeq DEF Shift
<1> QED
  BY <1>1, <1>2, EmptySeq

(***************************************************************************)
(* A stack json_do_parse can go on with: well shaped, and not "done".      *)
(***************************************************************************)
Ready(st) ==
  /\ st \in Seq(State)
  /\ st # <<>>
  /\ Shaped(st)
  /\ st[Len(st)] # "done"

(* Only the bottom of a stack in use is "start". *)
LEMMA ReadyBottom ==
  ASSUME NEW st, Ready(st)
  PROVE  /\ Len(st) \in Nat \ {0}
         /\ st[1] = "start"
         /\ Len(st) = 1 <=> st[Len(st)] = "start"
BY EmptySeq DEF Ready, Shaped, Bottom

(* JSON_SHIFT_STATES keeps a stack ready. *)
LEMMA ReadyShift ==
  ASSUME NEW st, Ready(st), st[Len(st)] # "start",
         NEW s \in State \ Bottom
  PROVE  Ready(Shift(st, s))
<1> DEFINE sh == Shift(st, s)
           n  == Len(st)
<1>1. n \in Nat /\ n > 1 /\ st[1] = "start"
  BY ReadyBottom
<1>2. /\ sh \in Seq(State) /\ sh # <<>> /\ Len(sh) = n
      /\ \A i \in 1..(n - 1) : sh[i] = st[i]
      /\ sh[n] = s
  BY ShiftLemma DEF Ready
<1>3. \A i \in 2..n : st[i] \notin Bottom /\ (i < n => st[i] \in Inner)
  BY DEF Ready, Shaped
<1> HIDE DEF sh, n
<1>4. sh[1] = "start"
  BY <1>1, <1>2
<1>5. ASSUME NEW i \in 2..n
      PROVE  sh[i] \notin Bottom /\ (i < n => sh[i] \in Inner)
  BY <1>1, <1>2, <1>3
<1> QED
  BY <1>1, <1>2, <1>4, <1>5 DEF Ready, Shaped, Bottom, sh

(* JSON_POP_STATE keeps a stack ready, now with a state of a container on top. *)
LEMMA ReadyPop ==
  ASSUME NEW st, Ready(st), st[Len(st)] # "start"
  PROVE  Ready(Pop(st))
<1> DEFINE p == Pop(st)
           n == Len(st)
<1>1. n \in Nat /\ n > 1 /\ st[1] = "start"
  BY ReadyBottom
<1>2. /\ p \in Seq(State) /\ Len(p) = n - 1
      /\ \A i \in 1..(n - 1) : p[i] = st[i]
  BY PopLemma DEF Ready
<1>3. \A i \in 2..n : st[i] \notin Bottom /\ (i < n => st[i] \in Inner)
  BY DEF Ready, Shaped
<1> HIDE DEF p, n
<1>4. p # <<>> /\ p[1] = "start"
  BY <1>1, <1>2, EmptySeq
<1>5. ASSUME NEW i \in 2..(n - 1)
      PROVE  p[i] \notin Bottom /\ p[i] \in Inner
  BY <1>1, <1>2, <1>3
<1>6. p[n - 1] # "done"
  BY <1>1, <1>4, <1>5 DEF Bottom
<1> QED
  BY <1>1, <1>2, <1>4, <1>5, <1>6 DEF Ready, Shaped, Bottom, p

(* JSON_PUSH_STATE keeps a stack ready, from the states that push a value. *)
LEMMA ReadyPush ==
  ASSUME NEW st, Ready(st), st[Len(st)] \in Inner \cup {"start"}
  PROVE  Ready(Push(st, "value"))
<1> DEFINE p == Push(st, "value")
           n == Len(st)
<1>1. n \in Nat \ {0} /\ st[1] = "start" /\ (n = 1 <=> st[n] = "start")
  BY ReadyBottom
<1>2. /\ p \in Seq(State) /\ p # <<>> /\ Len(p) = n + 1
      /\ \A i \in 1..n : p[i] = st[i]
      /\ p[n + 1] = "value"
  BY PushLemma DEF Ready, State
<1>3. \A i \in 2..n : st[i] \notin Bottom /\ (i < n => st[i] \in Inner)
  BY DEF Ready, Shaped
<1> HIDE DEF p, n
<1>4. p[1] = "start"
  BY <1>1, <1>2
<1>5. ASSUME NEW i \in 2..(n + 1)
      PROVE  p[i] \notin Bottom /\ (i < n + 1 => p[i] \in Inner)
  <2>1. CASE i = n + 1
    BY <2>1, <1>1, <1>2 DEF Bottom
  <2>2. CASE i < n
    BY <2>2, <1>1, <1>2, <1>3
  <2>3. CASE i = n
    <3>1. st[n] \in Inner
      BY <2>3, <1>1 DEF n
    <3> QED
      BY <2>3, <3>1, <1>1, <1>2, <1>3
  <2> QED
    BY <2>1, <2>2, <2>3, <1>1
<1> QED
  BY <1>1, <1>2, <1>4, <1>5 DEF Ready, Shaped, Bottom, p

-----------------------------------------------------------------------------
(* The inductive invariant.                                                *)

IInv == TypeOK /\ StackShape /\ StatusMatchesError /\ TokenPart

(* While json_do_parse runs, its stack is ready. *)
LEMMA RunningReady ==
  ASSUME TypeOK, StackShape, pc \in {"token", "state"}
  PROVE  Ready(stack)
BY DEF TypeOK, StackShape, Ready, Top

Event == Literal \cup
         { "object_start", "object_key", "object_sep", "object_end",
           "array_start", "array_sep", "array_end", "value_sep", "none" }

(***************************************************************************)
(* A step of the state machine: whatever it does to the stack, it leaves   *)
(* the token alone, and the three ways on are to go on with a ready stack, *)
(* to return with the stack as it was, and to end the process.             *)
(***************************************************************************)
Frame ==
  /\ UNCHANGED LexState
  /\ nValues' \in 0..NValuesMax
  /\ ev' \in Event

(* A step of the switch that goes on with a ready stack keeps the invariant. *)
LEMMA GoOn ==
  ASSUME IInv, pc = "state", Frame, NEW st, Ready(st), Len(st) <= StackMax,
         stack' = st, pc' \in {"token", "state"},
         UNCHANGED <<stat, err, call>>
  PROVE  IInv'
BY DEF IInv, TypeOK, StackShape, StatusMatchesError, TokenPart, Frame, LexState,
       conf, Ready, Top, Event

(* So does one that returns, JSON_STATUS being told the truth. *)
LEMMA ReturnInv ==
  ASSUME IInv, pc = "state", Frame, UNCHANGED stack,
         NEW s \in {"ok", "error", "canceled"}, NEW e \in Error \cup {"none"},
         s = "error" <=> e # "none", Return(s, e)
  PROVE  IInv'
BY RunningReady
   DEF IInv, TypeOK, StackShape, StatusMatchesError, TokenPart, Frame, LexState,
       conf, Ready, Top, Event, Return

(* So does one that ends the process, on the limit of the stack. *)
LEMMA AbortInv ==
  ASSUME IInv, pc = "state", Frame, UNCHANGED <<stack, stat, err, call>>,
         pc' = "aborted"
  PROVE  IInv'
BY RunningReady
   DEF IInv, TypeOK, StackShape, StatusMatchesError, TokenPart, Frame, LexState,
       conf, Ready, Top, Event

(* A step of the switch that only moves the stack. *)
LEMMA MoveInv ==
  ASSUME IInv, pc = "state", Frame, NEW st, Ready(st),
         NEW label \in {"token", "state"}, Move(st, label),
         UNCHANGED <<stat, err, call>>
  PROVE  IInv'
<1>1. CASE Len(st) <= StackMax
  BY <1>1, GoOn DEF Move
<1>2. CASE ~(Len(st) <= StackMax)
  BY <1>2, AbortInv DEF Move
<1> QED
  BY <1>1, <1>2

(* The switch is never entered with an error pending. *)
LEMMA NoError ==
  ASSUME IInv, pc = "state"
  PROVE  stat = "ok" /\ err = "none"
BY DEF IInv, StatusMatchesError, TypeOK

(* A step of the switch that calls the handler, whatever it answers. *)
LEMMA DeliverInv ==
  ASSUME IInv, pc = "state", UNCHANGED LexState, nValues' \in 0..NValuesMax,
         NEW st, Ready(st), NEW label \in {"token", "state"},
         NEW h \in Event, Deliver(h, st, label)
  PROVE  IInv'
<1>1. Frame
  BY DEF Frame, Deliver
<1>2. CASE Move(st, label) /\ UNCHANGED <<stat, err, call>>
  BY <1>1, <1>2, MoveInv
<1>3. CASE Return("canceled", err) /\ UNCHANGED stack
  BY <1>1, <1>3, NoError, ReturnInv DEF Error
<1> QED
  BY <1>2, <1>3 DEF Deliver

(* A step of the switch that finds an unexpected token. *)
LEMMA FailInv ==
  ASSUME IInv, pc = "state", UNCHANGED LexState, nValues' \in 0..NValuesMax,
         NEW e \in Error, Fail(e)
  PROVE  IInv'
<1>1. Frame
  BY DEF Frame, Fail, IInv, TypeOK, Event
<1> QED
  BY <1>1, ReturnInv DEF Fail, Error

-----------------------------------------------------------------------------
(* Every step preserves the invariant: first the calls of the client.      *)

(* json_parse, json_parse_done, json_config_set_param. *)
LEMMA ClientInv ==
  ASSUME IInv, Client
  PROVE  IInv'
<1> USE DEF IInv, TypeOK, StatusMatchesError, TokenPart
<1>1. ASSUME NEW p \in Param, NEW on \in BOOLEAN, SetParam(p, on)
      PROVE  IInv'
  BY <1>1 DEF SetParam, StackShape, Top
<1>2. ASSUME Begin
      PROVE  Ready(stack') /\ Len(stack') <= StackMax /\ currentConf' \subseteq Param
  <2>1. CASE stack = <<>> /\ stack' = <<"start">> /\ currentConf' = config
    BY <2>1, StackMaxAssumption DEF Ready, Shaped, Bottom, State
  <2>2. CASE stack # <<>> /\ Top = "done" /\ stack' = Shift(stack, "start")
             /\ currentConf' = config
    <3>0. stack \in Seq(State) /\ stack # <<>>
      BY <2>2
    <3>1. Len(stack) \in Nat \ {0} /\ stack[Len(stack)] \in Bottom
      BY <2>2, <3>0, EmptySeq DEF Top, Bottom
    <3>2. \A i \in 2..Len(stack) : stack[i] \notin Bottom
      BY <2>2 DEF StackShape, Shaped
    <3>3. Len(stack) = 1
      <4> DEFINE n == Len(stack)
      <4>1. n \in Nat \ {0} /\ stack[n] \in Bottom /\ \A i \in 2..n : stack[i] \notin Bottom
        BY <3>1, <3>2
      <4> HIDE DEF n, IInv, TypeOK, StatusMatchesError, TokenPart
      <4>2. n = 1
        BY <4>1
      <4> QED
        BY <4>2 DEF n
    <3>4. "start" \in State
      BY DEF State
    <3>5. /\ stack' \in Seq(State) /\ stack' # <<>> /\ Len(stack') = 1
          /\ stack'[1] = "start"
      BY <2>2, <3>3, <3>4, ShiftLemma
    <3> QED
      BY <2>2, <3>5, StackMaxAssumption DEF Ready, Shaped, Bottom
  <2>3. CASE stack # <<>> /\ Top # "done" /\ UNCHANGED <<stack, currentConf>>
    BY <2>3 DEF Ready, StackShape, Top
  <2> QED
    BY <1>2, <2>1, <2>2, <2>3 DEF Begin
<1>3. ASSUME NEW n \in 0..MaxRoom, Parse(n)
      PROVE  IInv'
  BY <1>2, <1>3 DEF Parse, StackShape, Ready, Top
<1>4. CASE ParseDone
  BY <1>2, <1>4, MaxRoomAssumption DEF ParseDone, StackShape, Ready, Top
<1> QED
  BY <1>1, <1>3, <1>4 DEF Client

(* next_token: a token, a part of one, the end of the buffer, an error. *)
LEMMA NextTokenInv ==
  ASSUME IInv, NextToken
  PROVE  IInv'
<1> USE MaxRoomAssumption
    DEF IInv, TypeOK, StackShape, StatusMatchesError, TokenPart, Top, conf, Return
<1>1. CASE BufferEmpty
  BY <1>1 DEF BufferEmpty
<1>2. ASSUME NEW t \in Token, LexToken(t)
      PROVE  IInv'
  BY <1>2 DEF LexToken
<1>3. ASSUME NEW t \in Literal, LexPart(t)
      PROVE  IInv'
  <2>1. TypeOK'
    <3>1. tok' \in Token
      BY <1>3 DEF LexPart, Token
    <3>2. complete' \in BOOLEAN
      BY <1>3 DEF LexPart
    <3>3. room' \in 0..MaxRoom
      BY <1>3 DEF LexPart
    <3> QED
      BY <1>3, <3>1, <3>2, <3>3 DEF LexPart
  <2>2. StackShape' /\ StatusMatchesError' /\ TokenPart'
    BY <1>3 DEF LexPart
  <2> QED
    BY <2>1, <2>2
<1>4. CASE LexWsp
  BY <1>4 DEF LexWsp
<1>5. CASE LexError
  <2>1. TypeOK'
    BY <1>5 DEF LexError, Error, Token
  <2>2. StackShape' /\ StatusMatchesError' /\ TokenPart'
    BY <1>5 DEF LexError
  <2> QED
    BY <2>1, <2>2
<1>6. CASE EndToken
  BY <1>6 DEF EndToken, Error
<1>7. CASE InsertEof
  BY <1>7 DEF InsertEof
<1> QED
  BY <1>1, <1>2, <1>3, <1>4, <1>5, <1>6, <1>7 DEF NextToken

-----------------------------------------------------------------------------
(* The switch on the state.                                                *)

(* next_state: every case of the switch, on every token. *)
LEMMA NextStateInv ==
  ASSUME IInv, NextState
  PROVE  IInv'
<1>1. pc = "state" /\ stat = "ok" /\ err = "none"
  <2>1. pc = "state"
    BY DEF NextState, StartEof, StartValue, ValueLiteral, ValueOpen, ObjectMember,
           ObjectKey, ObjectColon, ObjectComma, ObjectEnd, ArrayElement,
           ArrayComma, ArrayEnd, UnexpectedToken, At
  <2> QED
    BY <2>1, NoError
<1>2. Ready(stack) /\ Top = stack[Len(stack)] /\ nValues \in 0..NValuesMax
  BY <1>1, RunningReady DEF IInv, TypeOK, Top
<1>3. ASSUME NEW s, Top = s, s \notin Bottom, NEW t \in State \ Bottom
      PROVE  Ready(Pop(stack)) /\ Ready(Shift(stack, t))
  BY <1>2, <1>3, ReadyPop, ReadyShift DEF Bottom
<1>4. ASSUME NEW s \in Inner, Top \notin Bottom
      PROVE  Ready(Push(Shift(stack, s), "value"))
  <2>1. s \in State \ Bottom
    BY DEF State, Inner, Bottom
  <2>2. Ready(Shift(stack, s))
    BY <1>3, <1>4, <2>1
  <2>3. Len(Shift(stack, s)) = Len(stack) /\ Shift(stack, s)[Len(stack)] = s
    BY <1>2, <2>1, ShiftLemma DEF Ready
  <2> QED
    BY <2>2, <2>3, ReadyPush
<1>5. CASE StartEof
  <2>1. stack[Len(stack)] = "start" /\ Len(stack) = 1
    BY <1>2, <1>5, ReadyBottom DEF StartEof, At
  <2>2. CASE nValues = 0 /\ Fail("unexpected_token")
    BY <1>1, <1>2, <1>5, <2>2, FailInv DEF StartEof, Error
  <2>3. CASE stack' = Shift(stack, "done") /\ Return("ok", err) /\ UNCHANGED ev
    <3>1. "done" \in State
      BY DEF State
    <3>2. stack' \in Seq(State) /\ Len(stack') = 1 /\ stack' # <<>>
          /\ stack'[1] = "done"
      <4>1. stack \in Seq(State) /\ stack # <<>>
        BY <1>2 DEF Ready
      <4>2. LET st == Shift(stack, "done")
            IN  st \in Seq(State) /\ st # <<>> /\ Len(st) = Len(stack)
                /\ st[Len(stack)] = "done"
        BY <3>1, <4>1, ShiftLemma
      <4> QED
        BY <2>1, <2>3, <4>2
    <3>3. Shaped(stack')
      BY <3>2 DEF Shaped, Bottom
    <3> QED
      BY <1>1, <1>2, <1>5, <2>3, <3>2, <3>3, StackMaxAssumption
         DEF StartEof, IInv, TypeOK, StackShape, StatusMatchesError, TokenPart,
             Return, LexState, conf
  <2> QED
    BY <1>5, <2>2, <2>3 DEF StartEof
<1>6. CASE StartValue
  <2>0. Ready(Push(stack, "value"))
    BY <1>2, <1>6, ReadyPush DEF StartValue, At
  <2>1. Ready(Push(stack, "value")) /\ nValues' \in 0..NValuesMax
    BY <1>2, <1>6, <2>0 DEF StartValue, IncMax, NValuesMax
  <2>2. CASE Move(Push(stack, "value"), "state") /\ UNCHANGED <<stat, err, call, ev>>
    <3>1. Frame
      BY <1>6, <2>1, <2>2 DEF StartValue, Frame, IInv, TypeOK, Event
    <3> QED
      BY <1>1, <2>1, <2>2, <3>1, MoveInv
  <2>3. CASE Deliver("value_sep", Push(stack, "value"), "state")
    BY <1>1, <1>6, <2>1, <2>3, DeliverInv DEF StartValue, Event
  <2>4. CASE Fail("multi_objects")
    BY <1>1, <1>6, <2>1, <2>4, FailInv DEF StartValue, Error
  <2> QED
    BY <1>6, <2>2, <2>3, <2>4 DEF StartValue
<1>7. CASE ValueLiteral
  <2>1. Top = "value" /\ tok \in Literal /\ "value" \in State \ Bottom
    BY <1>7 DEF ValueLiteral, At, State, Bottom
  <2>2. CASE Deliver(tok, Pop(stack), "token")
    BY <1>1, <1>2, <1>3, <1>7, <2>1, <2>2, DeliverInv DEF ValueLiteral, Event
  <2>3. CASE Fail("literal_value")
    BY <1>1, <1>2, <1>7, <2>3, FailInv DEF ValueLiteral, Error
  <2> QED
    BY <1>7, <2>2, <2>3 DEF ValueLiteral
<1>8. CASE ValueOpen
  <2>1. Top = "value" /\ {"value", "object", "array"} \subseteq State \ Bottom
    BY <1>8 DEF ValueOpen, At, State, Bottom
  <2>2. Ready(Shift(stack, "object")) /\ Ready(Shift(stack, "array"))
    BY <1>3, <2>1
  <2> QED
    BY <1>1, <1>2, <1>8, <2>2, DeliverInv DEF ValueOpen, Event
<1>9. CASE ObjectMember
  <2>1. Top = "object" /\ {"object", "object_arg"} \subseteq State \ Bottom
    BY <1>9 DEF ObjectMember, At, State, Bottom
  <2>2. Ready(Shift(stack, "object_arg")) /\ Len(Shift(stack, "object_arg")) <= StackMax
    BY <1>2, <1>3, <2>1, ShiftLemma DEF Ready, IInv, TypeOK
  <2>3. Frame
    BY <1>2, <1>9 DEF ObjectMember, Frame, IInv, TypeOK, Event
  <2> QED
    BY <1>1, <1>9, <2>2, <2>3, GoOn DEF ObjectMember
<1>10. CASE ObjectKey
  <2>1. Top = "object_arg" /\ {"object_arg", "object_key"} \subseteq State \ Bottom
    BY <1>10 DEF ObjectKey, At, State, Bottom
  <2>2. Ready(Shift(stack, "object_key"))
    BY <1>3, <2>1
  <2> QED
    BY <1>1, <1>2, <1>10, <2>2, DeliverInv DEF ObjectKey, Event
<1>11. CASE ObjectColon
  <2>1. Top = "object_key" /\ "object_key" \notin Bottom
    BY <1>11 DEF ObjectColon, At, Bottom
  <2>2. Ready(Push(Shift(stack, "object_value"), "value"))
    BY <1>4, <2>1 DEF Inner
  <2>3. Frame
    BY <1>2, <1>11 DEF ObjectColon, Frame, IInv, TypeOK, Event
  <2> QED
    BY <1>1, <1>11, <2>2, <2>3, MoveInv DEF ObjectColon
<1>12. CASE ObjectComma
  <2>1. Top = "object_value" /\ {"object_value", "object_arg"} \subseteq State \ Bottom
    BY <1>12 DEF ObjectComma, At, State, Bottom
  <2>2. Ready(Shift(stack, "object_arg"))
    BY <1>3, <2>1
  <2> QED
    BY <1>1, <1>2, <1>12, <2>2, DeliverInv DEF ObjectComma, Event
<1>13. CASE ObjectEnd
  <2>1. Top \in {"object", "object_value"} /\ "object" \in State \ Bottom
        /\ Top \notin Bottom
    BY <1>13 DEF ObjectEnd, At, State, Bottom
  <2>2. Ready(Pop(stack))
    BY <1>3, <2>1
  <2> QED
    BY <1>1, <1>2, <1>13, <2>2, DeliverInv DEF ObjectEnd, Event
<1>14. CASE ArrayElement
  <2>1. Top = "array" /\ "array" \notin Bottom
    BY <1>14 DEF ArrayElement, At, Bottom
  <2>2. Ready(Push(Shift(stack, "array_value"), "value"))
    BY <1>4, <2>1 DEF Inner
  <2>3. Frame
    BY <1>2, <1>14 DEF ArrayElement, Frame, IInv, TypeOK, Event
  <2> QED
    BY <1>1, <1>14, <2>2, <2>3, MoveInv DEF ArrayElement
<1>15. CASE ArrayComma
  <2>1. Top = "array_value"
    BY <1>15 DEF ArrayComma, At
  <2>2. Ready(Push(stack, "value"))
    BY <1>2, <2>1, ReadyPush DEF Inner
  <2> QED
    BY <1>1, <1>2, <1>15, <2>2, DeliverInv DEF ArrayComma, Event
<1>16. CASE ArrayEnd
  <2>1. Top \in {"array", "array_value"} /\ "array" \in State \ Bottom
        /\ Top \notin Bottom
    BY <1>16 DEF ArrayEnd, At, State, Bottom
  <2>2. Ready(Pop(stack))
    BY <1>3, <2>1
  <2> QED
    BY <1>1, <1>2, <1>16, <2>2, DeliverInv DEF ArrayEnd, Event
<1>17. CASE UnexpectedToken
  BY <1>1, <1>2, <1>17, FailInv DEF UnexpectedToken, Error
<1> QED
  BY <1>5, <1>6, <1>7, <1>8, <1>9, <1>10, <1>11, <1>12, <1>13, <1>14, <1>15,
     <1>16, <1>17 DEF NextState

-----------------------------------------------------------------------------
(* The theorems.                                                           *)

(* The invariant holds of a parser just created. *)
LEMMA InitInv == Init => IInv
BY StackMaxAssumption, MaxRoomAssumption
   DEF Init, IInv, TypeOK, StackShape, StatusMatchesError, TokenPart, NValuesMax

(* Every step of the parser, and every call of its client, preserves it. *)
LEMMA StepInv == IInv /\ [Next]_vars => IInv'
<1> SUFFICES ASSUME IInv, [Next]_vars PROVE IInv'
  OBVIOUS
<1>1. CASE UNCHANGED vars
  BY <1>1 DEF vars, IInv, TypeOK, StackShape, StatusMatchesError, TokenPart, Top
<1>2. CASE Next
  BY <1>2, ClientInv, NextTokenInv, NextStateInv DEF Next
<1> QED
  BY <1>1, <1>2

(* The counter of values and the bottom of the stack, once IInv is known. *)
LEMMA FirstValueStep ==
  ASSUME IInv, FirstValue, [Next]_vars
  PROVE  FirstValue'
<1>1. CASE UNCHANGED vars
  BY <1>1 DEF vars, FirstValue
<1>2. CASE Client
  <2>1. UNCHANGED nValues
    BY <1>2 DEF Client, SetParam, Parse, ParseDone
  <2>2. UNCHANGED stack \/ Begin
    BY <1>2 DEF Client, SetParam, Parse, ParseDone
  <2>3. CASE UNCHANGED stack
    BY <2>1, <2>3 DEF FirstValue
  <2>4. CASE Begin
    <3>1. stack' # <<>>
      <4>1. stack # <<>> => Shift(stack, "start") # <<>>
        BY ShiftLemma DEF IInv, TypeOK, State
      <4> QED
        BY <2>4, <4>1 DEF Begin
    <3>2. stack \in {<<>>, <<"start">>} => stack' = <<"start">>
      BY <2>4 DEF Begin, Top
    <3> QED
      BY <2>1, <3>1, <3>2 DEF FirstValue
  <2> QED
    BY <2>2, <2>3, <2>4
<1>3. CASE NextToken
  BY <1>3 DEF NextToken, BufferEmpty, LexToken, LexPart, LexWsp, LexError,
              EndToken, InsertEof, FirstValue
<1>4. CASE NextState
  <2>1. pc = "state"
    BY <1>4 DEF NextState, StartEof, StartValue, ValueLiteral, ValueOpen,
           ObjectMember, ObjectKey, ObjectColon, ObjectComma, ObjectEnd,
           ArrayElement, ArrayComma, ArrayEnd, UnexpectedToken, At
  <2>2. Ready(stack) /\ IInv'
    BY <1>4, <2>1, NextStateInv, RunningReady DEF IInv
  <2>3. stack # <<>> /\ stack' # <<>>
    <3>1. Shift(stack, "done") # <<>>
      BY <2>2, ShiftLemma DEF Ready, State
    <3>2. pc' = "idle" => stack' \in {stack, Shift(stack, "done")}
      BY <1>4 DEF NextState, StartEof, StartValue, ValueLiteral, ValueOpen,
           ObjectMember, ObjectKey, ObjectColon, ObjectComma, ObjectEnd,
           ArrayElement, ArrayComma, ArrayEnd, UnexpectedToken, At, Deliver,
           Move, Fail, Return
    <3> QED
      BY <2>2, <3>1, <3>2 DEF IInv, StackShape, Ready
  <2>4. CASE nValues # 0
    <3>1. nValues' # 0
      BY <1>4, <2>4 DEF NextState, StartEof, StartValue, ValueLiteral, ValueOpen,
           ObjectMember, ObjectKey, ObjectColon, ObjectComma, ObjectEnd,
           ArrayElement, ArrayComma, ArrayEnd, UnexpectedToken,
           IncMax, NValuesMax, IInv, TypeOK
    <3> QED
      BY <2>3, <3>1 DEF FirstValue
  <2>5. CASE nValues = 0
    <3>1. Top = "start" /\ stack = <<"start">>
      BY <2>3, <2>5 DEF FirstValue, Top
    <3>2. StartEof \/ StartValue \/ UnexpectedToken
      BY <1>4, <3>1 DEF NextState, ValueLiteral, ValueOpen, ObjectMember,
           ObjectKey, ObjectColon, ObjectComma, ObjectEnd,
           ArrayElement, ArrayComma, ArrayEnd, At
    <3>3. CASE StartValue
      BY <2>3, <2>5, <3>3 DEF StartValue, IncMax, NValuesMax, FirstValue
    <3>4. CASE StartEof \/ UnexpectedToken
      BY <2>3, <2>5, <3>1, <3>4 DEF StartEof, UnexpectedToken, Fail, FirstValue
    <3> QED
      BY <3>2, <3>3, <3>4
  <2> QED
    BY <2>4, <2>5
<1> QED
  BY <1>1, <1>2, <1>3, <1>4 DEF Next

(* The inductive invariant holds of every state the parser reaches. *)
LEMMA Invariance == Spec => [](IInv /\ FirstValue)
<1>1. Init => IInv /\ FirstValue
  BY InitInv DEF Init, FirstValue
<1>2. IInv /\ FirstValue /\ [Next]_vars => (IInv /\ FirstValue)'
  BY StepInv, FirstValueStep
<1> QED
  BY <1>1, <1>2, PTL DEF Spec

(* Every variable stays in its range; the stack never exceeds stack_max    *)
(* and the two-bit counter of top-level values never wraps.                *)
THEOREM TypeCorrect == Spec => []TypeOK
<1>1. IInv => TypeOK
  BY DEF IInv
<1> QED
  BY <1>1, Invariance, PTL

(***************************************************************************)
(* At every moment the stack of states has the shape that the looks below  *)
(* its top and the asserted pops and shifts rely on, an error is recorded  *)
(* exactly when the status says so, only a literal is ever cut by the end  *)
(* of a buffer, and no value is counted before one begins.                 *)
(***************************************************************************)
THEOREM ConsistentCorrect == Spec => []Consistent
<1>1. IInv /\ FirstValue => Consistent
  BY DEF IInv, Consistent
<1> QED
  BY <1>1, Invariance, PTL

(***************************************************************************)
(* Once a call has answered "error" or "canceled", nothing but the         *)
(* configuration of a parse that will not take place can change.           *)
(***************************************************************************)
LEMMA StickyStep ==
  ASSUME IInv, Next, stat # "ok"
  PROVE  UNCHANGED <<stack, currentConf, nValues, stat, err, tok,
                     complete, room, call, pc, ev>>
<1>1. pc = "idle"
  BY DEF IInv, StatusMatchesError
<1>2. ~NextToken
  BY <1>1 DEF NextToken, BufferEmpty, LexToken, LexPart, LexWsp, LexError,
              EndToken, InsertEof
<1>3. ~NextState
  BY <1>1 DEF NextState, StartEof, StartValue, ValueLiteral, ValueOpen,
              ObjectMember, ObjectKey, ObjectColon, ObjectComma, ObjectEnd,
              ArrayElement, ArrayComma, ArrayEnd, UnexpectedToken, At
<1>4. \E p \in Param, on \in BOOLEAN : SetParam(p, on)
  BY <1>2, <1>3 DEF Next, Client, Parse, ParseDone
<1> QED
  BY <1>4 DEF SetParam

THEOREM StickyStatusCorrect == Spec => StickyStatus
<1>1. IInv /\ [Next]_vars =>
        [stat # "ok" => UNCHANGED <<stack, currentConf, nValues, stat, err, tok,
                                    complete, room, call, pc, ev>>]_vars
  BY StickyStep
<1> QED
  BY <1>1, Invariance, PTL DEF Spec, StickyStatus

-----------------------------------------------------------------------------
(* The containers that are open, as a sequence.                            *)

LEMMA NestIsSeq ==
  ASSUME NEW st, Ready(st)
  PROVE  /\ Depth(st) \in Nat
         /\ NestOf(st) \in Seq(Events!Container)
         /\ Len(NestOf(st)) = Depth(st)
         /\ \A i \in 1..Depth(st) : NestOf(st)[i] = KindOf(st[i + 1])
<1>1. Len(st) \in Nat \ {0} /\ (st[Len(st)] = "value" => Len(st) # 1)
  BY ReadyBottom
<1>2. Depth(st) \in Nat
  <2> DEFINE n == Len(st)
  <2>1. n \in Nat \ {0} /\ (st[n] = "value" => n # 1)
    BY <1>1
  <2>2. Depth(st) = IF st[n] = "value" THEN n - 2 ELSE n - 1
    BY DEF Depth, Ready
  <2> HIDE DEF n
  <2> QED
    BY <2>1, <2>2
<1>3. \A s : KindOf(s) \in Events!Container
  BY DEF KindOf, Events!Container
<1>4. NestOf(st) \in [1..Depth(st) -> Events!Container]
  BY <1>3 DEF NestOf
<1>5. NestOf(st) \in Seq(Events!Container)
  BY <1>2, <1>4, IsASeq
<1>6. Len(NestOf(st)) = Depth(st)
  BY <1>2, <1>4, <1>5, LenProperties
<1> QED
  BY <1>2, <1>5, <1>6 DEF NestOf

(* Two stacks with the same containers at the same depth show the same nest. *)
LEMMA SameNest ==
  ASSUME NEW st, Ready(st), NEW rt, Ready(rt),
         Depth(st) = Depth(rt),
         \A i \in 1..Depth(st) : KindOf(st[i + 1]) = KindOf(rt[i + 1])
  PROVE  NestOf(st) = NestOf(rt)
BY DEF NestOf

(* A state shifted within the same container. *)
LEMMA NestShift ==
  ASSUME NEW st, Ready(st), st[Len(st)] \notin {"start", "value"},
         NEW s \in State \ {"start", "done", "value"},
         KindOf(s) = KindOf(st[Len(st)])
  PROVE  /\ Ready(Shift(st, s))
         /\ NestOf(Shift(st, s)) = NestOf(st)
         /\ Len(Shift(st, s)) = Len(st)
         /\ Shift(st, s)[Len(st)] = s
<1> DEFINE sh == Shift(st, s)
           n  == Len(st)
<1>1. n \in Nat /\ n > 1
  BY ReadyBottom
<1>2. Ready(sh)
  BY ReadyShift DEF Bottom
<1>3. /\ sh # <<>> /\ Len(sh) = n /\ sh[n] = s
      /\ \A i \in 1..(n - 1) : sh[i] = st[i]
  BY ShiftLemma DEF Ready
<1>4. Depth(sh) = n - 1 /\ Depth(st) = n - 1
  BY <1>3 DEF Depth, Ready
<1>5. KindOf(sh[n]) = KindOf(st[n])
  BY <1>3
<1>6. ASSUME NEW i \in 1..(n - 1)
      PROVE  KindOf(sh[i + 1]) = KindOf(st[i + 1])
  <2>1. CASE i = n - 1
    <3> HIDE DEF sh, n
    <3>1. i + 1 = n
      BY <1>1, <2>1
    <3> QED
      BY <1>5, <3>1
  <2>2. CASE i # n - 1
    <3> HIDE DEF sh, n
    <3>1. i + 1 \in 1..(n - 1)
      BY <1>1, <2>2
    <3> QED
      BY <1>3, <3>1
  <2> QED
    BY <2>1, <2>2
<1> HIDE DEF sh
<1> QED
  BY <1>2, <1>3, <1>4, <1>6, SameNest DEF sh

(* A value that begins in the container on top: one level no deeper. *)
LEMMA NestPush ==
  ASSUME NEW st, Ready(st), st[Len(st)] \in Inner \cup {"start"}
  PROVE  /\ Ready(Push(st, "value"))
         /\ NestOf(Push(st, "value")) = NestOf(st)
         /\ Push(st, "value")[Len(Push(st, "value"))] = "value"
<1> DEFINE p == Push(st, "value")
           n == Len(st)
<1>1. n \in Nat \ {0}
  BY ReadyBottom
<1>2. Ready(p)
  BY ReadyPush
<1>3. /\ p # <<>> /\ Len(p) = n + 1 /\ p[n + 1] = "value"
      /\ \A i \in 1..n : p[i] = st[i]
  BY PushLemma DEF Ready, State
<1>4. Depth(p) = n - 1 /\ Depth(st) = n - 1
  BY <1>1, <1>3 DEF Depth, Ready, Inner
<1>5. \A i \in 1..(n - 1) : p[i + 1] = st[i + 1]
  <2> HIDE DEF p, n
  <2> QED BY <1>1, <1>3
<1> HIDE DEF p
<1> QED
  BY <1>2, <1>3, <1>4, <1>5, SameNest DEF p

(* The value on top turns out to be a container: one level deeper. *)
LEMMA NestOpen ==
  ASSUME NEW st, Ready(st), st[Len(st)] = "value",
         NEW s \in {"object", "array"}
  PROVE  /\ Ready(Shift(st, s))
         /\ NestOf(Shift(st, s)) = Append(NestOf(st), s)
         /\ Len(Shift(st, s)) = Len(st)
         /\ Shift(st, s)[Len(st)] = s
<1> DEFINE sh == Shift(st, s)
           n  == Len(st)
           c  == Events!Container
<1>0. s \in State /\ s \in State \ Bottom /\ s \in c /\ KindOf(s) = s
  BY DEF State, Bottom, Events!Container, KindOf
<1>1. n \in Nat /\ n > 1
  BY ReadyBottom
<1>2. Ready(sh)
  BY <1>0, ReadyShift
<1>3. /\ sh # <<>> /\ Len(sh) = n /\ sh[n] = s
      /\ \A i \in 1..(n - 1) : sh[i] = st[i]
  BY <1>0, ShiftLemma DEF Ready
<1>4. Depth(sh) = n - 1 /\ Depth(st) = n - 2
  BY <1>3 DEF Depth, Ready
<1>5. /\ NestOf(sh) \in Seq(c) /\ Len(NestOf(sh)) = n - 1
      /\ \A i \in 1..(n - 1) : NestOf(sh)[i] = KindOf(sh[i + 1])
  BY <1>2, <1>4, NestIsSeq
<1>6. /\ NestOf(st) \in Seq(c) /\ Len(NestOf(st)) = n - 2
      /\ \A i \in 1..(n - 2) : NestOf(st)[i] = KindOf(st[i + 1])
  BY <1>4, NestIsSeq
<1>7. /\ Append(NestOf(st), s) \in Seq(c)
      /\ Len(Append(NestOf(st), s)) = n - 1
      /\ \A i \in 1..(n - 2) : Append(NestOf(st), s)[i] = NestOf(st)[i]
      /\ Append(NestOf(st), s)[n - 1] = s
  <2>1. n - 2 + 1 = n - 1
    BY <1>1
  <2> HIDE DEF n, c
  <2> QED
    BY <1>0, <1>6, <2>1, AppendProperties
<1>8. ASSUME NEW i \in 1..(n - 1)
      PROVE  NestOf(sh)[i] = Append(NestOf(st), s)[i]
  <2> HIDE DEF n, c, sh
  <2>1. CASE i = n - 1
    <3>1. i + 1 = n
      BY <1>1, <2>1
    <3> QED
      BY <1>0, <1>3, <1>5, <1>7, <2>1, <3>1
  <2>2. CASE i # n - 1
    <3>1. i \in 1..(n - 2) /\ i + 1 \in 1..(n - 1)
      BY <1>1, <2>2
    <3> QED
      BY <1>3, <1>5, <1>6, <1>7, <3>1
  <2> QED
    BY <2>1, <2>2
<1> HIDE DEF n, c, sh
<1>9. NestOf(sh) = Append(NestOf(st), s)
  BY <1>5, <1>7, <1>8, SeqEqual
<1> QED
  BY <1>2, <1>3, <1>9 DEF n, sh

(* A literal ends: the containers stay, and the top is a container, *)
(* or the bottom when there is none.                                *)
LEMMA NestLiteral ==
  ASSUME NEW st, Ready(st), st[Len(st)] = "value"
  PROVE  /\ Ready(Pop(st))
         /\ NestOf(Pop(st)) = NestOf(st)
         /\ IF NestOf(st) = <<>> THEN Pop(st)[Len(Pop(st))] = "start"
                                 ELSE Pop(st)[Len(Pop(st))] \in Inner
<1> DEFINE p == Pop(st)
           n == Len(st)
<1>1. n \in Nat /\ n > 1 /\ st[1] = "start"
  BY ReadyBottom
<1>2. Ready(p)
  BY ReadyPop
<1>3. Len(p) = n - 1 /\ \A i \in 1..(n - 1) : p[i] = st[i]
  BY PopLemma DEF Ready
<1>4. \A i \in 2..n : i < n => st[i] \in Inner
  BY DEF Ready, Shaped
<1>5. p[n - 1] = st[n - 1] /\ p # <<>>
  <2> HIDE DEF p, n
  <2> QED BY <1>1, <1>2, <1>3 DEF Ready
<1>6. n > 2 => st[n - 1] \in Inner
  <2> HIDE DEF p, n
  <2> QED BY <1>1, <1>4
<1>7. Depth(p) = n - 2 /\ Depth(st) = n - 2
  BY <1>1, <1>3, <1>5, <1>6 DEF Depth, Ready, Inner
<1>8. \A i \in 1..(n - 2) : p[i + 1] = st[i + 1]
  <2> HIDE DEF p, n
  <2> QED BY <1>1, <1>3
<1>9. NestOf(p) = NestOf(st)
  <2> HIDE DEF p, n
  <2> QED BY <1>2, <1>7, <1>8, SameNest
<1>10. NestOf(st) = <<>> <=> n = 2
  <2>1. NestOf(st) \in Seq(Events!Container) /\ Len(NestOf(st)) = n - 2
    BY <1>7, NestIsSeq
  <2> HIDE DEF n
  <2> QED
    BY <1>1, <2>1, EmptySeq
<1> HIDE DEF p, n
<1> QED
  BY <1>1, <1>2, <1>3, <1>5, <1>6, <1>9, <1>10 DEF p

(* A container ends: one level less, and the container that waits, or the *)
(* bottom, comes to the top.                                              *)
LEMMA NestClose ==
  ASSUME NEW st, Ready(st), st[Len(st)] \notin {"start", "value"}
  PROVE  /\ NestOf(st) # <<>>
         /\ NestOf(st)[Len(NestOf(st))] = KindOf(st[Len(st)])
         /\ Ready(Pop(st))
         /\ NestOf(Pop(st)) = SubSeq(NestOf(st), 1, Len(NestOf(st)) - 1)
         /\ IF NestOf(Pop(st)) = <<>> THEN Pop(st)[Len(Pop(st))] = "start"
                                      ELSE Pop(st)[Len(Pop(st))] \in Inner
<1> DEFINE p == Pop(st)
           n == Len(st)
           c == Events!Container
<1>1. n \in Nat /\ n > 1 /\ st[1] = "start"
  BY ReadyBottom
<1>2. Ready(p)
  BY ReadyPop
<1>3. Len(p) = n - 1 /\ \A i \in 1..(n - 1) : p[i] = st[i]
  BY PopLemma DEF Ready
<1>4. \A i \in 2..n : i < n => st[i] \in Inner
  BY DEF Ready, Shaped
<1>5. p[n - 1] = st[n - 1] /\ p # <<>>
  <2> HIDE DEF p, n
  <2> QED BY <1>1, <1>2, <1>3 DEF Ready
<1>6. n > 2 => st[n - 1] \in Inner
  <2> HIDE DEF p, n
  <2> QED BY <1>1, <1>4
<1>7. Depth(p) = n - 2 /\ Depth(st) = n - 1
  BY <1>1, <1>3, <1>5, <1>6 DEF Depth, Ready, Inner
<1>8. /\ NestOf(p) \in Seq(c) /\ Len(NestOf(p)) = n - 2
      /\ \A i \in 1..(n - 2) : NestOf(p)[i] = KindOf(p[i + 1])
  BY <1>2, <1>7, NestIsSeq
<1>9. /\ NestOf(st) \in Seq(c) /\ Len(NestOf(st)) = n - 1
      /\ \A i \in 1..(n - 1) : NestOf(st)[i] = KindOf(st[i + 1])
  BY <1>7, NestIsSeq
<1> DEFINE q == SubSeq(NestOf(st), 1, n - 2)
<1>10. /\ q \in Seq(c) /\ Len(q) = n - 2
       /\ \A i \in 1..(n - 2) : q[i] = NestOf(st)[i]
  <2> DEFINE m == n - 2
  <2>1. 1 \in Int /\ m \in Nat /\ \A i \in 1..m : NestOf(st)[i] \in c
    <3>1. m \in Nat /\ \A i \in 1..m : i \in 1..Len(NestOf(st))
      <4> HIDE DEF n, c
      <4> QED BY <1>1, <1>9
    <3> HIDE DEF m, n, c
    <3> QED
      BY <1>9, <3>1, ElementOfSeq
  <2> HIDE DEF m, n, c
  <2>2. /\ SubSeq(NestOf(st), 1, m) \in Seq(c)
        /\ Len(SubSeq(NestOf(st), 1, m)) = IF 1 <= m THEN m - 1 + 1 ELSE 0
        /\ \A i \in 1..(m - 1 + 1) : SubSeq(NestOf(st), 1, m)[i] = NestOf(st)[1 + i - 1]
    BY <2>1, SubSeqProperties
  <2>3. m - 1 + 1 = m /\ \A i \in 1..m : 1 + i - 1 = i
    BY <2>1
  <2> QED
    BY <2>1, <2>2, <2>3 DEF m
<1>11. ASSUME NEW i \in 1..(n - 2)
       PROVE  NestOf(p)[i] = q[i]
  <2> HIDE DEF p, n, c, q
  <2>1. i + 1 \in 1..(n - 1) /\ i \in 1..(n - 1)
    BY <1>1
  <2> QED
    BY <1>3, <1>8, <1>9, <1>10, <2>1
<1>12. NestOf(p) = q
  <2> HIDE DEF p, n, c, q
  <2> QED BY <1>8, <1>10, <1>11, SeqEqual
<1>13. NestOf(p) = SubSeq(NestOf(st), 1, Len(NestOf(st)) - 1)
  <2>1. Len(NestOf(st)) - 1 = n - 2
    <3> HIDE DEF n, c
    <3> QED BY <1>1, <1>9
  <2> QED
    BY <1>12, <2>1
<1>14. NestOf(p) = <<>> <=> n = 2
  <2> HIDE DEF n, c, p
  <2> QED BY <1>1, <1>8, EmptySeq
<1>15. NestOf(st) # <<>> /\ NestOf(st)[n - 1] = KindOf(st[n])
  <2> HIDE DEF n, c, p
  <2>1. n - 1 \in 1..(n - 1) /\ n - 1 + 1 = n
    BY <1>1
  <2> QED
    BY <1>1, <1>9, <2>1, EmptySeq
<1> HIDE DEF p, n, q
<1> QED
  BY <1>1, <1>2, <1>3, <1>5, <1>6, <1>9, <1>13, <1>14, <1>15 DEF p, n

-----------------------------------------------------------------------------
(* The steps of the switch, as calls of the handler.                       *)

(***************************************************************************)
(* JSON_CALL_HANDLER is a call as JsonEvents sees it: granted, it moves on *)
(* to the nest of the new stack and to phase p; refused, or granted when   *)
(* there is no room for the push, it leaves both as they were and is the   *)
(* last.                                                                   *)
(***************************************************************************)
LEMMA DeliverCall ==
  ASSUME pc = "state", stat = "ok", stack # <<>>,
         NEW h, NEW st, st # <<>>, NEW p, NEW label \in {"token", "state"},
         Deliver(h, st, label),
         stack' = st /\ pc' = label => PhaseOf(Top)' = p,
         UNCHANGED stack => PhaseOf(Top)' = PhaseOf(Top)
  PROVE  Events!Call(h, NestOf(st), p)
<1>1. CASE stack' = st /\ pc' = label /\ UNCHANGED <<stat, err, call>>
  BY <1>1 DEF Deliver, Events!Call
<1>2. CASE pc' = "aborted" /\ UNCHANGED stack /\ UNCHANGED <<stat, err, call>>
  BY <1>2 DEF Deliver, Events!Call
<1>3. CASE Return("canceled", err) /\ UNCHANGED stack
  BY <1>3 DEF Deliver, Events!Call, Return
<1> QED
  BY <1>1, <1>2, <1>3 DEF Deliver, Move

(* Above the bottom of the stack the phase depends on the state only. *)
LEMMA PhaseStays ==
  ASSUME Top # "start", UNCHANGED stack
  PROVE  PhaseOf(Top)' = PhaseOf(Top)
BY DEF Top, PhaseOf

(* An error that ends the text calls nothing. *)
LEMMA FailStutters ==
  ASSUME pc = "state", stat = "ok", NEW e, Fail(e), Top # "start"
  PROVE  UNCHANGED Events!vars
BY DEF Fail, Return, Events!vars, Top, PhaseOf

(* The process ended at the limit of the stack: no call is made any more. *)
LEMMA AbortStops ==
  ASSUME pc = "state", stat = "ok", pc' = "aborted", UNCHANGED <<stack, stat, ev>>,
         PhaseOf(Top)' = PhaseOf(Top)
  PROVE  Events!Stop
BY DEF Events!Stop

(* At the bottom of the stack nothing is open. *)
LEMMA NestBottom ==
  ASSUME NEW s \in Bottom
  PROVE  NestOf(<<s>>) = <<>> /\ NestOf(<<>>) = <<>>
<1>1. Depth(<<s>>) = 0 /\ Depth(<<>>) = 0
  BY DEF Depth, Bottom
<1>2. \A st : NestOf(st) = [i \in 1..Depth(st) |-> KindOf(st[i + 1])]
  BY DEF NestOf
<1>3. NestOf(<<s>>) \in Seq({}) /\ NestOf(<<>>) \in Seq({})
      /\ Len(NestOf(<<s>>)) = 0 /\ Len(NestOf(<<>>)) = 0
  BY <1>1, <1>2, IsASeq, LenProperties
<1> QED
  BY <1>3, EmptySeq

-----------------------------------------------------------------------------
(* The calls of the client, and the lexer: no handler is called.           *)

LEMMA ClientStutters ==
  ASSUME IInv, FirstValue, Client
  PROVE  UNCHANGED Events!vars
<1>1. pc = "idle"
  BY DEF Client, SetParam, Parse, ParseDone
<1>2. ASSUME NEW p \in Param, NEW on \in BOOLEAN, SetParam(p, on)
      PROVE  UNCHANGED Events!vars
  BY <1>2 DEF SetParam, Events!vars, PhaseOf, Top, NoValueBegun
<1>3. ASSUME Begin, pc' = "token", UNCHANGED <<nValues, stat, ev>>
      PROVE  UNCHANGED Events!vars
  <2>1. UNCHANGED <<ev, stat # "canceled" /\ pc # "aborted">>
    BY <1>1, <1>3
  <2>2. NoValueBegun' = NoValueBegun
    BY <1>1, <1>3 DEF NoValueBegun
  <2>3. CASE stack = <<>> /\ stack' = <<"start">>
    <3>1. nValues = 0
      BY <2>3 DEF FirstValue
    <3>2. NestOf(stack)' = NestOf(stack)
      BY <2>3, NestBottom DEF Bottom
    <3>3. NoValueBegun' /\ stack' # <<>> /\ Top' = "start"
      BY <1>3, <2>3, <3>1 DEF NoValueBegun, Top
    <3> QED
      BY <2>1, <2>3, <3>2, <3>3 DEF Events!vars, PhaseOf
  <2>4. CASE stack # <<>> /\ Top = "done" /\ stack' = Shift(stack, "start")
    <3>1. stack \in Seq(State) /\ Shaped(stack)
      BY <2>4 DEF IInv, TypeOK, StackShape
    <3>2. Len(stack) = 1
      <4> DEFINE n == Len(stack)
      <4>1. n \in Nat \ {0} /\ stack[n] \in Bottom
            /\ \A i \in 2..n : stack[i] \notin Bottom
        BY <2>4, <3>1, EmptySeq DEF Top, Bottom, Shaped
      <4> HIDE DEF n
      <4>2. n = 1
        BY <4>1
      <4> QED
        BY <4>2 DEF n
    <3>3. stack = <<"done">> /\ stack' = <<"start">>
      <4>1. /\ stack' \in Seq(State) /\ Len(stack') = 1 /\ stack'[1] = "start"
            /\ stack[1] = "done"
        BY <2>4, <3>1, <3>2, ShiftLemma DEF State, Top
      <4>2. \A s \in State : <<s>> \in Seq(State) /\ Len(<<s>>) = 1 /\ <<s>>[1] = s
        OBVIOUS
      <4> QED
        BY <3>1, <3>2, <4>1, <4>2, SeqEqual DEF State
    <3>4. nValues # 0
      BY <3>3 DEF FirstValue
    <3>5. NestOf(stack)' = NestOf(stack)
      BY <3>3, NestBottom DEF Bottom
    <3>6. ~NoValueBegun /\ ~NoValueBegun' /\ stack' # <<>> /\ Top' = "start"
      BY <1>1, <1>3, <3>3, <3>4 DEF NoValueBegun, Top
    <3> QED
      BY <2>1, <2>4, <3>5, <3>6 DEF Events!vars, PhaseOf
  <2>5. CASE stack # <<>> /\ UNCHANGED stack
    BY <2>1, <2>2, <2>5 DEF Events!vars, PhaseOf, Top
  <2> QED
    BY <1>3, <2>3, <2>4, <2>5 DEF Begin
<1> QED
  BY <1>2, <1>3 DEF Client, Parse, ParseDone

LEMMA NextTokenStutters ==
  ASSUME IInv, NextToken
  PROVE  UNCHANGED Events!vars
<1>1. pc = "token" /\ UNCHANGED <<stack, nValues, ev>>
  BY DEF NextToken, BufferEmpty, LexToken, LexPart, LexWsp, LexError, EndToken,
         InsertEof
<1>2. stat = "ok" /\ stat' \in {"ok", "error"} /\ pc' # "aborted"
  BY <1>1 DEF NextToken, BufferEmpty, LexToken, LexPart, LexWsp, LexError,
         EndToken, InsertEof, Return, IInv, StatusMatchesError
<1>3. NoValueBegun' = NoValueBegun
  BY <1>1, <1>2 DEF NoValueBegun
<1> QED
  BY <1>1, <1>2, <1>3 DEF Events!vars, PhaseOf, Top

-----------------------------------------------------------------------------
(* The switch on the state.                                                *)

LEMMA NextStateCalls ==
  ASSUME IInv, FirstValue, NextState
  PROVE  [Events!Next]_(Events!vars)
<1>1. pc = "state" /\ stat = "ok"
  <2>1. pc = "state"
    BY DEF NextState, StartEof, StartValue, ValueLiteral, ValueOpen, ObjectMember,
           ObjectKey, ObjectColon, ObjectComma, ObjectEnd, ArrayElement,
           ArrayComma, ArrayEnd, UnexpectedToken, At
  <2> QED
    BY <2>1, NoError
<1>2. Ready(stack) /\ stack # <<>> /\ Top = stack[Len(stack)]
      /\ Len(stack) <= StackMax /\ nValues \in 0..NValuesMax
  BY <1>1, RunningReady DEF IInv, TypeOK, Top, Ready
<1>3. ASSUME Top # "start", UNCHANGED stack
      PROVE  PhaseOf(Top)' = PhaseOf(Top)
  BY <1>3, PhaseStays
<1>4. (stat # "canceled" /\ pc # "aborted") = TRUE
  BY <1>1
<1>5. CASE StartEof
  <2>1. stack = <<"start">>
    <3>1. stack \in Seq(State) /\ Len(stack) = 1 /\ stack[1] = "start"
      BY <1>2, <1>5, ReadyBottom DEF StartEof, At, Ready
    <3>2. <<"start">> \in Seq(State) /\ Len(<<"start">>) = 1 /\ <<"start">>[1] = "start"
      BY DEF State
    <3> QED
      BY <3>1, <3>2, SeqEqual
  <2>2. CASE nValues = 0 /\ Fail("unexpected_token")
    BY <1>1, <1>5, <2>1, <2>2
       DEF StartEof, Fail, Return, Events!vars, Top, PhaseOf, NoValueBegun
  <2>3. CASE nValues # 0 /\ stack' = Shift(stack, "done") /\ Return("ok", err)
             /\ UNCHANGED ev
    <3>1. stack' = <<"done">>
      <4>1. stack' \in Seq(State) /\ Len(stack') = 1 /\ stack'[1] = "done"
        BY <2>1, <2>3, <1>2, ShiftLemma DEF Ready, State
      <4>2. <<"done">> \in Seq(State) /\ Len(<<"done">>) = 1 /\ <<"done">>[1] = "done"
        BY DEF State
      <4> QED
        BY <4>1, <4>2, SeqEqual
    <3>2. NestOf(stack)' = NestOf(stack)
      BY <2>1, <3>1, NestBottom DEF Bottom
    <3>3. Top' = "done" /\ Top = "start" /\ ~NoValueBegun /\ stack' # <<>>
      BY <1>1, <1>5, <2>1, <2>3, <3>1 DEF Top, NoValueBegun, StartEof
    <3> QED
      BY <1>1, <1>2, <1>5, <2>3, <3>2, <3>3 DEF Return, Events!vars, PhaseOf
  <2> QED
    BY <1>5, <2>2, <2>3 DEF StartEof
<1>6. CASE StartValue
  <2>1. Top = "start" /\ nValues' = IncMax(nValues) /\ nValues' # 0
    BY <1>2, <1>6 DEF StartValue, At, IncMax, NValuesMax
  <2>2. /\ NestOf(Push(stack, "value")) = NestOf(stack)
        /\ Push(stack, "value") # <<>>
        /\ Push(stack, "value")[Len(Push(stack, "value"))] = "value"
    BY <1>2, <2>1, NestPush DEF Ready
  <2>3. CASE nValues' <= 1 /\ Move(Push(stack, "value"), "state")
             /\ UNCHANGED <<stat, err, call, ev>>
    <3>1. nValues = 0 /\ nValues' = 1 /\ PhaseOf(Top) = "first"
      BY <1>2, <2>1, <2>3 DEF IncMax, NValuesMax, PhaseOf, NoValueBegun
    <3>2. CASE stack' = Push(stack, "value") /\ pc' = "state"
      <4>1. PhaseOf(Top)' = "value"
        BY <2>2, <3>2 DEF Top, PhaseOf
      <4>2. Events!Commit
        BY <1>1, <1>2, <2>2, <2>3, <3>1, <3>2, <4>1 DEF Events!Commit
      <4> QED
        BY <4>2 DEF Events!Next
    <3>3. CASE pc' = "aborted" /\ UNCHANGED stack
      <4>1. PhaseOf(Top)' = PhaseOf(Top)
        BY <2>1, <3>1, <3>3 DEF Top, PhaseOf, NoValueBegun
      <4>2. Events!Stop
        BY <1>1, <2>3, <3>3, <4>1, AbortStops
      <4> QED
        BY <4>2 DEF Events!Next
    <3> QED
      BY <2>3, <3>2, <3>3 DEF Move
  <2>4. CASE nValues' > 1 /\ Deliver("value_sep", Push(stack, "value"), "state")
    <3>1. ~NoValueBegun /\ ~NoValueBegun'
      BY <1>1, <1>2, <2>1, <2>4 DEF NoValueBegun, IncMax, NValuesMax
    <3>2. UNCHANGED stack => PhaseOf(Top)' = PhaseOf(Top)
      BY <2>1, <3>1 DEF Top, PhaseOf
    <3>3. stack' = Push(stack, "value") /\ pc' = "state" => PhaseOf(Top)' = "value"
      BY <2>2 DEF Top, PhaseOf
    <3>4. Events!Call("value_sep", NestOf(stack), "value")
      BY <1>1, <1>2, <2>2, <2>4, <3>2, <3>3, DeliverCall
    <3>5. PhaseOf(Top) = "top"
      BY <2>1, <3>1 DEF PhaseOf
    <3> QED
      BY <1>2, <3>4, <3>5 DEF Events!ValueSep, Events!Next
  <2>5. CASE nValues' > 1 /\ Fail("multi_objects")
    <3>1. ~NoValueBegun /\ ~NoValueBegun'
      BY <1>1, <1>2, <2>1, <2>5 DEF NoValueBegun, IncMax, NValuesMax
    <3> QED
      BY <1>1, <2>1, <2>5, <3>1 DEF Fail, Return, Events!vars, Top, PhaseOf
  <2>6. nValues' \in Nat
    BY <1>2, <2>1 DEF IncMax, NValuesMax
  <2> QED
    BY <1>6, <2>3, <2>4, <2>5, <2>6 DEF StartValue
<1>7. CASE ValueLiteral
  <2>1. Top = "value" /\ tok \in Events!Scalar /\ PhaseOf(Top) = "value"
        /\ UNCHANGED nValues
    BY <1>7 DEF ValueLiteral, At, Literal, Events!Scalar, PhaseOf
  <2>2. /\ Ready(Pop(stack)) /\ Pop(stack) # <<>>
        /\ NestOf(Pop(stack)) = NestOf(stack)
        /\ IF NestOf(stack) = <<>> THEN Pop(stack)[Len(Pop(stack))] = "start"
                                   ELSE Pop(stack)[Len(Pop(stack))] \in Inner
    BY <1>2, <2>1, NestLiteral DEF Ready
  <2>3. nValues # 0
    BY <1>2, <2>1 DEF FirstValue, Top
  <2>4. CASE Deliver(tok, Pop(stack), "token")
    <3>1. stack' = Pop(stack) /\ pc' = "token" =>
            PhaseOf(Top)' = Events!Completed(NestOf(stack))
      BY <2>1, <2>2, <2>3 DEF Top, PhaseOf, NoValueBegun, Events!Completed, Inner
    <3>2. Events!Call(tok, NestOf(stack), Events!Completed(NestOf(stack)))
      BY <1>1, <1>2, <1>3, <2>1, <2>2, <2>4, <3>1, DeliverCall
    <3> QED
      BY <1>2, <2>1, <3>2 DEF Events!Value, Events!Next
  <2>5. CASE Fail("literal_value")
    BY <1>1, <2>1, <2>5, FailStutters
  <2> QED
    BY <1>7, <2>4, <2>5 DEF ValueLiteral
<1>8. CASE ValueOpen
  <2>1. Top = "value" /\ PhaseOf(Top) = "value"
    BY <1>8 DEF ValueOpen, At, PhaseOf
  <2>2. ASSUME NEW c \in {"object", "array"}, NEW h, Deliver(h, Shift(stack, c), "token")
        PROVE  Events!Start(c, h)
    <3>1. /\ NestOf(Shift(stack, c)) = Append(NestOf(stack), c)
          /\ Shift(stack, c) # <<>>
          /\ Shift(stack, c)[Len(Shift(stack, c))] = c
      BY <1>2, <2>1, NestOpen DEF Ready
    <3>2. stack' = Shift(stack, c) /\ pc' = "token" => PhaseOf(Top)' = "open"
      BY <3>1 DEF Top, PhaseOf
    <3>3. Events!Call(h, Append(NestOf(stack), c), "open")
      BY <1>1, <1>2, <1>3, <2>1, <2>2, <3>1, <3>2, DeliverCall
    <3> QED
      BY <1>2, <2>1, <3>3 DEF Events!Start
  <2> QED
    BY <1>8, <2>2 DEF ValueOpen, Events!Next
<1>9. ASSUME Top \notin {"start", "value", "done"},
             NEW s \in State \ {"start", "done", "value"}, KindOf(s) = KindOf(Top)
      PROVE  /\ Ready(Shift(stack, s)) /\ Shift(stack, s) # <<>>
             /\ NestOf(Shift(stack, s)) = NestOf(stack)
             /\ Shift(stack, s)[Len(Shift(stack, s))] = s
  BY <1>2, <1>9, NestShift DEF Ready
<1>10. ASSUME Top \notin {"start", "value", "done"}
       PROVE  Events!Inside(KindOf(Top))
  BY <1>2, <1>10, NestClose DEF Events!Inside
<1>11. ASSUME Top \notin {"start", "value", "done"},
              NEW s \in Inner, KindOf(s) = KindOf(Top)
       PROVE  /\ NestOf(Push(Shift(stack, s), "value")) = NestOf(stack)
              /\ Push(Shift(stack, s), "value") # <<>>
              /\ Push(Shift(stack, s), "value")
                    [Len(Push(Shift(stack, s), "value"))] = "value"
  BY <1>9, <1>11, NestPush DEF Ready, Inner, State
<1>12. CASE ObjectMember
  <2>1. Top = "object" /\ PhaseOf(Top) = "open" /\ KindOf(Top) = "object"
        /\ KindOf("object_arg") = "object"
        /\ "object_arg" \in State \ {"start", "done", "value"}
    BY <1>12 DEF ObjectMember, At, PhaseOf, KindOf, State
  <2>2. PhaseOf(Top)' = "key" /\ stack' # <<>>
    BY <1>9, <1>12, <2>1 DEF ObjectMember, Top, PhaseOf
  <2>3. Events!Commit
    BY <1>1, <1>2, <1>9, <1>10, <1>12, <2>1, <2>2 DEF ObjectMember, Events!Commit
  <2> QED
    BY <2>3 DEF Events!Next
<1>13. CASE ObjectKey
  <2>1. Top = "object_arg" /\ PhaseOf(Top) = "key" /\ KindOf(Top) = "object"
        /\ KindOf("object_key") = "object"
        /\ "object_key" \in State \ {"start", "done", "value"}
    BY <1>13 DEF ObjectKey, At, PhaseOf, KindOf, State
  <2>2. stack' = Shift(stack, "object_key") /\ pc' = "token" => PhaseOf(Top)' = "value"
    BY <1>9, <2>1 DEF Top, PhaseOf
  <2>3. Events!Call("object_key", NestOf(stack), "value")
    BY <1>1, <1>2, <1>3, <1>9, <1>13, <2>1, <2>2, DeliverCall DEF ObjectKey
  <2> QED
    BY <1>2, <2>1, <2>3 DEF Events!Key, Events!Next
<1>14. CASE ObjectColon
  <2>1. Top = "object_key" /\ PhaseOf(Top) = "value" /\ KindOf(Top) = "object"
        /\ KindOf("object_value") = "object" /\ "object_value" \in Inner
    BY <1>14 DEF ObjectColon, At, PhaseOf, KindOf, Inner
  <2>2. CASE stack' = Push(Shift(stack, "object_value"), "value") /\ pc' = "token"
    <3>1. PhaseOf(Top)' = "value" /\ stack' # <<>> /\ NestOf(stack)' = NestOf(stack)
      BY <1>11, <2>1, <2>2 DEF Top, PhaseOf
    <3> QED
      BY <1>1, <1>2, <1>14, <2>1, <2>2, <3>1 DEF ObjectColon, Events!vars
  <2>3. CASE pc' = "aborted" /\ UNCHANGED stack
    <3>1. Events!Stop
      BY <1>1, <1>3, <1>14, <2>1, <2>3, AbortStops DEF ObjectColon
    <3> QED
      BY <3>1 DEF Events!Next
  <2> QED
    BY <1>14, <2>2, <2>3 DEF ObjectColon, Move
<1>15. CASE ObjectComma
  <2>1. Top = "object_value" /\ PhaseOf(Top) = "after" /\ KindOf(Top) = "object"
        /\ KindOf("object_arg") = "object"
        /\ "object_arg" \in State \ {"start", "done", "value"}
    BY <1>15 DEF ObjectComma, At, PhaseOf, KindOf, State
  <2>2. stack' = Shift(stack, "object_arg") /\ pc' = "token" => PhaseOf(Top)' = "key"
    BY <1>9, <2>1 DEF Top, PhaseOf
  <2>3. Events!Call("object_sep", NestOf(stack), "key")
    BY <1>1, <1>2, <1>3, <1>9, <1>15, <2>1, <2>2, DeliverCall DEF ObjectComma
  <2> QED
    BY <1>2, <1>10, <2>1, <2>3 DEF Events!Sep, Events!Next
<1>16. CASE ArrayElement
  <2>1. Top = "array" /\ PhaseOf(Top) = "open" /\ KindOf(Top) = "array"
        /\ KindOf("array_value") = "array" /\ "array_value" \in Inner
    BY <1>16 DEF ArrayElement, At, PhaseOf, KindOf, Inner
  <2>2. CASE stack' = Push(Shift(stack, "array_value"), "value") /\ pc' = "state"
    <3>1. PhaseOf(Top)' = "value" /\ stack' # <<>> /\ NestOf(stack)' = NestOf(stack)
      BY <1>11, <2>1, <2>2 DEF Top, PhaseOf
    <3>2. Events!Commit
      BY <1>1, <1>2, <1>10, <1>16, <2>1, <2>2, <3>1 DEF ArrayElement, Events!Commit
    <3> QED
      BY <3>2 DEF Events!Next
  <2>3. CASE pc' = "aborted" /\ UNCHANGED stack
    <3>1. Events!Stop
      BY <1>1, <1>3, <1>16, <2>1, <2>3, AbortStops DEF ArrayElement
    <3> QED
      BY <3>1 DEF Events!Next
  <2> QED
    BY <1>16, <2>2, <2>3 DEF ArrayElement, Move
<1>17. CASE ArrayComma
  <2>1. Top = "array_value" /\ PhaseOf(Top) = "after" /\ KindOf(Top) = "array"
    BY <1>17 DEF ArrayComma, At, PhaseOf, KindOf
  <2>2. /\ NestOf(Push(stack, "value")) = NestOf(stack)
        /\ Push(stack, "value") # <<>>
        /\ Push(stack, "value")[Len(Push(stack, "value"))] = "value"
    BY <1>2, <2>1, NestPush DEF Ready, Inner
  <2>3. stack' = Push(stack, "value") /\ pc' = "token" => PhaseOf(Top)' = "value"
    BY <2>2 DEF Top, PhaseOf
  <2>4. Events!Call("array_sep", NestOf(stack), "value")
    BY <1>1, <1>2, <1>3, <1>17, <2>1, <2>2, <2>3, DeliverCall DEF ArrayComma
  <2> QED
    BY <1>2, <1>10, <2>1, <2>4 DEF Events!Sep, Events!Next
<1>18. ASSUME Top \in {"object", "object_value", "array", "array_value"},
              UNCHANGED nValues, NEW h, Deliver(h, Pop(stack), "token")
       PROVE  Events!End(KindOf(Top), h)
  <2>1. PhaseOf(Top) \in {"open", "after"} /\ Top \notin {"start", "value", "done"}
    BY <1>18 DEF PhaseOf
  <2> DEFINE ns == SubSeq(NestOf(stack), 1, Len(NestOf(stack)) - 1)
  <2>2. /\ Ready(Pop(stack)) /\ Pop(stack) # <<>>
        /\ NestOf(Pop(stack)) = ns
        /\ IF ns = <<>> THEN Pop(stack)[Len(Pop(stack))] = "start"
                        ELSE Pop(stack)[Len(Pop(stack))] \in Inner
    BY <1>2, <2>1, NestClose DEF Ready
  <2> HIDE DEF ns
  <2>3. nValues # 0
    BY <1>2, <2>1 DEF FirstValue, Top
  <2>4. stack' = Pop(stack) /\ pc' = "token" =>
          PhaseOf(Top)' = Events!Completed(ns)
    BY <1>18, <2>2, <2>3 DEF Top, PhaseOf, NoValueBegun, Events!Completed, Inner
  <2>5. Events!Call(h, ns, Events!Completed(ns))
    BY <1>1, <1>2, <1>3, <1>18, <2>1, <2>2, <2>4, DeliverCall
  <2> QED
    BY <1>2, <1>10, <2>1, <2>5 DEF Events!End, ns
<1>19. CASE ObjectEnd
  <2>1. KindOf(Top) = "object" /\ Top \in {"object", "object_value"}
    BY <1>19 DEF ObjectEnd, At, KindOf
  <2>2. Events!End("object", "object_end")
    BY <1>18, <1>19, <2>1 DEF ObjectEnd
  <2> QED
    BY <2>2 DEF Events!Next
<1>20. CASE ArrayEnd
  <2>1. KindOf(Top) = "array" /\ Top \in {"array", "array_value"}
    BY <1>20 DEF ArrayEnd, At, KindOf
  <2>2. Events!End("array", "array_end")
    BY <1>18, <1>20, <2>1 DEF ArrayEnd
  <2> QED
    BY <2>2 DEF Events!Next
<1>21. CASE UnexpectedToken
  BY <1>1, <1>21
     DEF UnexpectedToken, Fail, Return, Events!vars, Top, PhaseOf, NoValueBegun
<1> QED
  BY <1>5, <1>6, <1>7, <1>8, <1>12, <1>13, <1>14, <1>15, <1>16, <1>17, <1>19,
     <1>20, <1>21 DEF NextState

-----------------------------------------------------------------------------
(***************************************************************************)
(* Whatever tokens come, however they are cut into buffers, wherever the   *)
(* client refuses and whatever the limit of the stack, the handler sees    *)
(* only sequences of calls that JsonEvents allows.                         *)
(***************************************************************************)
THEOREM ImplementsEventsCorrect == Spec => ImplementsEvents
<1>1. Init => Events!Init
  BY NestBottom DEF Init, Events!Init, Bottom
<1>2. IInv /\ FirstValue /\ [Next]_vars => [Events!Next]_(Events!vars)
  <2> SUFFICES ASSUME IInv, FirstValue, [Next]_vars
               PROVE  [Events!Next]_(Events!vars)
    OBVIOUS
  <2>1. CASE UNCHANGED vars
    BY <2>1 DEF vars, Events!vars, Top, PhaseOf, NoValueBegun
  <2>2. CASE Client
    BY <2>2, ClientStutters
  <2>3. CASE NextToken
    BY <2>3, NextTokenStutters
  <2>4. CASE NextState
    BY <2>4, NextStateCalls
  <2> QED
    BY <2>1, <2>2, <2>3, <2>4 DEF Next
<1> QED
  BY <1>1, <1>2, Invariance, PTL DEF Spec, ImplementsEvents, Events!Spec
=============================================================================
