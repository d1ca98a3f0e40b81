------------------------------ MODULE JsonRun ------------------------------
(***************************************************************************)
(* The loop of the program json (src/json-base.c): it reads its input in   *)
(* pieces, has them parsed and, where there is an error, shows the bytes   *)
(* around its place, of which it must have kept some, since the place may  *)
(* come well before the byte at which the parser stopped.                  *)
(*                                                                         *)
(* A byte is its number in the input, from 1 on; which of them end a line  *)
(* is part of the input.  A parser (of the kinds that src/json-intf.c puts *)
(* behind one interface) is what it tells: the byte at which it finds an   *)
(* error, and the place of that error, there or before.  Escapes printed   *)
(* for bytes that cannot be shown are left out.                            *)
(***************************************************************************)
EXTENDS MemBuf, FiniteSets

CONSTANTS
  BufSize,  \* sizes_input_buf_size
  ErrMax,   \* sizes_error_buf_max
  ErrInit   \* sizes_error_buf_init

(* None of them may be 0: VERIFY_SIZE_NOT_NULL. *)
ASSUME SizesAssumption == {BufSize, ErrMax, ErrInit} \subseteq Nat \ {0}

VARIABLES
  text,   \* the input: its size, and the bytes that end a line
  fault,  \* the error of the input: the byte it is found at, and its place
  opts,   \* the options and the kind of the object that runs
  pc,
  fed,    \* how much was read
  echoed, \* and how much written back
  m,      \* buf and the locals of obj_json_base_run
  shown,  \* what pos_error_verbose printed
  foundAt \* history: how much was read before the piece with the error

runVars == <<text, fault, opts, pc, fed, echoed, m, shown>>

NoPlace == [line |-> 0, col |-> 0]

(* Lines and columns, from 1 on. *)
PlaceOf(i) ==
  LET ends == { k \in text.nl : k < i }
  IN  [line |-> 1 + Cardinality(ends), col |-> i - Sets!Max(ends \cup {0})]

(* this->buf exists *)
Verbose == opts.verbose /\ ~opts.noError

Nothing == [what |-> "nothing"]

-----------------------------------------------------------------------------
(* struct text_address_t                                                   *)

Start == [beg |-> 0, line |-> 1, col |-> 1]

LineEnds(bytes) == { k \in DOMAIN bytes : bytes[k] \in text.nl }

(* Deviation: the column goes on after the end of a line *)
AddressUpdateCol(addr, bytes) ==
  [beg  |-> addr.beg + Len(bytes),
   line |-> addr.line + Cardinality(LineEnds(bytes)),
   col  |-> addr.col + Len(bytes)]

(* text_address_update *)
AddressUpdate(addr, bytes) ==
  [beg  |-> addr.beg + Len(bytes),
   line |-> addr.line + Cardinality(LineEnds(bytes)),
   col  |-> IF LineEnds(bytes) = {} THEN addr.col + Len(bytes)
            ELSE Len(bytes) - Sets!Max(LineEnds(bytes)) + 1]

(* text_address_buf_update: what leaves the buffer when bytes are shifted in *)
AddressShiftIn(addr, buf, bytes) ==
  LET l == IF Len(bytes) > buf.size THEN buf.size ELSE Len(bytes)
      s == buf.size - l
      a == IF Len(buf.data) > s
           THEN AddressUpdate(addr, SubSeq(buf.data, 1, Len(buf.data) - s)) ELSE addr
  IN  AddressUpdate(a, SubSeq(bytes, 1, Len(bytes) - l))

(* text_address_buf_fit *)
AddressFit(addr, buf, len) ==
  AddressUpdate(addr, SubSeq(buf.data, 1, Len(buf.data) - len))

IsBefore(w, addr) ==
  w.line < addr.line \/ (w.line = addr.line /\ w.col < addr.col)

(* mem_find_nth; 0 when there are fewer *)
FindNth(bytes, n) ==
  LET nth == { k \in LineEnds(bytes) : Cardinality({ j \in LineEnds(bytes) : j <= k }) = n }
  IN  IF nth = {} THEN 0 ELSE Sets!Min(nth)

Nowhere == -1
Failed  == -2   \* an ASSERT fails

(* text_address_get_offset *)
GetOffset(addr, w, bytes) ==
  LET d    == w.line - addr.line
      p    == IF d = 0 THEN 0 ELSE FindNth(bytes, d)
      c    == IF d = 0 THEN w.col - addr.col ELSE w.col - 1
      ends == { k \in LineEnds(bytes) : k > p }
      q    == IF ends = {} THEN Len(bytes) ELSE Sets!Min(ends) - 1 - p
  IN  IF w.line = 0 \/ w.col = 0 THEN Failed
      ELSE IF IsBefore(w, addr) THEN Nowhere
      ELSE IF d > 0 /\ p = 0 THEN Failed
      ELSE IF c > q \/ p + c > Len(bytes) THEN Nowhere
      ELSE p + c

(* mem_get_offset: of a buffer that holds a text from its first byte on *)
MemGetOffset(bytes, w) ==
  LET r == FindNth(bytes, w.line - 1)
  IN  IF w.line = 0 \/ w.col = 0 \/ (w.line > 1 /\ r = 0) THEN Failed
      ELSE (IF w.line > 1 THEN r ELSE 0) + w.col - 1

-----------------------------------------------------------------------------
(* pos_error_verbose: the bytes around an offset, and the column of the    *)
(* caret under them, from 1 on.                                            *)

(* Deviation: an offset past a new line that is not shown stays *)
ContextPast(bytes, offset, atEof) ==
  LET strip == bytes # <<>> /\ bytes[Len(bytes)] \in text.nl /\ atEof
      len   == IF strip THEN Len(bytes) - 1 ELSE Len(bytes)
      b     == IF offset > opts.ctxt THEN offset - opts.ctxt ELSE 0
      e     == IF offset + opts.ctxt + 1 < len THEN offset + opts.ctxt + 1 ELSE len
  IN  [what |-> "context", bytes |-> SubSeq(bytes, b + 1, e),
       caret |-> offset - b + (IF len > 0 THEN 1 ELSE 0)]

Context(bytes, offset, atEof) ==
  LET strip == bytes # <<>> /\ bytes[Len(bytes)] \in text.nl /\ atEof
      len   == IF strip THEN Len(bytes) - 1 ELSE Len(bytes)
      off   == IF strip /\ offset = Len(bytes) THEN offset - 1 ELSE offset
      b     == IF off > opts.ctxt THEN off - opts.ctxt ELSE 0
      e     == IF off + opts.ctxt + 1 < len THEN off + opts.ctxt + 1 ELSE len
  IN  [what |-> "context", bytes |-> SubSeq(bytes, b + 1, e),
       caret |-> off - b + (IF len > 0 THEN 1 ELSE 0)]

Message == [what |-> "message"]

PosError(w, bytes, offset, verbose, atEof) ==
  IF opts.noError THEN Nothing
  ELSE IF ~verbose \/ w = NoPlace THEN Message
  ELSE Context(bytes, offset, atEof)

-----------------------------------------------------------------------------
(* One turn of the loop.  "rest" is the part of a piece, from p on, that   *)
(* is left to put into buf.                                                *)

(* Fit buf to at most err_ctxt bytes. *)
Fit(n) ==
  IF Len(n.mem.data) <= opts.ctxt THEN n
  ELSE [n EXCEPT !.buf = AddressFit(n.buf, n.mem, opts.ctxt),
                 !.mem = ShiftFit(n.mem, opts.ctxt)]

After(n) == [n EXCEPT !.t = "after_error"]

(* Find the place of the error, in the piece or in buf, and shift in the   *)
(* bytes of the piece that come before it.                                 *)
Locate(n, piece) ==
  LET i     == GetOffset(n.input, n.w, piece)
      j     == GetOffset(n.buf, n.w, n.mem.data)
      lead  == SubSeq(piece, 1, i)
      moved == [n EXCEPT !.buf  = AddressShiftIn(n.buf, n.mem, lead),
                         !.mem  = ShiftIn(n.mem, lead),
                         !.rest = SubSeq(piece, i + 1, Len(piece))]
  IN  IF i = Failed \/ (i = Nowhere /\ j = Failed) THEN [n EXCEPT !.failed = TRUE]
      ELSE IF i = Nowhere /\ j = Nowhere THEN After([n EXCEPT !.small = TRUE])
      ELSE IF i = Nowhere THEN After(Fit([n EXCEPT !.error = n.buf.beg + j]))
      ELSE IF i > 0
      THEN After(Fit([moved EXCEPT !.error = moved.buf.beg + Len(moved.mem.data)]))
      ELSE After(Fit([n EXCEPT !.error = n.input.beg]))

(* Of the bytes from the error on no more are kept than are to be shown. *)
Limit(n) ==
  LET l == Sets!Min({Len(n.rest), n.mem.size - Len(n.mem.data), n.size})
  IN  [n EXCEPT !.rest = SubSeq(@, 1, l), !.size = @ - l]

(* Deviation: the address of the pieces stays *)
KeepBuf(n, piece) ==
  LET shift == opts.fixed /\ n.s = "ok"
      known == opts.fixed /\ ~n.small
  IN  [n EXCEPT !.buf = IF known /\ shift THEN AddressShiftIn(@, n.mem, n.rest) ELSE @,
                !.mem = IF shift THEN ShiftIn(@, n.rest) ELSE AppendTo(@, n.rest)]

Keep(n, piece) ==
  LET shift == opts.fixed /\ n.s = "ok"
      known == opts.fixed /\ ~n.small
  IN  [n EXCEPT !.buf   = IF known /\ shift THEN AddressShiftIn(@, n.mem, n.rest) ELSE @,
                !.input = IF known THEN AddressUpdate(@, piece) ELSE @,
                !.mem   = IF shift THEN ShiftIn(@, n.rest) ELSE AppendTo(@, n.rest)]

(* The part of a turn that is there for the messages. *)
KeepContext(n, piece) ==
  LET found  == opts.fixed /\ n.t = "before_error" /\ n.s # "ok"
      rested == [n EXCEPT !.rest = piece]
      placed == IF found THEN Locate(rested, piece) ELSE rested
      few    == IF opts.fixed /\ n.s # "ok" THEN Limit(placed) ELSE placed
  IN  IF placed.failed THEN placed ELSE Keep(few, piece)

Finds(piece) == \E k \in DOMAIN piece : piece[k] = fault.at

(* The piece is parsed, unless there was an error before. *)
Parsed(n, piece) ==
  IF n.s = "ok" /\ Finds(piece) THEN [n EXCEPT !.s = "error", !.w = PlaceOf(fault.place)]
  ELSE n

(* Deviation: nor is what is to be written back *)
EnoughOfAll(n) ==
  n.s # "ok" /\ IF Verbose THEN n.size = 0 ELSE ~opts.verbose /\ m.s = "ok"

(* Nothing more is read once there is all that a message will show. *)
Enough(n) ==
  /\ n.s # "ok" /\ ~opts.echo
  /\ IF Verbose THEN n.size = 0 ELSE ~opts.verbose /\ m.s = "ok"

(* read gives some of the bytes left, all that there is room for or fewer. *)
Read(r) ==
  LET piece  == [ i \in 1..r |-> fed + i ]
      parsed == Parsed(m, piece)
      kept   == IF Verbose THEN KeepContext(parsed, piece) ELSE parsed
  IN  /\ pc = "reading" /\ fed + r <= text.size
      /\ fed' = fed + r
      /\ echoed' = IF opts.echo THEN echoed + r ELSE echoed
      /\ m' = kept
      /\ pc' = IF kept.failed THEN "aborted"
               ELSE IF kept.mem.overflow THEN "fatal"
               ELSE IF Enough(kept) THEN "ending" ELSE "reading"
      /\ UNCHANGED <<text, fault, opts, shown>>

ReadEnd ==
  /\ pc = "reading" /\ fed = text.size
  /\ m' = [m EXCEPT !.t = IF @ = "after_error" THEN "eof_error" ELSE @]
  /\ pc' = "ending"
  /\ UNCHANGED <<text, fault, opts, fed, echoed, shown>>

-----------------------------------------------------------------------------
(* After the loop.                                                         *)

(* One byte more is read, where buf ends with what was read, to see        *)
(* whether it ends with the input.                                         *)
SeeEnd(n) ==
  IF /\ n.t = "after_error" /\ Verbose /\ ~n.small
     /\ Len(n.mem.data) + n.buf.beg = n.input.beg
     /\ fed = text.size
  THEN [n EXCEPT !.t = "eof_error"] ELSE n

(* json_intf_parse_done *)
ParsedDone(n) ==
  IF n.s = "ok" /\ fault.at = text.size + 1
  THEN [n EXCEPT !.s = "error", !.w = PlaceOf(fault.place)] ELSE n

(* The offset of the error in buf, or that there is none. *)
Settle(n) ==
  LET o    == GetOffset(n.buf, n.w, n.mem.data)
      size == Len(n.mem.data)
  IN  CASE n.s # "ok" /\ n.t = "before_error" /\ Verbose ->
             [n EXCEPT !.t = "eof_error",
                       !.error  = IF size > 0 /\ o >= 0 THEN o ELSE @,
                       !.small  = (size > 0 /\ o = Nowhere),
                       !.failed = (size > 0 /\ o = Failed)]
        [] n.s # "ok" /\ n.t # "before_error" /\ ~n.small ->
             IF n.error < n.buf.beg THEN [n EXCEPT !.small = TRUE]
             ELSE [n EXCEPT !.error = @ - n.buf.beg,
                            !.small = (Verbose /\ size < n.error - n.buf.beg)]
        [] OTHER -> n

Report(n) ==
  IF n.s = "ok" THEN Nothing
  ELSE IF Verbose /\ ~n.small
  THEN PosError(n.w, n.mem.data, n.error, opts.verbose, n.t = "eof_error")
  ELSE PosError(n.w, <<>>, 0, FALSE, FALSE)

End ==
  LET n == Settle(ParsedDone(SeeEnd(m)))
      initial == opts.typeError # "none"
  IN  /\ pc = "ending"
      /\ m' = IF initial THEN m ELSE n
      /\ shown' = IF initial THEN shown ELSE Report(n)
      /\ pc' = IF initial THEN "done"
               ELSE IF n.failed THEN "aborted"
               ELSE IF n.s = "ok" /\ ~opts.fixed THEN "ran" ELSE "done"
      /\ UNCHANGED <<text, fault, opts, fed, echoed>>

(* obj_json_typelib_run: after a type was read, it may be refused by what  *)
(* is done with it, at a place of it or at none, which                     *)
(* obj_json_base_check_error shows.                                        *)
CheckError(w) ==
  LET o == MemGetOffset(m.mem.data, w)
      refused == [m EXCEPT !.s = "error", !.w = w]
  IN  /\ pc = "ran"
      /\ IF Verbose /\ w # NoPlace
         THEN /\ m' = [refused EXCEPT !.failed = (o = Failed), !.error = o]
              /\ shown' = IF o = Failed THEN shown
                          ELSE PosError(w, m.mem.data, o, opts.verbose, TRUE)
              /\ pc' = IF o = Failed THEN "aborted" ELSE "done"
         ELSE /\ m' = refused
              /\ shown' = PosError(w, <<>>, 0, FALSE, FALSE)
              /\ pc' = "done"
      /\ UNCHANGED <<text, fault, opts, fed, echoed>>

Accept ==
  /\ pc = "ran" /\ pc' = "done"
  /\ UNCHANGED <<text, fault, opts, fed, echoed, m, shown>>

-----------------------------------------------------------------------------
(* obj_json_base_init_base, obj_json_base_run up to its loop: an error of  *)
(* the type that was to check the input is shown at once, and only an      *)
(* input that is to be written back is read all the same.                  *)

(* Deviation: no room for the byte at fault *)
NewBufEven ==
  LET size == 2 * opts.ctxt
      buf  == IF opts.fixed THEN Create(size, size) ELSE Create(ErrMax, ErrInit)
  IN  IF Verbose THEN Enlarge(buf, buf.init) ELSE Create(0, 0)

NewBuf ==
  LET size == 2 * opts.ctxt + 1
      buf  == IF opts.fixed THEN Create(size, size) ELSE Create(ErrMax, ErrInit)
  IN  IF Verbose THEN Enlarge(buf, buf.init) ELSE Create(0, 0)

(* An input, with an error or without one, of which the parser may tell at *)
(* its last byte or at the end of the input, and the options that the      *)
(* program admits: it verifies that the context fits the largest buffer,   *)
(* and only the parser has an echo, or a type, in a text of its own.       *)
Inputs ==
  /\ text \in [size : Nat, nl : SUBSET Nat] /\ text.nl \subseteq 1..text.size
  /\ fault \in [at : Nat, place : Nat] /\ fault.at <= text.size + 1
  /\ fault.place <= fault.at /\ (fault.at > 0 => fault.place > 0)
  /\ opts \in [ctxt : Nat \ {0}, verbose : BOOLEAN, noError : BOOLEAN, echo : BOOLEAN,
               fixed : BOOLEAN, typeError : {"none", "type"},
               typePlace : [line : Nat, col : Nat]]
  /\ 2 * opts.ctxt < ErrMax
  /\ opts.echo \/ opts.typeError # "none" => opts.fixed

RunInit ==
  LET initial == opts.typeError # "none"
  IN  /\ pc = IF initial /\ ~opts.echo THEN "done" ELSE "reading"
      /\ fed = 0 /\ echoed = 0
      /\ m = [mem |-> NewBuf, buf |-> Start, input |-> Start, rest |-> <<>>,
              error |-> 0, size |-> opts.ctxt + 1, t |-> "before_error",
              small |-> FALSE, failed |-> FALSE,
              s |-> IF initial THEN "error" ELSE "ok",
              w |-> IF initial THEN opts.typePlace ELSE NoPlace]
      /\ shown = IF initial /\ ~opts.noError THEN Message ELSE Nothing

(* The exit status of the program. *)
Status == m.s = "error"

RunNext ==
  \/ \E r \in 1..BufSize : Read(r)
  \/ ReadEnd \/ End
  \/ \E i \in 1..text.size : CheckError(PlaceOf(i))
  \/ CheckError(NoPlace) \/ Accept

RunSpec == Inputs /\ RunInit /\ [][RunNext]_runVars

(* The same, with a record of when an error was found. *)
watchVars == <<runVars, foundAt>>

WatchNext ==
  /\ RunNext
  /\ foundAt' = IF m.s = "ok" /\ m'.s # "ok" THEN fed ELSE foundAt

WatchSpec == Inputs /\ RunInit /\ foundAt = -1 /\ [][WatchNext]_watchVars

-----------------------------------------------------------------------------
IsRun(s) == \A k \in DOMAIN s : s[k] = s[1] + k - 1

(* The lines and columns that are kept along with the bytes of buf and of  *)
(* the piece read last stay those of their first bytes, and buf stays a    *)
(* run of the bytes read, which ends where those of before the error do.   *)
AddressesAgree ==
  pc # "aborted" =>
    /\ IsRun(m.mem.data) /\ Len(m.mem.data) <= m.mem.size
    /\ m.mem.data # <<>> => m.mem.data[1] = m.buf.beg + 1
    /\ [line |-> m.buf.line, col |-> m.buf.col] = PlaceOf(m.buf.beg + 1)
    /\ [line |-> m.input.line, col |-> m.input.col] = PlaceOf(m.input.beg + 1)

(* No error is missed, whatever the pieces: the program accepts an input   *)
(* after all of it was read and found right, and an input that is to be    *)
(* written back is, to its end, and no byte twice.                         *)
ReadsToTheEnd ==
  /\ pc = "done" /\ m.s = "ok" => fed = text.size /\ fault.at = 0
  /\ pc = "done" /\ opts.echo => echoed = text.size

(* The type that was to check the input has an error of its own.           *)
Initial == opts.typeError # "none"
Shows   == shown.what = "context"
Wrong   == CHOOSE i \in 1..text.size + 1 : PlaceOf(i) = m.w

(* The ASSERTs hold: a place is always looked for where it can be, and the *)
(* offset of an error is within buf.  Left out: the error of a type when   *)
(* the input is written back.                                              *)
NeverAborts == ~Initial => pc # "aborted"

(* What is shown is a run of bytes of the input, and the caret is under    *)
(* the byte at fault, or where the input ends.                             *)
CaretIsRight ==
  Shows =>
    /\ IsRun(shown.bytes)
    /\ IF shown.bytes = <<>> THEN text.size = 0 \/ text.nl = 1..text.size
       ELSE shown.bytes[1] + shown.caret - 1 =
              IF Wrong > text.size /\ text.size \in text.nl THEN Wrong - 1 ELSE Wrong

Explains == pc = "done" /\ ~Initial /\ Verbose /\ m.s = "error" /\ m.w # NoPlace

(* How far before the end of what was read an error is still in buf. *)
Reach ==
  IF ~opts.fixed THEN 1
  ELSE IF fault.at > text.size THEN text.size - 2 * opts.ctxt
  ELSE foundAt - opts.ctxt + 1

(* The bytes around an error are shown whenever it is in reach, and where  *)
(* they are not, a message tells that the size of contexts is too small.   *)
ShowsInReach ==
  Explains => /\ Shows <=> Wrong >= Reach
              /\ m.small <=> Wrong < Reach

Around(first, last) == { i \in first..last : 1 <= i /\ i <= text.size }

(* As many bytes are shown as were asked for on either side of an error in *)
(* the piece read last, a new line at the end of the input aside, and of   *)
(* every error where all of the input is kept.  Left out: an input that is *)
(* written back, whose context may lose a new line anywhere.               *)
ShowsEnough ==
  Explains /\ Shows /\ ~opts.echo /\ (Wrong > foundAt \/ ~opts.fixed) =>
    LET bytes   == { shown.bytes[k] : k \in DOMAIN shown.bytes }
        missing == Around(Wrong - opts.ctxt, Wrong + opts.ctxt) \ bytes
    IN  missing \subseteq ({text.size} \cap text.nl)

(* The reader of a message sees the error wherever the program can show    *)
(* it, with all that was asked for around it.                              *)
ContextIsWhole == ShowsInReach /\ ShowsEnough
=============================================================================
