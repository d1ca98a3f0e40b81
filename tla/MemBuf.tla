------------------------------- MODULE MemBuf -------------------------------
(***************************************************************************)
(* The memory buffers of lib/mem-buf.c: bytes that are appended to what a  *)
(* buffer holds, growing it up to a maximum, or that are shifted in, the   *)
(* oldest ones leaving a buffer that keeps its size.  A buffer is a record *)
(* with the sequence of its bytes; "overflow" says that it was asked for   *)
(* more than its maximum, which ends the process.                          *)
(***************************************************************************)
EXTENDS Integers, Sequences

Sets == INSTANCE FiniteSetsExt

(* mem_buf_create *)
Create(max, init) ==
  [max |-> max, init |-> IF init > max THEN max ELSE init, size |-> 0,
   data |-> <<>>, overflow |-> FALSE]

(* The size is doubled until there is room, and cut off at the maximum. *)
Grown(buf, len) ==
  LET sz   == IF buf.size = 0 THEN buf.init ELSE buf.size
      need == Len(buf.data) + len
  IN  Sets!Min({ s \in need..buf.max :
                   s = buf.max \/ \E k \in 0..need : s = sz * 2^k })

(* mem_buf_enlarge *)
Enlarge(buf, len) ==
  IF len = 0 THEN buf
  ELSE IF Len(buf.data) + len > buf.max THEN [buf EXCEPT !.overflow = TRUE]
  ELSE IF Len(buf.data) + len <= buf.size THEN buf
  ELSE [buf EXCEPT !.size = Grown(buf, len)]

(* mem_buf_update: mem_buf_append *)
AppendTo(buf, bytes) ==
  LET b == Enlarge(buf, Len(bytes))
  IN  IF b.overflow THEN b ELSE [b EXCEPT !.data = @ \o bytes]

LastOf(s, n) == SubSeq(s, Len(s) - n + 1, Len(s))

(* mem_buf_update: mem_buf_shiftin *)
ShiftIn(buf, bytes) ==
  LET in   == IF Len(bytes) > buf.size THEN LastOf(bytes, buf.size) ELSE bytes
      room == buf.size - Len(in)
  IN  [buf EXCEPT !.data = IF Len(@) > room THEN LastOf(@, room) \o in ELSE @ \o in]

(* mem_buf_shift_fit *)
ShiftFit(buf, len) == IF len = 0 THEN buf ELSE [buf EXCEPT !.data = LastOf(@, len)]
=============================================================================
