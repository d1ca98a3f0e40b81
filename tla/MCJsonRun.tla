----------------------------- MODULE MCJsonRun -----------------------------
(***************************************************************************)
(* JsonRun on every input of at most MaxSize bytes of which at most        *)
(* MaxLines end a line, with every error that a parser may find in it,     *)
(* read in pieces of every size, under every combination of the options.   *)
(***************************************************************************)
EXTENDS JsonRun

CONSTANTS
  MaxSize,    \* bound: the bytes of the input
  MaxLines,   \* bound: the lines that end in it
  Contexts,   \* sizes_error_ctxt_size
  TypePlaces  \* the places of an error of the type, in the text of the type

MCInit ==
  /\ \E n \in 0..MaxSize : \E nl \in SUBSET (1..n) :
       /\ Cardinality(nl) <= MaxLines
       /\ text = [size |-> n, nl |-> nl]
       /\ fault \in {[at |-> 0, place |-> 0]}
                    \cup { [at |-> d, place |-> p] : <<d, p>> \in
                             { x \in (1..n + 1) \X (1..n + 1) : x[2] <= x[1] } }
  /\ opts \in [ctxt : Contexts, verbose : BOOLEAN, noError : BOOLEAN, echo : BOOLEAN,
               fixed : BOOLEAN, typeError : {"none", "type"}, typePlace : TypePlaces]
  /\ Inputs
  /\ opts.typeError = "none" => opts.typePlace = NoPlace
  /\ foundAt = -1
  /\ RunInit

MCSpec == MCInit /\ [][WatchNext]_watchVars

-----------------------------------------------------------------------------
MCTypePlaces == {NoPlace, [line |-> 1, col |-> 1], [line |-> 2, col |-> 1]}
=============================================================================
