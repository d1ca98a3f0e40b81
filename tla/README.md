# Json-Type in TLA+

A verification development of Json-Type: `lib/` holds a push parser for JSON, a
type checker for JSON values and the library of types behind it; `src/` holds
the program `json` built on them.  TLC model-checks the modules on small
instances; TLAPS proves theorems about the core for every value of the
constants.  File names below are relative to the repository.

- [1. Inventory](#1-inventory): the system's parts
- [2. Plan](#2-plan): what is modelled, in which order
- [3. Modules](#3-modules): how state and actions correspond to the code
- [4. Runs](#4-runs): what TLC checks, with which bounds
- [5. Proofs](#5-proofs): what TLAPS proves, and along which argument
- [6. Disagreements](#6-disagreements): where the code and its documents differ
- [7. Limits](#7-limits): what is only model-checked, and what is not modelled

## 1. Inventory

The program is sequential: one thread, no signals, no sockets.  What makes it
hard is not parallelism but *reentry*: a text arrives in buffers cut anywhere,
so every function must be able to stop in the middle and go on at the next
call; each level calls the one above it through a table of handler functions,
any of which may refuse; and a type checker sits between the two, with a stack
that must follow the parser's without ever looking at it.

| Part | Code | State it keeps | Operations | Interacts with |
|---|---|---|---|---|
| Push parser | `lib/json.c` (`json_do_parse`, `json_parse`, `json_parse_done`, `json_config_set_param`) | the stack of states, `current_stat`, `error_info`, `n_values`, the configuration asked for and the one in force | init, parse a buffer, end of text, configure, the getters of an error | takes tokens from the lexer, calls the handler (`json_handler_t`) |
| Lexer | `lib/json.c` (`json_parse_token` and what it calls) | `current_tok` with its pending part, `current_tok_buf`, `current_pos` | take the next token of a buffer, go on with a pending one, end it | the memory buffer of token texts, UTF-8 |
| UTF-8 | `lib/json.c` (`json_validate_utf8`, `json_encode_utf8`) | none | validate a string, encode a code unit | the lexer |
| Type checker | `lib/json-type.c` (`json_type_object_start`, `json_type_value_sep` and the like, `json_type_check_any/plain/node`) | `obj_stack` of frames, `type_check` error | one handler for each of the parser's, init, done | it is a handler of the parser, and calls a handler of its own; reads the library's types and tries |
| Type library: attributes | `lib/json-type.c` (`json_type_lib_gen_*`, `json_type_lib_check_*`) | the tries of each list, the bit mask of each dict | build, rebalance, check a type once loaded | tries, bit sets |
| Type library: rules | `lib/json-type.c` (`json_type_ruler_*`, `json_type_lib_rules_*`) | the stack of arguments, nodes and definitions under construction, the names defined | visit a tree node by node (the ruler), build a node or look up a name for each form found (the rules), check it | reads the tree of a text; attributes, memory pool |
| Type library: loading | `lib/json-type.c` (`json_type_lib_*`), `lib/json-type-module.c` | the text, its tree, the type built of it or loaded from a shared object, the first error, what was done already | parse, end of text, validate, build, print, check, write definitions, load by a name | the parser, the ruler, attributes, `dlopen` |
| Type library: definitions | `lib/json-type.c` (`.._validate`, `.._gen_def`), `lib/json-type-typedefs.h` | the pointers met, with a number each; counts | validate the objects of a shared object, write objects as C text | treap, tries, pool memory; a C compiler |
| Tries | `lib/trie-impl.h` | ternary trees, with balanced siblings | insert, look up, match, rebalance, iterate | the type library |
| Treap | `lib/treap-impl.h` | a randomised search tree from pointers to numbers | insert, look up | the validation of compiled types, the generation of C definitions |
| Stacks | `lib/stack-impl.h`, `lib/vstack-impl.h` | an array, or chunks, of bounded size | push, pop, top | parser, checker, rules, printers |
| Buffers | `lib/mem-buf.c`, `lib/file-buf.c`, `lib/pool-alloc.c` | bytes, in an allocation that doubles to a limit | append, grow, align | lexer, AST, library, run loop |
| Bit sets | `lib/bit-set.c` | words, or one inline word | set, test, compare | dicts of the checker |
| Tree of a text | `lib/json-ast.c` | a stack of nodes and marks, the root, the flag `done` | a handler; parse, end of text | it owns a parser and is its handler; the ruler visits the tree |
| Printers | `src/json-printer.c`, `src/json2.c`, `lib/pretty-print.c` | indentation, the path of the current value | a handler; prints | parser or checker |
| Run loop | `src/json-base.c`, `src/json-intf.c`, `src/json-*.c`, `src/obj.c` | the input buffer, the context shown with an error, an object with its dispatch | read, parse, report | all of the above |
| Options, support, test drivers | `src/common.c`, `lib/common.c`, `lib/debug*.c`, `lib/test-*.c` | none that matters | parse the command line, print help and messages | |

What makes each part correct, and what is hard to test about it:

- **Push parser.**  It accepts exactly the texts of its grammar
  (`lib/json.g`), under each configuration; calls the handler in an order that
  makes sense, and never after a refusal or an error; stops for ever after
  one; never looks below the bottom of its stack; always returns.  Hard: a
  configuration changed in the middle of a text, a second text on the same
  object, the two-bit counter of values, the end of a stack.
- **Lexer.**  What it makes of a text does not depend on where buffers end:
  tokens, values, lines and columns, and the place of an error.  Hard: the
  same buffer serves all tokens; the digits of an escape are decoded in place,
  from an offset kept across calls; a column is computed after the fact.
- **Type checker.**  Its frames follow the parser's calls through any nesting;
  it lets a value through exactly when the value matches the type; its client
  sees a legal sequence of calls.  Hard: a list of types is entered by the
  first value and not left again; an array may be open or closed for a while;
  a name is checked in one call and its value in another.
- **Type library.**  It accepts a list only when the checker's way to walk it
  is sound: no value suits two of the branches.  Its tries are sets of keys,
  whatever the order of insertion and the balance.
- **Tries.**  Look-ups do not depend on their shape; rebalancing keeps the keys
  and reaches the least depth; iterators fit the stack they allocate.
- **Rules.**  Every tree of a type becomes the node it denotes, or an error at
  the first place that is wrong; whatever form is met, the stack is left with
  one object more than before, and with one in all at the end; a name is
  looked up among those defined before it.
- **Tree of a text.**  Written out again it is the text, each node located
  where it began; the checks on the stack never end the process.  Hard: one
  stack for the members of all open containers; the configuration may change
  before the end of the text is asked for.
- **Stacks, buffers.**  References taken before a growth are not used after it;
  a limit ends the process before it is overrun.
- **Type library: loading.**  Calls come in any order, and each is answered as
  the text deserves: an answer that is no has an error, the first error stays.
  Hard: what was tried once is not tried again, and "nothing yet" looks like
  "nothing at all".
- **Type library: definitions.**  Objects that validation accepts are a tree,
  with all the parts the checker follows; a library written, compiled and loaded
  is accepted again.  Hard: pointers that are shared, go round, or point into
  another type; arrays that have no elements have no place either.
- **Treap.**  A map from pointers to numbers, whatever the order of the pointers
  and whatever its stamps have wrapped to.
- **Printers.**  A text printed is the text, in by one level for each container,
  though the printer knows of none; a path printed has the names on the way to
  its value; the type printed for a value is matched by that value and no other.
  Hard: objects in arrays and objects without members, where a name is to be
  taken off the stack or not by one flag.
- **Run loop.**  The context shown with an error is the text around it, though
  the buffer has been shifted since.  Hard: the place of an error may lie before
  the piece in which it is found, in bytes partly dropped; after an error the
  loop goes on reading, for the context and for what is to be written back.

PROJECT.json lists the hazards, each at its line, with the properties that
would catch it.

## 2. Plan

1. *Done.* `JsonEvents`, `JsonParser`, `JsonGrammar`: the core of the system,
   with `JsonParserProofs`.
2. *Done.* `Utf8`, `JsonLexemes`, `JsonLexer`.
3. *Done.* `JsonTypes`, `JsonTypeSpec`, `JsonChecker`, with `JsonCheckerProofs`.
4. *Done.* `JsonTypeLib`.
5. *Done.* `Trie`, `TrieIter`.
6. *Done.* `JsonAst`, the tree of a text, as the client of `JsonParser`, with
   `JsonAstProofs`; `JsonRuler`, from such a tree to a type; `JsonLibraryCalls`,
   the life of a type library, with `JsonLibraryProofs`, and `JsonLibrary`, which
   puts `JsonRuler` and `JsonTypeLib` under it.
7. *Done.* `MemBuf` and `JsonRun`: the run loop and the context of an error, with
   `JsonRunProofs` and `JsonRunErrors`.
8. *Done.* `Treap` and `JsonDefs`: objects validated and written, with
   `TreapProofs` and `JsonDefsProofs`.
9. *Done.* `JsonPrinter`: the printers and the path printer, on the texts of
   `MCJsonLibrary`.
10. *Left.* `Stack` and `VStack` (growth, limits, references across a push),
   `FileBuf`, `BitSet` (inline or words), each against the sequence or the set
   it stands for; calls made of the checker after an error or after its end; the
   key iterator of the tries; `pretty_print_repr` and its escapes.

Abstract specifications: `JsonEvents` (what a parser promises to its handler,
shown of the parser and of the checker), `JsonGrammar` (the texts),
`JsonLexemes` (the tokens of a text), `JsonTypeSpec` (the meaning of types,
`doc/type-spec.txt`), sets of keys (the tries), the meta-rules (which trees are
types, `MCJsonLibrary`), a function on pointers (the treap), the input itself
(the context of an error).

Left to prove: that a library with no empty array, written and loaded again, is
accepted for every library (a part of `ReloadIsAccepted`), and the containers of 10
for every limit.

## 3. Modules

`JsonEvents` -- *what a parser promises to its handler.*  Variables `nest` (the
containers entered), `phase` (what may come next), `ev` (the last handler
function called), `alive` (it has answered TRUE so far).  One action for each
handler function of `json_handler_t`, `Commit` for the decision of the text
between two calls (another member, or the end), `Stop` when no more calls come.

`JsonParser` -- *the push parser.*  `stack` is `parser_stack`; `config` and
`currentConf` are the two configurations; `nValues`, `stat`, `err`, `tok`,
`complete` are `n_values`, `current_stat`, `error_info`, `current_tok` and its
part; `pc` is the label of `json_do_parse`; `room` is what is left of the
buffer, counted in lexemes.  `Parse`, `ParseDone`, `SetParam` are the client's
calls; `NextToken` the disjuncts of the lexer's answer at the label
`next_token`; `NextState` one action for each `case` of the switch at
`next_state`, each with the handler call, the refusal, the change of the stack
and the jump.  `Deliver` is the macro that calls a handler function and leaves
when it answers FALSE.  `Events` maps the stack to `nest` and `phase`;
`ImplementsEvents` is the refinement.

`JsonGrammar` -- the token texts of `lib/json.g`, length by length.
`MCJsonText` runs the parser beside it: `AcceptsGrammar` and
`RejectsOnlyErrors` compare what the parser has taken with the grammar's texts
and their beginnings.

`JsonAst` -- *the tree of a text.*  It extends `JsonParser`, as `struct json_ast_t`
owns a parser: `objStack` is `obj_stack`, with node and mark objects, `fault` the
`ENSURE` that ended the process.  `HandlerFunc` is the table of handler functions,
joined to the parser's own step by `Calling`; `Finish` is `json_ast_parse_done`
within the step in which the parser answers "ok", and `DoneAgain` a second call
of it.  A position is the ordinal of a token.  In `MCJsonText` it is one of two
clients of the parser: `TreeIsText` writes its tree out again; `AstNeverFails` is
about its checks.

`Utf8`, `JsonLexer` -- *the lexer, byte by byte.*  `buf` is what is left of the
caller's buffer, `pos` is `current_pos`, `tok` and `part` the token and the
union of its pending part (a literal's rest, a number's state, a string's state
and the offset of an escape), `muf` is `current_tok_buf`.  Each action is one
turn of a loop of `json_parse_token` or of `json_parse_string/number/literal`.
`JsonLexemes` defines tokens, values and places of errors from the whole text.  Only
the column of a badly encoded byte is counted as the code does (section 6).  `Utf8`
also has the tables 3-6 and 3-7 of the Unicode Standard, which the code's comments
name; its algorithms are held against them.

`JsonTypes` -- types as the library keeps them and the keys of the tries.
`JsonTypeSpec` -- `Matches`, the meaning of types (M1 to M3 of
`doc/type-spec.txt`), and the calls a parser makes for a value.

`JsonChecker` -- *the type checker.*  `objStack` is `obj_stack`; a frame is a
record for each member of the union `json_type_obj_t`.  Two copies of
`JsonEvents` meet in it: each action is a handler of the checker, guarded by
the step of `Up` (the parser makes this call) and `sent` is what it passes on
(`Down`).  `CheckNode`, `CheckKey`, `CheckSep`, `ArgsMissing` are the functions
`json_type_check_node`, `.._key`, `.._sep`, `.._end` over the kinds of frames;
they yield the new top, what is pushed, and the error.  The constants are the
types accepted, the nodes they are made of (`Nodes`, closed under the parts of a
node), the names and the plain values; `Frame` is the type of a frame.

`JsonTypeLib` -- *attributes of lists and dicts*: the comparison of nodes, the
tries in the order of insertion, their rebalancing, the checks for ambiguity
and for support, the verdict `Accepted`.  It instantiates `Trie` with the
comparison of nodes.

`Trie`, `TrieIter` -- *ternary trees and their iterators.*  A node is a record
with `lo`, `eq`, `hi`; each operator is the macro-named function of
`lib/trie-impl.h`.  The iterators keep their `nodes` stack and, for levels, the
`equals` met; `pc` is the label in `.._ITERATOR_INC`.

`JsonRuler` -- *from a tree to a type.*  `Visit` is `json_type_ruler_visit`: it
goes down a tree of `JsonAst` by the meta-rules and calls the rules
(`ArgsObjectRule`, `MonoArrayRule`, ...) on its way back.  These build on the
stack that is passed from visit to visit; an ASSERT of theirs that fails, or a
stack that is full, leaves a fault on top.  A position is the path to a node.
`PrintDef` prints a type again.

`JsonLibraryCalls`, `JsonLibrary` -- *the life of a type library.*  `source` is
what the client has, a text or a shared object; `lib` is `json_type_lib_t` (what
was parsed and built, `stat`, the first `error`, the flags of what was done);
`answer` is what the last call gave; `early` is a history variable, a client that
asked before there was a text.  One action for each call of the interface; the
pieces of a text are abstracted to the one that completes it.  A text in `source`
carries what the ruler and the attributes make of its tree: they depend on the
tree alone, so they are worked out once and each call reads the part that it asks
for.  `JsonLibraryCalls` takes any such text (`IsSource`); `JsonLibrary` is where
the ruler and the checks of attributes make it (`Judged`).

`Treap`, `JsonDefs` -- *definitions as objects in memory.*  `heap` has the
objects, `at` their places; a recursive function of the code is a stack `tasks`,
so that each step visits one pointer.  `space` is `json_type_ptr_space_t`, a
treap of `Treap` with the numbers given so far, `result` the fault found, `out`
the C definitions written.  A task is a field of an object and what is to be done
with what it points to (`Target`): `What` and `Parts` are the order in which
`json_type_node_validate` and its like follow the fields of an object, `Before` the
order in which the `*_gen_def` functions do.  Before any is written the objects are
counted (`CountStep`, into `attrs`), which is a visit of its own, in the order
`Counts` of the `*_get_attrs` functions; what the trie of a list refers to is passed
over by both visits (`Calls`).  `Pointees` and `Arity` are the types
of C, and `IsTyped` a memory that keeps to them; a library (`IsLibrary`) is any such
memory, of any size, and one that was made of a text is a tree besides.  `Reload` is the compiler and the loader (external):
it gives each definition a place, and may give one of no size another's.

`MemBuf`, `JsonRun` -- *the run loop.*  A byte is its number in the input; `m` is
the buffer `buf` of bytes kept, with the locals of `obj_json_base_run`, `fed` what
was read, `echoed` what was written back, `shown` what `pos_error_verbose` printed.
`foundAt` is a history variable that no step depends on: how much was read before the
piece in which the error was found.  `WatchSpec` is `RunSpec` with it.
A parser is reduced to what it tells: the byte at which it finds an error, and
the place of that error, there or before.  `Inputs` are the inputs and the
combinations of options that the program admits.  `MemBuf` is `mem_buf_t`, whose
room doubles to a limit.

`JsonPrinter` -- *the printers.*  A printer is a record with the flags of
`obj_json_printer_t` and its output as a sequence of pieces; `PrettyCall` and
`TerseCall` are its tables of handler functions, `PrettyNode`, `AstNode` and
`AstType` its visitors.  `PathCall` is the table of `src/json2.c`, with `stack` and
`last`.

| Composition | Of |
|---|---|
| `MCJsonText` | `JsonParser`, `JsonGrammar` |
| `JsonParser` | `JsonEvents` (refinement) |
| `JsonChecker` | `JsonEvents` twice (`Up` assumed, `Down` shown), `JsonTypes` |
| `MCJsonChecker` | `JsonChecker`, `JsonTypeSpec`, `JsonTypeLib` |
| `JsonTypeLib` | `JsonTypes`, `Trie` |
| `MCTypeLib` | `JsonTypeLib`, `JsonTypeSpec` |
| `MCTrie` | `TrieIter`, `Trie`; `MCTypeLib` |
| `MCJsonLexer` | `JsonLexer`, `Utf8`, `JsonLexemes`; `MCUtf8` |
| `JsonAst` | `JsonParser` |
| `JsonLibrary` | `JsonLibraryCalls`, `JsonRuler`, `JsonTypeLib` |
| `MCJsonLibrary` | `JsonLibrary`, `JsonPrinter`, `JsonTypeSpec` |
| `JsonDefs` | `Treap` |
| `JsonRun` | `MemBuf` |

Operators whose comment begins with "Deviation" are changed forms of the
definition below them, each a plausible mistake; they are not part of the
specifications.  For each property PROJECT.json names one that violates it.

## 4. Runs

| Run | Properties | What it shows |
|---|---|---|
| `parser` | `Consistent`, `StickyStatus`, `ImplementsEvents`, `CallReturns` | every sequence of tokens and calls, every refusal, every change of configuration, with a stack of 4: variables keep their types, unguarded looks below the top are safe, errors are recorded and final, the handler's calls are those of `JsonEvents`, and a call returns |
| `text` | `DecidesGrammar`, `TreeIsText`, `AstNeverFails` | on all texts of at most 6 tokens, under all 4 configurations and on a used object: the texts accepted are the grammar's, and an error comes with the first token that no text goes on with; on all texts of at most 9 tokens, with `json_ast` as the client: its tree is that of the text |
| `lexer` | `TokensOfText`, `Utf8Exact` | on all texts over four alphabets (6 to 8 bytes), cut in buffers in every way: tokens, values, positions and the place of an error are those of the uncut text; validation on all strings of at most 4 bytes at the bounds of the ranges, but for those with a surrogate, and the encoding of code units |
| `checker` | `FramesMatchCalls`, `OpenNodeIsSimple`, `AcceptsMatching`, `RejectsOthers`, `ImplementsHandlers` | over all lists of two of 22 types that the library accepts, and 20 nested types, on some 200 values: the verdict is the meaning of the type |
| `trie` | `LookupExact`, `RebalancedIsFlat`, `VisitsInOrder`, `WalkEnds`, `TreesAreSets`, `BranchIsDecided` | over all trees of at most 4 keys, grown in every order and balanced at any moment: lookups and walks; over all lists of three of 27 types: the trees made of an accepted list are what the checker takes them for, and decide each branch |
| `library` | `BuildsItsType`, `RulesNeverFail`, `ErrorIsFirst`, `AnswersExplained`, `VerdictsAgree`, `ErrorIsFinal`, `PrintsTheText`, `PathsNameLeaves`, `TypeOfValue` | over all texts grown from 8 leaves by 3 wraps, well formed and not: the type built is that of the text, or the error is its first one; of 2 wraps: every order of calls of a library, and every printer |
| `run` | `AddressesAgree`, `NeverAborts`, `CaretIsRight`, `ContextIsWhole`, `ReadsToTheEnd` | over all inputs of at most 6 bytes and 2 lines, an error anywhere, found anywhere after, read in pieces of any size, under all options: the context shown is the input's, and an input is accepted when all of it was read |
| `defs` | `ValidIsTree`, `RefusalNamesTheFault`, `SpaceIsMap`, `GenDefNeverAborts`, `WritesWhatItHolds`, `ReloadIsAccepted` | over five libraries, with each pointer in turn made NULL or made to point elsewhere, under three orders of memory, and one of no types: what is accepted is a tree with all its parts, and what is written of it is accepted again |
| `utf8_table`, `checker_open_type`, `checker_dict_in_list`, `defs_empty` | one each | the disagreements of section 6 |

Bounds, and why they are enough:

- `StackMax = 4` and `MaxRoom = 2` for the parser: a state depends on the top
  of the stack and the element below it only, so four elements have every pair
  and the limit; a buffer matters only by whether it is exhausted.  `nValues`
  is not cut: its two bits are those of the code.
- Six tokens for `text`: an object with two members needs nine, but one with a
  member and a comma is five, so each state of the parser and each token it
  refuses there occurs.  `StackMax = 5` holds three containers with a value in
  the innermost, and is reached, by the parser's stack and by that of `JsonAst`.
- Nine tokens for a text of `json_ast`: an object with two members, where their
  order and the pairing of names and values can go wrong.
- The lexer's alphabets have a byte of each class its tables tell apart in that
  kind of token.  Six bytes hold every state of a number (`-1.0e0`), eight a
  string with a whole `\u` escape.  A buffer of 0, 1 or 2 bytes ends at every
  place of a text.
- UTF-8: four bytes are the longest sequence; the bytes are the bounds of each
  range of table 3-7, and those next to them.
- Values of the checker are two or three deep: a frame is touched by calls at
  its own depth and by the push and the pop of the next one.
- Lists of three elements: the checks of the library compare two elements, and
  the third moves them about in the tree.
- Tries: four keys have every shape of siblings up to a rebalancing with a
  remainder (sizes 1 to 4 around the powers of two), in levels of two symbols.
- The library's texts: the wraps have each form of the meta-rules, around a type
  and around what is none; `MaxWraps = 3` nests a type in a named argument in a
  type, so that a kind met by the ruler comes from each of its callers;
  `CallWraps = 2` has a text of every error, and of none.  `ObjStackMax = 4`
  holds what two wraps need, and is exceeded by some texts of three.
- The run loop: `BufSize = 3` is larger than the contexts (1 and 2) and smaller
  than the input (`MaxSize = 6`), so that bytes are kept over one read and over
  two; `ErrInit = 2` and `ErrMax = 5` make the buffer of the context double and
  meet its limit.  Two lines put a new line before, at and after an error.
- Definitions: the five libraries have every kind of object together; a stamp has
  5 bits (`WordMod = 32`, first stamp 7, step 19), so that it wraps within one
  library and nodes are split, which the code's stamps come to only after some
  2^32 insertions;
  `MaxReloads = 1` writes, compiles and loads once, and then writes again.

Fairness is used in two places.  `FairSpec` of `JsonParser` has weak fairness
of `NextToken \/ NextState`: `json_do_parse` is a loop in one call, nothing can
hold it up; the client's calls are not fair, for nothing obliges it to call
again, and neither are they needed for `CallReturns`.  `MCSpec` of `MCTrie` has
weak fairness of `Walk`: an iterator is advanced by a loop of its one caller.
Every other specification states safety only.

Deadlock is not checked where a run has an end by design: a text complete or
refused, the process ended by `ENSURE` at the limit of a stack, a tree or a list
at its bound.  Each configuration says which.

## 5. Proofs

Each theorem holds for every value of the constants; the assumptions are those on
the constants and nothing else.

| Theorem | Module | Of |
|---|---|---|
| `TypeCorrect`, `ConsistentCorrect`, `StickyStatusCorrect` | `JsonParserProofs` | `Spec` of `JsonParser` |
| `ImplementsEventsCorrect` | `JsonParserProofs` | `Spec` of `JsonParser` |
| `AstNeverFailsCorrect` | `JsonAstProofs` | `AstSpec` of `JsonAst` |
| `HandlersImplemented`, `FramesMatchCallsCorrect` | `JsonCheckerProofs` | `Spec` of `JsonChecker` |
| `AnswersExplainedCorrect`, `ErrorIsFinalCorrect` | `JsonLibraryProofs` | `LibrarySpec` of `JsonLibraryCalls` |
| `AddressesAgreeCorrect` | `JsonRunProofs` | `RunSpec` of `JsonRun` |
| `ReadsToTheEndCorrect`, `NeverAbortsCorrect`, `CaretIsRightCorrect` | `JsonRunErrors` | `RunSpec` of `JsonRun` |
| `ContextIsWholeCorrect` | `JsonRunErrors` | `WatchSpec` of `JsonRun` |
| `ValidIsTreeCorrect`, `RefusalCorrect`, `SpaceIsMapCorrect`, `GenDefNeverAbortsCorrect`, `WritesWhatItHoldsCorrect` | `JsonDefsProofs` | `Spec` of `JsonDefs` |

### The parser

The assumptions are that `StackMax` is a positive natural number (a stack of none
could not hold the first state) and `MaxRoom` a natural number.

The inductive invariant of `JsonParserProofs` is `IInv`, four of the parts of
`Consistent`.  None is inductive alone: that the top may be popped or shifted
needs the shape of the whole stack; that an action finds a status of "ok" needs
the agreement of `pc`, `stat` and `err`; and that the state machine runs needs a
complete token.  The
lemmas `PushLemma`, `PopLemma`, `ShiftLemma` say what the three operations on
the stack leave in place; `ReadyShift`, `ReadyPop`, `ReadyPush` that they keep
the shape; `MoveInv`, `DeliverInv`, `FailInv`, `ReturnInv`, `AbortInv` that each
way out of an action keeps `IInv`.  `ClientInv`, `NextTokenInv` and
`NextStateInv` then have one step for each action.  The fifth part, `FirstValue`,
is inductive with these (`FirstValueStep`): the two-bit counter of values is zero
as long as the stack has nothing but its bottom, and only so long.

The refinement is that every step of the parser, seen through the mapping
of `JsonParser!Events`, is a call that `JsonEvents` allows, or a stutter.  The
mapping reads the containers off the stack (`NestOf`, whose length is `Depth`) and
what may come next off its top (`PhaseOf`); the lemmas `NestShift`, `NestPush`,
`NestOpen`, `NestLiteral`, `NestClose` say what each operation on the stack makes
of it, and `NextStateCalls` has one step for each `case` of the switch.  Before
the first value and between two values the tops look alike: `FirstValue` tells
them apart.  The mapping has to hold where `StackMax = 1` as well: there a value
does not get beyond the push of its first state, so that a call that ends the
process shows as one that never came.

### The tree of a text

`JsonAstProofs` joins the stack of nodes and marks to the parser's stack, which
`json-ast.c` never sees.  Its inductive invariant `AstInv` has `IInv` and
`FirstValue` of the parser, `AstNeverFails` itself and, while the process lives,
`Built`: there is one mark for each container that the parser has open, in that
order; above the mark of an object names and values alternate, a name coming last
where the parser awaits a value (`Paired`; `Expecting` reads that off the parser's
stack); and below the first mark lie the top-level values that `nValues` counted,
which are none as long as `nValues` is zero,
and one at most where only one is allowed (`Counted`).  `NodePushed`, `MarkPushed` and
`MarkDropped` keep the first two; `ValueDone` and `ContainerEnds` say where a whole
value goes.  That `json_ast_parse_done` finds one value where only one is allowed
needs the counter *and* the configuration in force when the text began, which is
what the code has to ask for.

### The type checker

`NodesAssumption` says what the unions of `struct json_type_node_t` hold: a set of
nodes that has the parts of each of its members, with distinct names in a dict
(which the library checks).  `PlainsAssumption` says that plain values are of a plain type.

`HandlersImplemented` needs no inductive invariant: `nest`, `phase` and `alive`
are those of the parser's calls, and the lemma `AnswerLemma` says that `sent`
changes to the call at hand exactly when the parser goes on.

`FramesMatchCallsCorrect` has the invariant `IInv` of `JsonCheckerProofs`: types,
where the parser stands (`UpShape`) and, while the checker has refused nothing,
`Matched`: over the root one frame for each open container, of its kind, and the
frame of an object awaiting a name or a value as the parser does.  In a frame on
a trie of objects the two are told apart by what is left of the keys: names and
types in turn, a name first where a name is awaited (`Keyed`, `Valued`), as they
are in the keys that the library makes of objects (`ObjectKeyed`).  A walk
down a trie takes the first symbol off the keys that have it (`TailKeyed`,
`TailValued`), so the alternation is kept whatever the set of keys; the lemmas
`RootValue` to `ArrayTrieElement` say, frame by frame, that a value is checked into
a frame of the same level and, if it opens a container, one of its own.

### The type library

The assumption on a source is `IsSource`, which `Judged` and `SharedObj` satisfy.
`LibInv` has that the status tells of the error and, for a client that waited
until its text was whole, what the library is ready for (`Ready`): after it was
said to be done the text has a root, and after it was built it has a definition.
Without it `AnswersExplained` is not inductive: a library that was built without
a definition would answer no, with no error.  `Fair` says what one call does; the
lemmas `ParseIsFair` to `LoadIsFair` show it of each.  `ErrorIsFinal` follows from
`Follows`: no function of the library clears or replaces an error of a text.  For a
client that does not wait the first of the two theorems promises no more than that
status and error agree (section 6 has such a client).

### The run loop

`SizesAssumption` says that no size is 0, which the program verifies of its
options (`VERIFY_SIZE_NOT_NULL`); `Inputs` has the other conditions it verifies.

`AddressesAgreeCorrect` has the invariant `RunInv`: `Agree`, that buf is a run of
the input whose address is that of its first byte, with the address of the next
piece; and `Ready`, that while the loop reads, buf ends where the next piece begins
or nothing more is to be appended to it.  The second carries the first over a
piece of which bytes are shifted in, appended or dropped.  `Advanced` is the lemma
on which all rest: adding the lines and columns of a run of bytes to the place of
its first byte gives the place of the byte after it.  The sizes are natural
numbers without a bound, and a set of line ends has a greatest and a least element
because it is finite (`LeastOf`, from the well-foundedness of finite sets).  That
the buffer has room after it was enlarged needs no induction over its doublings:
the model takes the least number of doublings that suffices (`GrownSuffices`).

`ReadInv` adds what was read and found by when; `ReadsToTheEnd` needs no more of a
turn of the loop than that nothing in it but the parser finds an error.

`ErrorInv` adds, for an input with an error, what is kept of it: while no error was
found buf loses bytes only when it is full (`Filling`); once it was found its place
is lost (and the message says so), or its byte is in buf (`HoldsError`).
`PlaceBefore`, `NthIs` and `OffsetIs` say that looking a place up by lines and
columns in a run of bytes finds the byte of that place, or that it is elsewhere;
`LocateFinds` and `KeepContextHolds` take this through one turn, `SettleTells`
through what comes after the loop, and `ContextShows` through the cutting of the
context.  A step of the loop is at most a few lines of arithmetic; it is the many
ways in which a piece, buf and the place may lie to one another that make it hard.

`ContextIsWholeCorrect` has the invariant `WholeInv`: `ErrorInv` with `Watched`, which
says where buf begins and ends once the error was found in a piece before which
`foundAt` bytes had been read (`Placed`).  It begins as many bytes as the context asks
for before the error or before that piece, whichever is later, and ends as far after
it as was appended by then; as long as more is to be appended, it ends with what was
read.  Without it nothing says that the bytes dropped were not the ones that a later
message needs.  `CaughtPlaced` and `PlacedOn` carry it over the piece with the error
and over those after it; `SettleReaches` and `SettleSurrounds` take it through what
comes after the loop, and `ContextSurrounds` through the cutting of the context.

### The definitions of a library

The assumptions are `TreapAssumption` (stamps are numbers modulo some `WordMod`) and
`DefsAssumption`: the libraries have objects of the types of C, each at a place of
its own, and one made of a text is a tree.  Neither bounds the number of objects,
the arity of an array, the height of a tree, or what a shared object points to:
circles, objects met twice and references to anything are among the libraries.

`TreapProofs` is about the walks of the treap, which are recursive functions.
`ByChild` has that such a function is one: a function that satisfies its equation
exists, being extended from each node to its parents.  What a walk answers is then
proved of a least counterexample, a node with the fewest keys under it among those
it would not hold of (`Deepest`).  `SearchIs`: a walk from the root finds a key that
is in the tree, and ends at Nil for one that is not.  `DivideIs`, `GraftIs`: the
insertion stops at the first node whose stamp is not below the new one, which may be
well up in the tree when stamps have wrapped, and splits what lies there into the keys
before and the keys after, the stamps still in order.  `InsertIs` and `FindIs` say so
of the two operations, by `IsMap(t, K)`: the treap `t` is a search tree and a heap on
the keys `K` and no others.

The invariant of `JsonDefsProofs` is `DefsInv`.  `SpaceOk` has that the space holds
some addresses numbered from 0 on.  `ValidatingOk` says of the objects met so far
(`ent`, in the order they were met) and of the tasks left:

- the tasks are those that the objects met have left, the latest object first and
  each in the order of its fields (`TasksOk`, `InOrder`), and nothing is met twice
  (`Apart`, of places and so of objects);
- a field that owns and has no task left is NULL where it may be, or points to an
  object met; no object met is the target of two fields that have none (`FieldsDone`,
  `Once`): when no task is left the objects met are a tree, and all that the root
  reaches;
- an object that is met was reached (`Found`), so that a fault is one of the library
  and not of what lies about in memory;
- the types of a list are met before its tries (`ArgsFirst`), so a type that a trie
  refers to and that is not met by then is none of the list (`AllAtHome`), and a
  reference accepted is to an object met.

None of these is inductive alone.  That a second meeting is a fault needs the place
of *every* object met to be one of its own fields' targets; that a refused reference
is away from home needs the order of the fields; and both need the treap to hold just
the places of `ent` (`HoldsAt`), which is what the lemmas about insertion give.  An
object of an array of no elements may lie where another does: then the refusal is
right by `IsMetTwice`, and `Placed` says where else places may agree.  The lemmas
`AskNullKeeps`, `PassOverKeeps`, `EnterKeeps`, `CheckKnownKeeps` and `CheckDupsKeeps` have one case
for each outcome of a step.

`WritingOk` says of the tasks of the writer and of `out` that what is written is an
object of the tree, once, as it is, and that each name in it is that of a definition
before it: names are the numbers of the space plus one, which the treap has for just
the objects in `out`.  At the end every object is in `out`: the tasks that are left
and what was written close on the tree (`Writes`, `Written`).  An assertion that fails
ends the writing, so this theorem does not need that none does.

That none does (`GenDefNeverAbortsCorrect`) is more: each object written is new to the
space, each pointer in it is NULL or that of an object written before, and those
written are as many as were counted.  It is about objects whose tries refer to types
of their lists (`RefsAtHome`); section 6 tells of the others.  A call has a `Scope`,
the objects that it will count or write.  The invariant (`Counting`, then `Turning`)
is that

- the scopes of the calls left are apart from one another and, with what was counted
  or written, make up all that the root reaches: so what is met is met once, and the
  two visits, whose orders differ, meet as many;
- no object in the scope of a call points to one in the scope of a later call
  (`Ahead`, `InTurn`): so when the turn of an object comes, all it points to, what a
  trie refers to included, is written.

A step replaces a call by the calls it makes, whose scopes split its own.  That they
do rests on the objects being a tree: what two fields of an object reach is apart, and
does not reach the object.  That they are in turn rests on the order of the fields,
the types of a list before its tries, and on references being at home.  The number
counted is a sum of cardinalities of finite sets that are apart, so no induction over
the tree is needed (`CountingEnds`, `TurningWrite`, `WriteSucceeds`).

## 6. Disagreements

Four are each shown by a run whose property states what the document says.

- `utf8_table`: `json_validate_utf8` accepts the encodings of surrogates.  Table 3-7,
  which its comment refers to (`lib/json.c:101`), has only `80..9F` after `ED`, and
  `README:39-41` promises validation as per the Unicode Standard 8.0.0.
- `checker_open_type`: a list with an open array of objects and a closed array
  that begins with `"type"` passes the checks of the library, and the checker
  lets an array through that matches neither.  `OpenNodeIsSimple`, the assertion
  at `lib/json-type.c:9674`, fails on the same lists.
- `checker_dict_in_list`: a dict inside an object or an array of a list is
  accepted by the library and matched by no value.
- `defs_empty`: a type without arguments is written as an array of no elements;
  a compiler may put two of them at one address, and validation then refuses the
  library it has written itself.

Strings with a surrogate are kept out of `Utf8Exact`, the types of
`checker_open_type` and of `checker_dict_in_list` out of the run `checker`
(`TypeBesideOpen`; no dict in a list), and libraries with arrays of no elements
out of `ReloadIsAccepted`: those runs show that nothing else is wrong there.

Others were met while modelling; no run of their own shows them.

- The column of a badly encoded byte is counted in the bytes of the decoded string
  (`lib/json.c:1122`), so each escape before the byte moves it to the left: in the
  bytes `22 5C 22 A0 22` it is 1:3, and the byte is at 1:4.  `BUGS:82` calls such a
  place wrong.  `TokensOfText` takes the column as the code counts it
  (`JsonLexemes.Utf8Pos`), which is that of the byte where no escape precedes.
- `json_encode_utf8` refuses the escapes of surrogates, `\ufffe` and `\uffff`,
  which `lib/json.g` derives; `Utf8Exact` and the lexer's reference take this as
  what the code means to do.
- What `json_type_lib_check_arrays_ambiguities` finds depends on the order of the
  elements: `[open number, closed [string], closed [number]]` is accepted, and
  another order of the same list refused.  The checker is not misled by it
  (`BranchIsDecided`).
- `trie_num_cmp` (`lib/json-type.c:3410`) is not transitive around `-0`.
- A type with a plain number that has a fraction or an exponent ends the process
  when it is compared (`lib/json-type.c:3404`).  The type printed for such a
  number cannot be used, though `README:237` says that a check by the type
  printed "will always have to succeed".  `TypeOfValue` holds of integers.
- An error of the type, whose place is in another text, is looked for in the
  input when the input is written back and messages are verbose: the assertions
  at `src/json-base.c:441` and `:453` fail in builds that have them.
  `NeverAborts` leaves that combination out.
- A shared object whose tries refer to types that are not of their list is
  accepted by validation, and ends the process when its definitions are written;
  one whose list or dict has no attributes is read through NULL, and one that defines
  no types fails the assertion at `lib/json-type.c:2540` in builds that have it.
  `GenDefNeverAborts` and `ValidIsTree` say so of these and of no others.
- A client of a type library that asks before its text is whole is answered no,
  without an error, and a call of parse after it said that the text was done
  makes the ruler visit NULL; `early` marks such clients in `JsonLibraryCalls`.

## 7. Limits

Only model-checked, and out of the prover's reach:

- `CallReturns` and `WalkEnds`: liveness.
- What recursive definitions compute, an induction the installed provers cannot do:
  `DecidesGrammar`, `TreeIsText`, `TokensOfText`, `Utf8Exact` (grammar, trees and
  lexemes), `AcceptsMatching`, `RejectsOthers` (`Matches` is recursive on types),
  `TreesAreSets`, `BranchIsDecided`, `LookupExact`, `RebalancedIsFlat`,
  `VisitsInOrder` (tries), `BuildsItsType`, `RulesNeverFail`, `ErrorIsFirst`,
  `VerdictsAgree` (the ruler and the attributes), `PrintsTheText`,
  `PathsNameLeaves`, `TypeOfValue` (the printers).  The recursions that are proved
  about are those down a finite tree by one child (the treap) and the closure of a
  relation in a finite set (`From` of `JsonDefs`), where a least counterexample does
  for induction.
- `OpenNodeIsSimple`: whether it holds depends on the lists that the library
  accepts (`checker_open_type`), which its recursive checks decide.

Only model-checked, of `JsonDefs`: `ReloadIsAccepted` (with `MacrosAreDefined`).  For
a library whose references are not at home it would need the order of two validations,
of two memories alike but for their places, to be compared step by step.

Left out of the modules: formatting of messages, the escapes of printed
characters, the getters of descriptions, memory allocation failures (they end the
process).  The checker takes integers only.  Calls made after an error or after
the end of a text are modelled of the parser, of the tree and of the library, not
yet of the checker.  In `JsonDefs` the definitions of a shared object that
validation refused are not written: the program asks for neither.  `JsonRun`
has one error in an input, and no failure of reading.

Not modelled: stacks, bit sets, the buffer of a file (section 2).

Not modelled, and not planned: the options of the program and its help texts,
reading files, `dlopen`, the layout of the C text (input and output without
state), debugging output and the drivers of the test suite.
