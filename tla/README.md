# A verification of libyobd in TLA+

libyobd turns the data bytes of CAN frames into numbers, guided by a YAML schema of OBD II
PIDs. This directory holds TLA+ models of it, the TLC configurations that check them, and
proofs checked by TLAPS. Paths below are those of the repository (`src/expr.c`,
`test/can.c`, ...).

## 1. Inventory

| Component | Source | State | Operations |
|---|---|---|---|
| Generic stack | `include/yobd-private/stack.h` | bottom, top, number of slots | init, push, pop, peek, size; push and pop assert |
| Expression compiler | `src/expr.c` | text position, operator stack (20), output stack (50), `struct expr` | `parse_expr_val`, `shunting_yard`, `handle_op`, `next_token`, `destroy_expr` |
| Expression evaluator | `src/eval.c:30-115, 355-403` | token index, evaluation stack (as long as the expression) | `stack_eval`, `eval_expr_int32_t`, `eval_expr_float`, `eval_expr` |
| CAN codec | `src/eval.c:117-353, 405-546` | none of its own; writes the caller's `struct can_frame` | make a query, make a response, parse headers, parse a response, `nop_eval` |
| Schema loader | `src/parser.c:142-597` | a context being filled, an open file, a YAML document | `yobd_parse_schema` and the walk below it |
| PID map and context | `src/parser.c:24-140`, `src/eval.c:548-569` | hash map from (mode << 16) \| pid to the PID's description | put, get, foreach, count, descriptor, free |
| Unit conversion | `src/unit.c` | none | ten functions, `find_convert_func` |
| Schema validator | `scripts/schema-check`, `scripts/formatchecker`, `schema/meta` | none | accept or refuse a schema, at build time |
| PID file merger | `scripts/merge-pids` | dictionaries | merge schemas, at build time |
| Error strings | `src/error.c` | none | `yobd_strerror` |

**How they interact.** The validator sees a schema at build time, the loader at run time; the
loader is written to trust the validator (`README.md:24-28`), so nearly every malformed input
is an assertion that stops the process rather than an error code. For each PID the loader
calls the compiler and stores its `struct expr`, the PID's type, byte count and unit
conversion in the map. From then on the context is only read. An application asks for query
frames, sends them in its own way, and hands every frame it receives to
`yobd_parse_can_response()`, which reads mode and PID from the frame, looks the PID up, checks
the length and runs `nop_eval()` or the evaluator over the data bytes. The library has no
threads, no timers and no retries; what is concurrent are the two ends of a bus.

**What is hard here.**

* The compiler's output is a program for another part, run much later: a text that is compiled
  wrongly shows at the first frame, as a wrong number or as an assertion.
* Two bounded stacks and a third that is sized by the program it runs.
* Makers and readers of frames must agree on offsets that depend on mode, direction and byte
  order; frame buffers are reused, and a call that fails has already written part of one.
* Responses are told apart by mode and PID alone, on a bus where frames are lost, late,
  repeated and mixed with those of others.
* Integers change their width several times between a data byte and the returned float.
* Partial failures while a schema is loaded (memory, file, map): entries that are half filled,
  pointers into an array that moves, and clean-up code that runs on what is left.
* Two keys are one where the code makes them one: repeated PIDs, modes of two bytes, wide PIDs.
* The validator and the loader are two programs in two languages that must agree on a schema.

**What makes each part correct.** The compiler: every well-formed text becomes the postfix
form of its syntax tree, every other one is refused; both stacks suffice. The evaluator: the
number is the value of the infix text over the bytes of *this* frame; whether a program can be
evaluated at all is a matter of the program, not of the frame. The codec: what is read is what
was made. The session: a value accepted for a PID was given for that PID. The loader: after any
failure nothing is leaked, freed twice or used uninitialised. The map: one entry per mode and
PID. The validator: what it accepts, the loader and the evaluator survive.

The hazards, each at its line and with the properties that cover it, are listed in
`PROJECT.json`.

## 2. Plan

The order is that of importance: expressions first (all values depend on them), then frames,
then loading, then what is built around the library.

1. Done: `Stack`, `ExprParser`, `ExprSpec` and the refinement between the last two; `ExprEval`,
   alone (`EvalAnyProgram`) and behind the compiler (`ExprPipeline`); `CanCodec` and
   `CanSession`; proofs for the compiler and for the evaluation stack.
2. Done: `SchemaLoad` with `SchemaSpec` and the refinement between them, over `SchemaDoc`,
   `PidMap` and `Units`; proofs about the life of a context.
3. Done: `Validator`, and `Deployment` as its composition with the loader; `MergePids`.
4. Done: `Library`, the codec on contexts the loader has built; a proof about `CanSession`.
5. Done: `Evaluable`, `AssertsOnlyMalformed` and `OutcomeIsStatic`; the round trip of every query
   and every response through the codec, and from it the session's properties for any number of
   PIDs and frames; `MergesAll`; `NothingLeaks`; `StopsOnlyAtGaps`.
6. Done: `LoadsTheDocument`, step by step, for which what `ReadSound` says of the fields of one
   description is said of every entry and of the last place at which a document speaks of a PID; and
   `AnswersMeanTheDocument`, from that, the codec's round trip and the table of units. What is
   left to TLC is named at the end of section 5.

## 3. Modules

| Module | Models |
|---|---|
| `Stack` | `stack.h`: a stack is a sequence; the assertions of push and pop are conditions that the callers' actions carry |
| `ExprParser` | `parse_expr_val()` step by step: one action per kind of token, per turn of `handle_op()`'s loop, of the `)` loop and of the final loop, and for both outcomes of `malloc()` |
| `ExprSpec` | what a caller is promised: one step from a text to its compiled form or `YOBD_OOM` |
| `Infix` | the meaning of an infix text by its syntax tree, as a fold an instance fills in (a postfix, a value) |
| `ExprParserRefinement` | `ExprParser` implements `ExprSpec` with `Infix` as the meaning; what a constant of an integer PID is worth is said here again, without `strtol()` |
| `Arith` | integer and float arithmetic of the two evaluation functions |
| `ExprEval` | `stack_eval()`: one action per kind of token, the assertions, the returned value; frames arrive one after another |
| `EvalAnyProgram` | the evaluator over arbitrary programs |
| `ExprPipeline` | compiler and evaluator composed: they share `struct expr` and the PID's type |
| `CanCodec` | the frame functions, as operators from a frame buffer to a frame buffer or from a frame to a result; whether a formula can be evaluated over given bytes is a constant (`Evaluates`) |
| `CanSession` | a tester and a vehicle that use `CanCodec` over a bus |
| `SchemaDoc` | a schema document as a YAML library hands it out, and what such a document says |
| `PidMap` | the keys of the map: `get_modepid`, `get_mode`, `get_pid` |
| `Units` | `find_unit`, `find_convert_func` and the conversions |
| `SchemaLoad` | `yobd_parse_schema()` with the walk below it, the calls that read a context, `yobd_free_ctx()` |
| `SchemaSpec` | what `parser.c` promises to an application |
| `SchemaLoadRefinement` | `SchemaLoad` implements `SchemaSpec`; what a document means, without walk and keys |
| `Validator` | `schema-check`: `schema.yaml`, `nop_bytes.py`, `infix.py` |
| `Deployment` | validator and loader composed: documents one has accepted are loaded by the other |
| `Library` | loader and codec composed: they share `struct yobd_ctx` |
| `MergePids` | `merge-pids`: the loops over files, modes and PIDs, and what is printed |
| `InfixTexts`, `MC...` | inputs and instances for TLC |
| `StackTheorems` | lemmas on stacks and counting |
| `..._proofs` | theorems about the module of that name; `CanCodec_proofs` has the round trips of frames, which the session and `Library` need, and `Library_proofs` the theorems about the parts together, `Deployment` included |

**From code to model.** A schema text is a sequence of lexemes: letters, operators, brackets,
blanks and unsigned numbers. A number's digits are one lexeme, and its value (in tenths, so
that fractions exist) is a constant of the model. What the tokenizer decides above that is kept:
a `-` directly before a number becomes its sign (`expr.c:51`), wherever it stands. `strtol()`
drops the fraction. `errno` is a variable: a failed conversion or allocation of an earlier
expression leaves it set, `shunting_yard()` resets it before each conversion and asserts it after
(`expr.c:219, 235`). A failing `XASSERT` is a state, `pc = "xassert"`, that
nothing leaves. In the evaluator floats are fractions without rounding; an integer is unbounded
while it is on the stack (an `int_fast32_t` of 64 bits on the platforms built for) and is
wrapped to `INT32_SPAN` values where it becomes an `int32_t` (`eval.c:110`).

A frame has its true byte values. `PidField` stores `pid & 0xff00` in a byte as C does, which
leaves 0. A maker takes the buffer as it was, since a failing call writes part of it. Data bytes
that would lie behind `data[7]` end the process in the model ("overrun"), because the padding
`memset()` that follows has a wrapped size. A formula's value in `CanCodec` is the formula itself
with its type and the four bytes it can read (`ExprEval` says what becomes of them), a
passed-through number is a number, a passed-through float a bit pattern; the unit conversion is kept
by its name. An expression whose data is `NULL` (`NoProgram`) is read through that pointer
(`eval.c:50`): the process is in an undefined state. A formula of which an assertion of `stack_eval()`
fails over the bytes (`eval.c:88, 106`) ends it as well. Which formulas those are is the constant
`Evaluates`; that it can be a function of the program, its type and the bytes is `OutcomeIsStatic`.

A document is a nest of sequences of pairs: order and repetitions matter to the loader, and to
nothing else. `SchemaLoad` keeps the place of each of the four nested loops, so that an action is
one turn of one of them with all it calls; the compiler is one step (`ExprParser` has it in
many), and a formula is named by whether it is in `Malformed`, the texts that stop the compiler.
`heap` is the set of what the process has acquired: memory, the file, the parser, the document.
A string or an expression is a block of its own; the map's entries lie in one array, which
`xh_put()` and `xh_trim()` may replace. A freed block leaves the set, a pointer to it stays
where it was; memory that was never set holds `Junk`. `FreeIsDefined` says when
`yobd_free_ctx()` only touches what is there; if it does not, the process is in a state
(`"undefined"`) about which nothing more is said. A key is the pair of its halves, so that the
numbers stay small; `|` is done bit by bit, because a PID of more than 16 bits overlaps the mode.

The validator reads a document into dictionaries, in which the last value of a repeated key
counts; it is a predicate on documents. The rule of `schema.yaml` for the mode 0x1 is left out of
it because it is never applied (see section 4).

**External.** YAML libraries, libc, xlib's hash map and `simpleeval` are modelled by what the code
relies on. The bus, the tester's and the vehicle's programs are not in the repository; they
are modelled from `doc/design.md` and from the calls in `test/can.c`. The vehicle answers only
frames with the query address, and a side that gets an error does not send.

## 4. Runs

| Run | Properties | What it shows |
|---|---|---|
| `any_text` | `TypeOK` `PrecedenceLadder` `Evaluable` `CompiledIsMatched` `AssertsOnlyMalformed` `Termination` | all texts of up to 5 lexemes over a letter, a number, three operators, brackets and an unknown lexeme, or of up to 4 with blanks, for a float and an integer PID, with stacks of 3 slots, which both fill up; numbers inside and outside both ranges |
| `any_program` | `EvalStackFits` `OutcomeIsStatic` `EvaluationEnds` | all programs of up to 5 tokens, two frames in any order, one of them with zero divisors |
| `pipeline` | `ValueIsInfix` `OpStackNeed` `CompilesTheSyntaxTree` | all well-formed texts of up to 4 operands with all operators and placings of brackets, signs and blanks, at the real stack sizes, compiled and then evaluated for a sequence of frames, with a wrapped integer, a zero divisor and remainders |
| `session` | `ValueWasGiven` `OnlyAskedFor` `AnswersAreReadable` `NothingStale` | three PIDs in a one-byte and a two-byte mode (the same PID in both), a request that fails half-way, payloads of right and wrong length, four kinds of foreign frames, two frames in flight, two answers, both byte orders; a formula that can be evaluated over some of the payloads only; every query and answer compared with the one a fresh buffer gets |
| `library` | `EntriesOwnTheirBlocks` `NothingLeaks` `OnlyLateFailuresKill` `PassedThroughCanBeRead` `LoadsTheDocument` `LoadReturns` | documents with one or two descriptions, sound and unsound, with fields in several orders, fields, PIDs, modes and byte order said twice, keys at both ends of their range; any set of operations may fail in one load; loads follow one another |
| | `StopsOnlyAtGaps` | the documents the validator accepts among every type with 0 to 5 bytes, passed through or computed, formulas that one or both sides refuse, units that only one side knows, keys at and beyond the limits, keys too many or missing |
| | `AnswersMeanTheDocument` | documents with every length of a number in both byte orders, PIDs said twice and one PID in two modes, modes at both ends of those that can be answered; for every PID and each payload the answer is made and read, and its unit compared with what the unit is in SI; signed numbers with the highest bit set; a formula that no payload can be evaluated with, and one whose allocation has failed |
| `merge` | `MergesAll` | all calls with up to three files of one or two modes, with one or two PIDs each, in both byte orders; modes and PIDs written in two ways; modes without PIDs; a call without a file |

Runs that end in a violation, each a disagreement between the code and what the repository
says of it:

| Run | Property | Disagreement |
|---|---|---|
| `pipeline_validated` | `ValidatedIsSafe` | `A -4` passes the validator as a subtraction, is compiled to two operands, and stops the process at the first frame (`expr.c:51`, `eval.c:106`) |
| `pipeline_uint32` | `UnsignedIsKept` | an `uint32` formula over four bytes is returned through an `int32_t` and comes out negative (`eval.c:110`) |
| `session_two_byte_pid` | `OnlyAskedFor` | the high byte of a PID is lost when a frame is made (`eval.c:166,172,236,241`) |
| `session_three_bytes` | `ValueWasGiven` | a little-endian three-byte number is read with a byte twice (`eval.c:322`) |
| `session_five_bytes` | `PayloadFits` | five data bytes, which `yobd.h` allows, do not fit behind a two-byte PID (`eval.c:215,246`) |
| `library_si` | `ValuesAreSi` | one nanometre is read as 10^9 metres (`unit.c:61`), and `yobd.h:297` says SI units |

The passing properties of `library` and `merge` have exceptions, and each is a defect or a
disagreement of the code as it stands. The definition that draws the line is named; the documents
of the run keep to modes of one byte and PIDs of two, as far as the keys do.

* A failed `strdup()`, `xh_put()`, `xh_trim()` or start of the parser: the map is destroyed, and
  `yobd_free_ctx()` walks and destroys it again (`parser.c:588-592`; `OnlyLateFailuresKill`). After a
  failed `xh_init()` the clean-up asserts that there is a map (`parser.c:125, 568`; it is the one assertion
  that `OnlyLateFailuresKill` allows on the way back). The double destruction hides what would become
  of an entry that is freed half filled (`parser.c:402`): both end in the same undefined state.
* `parse_desc()` drops the error of `parse_expr()`: after a failed allocation a load succeeds with
  a formula missing (`parser.c:319`; the set `lost` of `SchemaSpec`), and the first answer to that PID
  is read through a null pointer (`eval.c:50`; `MayBeLost`).
* A document may have a formula that the compiler takes and the evaluator stops at (`Unevaluable`);
  `pipeline_validated` has one that the validator accepts.
* `EntriesOwnTheirBlocks` and `NothingLeaks` are about what is there after a load; a description
  that is said twice leaks the name and the formula of the first (`parser.c:107, 296`; `NothingTwice`).
* What the validator accepts and the loader stops at: 64-bit types (`schema.yaml:65, 69`, `parser.c:164`),
  integer formulas over more bytes than the type has (`nop_bytes.py:36`, `parser.c:341`), Python
  expressions that `expr.c` does not know (`StopsOnlyAtGaps`).
* A mode of two bytes, which the meta schema allows, is cut to one (`parser.c:433`), so its PIDs
  meet those of another mode, and what is overwritten is lost (`FitsTheKeys`); a PID above 0xffff
  that an application asks for meets the keys of another mode (`parser.c:26`).
* The meta schema's rule for the mode 0x1 is written under the key 0x1, a number, and the modes of
  a document are strings: PIDs of more than a byte pass (`schema.yaml:138`).
* `nm_to_m()` divides by 1e-9 (`unit.c:61`; `Misconverted`, and the run `library_si`). A passed-through
  signed number is read as unsigned (`eval.c:307`; `ReadUnsigned`, which says so of exactly the negative
  ones). PIDs and numbers that the codec garbles are left to the runs above (`Garbled`). A response
  for a mode from 0xc0 on is made and cannot be read (`eval.c:225, 420`; `Answerable`).
* A mode or PID that two files write differently is not seen as the same (`merge-pids:56`): the
  printed schema says something twice exactly then (`Respelled`), and a call without a file prints a schema (`merge-pids:60`).

**Bounds and why they suffice.** `MaxLexemes = 5` with 3 slots: a bracket, an operator under one
that binds more tightly and a full stack all occur, and every pair of actions of the compiler
meets. Four operands are the fewest at which an operator that yields meets two below it, one of
which yields too. `MaxTokens = 5` holds every program with two operators, and each way to
underflow or to leave values over. `MaxInFlight = 2` and `MaxAnswers = 2` let a late answer
overtake another and an old answer arrive after a new query; frames stay on the bus after they
are taken, so they repeat as often as the search likes. `INT32_SPAN` is 64 (8 in `any_program`),
so bytes up to 7 wrap. `OP_STACK_SIZE` and `OUT_STACK_SIZE` are the real 20 and 50 wherever
they are not the subject. In `library` two descriptions let every field of one entry be left behind by
the other, let the map's array move between them, and let a failure hit the first, the second, or
what follows; three modepid maps in one document repeat and collide. A process that has lost
memory is not followed into another load (`Open`), since blocks are named by the order in which
they were handed out. Three files in `merge` are the fewest with one that clashes with neither of
the others alone.

**Deadlock** is checked everywhere; a process that has ended has a stuttering step of its own.

**Fairness.** The compiler and the evaluator are sequential code: a step that can be taken is
taken, hence weak fairness of `Next` in `ExprParser` and of `EvalStep` in `EvalAnyProgram`.
A load is sequential code as well: weak fairness of `Load`, and of the `yobd_free_ctx()` that a
failed load calls itself; nobody has to start a load or to free a context.
Nothing makes frames arrive, so `Start` has no fairness. `CanSession` has none at all: the
library neither retries nor waits, so nothing is promised to happen there.

## 5. Proofs

All theorems hold for every value of the constants that satisfies the named assumptions
(`ParserAssumption`, `LexemeAssumption`, `ArithAssumption`, `FramesAssumption`,
`ProgramsAssumption`, `DocumentsAssumption`, `OperationsAssumption`, `PayloadsAssumption`,
`SessionAssumption`, `MergeAssumption`): any texts, any stack sizes, any number ranges, any
documents whose descriptions have all five fields (the meta schema requires them), any failures,
any payloads of one to four bytes, any schema and traffic, any PID files. Where the code itself has
a limit, a theorem has it as a hypothesis, defined beside the property.

* The session's theorems need PIDs of one byte where the mode has two-byte PIDs (`OneBytePids`), no
  other node that asks or gives a good answer (`NoOtherTraffic`) and, one of them each, modes from 1
  to 191 (`AnswerableModes`) or no passed-through three-byte number in little-endian order
  (`ReadableNumbers`). The runs of section 4 that violate `OnlyAskedFor` and `ValueWasGiven` show that
  the first and the last cannot be spared; `SessionWithinLimits`, which TLC evaluates in the run
  `session`, that its instance satisfies all four.
* `LoaderKeepsItsPromise` and `AnswersMean` need documents with a byte order, byte counts that fit
  `can_bytes` and modes and PIDs that fit the key (`DocumentsFit`): without a byte order the context
  keeps what `malloc()` left there (`parser.c:477`), and a mode of two bytes loses one (`parser.c:433`).
  Nothing else is asked of a document: it may be malformed, repeat itself and contradict itself.
  TLC evaluates in the run `library` that its documents are such (`DocumentsAreFit`).

**Expressions.**

* `TypeCorrect` (`TypeOK`): the types, with the bounds of both stacks. The strengthening
  (`IInv`) adds that `handle_op()` only ever works on an operator, without which it could push
  something else; one lemma for each way to use the stacks, one step for each action.
* `LadderHolds` (`PrecedenceLadder`): between two brackets the operators bind ever more tightly.
  Only `HandleOpPush` puts an operator on another one, and it does so when the one below does
  not yield, i.e. binds less tightly.
* `OpStackBounded` (`OpStackNeed`): at most 3 slots per open bracket and 2 more. Follows from
  the ladder: of two precedences, at most two operators lie between two brackets, so any three
  neighbours hold a bracket; the induction step over the stack is one lemma per stack operation
  (`OpStackSteps`), with the `Occurrences` lemmas on counting.
* `OnlyMatchedCompile` (`CompiledIsMatched`): the inductive invariant (`BracketInv`) relates the
  text read so far to the operator stack: the stack holds the brackets that the first `pos - 1`
  lexemes leave open and, while a `)` is being handled, one more. It shows that no text with
  unmatched brackets is compiled although the assertion meant for that (`expr.c:271`) cannot fail.
* `CompilesToPostfix` (`Evaluable`) and `StopsOnlyOnMalformed` (`AssertsOnlyMalformed`). The
  invariant (`TurnsInv`) counts: what is on the output stack yields as many operands as there are
  operators waiting on the other stack, and one more exactly when the text read so far ends with
  an operand. To know that from the text, it has to be known that the tokenizer never stops
  between a sign and its number (`NotBehindSign`). Since no beginning of the output falls to
  nothing (`PrefixesYield`), the evaluator never lacks an operand; since an operator is pushed only
  where the text has one, `op_to_expr()` meets an empty stack or a bracket only in a text whose
  brackets do not match.
* `EvalStackNeverFull` (`EvalStackFits`): the evaluation stack holds no more entries than tokens
  were read, so the array of `expr->size` slots that `stack_eval()` reserves is never exceeded.
* `EvalOutcomeIsStatic` (`OutcomeIsStatic`): the height of the evaluation stack is a function of
  the tokens read (`Height`), and every entry has the type the program was compiled for
  (`StackTyped`), so that of the three reasons to stop, lack of an operand and values left over are
  those of the program alone, and the type never is one.

**Loading.**

* `EntriesOwn` (`EntriesOwnTheirBlocks`), `LateFailures` (`OnlyLateFailuresKill`) and `CanBeRead`
  (`PassedThroughCanBeRead`), all from one inductive invariant of `SchemaLoad`; `LateFailures` also needs
  that up to the end of the walk there is no error (`ErrIsCause`), so that an assertion that fails with
  one is that of the clean-up. It has five parts:
  the loops are where their nodes are (`AtSound`); map and array live from creation to destruction
  and `parse_desc()`'s pointer is into the current array (`MapSound`); every pointer of an entry is
  null, never set, or a live block of its kind, and no two entries share one (`EntriesSound`); only
  the entry that is being filled has fields that were never set, and only those the loop has not
  met (`FilledSound`); after an error that is cleaned up some operation has failed late
  (`TroubleSound`). `FilledSound` is what makes the assertions at the end of `parse_desc()` say
  something of a loaded context: a field said twice, or an expression before the byte count, does
  not get past them. One lemma per action; `EntriesKept`, `EntryFilled` and `EntryPut` for the
  three ways in which a step can touch the map.
* `NothingIsLost` (`NothingLeaks`): nothing is left of a load without a context, or of a context
  that was freed. `LInv` says to whom each block of the heap belongs (`HeapSound`): to the load, to
  the map, or to an entry; an entry that is overwritten would be the leak. So the invariant has to
  say which keys are in the map, namely those of the places the walk has passed (`KeysSound`), and
  that the entry being filled has not yet got the block it is about to get (`FreshSound`). That
  different places have different keys is a matter of the document and of the bits of a key
  (`NothingTwice`, `FitsTheKeys`), and both are hypotheses of the property.
* `LoaderKeepsItsPromise` (`LoadsTheDocument`): `SchemaLoad` implements `SchemaSpec`. The invariant
  above says whose memory everything is; this one (`RInv`) says what is in it. Of the fields of the
  description at hand, each that `parse_desc()` has met is in the entry with the value it was last
  given (`ReadSound`); the entry is filed under its own key (`KeySound`); of every other key, the entry
  has the description at the last place the walk has passed, and every place passed has an entry
  (`ContentSound`, over the order of places in the document); the byte order is the last one that was
  said (`TopSound`); what was passed is what the assertions let through (`FitSound`); and the error
  code is one that belongs to the state (`ErrSound`). At the end of the walk every place has been
  passed, so the map has exactly the PIDs of the document with their last descriptions (`LoadedIs`).
  The refinement is then one lemma per group of actions: those within a load are hidden
  (`StepIsHidden`); an assertion that fails shows a document that is not sound, or a failure
  (`StopIsUnsound`); a load ends as the promise has it (`TrimIsSeen`); what an application finds by
  the calls of the API is the description (`SeenPidsAre`).
* `AcceptedIsLoaded` (`StopsOnlyAtGaps`) needs of this invariant only `ReadSound`: with it the
  loader's assertions on an entry become statements about the description, and those follow from
  what the validator checks, outside the three gaps. It does not need `DocumentsFit`.
* `AnswersMean` (`AnswersMeanTheDocument`): what the codec reads of an entry is what the document says
  of the PID, but that a formula may be lost if an allocation has failed (`ReaderIs`, from `LoadedIs`);
  an answer is read as its payload, or refused for its mode or its length, or it stops the reader at a
  formula that is missing or cannot be evaluated (`AnswerIsRead`, the codec's round trip); a formula or a
  number over that payload is what the description means, a negative number apart (`MeaningIsValue`); and
  each unit's conversion but that of nm is the one to SI (`UnitsAreSi`, by cases over the table). The
  theorem is about the reading of a frame by any context a load returns, also one that has lost
  formulas: which of the three ends the reading has is decided by the document, the payload and whether
  that allocation failed.

**Frames.**

* `FramesAreFresh` (`NothingStale`): a query or a response that is made without an error is a function
  of its arguments (`QueryIsWhole`, `ResponseIsWhole`), and whether it is made at all does not depend on
  the buffer (`QueryErrorIsOfTheCall`), so the buffer's past does not matter, whatever the session: a
  half-written query of a call that was refused, or a frame of another node.
* `SessionIsSound`, and from it `NobodyHearsMore` (`OnlyAskedFor`), `AnswersAreAccepted`
  (`AnswersAreReadable`) and `ValuesWereGiven` (`ValueWasGiven`). The codec's part is a round trip
  without any session: the headers that are made are read back, and a payload behind them is read
  byte by byte, in all four layouts and both byte orders. The session's part (`SessionInv`) is where
  a frame on the bus can come from: every query is one that was asked (`BusSound`), every response
  one of the answers, every answer one to something asked (`AnswersSound`), and what both ends
  hold is the reading of such a frame (`HeardSound`, `GotSound`). Loss, delay and repetition need no
  argument of their own, since a frame that is taken again is still the same frame.

**Merging.**

* `MergesEverything` (`MergesAll`): `MInv` says of every turn of the loops that the dictionary
  says what the pairs passed so far say (`SaidSoFar`), that no two of them clash (`NoClashSoFar`),
  and that the files opened agree in their byte order (`EndianSoFar`). That the printed document
  says something twice exactly if it was spelled in two ways is a fact about the numbers of
  texts, and needs that within one dictionary no text is there twice.

`StackTheorems` has what push, pop and peek return, and how counting goes on along a sequence.

**Only model-checked.** `CompilesTheSyntaxTree` and `ValueIsInfix`: their reference is a recursion
over a text's syntax tree, and such inductions over data cannot be done in this prover. `Termination`,
`EvaluationEnds` and `LoadReturns`: liveness, which needs `ENABLED`. What is proved of the loader is
therefore the safety of the promise: `SchemaSpec` does not say that a load returns.

## 6. Not modelled

The rounding of floats and of a 32-bit number that becomes a float; file names, with the path of
`PATH_MAX` characters (`parser.c:548`); the texts of errors and logs, `src/error.c` among them,
which is a table without state; the pointer checks for `NULL`; YAML nodes of another kind than
the loader expects, numbers out of `strtol()`'s range and files without a document, which end in
assertions; formulas that name a byte beyond the PID's byte count, which read padding; PID files
that lack a key, which end `merge-pids` with an exception; the test program, which was read for
how the library is called. Which SI unit belongs to which raw unit is said nowhere in the code,
so no property relates the two.
