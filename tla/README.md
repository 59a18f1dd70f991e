# A verification project for dcparse

dcparse is a C++ library that builds lexers and parsers at run time. A program
gives it lexer rules and grammar rules with callbacks; the library builds
automata and a pushdown table from them and then consumes characters and tokens
one at a time. Two programs in the repository are built on it: `cparser`, a C
front end with a WebAssembly back end, and `SimpleCalculator`.

This directory holds TLA+ modules translated from the source, the TLC runs that
check them on small instances, and theorems the TLAPS prover checks for every
value of the constants.

## 1. The system

Everything runs in one thread. What is hard about the code is not concurrency
but protocols: calls that may come in any legal order, callbacks that answer in
any way, exceptions that leave an object half way through a call, and queues of
items that must keep their order.

### Parser generator (`lib/parser/parser.cpp`, `include/parser/parser.h`, `include/algo.hpp`)

* State: the rules `m_rules` with their options (priority, associativity,
  decision positions), the symbols, the start symbols, and what
  `generate_table` makes of them: `m_pds_mapping` (state and symbol to
  `PushdownEntry`), `m_start_state`, `h_state2set`.
* Operations: `add_rule`, `dec_priority`, `add_start_symbol`, `generate_table`
  (closure, `stateset_move`, `state_action`), and the queries
  `get_expected_chars`, `prev_possible_token_of`, `next_possible_token_of`.
* Hard: conflicts are settled by filtering item sets by priority and
  associativity, one token ahead. The filter removes items; the closure that
  follows may bring some back; the callbacks' decisions remove others. One call
  of `add_rule` makes a rule of every choice of optional symbols and moves the
  decision positions along. Table rows and state numbers come from two maps
  that a worklist fills. `get_expected_chars` walks reductions over a stack it
  does not pop.
* Correct when: every entry of the table is sound (an item claims only what has
  been moved over), the language of the grammar is not cut down, the trees
  respect priority and associativity, the table is closed, generation ends, and
  the queries say what the parser then does.

### Parser runtime (same file)

* State: `p_state_stack`, `p_char_stack`, `p_not_finished` (a char put aside
  until its lookahead arrives), `m_prevSave` (tokens not consumed yet),
  `m_need_recover` (a rejection the recovery has not settled).
* Operations: `feed`, `end`, `reset`, `parse`; inside them `feed_internal`,
  `handle_lookahead`, `do_shift`, `do_reduce`, `recover_from_reject`.
* Callbacks: reduce callbacks, decision callbacks, `m_preAction` (may drop a
  token), `m_recFn` (may drop tokens, cut the stacks, ask for more tokens, or
  give up).
* Hard: tokens wait in three places and a token that was rejected is put back;
  a callback may fail after the stacks were popped; a recovery cuts two stacks
  of different meaning by one number; the table used for a lookahead was chosen
  earlier; `feed` and `feed_internal` call themselves.
* Correct when: the stacks stand for a viable prefix, every token is consumed
  exactly once and in order unless the caller was told otherwise, an accepted
  input is a whole one, a parse does not depend on the parse before it, the
  code's own assertions hold, and every call returns.

### Lexer (`include/lexer`, `lib/lexer`)

* State: rules in major and minor priority classes, each with the length fed
  and matched; the cache of characters not yet part of a token; the position
  table; `m_match_major_priority`; the last token. `SimpleLexer` adds a window
  of tokens with a cursor.
* Operations: `feed_char`, `feed_end`, `reset`, `add_rule`; `SimpleLexer::next`,
  `back`, `end`.
* Hard: when a token is found the rest of the cache is read again by rules that
  must have been reset; the longest match is decided by rules dying one by one.
* Callbacks: token factories; determination functions, which switch a rule on or
  off by the token before.
* Correct when: the tokens partition the text, each is the longest match of the
  most urgent class though it is given out before the rest of the text is seen,
  the caller gets all of them in order, positions point at the text, a text is
  not judged by the text before it, and `SimpleLexer` is a cursor over one
  stream of tokens.

### Regular expressions (`include/regex`, `lib/regex`)

* State: a pattern, rewritten twice before it is parsed; a tree of nodes; NFA
  and DFA tables over sorted lists of character ranges; the current states of a
  matcher.
* Operations: rewriting `+ ? {n,m} .` and brackets, parsing, `to_nfa`, cutting
  and merging ranges, the subset construction with complements, removing the
  states that reach no final state, `feed`/`match`/`dead`/`reset`.
* Hard: ranges are cut in place at `high + 1` while two lists are walked; the
  start and final states of a node are shared with its neighbours; a
  repetition is a copy of text.
* Correct when: the tree means what the pattern means, both automata accept the
  language of the tree, and `dead` says exactly that no continuation can match.

### UTF-8 (`include/dcutf8.h`, `lib/dcutf8.cpp`)

* State: the bytes of a code point that is not complete.
* Hard: the decoder throws in the middle of a sequence and is used again.
* Correct when: decoding undoes encoding and nothing else is accepted.

### cparser

* `c_translation_unit_context.cpp`: `m_scopes`, `m_switch_info`, labels, the
  return type, defined functions, and a static counter of type ids; a protocol
  of enter and leave calls the checks must pair. *Hard:* the scope of a
  function's parameters is merged with that of its body by a flag; labels and
  switches belong to the construct that is open; a type is known by an id it
  got when its tag was first seen. *Correct when:* the context mirrors the open
  constructs of the source, labels are judged in their own switch and function,
  and ids are unique and stable.
* `c_ast_check_constraints.cpp`, `c_ast_type.cpp`, `c_ast_utils.cpp`,
  `c_ast_expr.cpp`: tree walks that call it, compute types and report errors.
  *Hard:* an error in a subtree changes what is done above it; qualifiers must
  survive members, indices, conversions and arithmetic. *Correct when:* no
  accepted expression writes to what was declared const, and balancing does not
  depend on the order of operands.
* `c_initializer.cpp` with the initializer part of the checks: a cursor over the
  tree of subobjects, moved by values, braces and designators. *Correct when:*
  each value reaches the subobject its place or its designators stand for.
* `c_parser.cpp`, `c_token.cpp`, `c_lexer_parser.cpp`: the grammar and the
  tokens of C, data of the generator; `c_reporter.cpp`, `c_logger.cpp`,
  `c_error.cpp`: messages.
* `wasm_codegen.cpp`: code emission.

### SimpleCalculator (`example/SimpleCalculator`)

A grammar, a pre-action that drops newlines that are not expected, a recovery
function that skips a newline, an interactive loop that resets the parser after
an error, and code generation through LLVM.

### Not part of it

`thirdparty/googletest` is vendored, `scripts` formats the sources.

## 2. The modules

| module | what it is |
| --- | --- |
| `DCGrammar` | rules, items, closures, `stateset_move`, `state_action`: the pure part of table generation |
| `DCTable` | what `feed`, `end` and `reset` rely on in a table: the promises the generator makes to the runtime |
| `DCTableGen` | the generator as a state machine: `add_rule`, priorities, start symbols, the worklist, the queries for neighbours; it uses `DCGrammar`, and `DCTable` for what it promises |
| `DCTable_proofs` | the proof that a table made by `stateset_move` and `state_action` keeps these promises |
| `DCTableGen_proofs` | the inductive invariant of the generator, and its theorems |
| `DCParserRun` | the runtime as a state machine, one action per step between two control points |
| `DCExpectedChars` | `get_expected_chars` over the state of `DCParserRun` |
| `ShiftReduce` | the abstract specification: what a shift-reduce parser promises its caller |
| `DCParserRefinement` | the mapping under which `DCParserRun` implements `ShiftReduce` |
| `DCParserRun_proofs` | the inductive invariant of the stacks and the table, that of the tokens on their way through a call, their theorems, and the proof that `DCParserRun` implements `ShiftReduce` |
| `MCParserRun` | grammars of the repository's tests, their tables, and the constants of the runs |
| `MCTableGen` | seven definitions of rules that the generator's run combines |
| `MCExprParser` | a reference recogniser for the expression grammar and the shape of its trees |
| `LexerRules` | the classes of rules, and one rule: `reset`, `feed`, `dead`, `match` of both kinds |
| `TextPositions` | lines, columns and pieces of lines of a range of the text |
| `DCLexer` | `feed_char`, `feed_end` and `reset` of `Lexer` as a state machine, one action per turn of a loop |
| `DCLexer_proofs` | its inductive invariant, what the rules know of the text, and the theorems about the cache, the lengths, the tokens taken, the exceptions, what the caller gets and the positions; the inductive invariant of `SimpleLexer`, its cursor, and the proof that it implements `TokenCursor` |
| `TokenCursor` | the abstract specification: what `ISimpleLexer` promises a parser |
| `SimpleLexer` | `SimpleLexer` on top of `DCLexer`, and the mapping to `TokenCursor` |
| `MCLexerRules`, `MCLexer`, `MCSimpleLexer` | small rule sets of the shapes the repository's lexers have, and the constants of the runs |
| `DCRegexPattern` | the rewriting of a pattern and the tree it is parsed to |
| `DCRegexAutomata` | ranges, `to_nfa`, the subset construction, complements, dead states: pure operators |
| `DCUtf8` | `UTF8Encoder`, and `UTF8Decoder` as a state machine fed one byte at a time |
| `DCUtf8_proofs` | the decoder's inductive invariant, and the theorems about decoding and encoding |
| `RegExpUTF8` | a matcher as a state machine: reading a pattern, building, compiling, feeding bytes, resetting; it composes the patterns, the automata and the decoder |
| `MCRegex` | a few hundred expressions with the patterns that are written for them |
| `CUnitContext` | `CTranslationUnitContext`: every operation an operator from context to context |
| `CStatements` | the checks of declarations and statements as a walk of a translation unit over `CUnitContext` |
| `CStatements_proofs` | its inductive invariant and the theorems |
| `CTypeKinds` | the records types are, and what the checks ask of one type |
| `CTypes` | the set of types, `compatible_with`, implicit and explicit casts, composite types, promotion |
| `CExprCheck` | the checks of expressions as a walk in postfix order over `CTypes` |
| `CExprCheck_proofs` | the types of the operands, the consts their types show, the balancing of operands, and the theorems |
| `CInitializer` | the placing of initializer values as a walk of an initializer |
| `CInitializerOrder` | the reference for it: which subobject the next value is for, by the rules of C over paths |
| `CInitializer_proofs` | the inductive invariant of the lists that are open, and its theorems |
| `MCScopes`, `MCExprCheck`, `MCInitializer` | small sets of names, types and members |

### How `DCParserRun` corresponds to the code

The variables have the names of the members. `pc` is the point the running call
has reached, `ret` the point `feed_internal` returns to, `tok` the parameter of
`feed`, `cur` the local `tt` of the loops, `arg` the parameter of
`feed_internal`; `outcome` is what the caller saw. `base`, `fed` and `gone` are
history: which tokens were fed in earlier parses and in this one, and which the
caller knows to be given up (dropped by its own pre-action, dropped by its own
answer to a rejection, or in the hands of a call that threw). They occur in no
guard but the bound on tokens.

| `pc` | code |
| --- | --- |
| `enter`, `recover` | head of `feed`, lines 1342-1382 |
| `loop`, `ahead` | the two loops of `feed`, 1384-1395 |
| `feed` | `feed_internal`, 1239-1335 |
| `catch`, `tail` | 1396-1413 |
| `end_recover` ... `end_check` | `end`, 1451-1494 |

The table is a constant with the assumption `TableSound`: it is `IsSound` of
`DCTable`, which is proved of every table that `generate_table` finishes
(`GeneratedIsSound`, section 4), and which TLC evaluates in every run for the
tables of the runs. A char carries
the positions of the tokens below it instead of a text range, and the list of
reductions that built it instead of an AST.

Abstractions:

* A callback returns any of the answers it may return; the model does not look
  inside. A reduce callback may fail (`CallbackFails`), a decision may eliminate
  any subset of its items, a pre-action may drop any token of `Droppable`
  (replacing a token by another is the same as the caller feeding the other).
* An answer of the recovery function never cuts below the start state and never
  drops more tokens than are saved: beyond that the code has undefined behaviour.
* `DoReduce` is `do_reduce` together with the start of the `feed_internal` its
  callers call with the nonterminal.
* A failed assertion of a debug build stops the model with its name in
  `outcome`. In a Release build (`NDebug`) execution goes on, except where it
  would go on into undefined behaviour: the assertions of `do_reduce` and of the
  start symbol stop it in both builds.
* Debug output and the texts of messages are left out. `parse()` is a loop of
  `feed` and one `end`, so its behaviours are among those of the model.

### How `DCLexer` and `SimpleLexer` correspond to the code

`rule` is the state of every rule with its `feed_len` and `match_len`, `major`
is `m_match_major_priority`, `last` the kind of `m_notnull_last_token`, `cache`
is `m_cache`, `linfo` the table of line starts. A call runs from `FeedChar` or
`FeedEnd` until `pc` is `idle` again. Who may call is what the callers of the
repository do (`CallAllowed`): nobody feeds a lexer after `feed_end` without a
reset, and only `SimpleLexer` may feed on after a character no rule matches
(`simple_lexer.hpp:54`), since its place in the buffer has moved on. `text`, `taken`, `out` and `first` are
history: the characters fed since the reset, the tokens cut off the cache, the
tokens the caller was given, and the last token the text began with.

| `pc` | code |
| --- | --- |
| `scan` | the loop of `push_cache_to_end`, 145-166 |
| `class`, `judge` | the loop of `feed_char_internal`, 175-224: a class is fed, then judged |
| `end` | the loop of `feed_end`, 435-458 |

In `SimpleLexer`, `at` is the place in `fill_one`; the steps of the lexer it has
called run in between. `Window` is the 10 of `clean_token_buffer`, `SizeMod` the
range of `size_t`.

Abstractions:

* A regular expression is its automaton, a table over a few characters whose
  dead states are those `dead()` reports. That the automata built from patterns
  have the right language and the right dead states is what the run `regex` checks.
* A token is its rule, its kind, the length matched, and the length and the
  range its rule has stored. A factory that returns no token has the kind
  `Skip`; a determination function is the set of kinds it answers `true` for.
* The encoder is the number of bytes of every character.
* `SimpleLexer` stops where its cursor has wrapped and the code would read
  outside the buffer.

### How `DCTableGen` and `DCExpectedChars` correspond to the code

The grammar is not a constant: a behaviour begins with calls of `add_rule`,
`dec_priority` and `add_start_symbol` in any order, then `Generate` is
`generate_table` up to its loop, `Row` is one round of the loop, `Generated` the
assertion after it, `Query` a call of `next_possible_token_of` or
`prev_possible_token_of`. `queue`, `visited`, `numbers` and `mapping` are `q`,
`visited`, the map of `SetStateAllocator` and the rows. `std::sort` orders the
rules by priority and so renames them; a rule of the model keeps its number, and
the order in which a row meets new sets is any order. `generate_table` throws on
a conflict (`conflict`) or fails an assertion (`assert`).

`DCExpectedChars` writes the mutual recursion of `handle_feed` and `handle_la`
as rounds: a case is a number of symbols taken off and an entry, and a round
adds what the reductions lead to. A decision entry leads nowhere, as in the code.

### How `RegExpUTF8` corresponds to the code

`Read` is one character of the pattern through the two rewriting passes and the
parser, `Construct` the tree and the NFA, `CompileMatcher` `compile()`, `FeedByte`
`feed(char)` with the decoder in front, `Reset` `reset()`. Ranges keep the width
of `char_type` where the code computes `high + 1` and `low - 1`; a character is
an integer of a small alphabet, and the encoder and decoder work on the real
boundaries of UTF-8. `DCUtf8` has the decoder's own steps: `TakeByte` is
`decode`, with its buffer, whether it has thrown and the characters it has given;
`FeedByte` takes one of these steps and feeds the automaton what comes of it, and
`Reset`, which begins with the characters anew, leaves the decoder as it is. Undefined behaviour and failed assertions are collected in
the `faults` of an automaton, and a property is claimed of automata without any.
The grammar of patterns is itself a `DCParser`; the model has the trees it
builds, not its table.

### How the cparser modules correspond to the code

`CUnitContext` is a record with the members of `CTranslationUnitContext`
(`ctx.scopes` is `m_scopes`, `ctx.fake` `m_function_fake_scope`, and so on) and
one operator per member function. `CStatements` calls them in the order of
`check_constraints`: the tree is not built first, the next node is a choice, and
`walk` is the stack of visits that have begun. `FunctionDefinition`, `FunctionBody`
and `FunctionDone` are the three parts of the visit of a function around its
body; the other statements are cut the same way. Several units are checked one
after another with one counter of type ids, as it is a static variable.

In `CExprCheck` the operands of an expression are checked before their operator,
so a behaviour is an expression in postfix order and `operands` a stack.
`Refused(VOID)` is an operand that has reported an error and has the type void,
`Refused(NoType)` one without a type. `consts` is a history of the declarations
an operand was reached through; no guard reads it.

In `CInitializer` a frame is a call of
`check_initialization_of_object_with_intializer_list`, `at` its `iter`; `Item`,
`OpenList` and `Close` are the body of its loop up to, into and after a value.
`placed`, `reached`, `start`, `last` and `misled` are history. The loop that goes
down to the first type a value can initialize is a recursive function with as
many rounds as types are nested (`Nesting`): further rounds change nothing. The
relation of types is a constant (`CastTo`), which the run gives
`ImplicitCastTo` of `CTypes`.

Abstractions:

* Types are records with ids for tags; members come from a table. Casts that the
  checks insert into the tree are left out: no check reads them.
* Pointers, arrays and functions are nested at most `TypeDepth` deep, a number
  the code does not have. `compatible_with` calls itself on the types two types
  are made of; `CompatibleUpTo` is that recursion as a function of the depth. The
  leaves that can be pointed to are one level below the bound, which is all that
  is needed: that no operator then leaves the types is the theorem `Typed`.
* Conditions of `if` and loops are names: what matters is whether the check
  reported and what type it left.
* The declarator of a definition with enumerators has one enumerator.
* A failed assertion or a null pointer read ends a behaviour with `failed`.

Definitions marked `\* fault` are variants of the definition after them that a
plausible mistake in the code would amount to. No specification uses them; they
show that the properties can be violated.

## 3. What the runs check

The parser's runs use `FairSpec`: weak fairness of `Step`, the steps of a call that is
running. The code has one thread, a call that has started runs on until it
returns or throws, and callbacks are assumed to return. Nothing makes the caller
call again, so `FeedCall`, `EndCall` and `ResetCall` are not fair, and the model
may stop between two calls or at a failed assertion: deadlock is not an error.
The lexer's fairness says the same, that a call that has begun runs on; it is
written `[]<>(idle) \/ []<><<not idle>>`, which is weak fairness of the steps
inside a call because one of them is always enabled there. A lexer is not fed
behind the bound on characters; `SimpleLexer` can always be called, and its run
looks for deadlocks.

| run | grammar, build | environment | bound | shows |
| --- | --- | --- | --- | --- |
| `expr` | expressions, debug | no callbacks | 8 tokens | `ExprLanguage`, `ExpectedExact`, `PriorityRespected` |
| `decisions` | type names, Release | every answer of the decisions, rejections resumed at any depth or given up, up to one token kept; the caller goes on after exceptions | 4 tokens | `ViablePrefix` |
| `recovery` | expressions, Release | dropped tokens, rejections given up or resumed at once, failing callbacks, unknown tokens, resets at any point | 5 tokens, several parses | `EveryTokenOnce`, `NoStaleToken`, `IsShiftReduce`, `CallReturns` |
| `waiting` | the same, debug, no rule propagation | the recovery may also ask for more tokens; no resets | 5 tokens | `SavedOK`, `AcceptedIsWhole`, `OwnAssertionsHold` |
| `stale` | expressions, Release | no recovery function, resets | 5 tokens | violates `NoStaleToken` |
| `table` | any grammar of up to 3 of 7 definitions | `add_rule`, `dec_priority`, `add_start_symbol` in any order, queries | 2 priorities | `ExpansionExact`, `TableClosed`, `AdjacentSound`, `GeneratedSound`, `GenerationEnds` |

| run | rules | environment | bound | shows |
| --- | --- | --- | --- | --- |
| `lexer` | comments, keyword, identifiers, operator, numbers, spaces | any text, ended or reset at any point, gone on with after a character no rule matches | 5 characters, two texts | `LongestMatch`, `FailsOnlyWithoutMatch`, `TokensDelivered`, `AssertionsHold`, `PositionsRight`, `CallReturns` |
| `cursor` | numbers, identifiers, operator; one character no rule matches | `next`, `end`, `back` in any order, also after exceptions | 5 characters, window of 3 | `CursorInBuffer`, `IsCursor`, `SCallReturns` |
| `regex` | the patterns of `MCRegex`: every operator over five kinds of characters, pairs of operators, malformed patterns | any bytes, NFA or DFA, resets, going on after a decoder's exception | texts of 3 characters; 4 bytes waiting, 2 after an exception | `PatternMeaning`, `LanguageExact`, `LanguageCovered`, `DeadExact`, `CharactersRoundTrip` |

| run | instance | environment | bound | shows |
| --- | --- | --- | --- | --- |
| `scopes` | a variable, a function, a label, a case value, a struct, an enum | any tree | six budgets of nodes, two units | `ScopesMirrorWalk`, `FunctionStateMirrorsWalk`, `DuplicatesExact`, `TypeIdsUnique`, `TagsStable` |
| `cexpr` | numbers, an enum, pointers, arrays, structs and a function, const and not; 7 unary and 11 binary operators | any expression | 3 operands waiting, types nested 4 deep | `ConstSafe`, `ConstVisible`, `Balanced` |
| `objects` | 7 objects of nested arrays, structs and unions, 8 designator lists | any initializer, with and without a storage class | 5 values and lists | `FillsInOrder`, `SizeIsExact` |

The grammars are those of `test/parser.cpp` and `test/parser_typedef.cpp`, with
one operator per class of the first. 8 tokens are enough for two operators of
different classes on each side of a parenthesised operand, for two statements in
a row, and for every way to break off; 4 are enough for a name in parentheses
that is a type in one reading and an operand in the other, with a name after it. In the runs with callbacks 5 tokens
are enough for a rejection on a stack of two states with a char waiting, the
tokens the recovery asks for, and what is parsed after it. A debug and a
Release build differ only after an answer of the recovery the assertions forbid:
`waiting` takes the first, `decisions`, whose recovery keeps tokens, the second.

5 characters are enough for a comment with something in it, for a number that is
taken back by its exponent or its sign with tokens before and after it, and for
three tokens found in one call. The window of 3 stands for the 10 of the code:
no call finds more than 3 tokens in 5 characters under these rules, while a
text has up to 5, so that the window moves.

The bounds of the other runs. `table`: three definitions are the least for a
chain of nonterminals with a conflict in it and for a conflict that priorities
settle; the definitions have one and two optional symbols and decisions on
either side of one. `regex`: a text of 3 characters takes two rounds of a star
and something after it; the bytes of the last instance are the first and last of
every class of UTF-8. `scopes`: each budget is made for one question: many
declarations, one of them in a nested block; five nested switches, cases, labels
and blocks; two functions in a row with labels and jumps; a loop or branch with
a declaration; two units share the counter of type ids in any of them. `cexpr`:
the operands are a stack of at most 3 and the expression may be of any length;
the state space is finite because types do not grow beyond what the operators
give. Four levels are those of the operands given: the function behind a pointer
has a pointer for a parameter, and one may take the address of the variable. The
instance satisfies the hypotheses of the theorems about const (section 4), as TLC
evaluates (`ConstsAssumption`). `objects`: 5 are enough to fill a struct that holds an array and a union
through braces, designators and without, and to go on behind it.

What the properties say about the code:

* `ExprLanguage`: `feed` takes a token if and only if some input goes on with
  it, and `end` accepts the sentences and nothing else. The reference is a
  scanner written for the language, not for the table.
* `ExpectedExact`: `get_expected_chars` lists the tokens the same scanner says
  can come next, whatever waits for a lookahead.
* `PriorityRespected`: an operand of an operator binds tighter, or as tight and
  on the side of the associativity.
* `ViablePrefix`: everything an item of a stacked state claims to have seen is
  on the char stack below it. `do_reduce` and the decision callbacks take their
  arguments on that claim. `DecisionArgs`, which follows from it (section 4):
  those arguments are the chars the rule names.
* `EveryTokenOnce`: every token fed since the last reset is held exactly once
  and in order, except those the caller knows to be given up.
* `NoStaleToken`: only tokens of this parse reach the stacks.
* `AcceptedIsWhole`: what `end` returns was built from every token not given up.
* `OwnAssertionsHold`: the assertions in the code on the parser's own
  bookkeeping.
* `IsShiftReduce`: each step is a step of `ShiftReduce` or none.
* `CallReturns`, `SCallReturns`: every call returns or throws.
* `ExpansionExact`: one call of `add_rule` makes the rules of all choices of
  optional symbols, and a decision is asked behind the symbols it was asked
  behind in the call.
* `TableClosed`: a state an entry leads to has a row or is queued for one, under
  a number of its own, and the assertion behind the loop holds.
  `GenerationEnds`: the loop ends, with a table or a conflict.
* `GeneratedSound`: the rules that the calls leave behind are a grammar as
  `generate_table` takes them to be, and in a finished table every entry shifts
  and reduces only what stands on the stacks of a parser that comes to it,
  whatever the decisions eliminate.
* `AdjacentSound`: a token a query gives as a neighbour really stands there in
  some sentential form. (Not all of them are given: see below.)
* `LongestMatch`: every token taken is the one a reader of the whole text would
  take: of the first class that matches anything, the longest match. The
  reference runs the automata on the text from each cut and knows nothing of
  caches, limits or dead rules.
* `FailsOnlyWithoutMatch`: an exception means that nothing matches.
* `TokensDelivered`: the caller gets every token, in order.
* `AssertionsHold`: the assertions of `Lexer`.
* `PositionsRight`: lines, columns and the pieces of a range against the
  newlines counted in the text.
* `IsCursor`: whatever mix of `next`, `end` and `back`, of reading on and of
  erasing, the parser sees a cursor over one stream; `end` says so only behind
  the last token. `CursorInBuffer`: the bookkeeping under it.
* `PatternMeaning`: a well-formed pattern is accepted and its tree matches what
  the expression it was written for matches, by the definition of the operators.
* `LanguageExact`: NFA and DFA accept that language, where no starred part
  shares a state with a part it could leak into (`Tight`); `LanguageCovered`:
  they never refuse a word of it, shared states or not.
* `DeadExact`: `dead()` is true as soon as no final state can be reached, and
  not before, in the NFA matcher and in the DFA.
* `CharactersRoundTrip`: a character the matcher is fed encodes to the bytes it
  was read from, also behind an exception.
* `ScopesMirrorWalk`: as many scopes as constructs that own one are open, each
  with the names declared there, parameters with the body.
* `FunctionStateMirrorsWalk`: switches, labels and return type are those of what
  is open. `DuplicatesExact`: a case label is reported if and only if it repeats
  one of the same switch.
* `TypeIdsUnique`, `TagsStable`: visible tags have ids of their own, and keep id
  and definition while their scope is open.
* `ConstSafe`: no accepted assignment, step or call writes to, or makes a
  writable pointer to, an object declared const, unless a cast took the const
  away. `ConstVisible`: the type of every operand shows the consts of the
  declarations it was reached through.
* `Balanced`: arithmetic operators accept both orders or none, give one type,
  and an integer type that holds both operands.
* `FillsInOrder`: a value goes to the outermost subobject that takes it at the
  next free place or at the one its member designators name, by the rules of C
  restated over paths. `SizeIsExact`: an array without a size gets the largest
  index reached plus one.

### Disagreements

One disagreement is a run of its own:

* `reset()` does not clear `m_prevSave` and `m_need_recover`. Without a recovery
  function a rejected token stays in `m_prevSave` and is parsed first after the
  reset (run `stale`). The tests of cparser reset one parser between inputs that
  are rejected and expect each to be judged by itself. With a recovery function
  that drops what it was shown and is never made to wait, `NoStaleToken` holds
  (run `recovery`); with one that waits, a reset in between keeps the rejection.

The modules follow the code in the places below too, where it does what its
author can hardly have meant. Properties that they would break are claimed where
they cannot occur, as said in the comment of the property or of the instance.

Parser and generator (`lib/parser/parser.cpp`):

* `end()` asserts that there is a char (1447), though a parser that was fed only
  tokens its pre-action dropped has none. The calculator's loop can end so.
* `throw err` (1377, 1456) throws the optional and not the error in it.
* A second query for previous or next tokens fails an assertion: the flag that
  says they are computed is never set (1081). `transitive_closure`
  (`algo.hpp:11`) goes two steps, so that a query gives a part of the tokens; it
  gives no wrong ones (`AdjacentSound`).
* When a recovery leaves tokens in `m_prevSave`, or a caller goes on after an
  exception without a reset, tokens are lost and reordered: the catch block
  saves the parameter of `feed` and not the token that was rejected (1399), and
  `end` lets saved tokens go (1469).

Lexer (`include/lexer`):

* A rule made of a regular expression hands its factory what it has stored, not
  what has matched (`lexer_rule_regex.hpp:117`): with the calculator's rules
  `2e;` is the number with the text `2e` and then the identifier `e`.
* A string literal never dies behind its closing quote, because `feed` returns
  before it looks at the state (`lexer_rule_cstring_literal.hpp:46`): it takes
  the rest of the text with it.
* `reset()` keeps the last token, and the first token of the next text is chosen
  by it (`lexer.hpp:306`, 362). Tokens collected by a call that throws are lost
  to the caller (228). Two rules of one class with matches of one length are not
  reported as a conflict (280).
* `clean_token_buffer` erases tokens the parser has not read and lets the cursor
  wrap when a call of the lexer returns more tokens than the window holds
  (`simple_lexer.hpp:40`); the window of run `cursor` is never overrun.

Regular expressions and UTF-8:

* The star of a node links the start and final states it shares with its
  neighbours (`regex_expr_node.hpp:373`): `a*b*` accepts `ba`, `a*|b` accepts
  `ab`. `LanguageExact` leaves these out by `Tight`.
* Ranges that touch `char_type`'s end overflow at `high + 1` (`misc.hpp:15`); a
  range beside a single character inside it, as in `[a-z]|b`, fails an assertion
  or loses characters (`regex_automata_node_nfa.hpp:57`, 132).
* `.+`, `.?` and `.{n}` are refused, `a?+` too; `a{2}+` is `aaa*`; `[a-]` goes up
  to the last character; an unclosed `[` or `{` is ignored; `!` outside a group
  is dropped.
* The bytes of an invalid sequence stay in the decoder (`dcutf8.cpp:59`): after
  an exception every later byte is refused, until the decoder is replaced. What
  is decoded is right all the same (`CharactersRoundTrip`). Both are proved
  (section 4).

cparser (`cparser/lib`):

* Every `continue` is refused, and every `break` in a loop: `enter_loop` is
  never called. A `goto` is refused before its label. Conditions are looked at
  only if checking them reported (`c_ast_check_constraints.cpp:1744`).
* A type made of a struct's tag keeps the definition it found (1186-1189), so
  that a tag defined in an inner scope can be read with the members of another.
  The type of enumerators is never checked: comparing it fails an assertion
  (`c_ast_type.cpp:360`). Two structs or unions are compatible whatever their
  tags, as the id is compared with itself (167, 264).
* An operator above an operand with an error has no type, and the list around it
  asserts that it has (`c_ast.h:118`). A conditional with two numbers reads a
  null pointer (1113-1115). `ASSIGNMENT_BITWISE_XOR` is missing from the list of
  assignments and `BITWISE_XOR` in it (826). `a++` and `a += 1` pass for arrays;
  `0 == p` is refused and `p == 0` accepted; a difference of pointers has the
  type of a pointer; variables of enum type are no lvalues and cannot be
  initialized; a float initializes a struct.
* A const is lost in four places, and what was declared const can then be written
  to without a cast. A conditional beside a pointer to const void has the type of
  its other branch (1134-1141). The elements of an array that is a member of a
  const struct are not const, since only the array is made so (258-263, 318-323).
  The difference of pointers has the composite type of what they point to, and of
  a const integer and a const enum that is an integer without qualifiers
  (`c_ast_type.cpp:579-585`). And `^=` is no assignment to the checks (826).
* An array designator is pushed to a copy of the accesser
  (`c_initializer.cpp:246`): `.b[1] = 1` initializes `b[0]`, and a lone `[1] =`
  reads the last entry of an empty list. With a storage class the size of an
  array is given to a copy of its type (582).

The modules of expressions and initializers were compared with the compiled
checks on some 18,300 expressions and 17,297 initializers, with no difference.

`decisions` claims only `ViablePrefix`: when a recovery leaves tokens in
`m_prevSave`, or a caller goes on after an exception without a reset, the code
does lose and reorder tokens (the catch block saves the parameter of `feed`, not
the token that was rejected, and `end` lets saved tokens go).

## 4. What is proved

`DCParserRun_proofs` proves, for every grammar that satisfies
`GrammarAssumption`, every table that satisfies `TableSound`, every set of
tokens and every kind of callback answer of `CallerAssumption`, debug and
Release, any number of tokens, under the hypothesis `~GoesOn` (the caller resets
after an exception or an accepted input):

| theorem | statement |
| --- | --- |
| `Invariant` | `Spec => []IInv` |
| `TypeCorrect` | `Spec => []TypeOK` |
| `ViablePrefixHolds` | `Spec => []ViablePrefix` |
| `OwnAssertions` | `Spec => []OwnAssertionsHold` |
| `SavedTokens` | `Spec => []SavedOK` |
| `DecisionArgsHold` | `Spec => []DecisionArgs` |

`ViablePrefix` is not inductive by itself: a lookahead is resolved with a table
chosen earlier, so one must know that the table still fits the top state
(`PendingOK`), that no step in between cut the stacks while a char was waiting
(`RecoverOK`), and that `end` meets nothing but its own eos while a char waits
(`SavedOK`). `IInv` is the conjunction; the runs `waiting` and `decisions` check
parts of it with TLC.
The proof goes through lemmas about viable prefixes alone (extending by a state,
cutting, what an item on top says of the chars below) and then one lemma per
action; `OwnAssertionsHold` follows because the assertions of `do_reduce` are
what `ViablePrefix` and the soundness of the entry give.

The second half of `DCParserRun_proofs` follows the tokens. The theorems are about the same grammars, tables, callbacks and builds, under more
hypotheses:

| theorem | statement |
| --- | --- |
| `TokenInvariant` | `Spec => []TokenInv` |
| `TokensOnce` | `Spec => []EveryTokenOnce` |
| `NoTokenFromBefore` | `Spec => []NoStaleToken` |
| `WholeInputAccepted` | `Spec => []AcceptedIsWhole` |
| `Refinement` | `Spec => IsShiftReduce` |

* `~GoesOn`: the caller resets after an exception or an accepted input.
* `~KeepsTokens`: the answer of the recovery does not leave tokens in the queue
  that it was given. If it does, and a kept token is rejected in its turn, the
  catch block saves the parameter of `feed` and not the rejected token
  (`parser.cpp:1399`), and tokens are lost and doubled: the statements are false
  then.
* `Keeping \cap ResetAfter = {}`: the caller does not reset where tokens may be
  saved. `reset` leaves `m_prevSave` and `m_need_recover` as they are; this is
  the disagreement the run `stale` shows. Without a recovery function the
  outcome in question is a rejection, with one that may ask for more tokens it
  is any call that returned; with one that always answers there is none, and the
  hypothesis says nothing.
* `GotoDefined`: in every state in which a rule begins, the entry of the rule's
  left side is not a rejection, whatever the decisions eliminate. A rejected
  nonterminal would be lost and the token below it saved a second time. It is a
  property of the table and the decisions; TLC evaluates it as an assumption of
  `MCParserRun` for the tables of the runs.

The run `recovery` satisfies all of them, with resets at any point; `waiting`
satisfies them without resets. `EveryTokenOnce` says that the stacks, the
waiting char, the saved tokens and the call's own token together are the tokens
of this parse in their order, but not where they are allowed to be, and an
action moves a token from one place to another. `TokenInv` adds for each control
point which local holds which token (`LocalsOK`), where the queue may be filled
and with what (`QueueOK`), that a nonterminal on its way has a state below that
takes it (`GotoOK`), and that an accepted parser is empty (`AcceptOK`). The
proof lays the places out as one line from the bottom of the stack to the end of
the queue, has lemmas about lines (taking a token off, joining chars into one,
moving the border between two places), and one lemma per action.

For the refinement, `FeedCall` is `Give`; `FeedToken`, the call of
`feed_internal` with a token, is `Shift`; `DoReduce` is `Reduce`, or `GiveUp` when
the callback throws; a rejection that the catch block of `feed` deals with is
`HandBack`; tokens dropped by a pre-action, the answers of the recovery and
exceptions are `GiveUp`; `EndCheck` is `Accept`, `ResetCall` is `Renew`, and every
other step leaves the abstract parser alone. `IInv` and `TokenInv` are used before
and after each step: without them a step might take a token that is not the next
one of the abstract parser.

`CStatements_proofs` proves, for every set of names, functions, labels, case
values, specifiers, parameter lists and budgets of `StatementsAssumption`:

| theorem | statement |
| --- | --- |
| `Invariance` | `Spec => []IInv` |
| `TypeCorrect` | `Spec => []TypeOK` |
| `WalkMirrored` | `Spec => []WalkInv` |
| `ScopesMirrored` | `Spec => []ScopesMirrorWalk` |
| `FunctionStateMirrored` | `Spec => []FunctionStateMirrorsWalk` |
| `DuplicatesCounted` | `Spec => []DuplicatesExact` |
| `IdsAreUnique` | `Spec => []TypeIdsUnique` |
| `TagsAreStable` | `Spec => TagsStable` |

The assumption says that enumerators and parameters are named by identifiers,
that no function returns the null type, that `default` is not a constant, and
that there is a budget. Nothing is assumed of the relations between types.

What a run of the walk has to know to leave a construct is what was there when
it was entered, at every depth: that the scope below the one it drops is that of
the construct around. So the invariant (`Between`) relates whole stacks: the
scopes of the context and the frames of the walk that own one, and the switches
and the frames of switches, in the same order (`Mirrors`: the entry with the
rank of a frame among them is that of the frame), next to the types, the shape of
a walk and the fields set by the open function. A frame on top adds the greatest
rank, and leaving takes it away; there are lemmas for a frame with a scope, with
a switch and with neither, and for one note changed in a frame that is not on top
(a case label below other statements). The declarations of the innermost scope
have one predicate (`Declares`) that every operation of `CUnitContext` is shown
to satisfy and that is transitive; the uniqueness of ids and `TagsStable` are
parts of it. The parameters of a function are declared by a recursive function
over their list: its lemma takes the least number of parameters for which it
fails.

`DCLexer_proofs` proves, for every set of rules that satisfies
`RulesAssumption`, every encoding and every text, any number of resets, and a
caller that resets after an exception or feeds on where `SimpleLexer` does:

| theorem | statement |
| --- | --- |
| `LexerInvariant` | `Spec => []IInv` |
| `TextIsTiled` | `Spec => []CutsTile` |
| `LexerAssertions` | `Spec => []AssertionsHold` |

To know that a token is no longer than the cache it is cut off, one must know
how far the lengths of every rule can have counted at every place of the scan
(`Measured`); to know that nothing has matched when `no rule match` is thrown,
that the limit is the first class that has matched (`LimitKnown`) and that the
classes passed as dead have matched nothing (`PrevsKnown`). `IInv` is the
conjunction with the types and `CutsTile`. The proof
has lemmas about classes, about one rule, about cutting a sequence and about the
choice of a winner (which exists because a set of numbers has a least one), and
then one lemma per action.

The second half of `DCLexer_proofs` goes on from `IInv` to what the tokens are
and where:

| theorem | statement |
| --- | --- |
| `LongestIsTaken` | `Spec => []LongestMatch` for rules whose `spare` is empty |
| `FailureIsJustified` | `Spec => []FailsOnlyWithoutMatch` |
| `CallerHasTokens` | `Spec => []TokensDelivered` |
| `PositionsAreRight` | `Spec => []PositionsRight` |

`LongestMatch` is said of the text alone, by running the automata on it; the code
has only the rules' states. `Words` connects the two. A rule whose class is not
beyond the limit knows the text it has been fed (`Knows`): its longest word so
far is `match_len`, a live one is in the state its automaton reaches, and of a
dead one no later character makes a word (`Stopped`): the determination function
says no, the automaton is in a dead state, or a `first_match` rule has matched.
`LastKnown` says that `m_notnull_last_token` is the kind of the last token shown,
`DeadSoFar` that the classes the loop has passed are dead, `GivenUp` that an
exception leaves no match. The recursive functions of the reference (`Reaches`,
`Shown`) have lemmas of their own, proved by the least number they fail for.

With `Words`, a call that throws has fed every rule all that is left and none has
a match (`FailureIsJustified`). For `LongestIsTaken` one must know more than the
text fed so far, since a token may be taken while the caller still feeds:
`BestForever` says that every token taken is the best option of every text the
present one may become before the next reset, which follows when all rules of the
winning class and of those in front of it are dead. The hypothesis is needed: a
string literal goes on counting behind its closing quote (section 3), and its
token is then longer than its word. It holds of every rule made of a regular
expression, which are all the rules of the calculator and of cparser; only a test
uses the other class (`test/lexer.cpp:57`). For `CallerHasTokens` one must know that a call that throws has lost
nothing a later successful call would be missed by: a character no rule matches
leaves every rule dead and stays in the cache, so that the calls that follow throw
as well (`Stuck`).

`PositionsRight` is not inductive: the table of line starts is right at every place
only if it rises and has one entry for each newline. `Placed` says that: `m_pos`
is the number of bytes entered, and for every place of the text, the one behind
its end included, the entry of the line a reader would count (`LineAt`) holds the
place's byte and is where that line begins (`Lined`). Feeding a character adds one
place and, for a newline, one entry beyond all others. In a rising table at most
one entry holds a given byte, so that the search of `query()` finds it whatever
path it takes (`SearchFinds`), and the pieces `lines()` cuts a range into, from the
entry that holds its first byte to the one that holds its last, are the range
(`PiecesCover`). The lexer's actions other than feeding and resetting do not touch
the table. The widths of the characters are any numbers above zero.

The last part of `DCLexer_proofs` is about what a parser sees of `SimpleLexer`:

| theorem | statement |
| --- | --- |
| `CursorStaysInBuffer` | `SSpec /\ []CallsFit => []CursorInBuffer` |
| `SimpleLexerIsCursor` | `SSpec /\ []CallsFit => IsCursor` |
| `ShortTextsFit` | `MaxText <= Window`: `SSpec => []CallsFit` |

The assumption is that the window is smaller than the modulus of `size_t` (in the
code ten and 2^64). `SInv` is `IInv` of the lexer below with `Filling`, where in
`fill_one` a call may stand and what it knows there, and `Buffered`: the tokens
erased, those in the buffer and those a call is about to put there are, in this
order, all the tokens the lexer has given. Each step is then one of a few shapes
(`AreMoves`): it lengthens the stream, refuses, moves the cursor, or is a stutter.

The hypothesis `CallsFit` says that no call reads more tokens ahead of the cursor
than the window holds. It is part of what is true of the code:
`clean_token_buffer` erases down to the window whatever has been read
(`simple_lexer.hpp:40`), so that a call that is given more tokens at once loses
the first of them and the cursor, computed by a subtraction of unsigned numbers,
wraps. How many tokens one call of the lexer gives depends on the rules: as many
as have waited in its cache for a longer match. `ShortTextsFit` shows a class of
texts for which the hypothesis is a theorem; in the run `cursor` it holds of
every reachable state.

`DCTable_proofs` and `DCTableGen_proofs` are about the tables:

| theorem | statement |
| --- | --- |
| `TablesAreSound` | `IsGrammar`, `IsBuilt` => `IsSound(StartItems)` |
| `GeneratorInvariance` | `Spec => []IInv` |
| `ExpansionIsExact` | `Spec => []ExpansionExact` |
| `TableIsClosed` | `Spec => []TableClosed` |
| `GeneratedIsSound` | `Spec => []GeneratedSound` |
| `AdjacentIsSound` | `Spec => []AdjacentSound` |

`IsBuilt` says what a table is made of: a row for the start items and for every
item set that an entry goes to, each entry what `state_action` makes of what
`stateset_move` gives. The theorem is about one such table, for every grammar.
Its core is that an item of a moved set is either in front of its rule or one
that has been moved over that symbol (`Follows`), that this survives taking away
what a decision eliminates and what a priority drops, and that the real start
symbol is in no right side, so that its items are never brought in behind the
start. `EpsilonClosure` is a recursive function over rounds; that its rounds stop
within the number of nonterminals is not needed, only that it yields items in
front of their rules.

The theorems about `DCTableGen` hold for every finite or infinite set of
definitions that satisfies `DefinitionsAssumption`, any number of calls, any
priorities and start symbols. The assumption: the real start symbol and EOF are
not used by the caller, the right sides are sequences, every definition has a
symbol that is not optional, and decisions are asked within the rule. An
all-optional rule has an empty expansion, for which `stateset_move` reads past
the end of the right side; no grammar of the repository has one.

The invariant has two halves. On the rules (`SymbolsOK`, `RulesOK`, `CallsOK`,
`ExpansionExact`): terminals and nonterminals stay apart although a symbol
becomes a nonterminal only when a rule for it is added, and the rules of one
call are exactly the expansions of its definition, which needs that the
positions kept are counted off without gaps. On the loop: every row is what the
grammar makes of its item set and leads only to sets that have been met
(`RowsOK`), the queue holds each set met and not yet worked on once (`QueueOK`),
each set met was led to by some row (`VisitedOK`), and the numbers are one-to-one
with the sets met, below their count (`NumbersOK`). `TableClosed` alone is not
inductive: that a popped set is not in the queue a second time, and that the
numbers handed out in a round are new, are in neither of its conjuncts. At the
end the queue is empty, rows, sets met and numbers coincide, the assertion that
counts them holds, and the table satisfies `IsBuilt`, so that `TablesAreSound`
applies. With `GeneratedIsSound` the hypotheses `GrammarAssumption` and
`TableSound` of the theorems about the parser hold of whatever generator run the
parser's table comes from.

`AdjacentIsSound` says that stopping the closure after two steps
(`algo.hpp:11`) makes the queries incomplete and never wrong: what two steps
reach the full closure reaches.

`CInitializer_proofs` is about the initializers of objects, for every set of types
and members, every relation in place of the casts and every designators that are
names or indices (`InitializerAssumption`):

| theorem | statement |
| --- | --- |
| `ListsAreRight` | `Spec => []IInv` |
| `SizesAreExact` | `Spec => []SizeIsExact` |

The code counts an array without a size in two places and by two rules: `child()`
notes the index it is asked for when the accesser is read, and `access()` notes
that of a designator; with an accesser that begins below the array nothing is
noted. `SizeIsExact` speaks of the end only. Before it one must know, for the
outermost list: where its accesser begins below the array, the element it is in
has been noted (`OutermostOK`), and all entries of an accesser lie in one element
of the array, so that the first entry tells where the last one puts a value
(`OneWay`; it holds behind `next`, `down` and `access`, and for `access` because a
walk along designators never leaves the element it entered first, `Within`). For
the lists within: each is for what the outermost one stands at, so that whatever
is put in them counts as put there (`InnerOK`). The elements noted are then those
that values were put in, at once in the outermost list, and as soon as it is read
again while one within is open (`Tally`). The recursive functions of the descent
and of `access` are treated as sequences of states, each following from the one
before.

`CExprCheck_proofs` is about the checks of expressions, for every set of leaves,
struct members, cast types and operators, any depth of types and any number of
operands waiting. The assumptions (`TypesAssumption`, `MembersAssumption`,
`LeavesAssumption`, `CastTypesAssumption`) say that these are types, that a leaf's
`consts` are what its declaration says, and that what can be pointed to is not
nested as deep as types may be.

| theorem | statement |
| --- | --- |
| `Typed` | `Spec => []TypeOK` |
| `ConstsStay` | `KeepsConst`: `Spec => []ConstVisible` |
| `ConstsKept` | `KeepsConst`, `NoXorAssignment`: `Spec => []ConstSafe` |
| `OperandsBalanced` | `Spec => []Balanced` |

The hypotheses leave out the four places of section 3 where the code loses a
const: void is not named const, structs have no arrays for members, pointers are
not subtracted where enums are named const, `^=` is not used. Each is needed:
without it the statement is false, and TLC finds an expression of two or three
operands for it when the instance is extended that way.

The proofs do not go by actions over the whole state. A set of operands is
`Closed` when every operator that accepts operands of it gives one of it, and
`Harmless` when no operator that accepts them writes to what is const; one lemma
per action turns the first into: the stack stays a sequence over the set (`Kept`).
What remains is about operators alone, and is done for two sets.
`CheckedOperands` are those with a type, whose type can be pointed to where they
designate an object; `TypeOK`. `ShownOperands` are those of them whose type shows
each const of what they point to (`Below`) and, where they are lvalues, that of
the object itself (`Top`); they are the invariant `AllShown`, of which
`ConstVisible` is a consequence. An lvalue needs both, a value only the first: a
step or an assignment drops the qualifiers of its result, and taking the address
of an lvalue moves the second under the first.

That a pointer may be converted (`PointerCasts`) rests on what compatible types
say of objects: two types are compatible only if they show the same consts at
every level, and their composite shows them too unless enums are const
(`CompositeConsts`, by induction over the depth of the types). That a conversion
of pointers checks only the level pointed to is enough for that reason: below it
the types have to be compatible, or nothing is said behind a void.

`Balanced` asks for one result in both orders, though the composite of two types
is computed from the left: it may differ in qualifiers, in the size of an array,
and between an integer and an enum. `IsComposite` says what all composites of two
types have in common (the kind, and the width and sign of numbers), and `Agree`
what the answers of the two orders have; every arithmetic operator takes answers
that agree to the same type, since it resets the qualifiers and refuses what is
no number.

`DCUtf8_proofs` is about `DecoderSpec`, a decoder that is fed any bytes and a user
that now and then begins anew with the characters it got; there is no bound and no
assumption.

| theorem | statement |
| --- | --- |
| `Decoding` | `DecoderSpec => []DecoderOK` |
| `RoundTrip` | `DecoderSpec => CharactersRoundTrip` |
| `StuckForGood` | `DecoderSpec => [][stuck => stuck' /\ fed' \in {fed, << >>}]_decoder` |
| `EncodedIsDecoded` | for each code point `c`: the decoder waits through the bytes of `Encode(c)` and at the last of them gives `c` |

`DecoderOK` says that the bytes in the buffer are no character. It is needed for
`RoundTrip`: the code only asks for enough bytes (`len >= str.size()`,
`dcutf8.cpp:62`), never whether there are more, and then clears them all, so that
a character with a byte behind it would be given and the byte lost. With the
invariant a new byte that makes a character is its last one (`Complete`): had fewer
been enough, the decoder would have given the character before. The rest is
arithmetic: the bits of a number, six by six, come apart as they were put together
(`Splits1` to `Splits4`, `Joined`), and the bounds on the value leave one number of
bytes for it (`LengthUnique`). `RegExpUTF8` takes only steps of `DecoderNext` on the
decoder's variables, by its actions: `FeedByte` is `TakeByte` with conjuncts of its
own, `Reset` the other disjunct, and all others leave them alone. Its own module is
not one of the prover's, because of the trees of patterns below it.

Of the initializers only model-checked: `FillsInOrder`, whose reference is a
recursive operator over the tree of subobjects.

Of the lexer only model-checked: the liveness properties.

Of the parser only model-checked: `CallReturns` (liveness), and everything about
a particular grammar (`ExprLanguage`, `ExpectedExact`, `PriorityRespected`).
`GotoDefined` is not a theorem: a priority may drop the item that brought a rule
into an item set and keep the rule, and a decision may eliminate every item moved
over its left side. It is evaluated for the tables of the runs and is a
hypothesis of the theorems that name it.

Of the generator only model-checked: `GenerationEnds` (liveness).

Of the regular expressions only model-checked: everything. The modules of
patterns and automata have recursive operators over trees, which are out of the
prover's reach. Recursive functions are not: a fact about one is proved by the
least number it fails for (`LeastNat` and `Induction` in `DCLexer_proofs`,
`CInitializer_proofs` and `CExprCheck_proofs`, `Induction` in
`CStatements_proofs`, `Least` in `DCTable_proofs`), for which the recursion over
types is written as one over their depth.

## 5. Not modelled

* *The C grammar, tokens and front end of cparser.* The grammar is data given to
  the generator: a few hundred rules, whose table has thousands of item sets.
  What the generator does with rules is modelled. Typedef names belong here: the
  parser keeps them in one set, whatever their scope (`c_parser.cpp:209-213`),
  and a decision callback asks it.
* *WebAssembly code generation.* A tree walk that writes code.
* *In the checks of cparser:* strings in initializers and compound literals;
  constant folding; sizes, alignments and bit fields of structs
  (`c_ast_check_constraints.cpp:1345-1497`), whose offsets are plain arithmetic
  over the members; `any_initialized` and `initialize`, which nothing calls.
* *SimpleCalculator* beyond its callbacks, which are among those the caller of
  `DCParserRun` has: its contexts and LLVM code.
* *The printing* of tables, items, messages and positions in messages.
* *googletest* and the scripts, which are not this program. They are three
  quarters of the repository's lines, so that the share of lines the modules
  stand for is small, whatever is modelled of the rest.

## 6. Plan

1. The automata, with the recursion over the tree of a pattern written as one over
   its depth, as it is for types: `LanguageCovered` and `DeadExact` for every tree.
2. The offsets of struct members, and the typedef names with the decision that
   asks for them.
