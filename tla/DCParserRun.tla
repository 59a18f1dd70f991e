------------------------------ MODULE DCParserRun ------------------------------
(****************************************************************************)
(* The pushdown machine of DCParser: feed(), end() and reset() of            *)
(* lib/parser/parser.cpp, one action per step between two control points of  *)
(* the C++ code.  A call runs from FeedCall or EndCall to a state with pc =  *)
(* "idle"; `outcome' is then what the caller saw of it: a normal return      *)
(* ("fed", "accept") or the exception thrown.                                *)
(*                                                                           *)
(* The table is a constant that is sound in the sense of TableSound, as      *)
(* every table that generate_table builds is (TablesAreSound).               *)
(*                                                                           *)
(* A DChar is a record [id, toks, parts]: its charid, the positions in the   *)
(* input of the tokens below it, whose hull is the text range contain()      *)
(* gives it, and the constituents the reduce callbacks made of them, one     *)
(* <<rule, positions>> for every reduction.                                  *)
(****************************************************************************)
EXTENDS DCTable

CONSTANTS
    StartState,    \* m_start_state
    Tokens,        \* ids the caller feeds; one outside Symbols is unknown
    MaxTokens,     \* bound: tokens fed in one behaviour, all parses together
    MaxSaved,      \* bound: tokens m_recFn may leave in m_prevSave
    Droppable,     \* ids m_preAction may drop; {} when there is none
    Recovery,      \* kinds of answers m_recFn gives; {} when there is none
    KeepsTokens,   \* whether m_recFn may leave tokens in m_prevSave
    CallbackFails, \* whether a reduce callback may return nothing or throw
    NDebug,        \* a Release build: assert() is compiled out
    ResetAfter,    \* outcomes after which the caller may reset()
    GoesOn         \* whether it may go on without one after an exception or
                   \* an accepted input

None == [id |-> "", toks |-> {}, parts |-> {}]

\* The grammar, and the table that generate_table made of it.
ASSUME GrammarAssumption == IsGrammar
ASSUME TableSound == IsSound(StartState)

ASSUME CallerAssumption ==
    /\ MaxTokens \in Nat
    /\ MaxSaved \in Nat
    /\ EOF \notin Tokens /\ "" \notin Tokens \cup Symbols \cup {EOF}
    /\ Tokens \cap Nonterms = {}
    /\ Recovery \subseteq {"wait", "fail", "resume"}
    /\ KeepsTokens \in BOOLEAN
    /\ CallbackFails \in BOOLEAN
    /\ NDebug \in BOOLEAN
    /\ GoesOn \in BOOLEAN

------------------------------------------------------------------------------
VARIABLES
    p_state_stack, p_char_stack,
    p_not_finished,    \* the char that waits for a lookahead, and its table
    m_prevSave,        \* tokens saved for the recovery
    m_need_recover,    \* a rejection the recovery has not dealt with yet
    pc,                \* control point of the running call
    ret,               \* where feed_internal returns to
    tok,               \* the parameter of the feed() running
    cur,               \* tt, the token being looked at as a lookahead
    arg,               \* the parameter of the feed_internal() running
    outcome,           \* what the last call returned or threw
    base, fed,         \* history: tokens fed before and since the last reset
    gone               \* history: positions given up with the caller's knowledge

stacks == <<p_state_stack, p_char_stack>>
object == <<p_state_stack, p_char_stack, p_not_finished, m_prevSave,
            m_need_recover>>
locals == <<ret, tok, cur, arg>>
ghosts == <<base, fed, gone>>
vars   == <<object, pc, locals, outcome, ghosts>>

NotFinished(c, t)  == [char |-> c, next |-> t]
NothingPending     == NotFinished(None, << >>)
IsPending          == p_not_finished.char # None

EOS        == [id |-> EOF, toks |-> {}, parts |-> {}]
Top        == p_state_stack[Len(p_state_stack)]

\* The positions of the tokens below the chars of a sequence.
PositionsOf(chars) == UNION {chars[k].toks : k \in DOMAIN chars}

Init ==
    /\ p_state_stack = << >> /\ p_char_stack = << >>
    /\ p_not_finished = NothingPending
    /\ m_prevSave = << >> /\ m_need_recover = FALSE
    /\ pc = "idle" /\ ret = "" /\ outcome = "none"
    /\ tok = None /\ cur = None /\ arg = None
    /\ base = 0 /\ fed = << >> /\ gone = {}

------------------------------------------------------------------------------
(* Ends of a call *)

NoLocals == ret' = "" /\ tok' = None /\ cur' = None /\ arg' = None

Return(o) == pc' = "idle" /\ outcome' = o /\ NoLocals

\* An exception leaves the call: the caller knows that what the call held in
\* its locals is lost, and the positions `lost' with it.
Throw(o, lost) ==
    /\ Return(o)
    /\ gone' = gone \cup arg.toks \cup cur.toks \cup lost
    /\ UNCHANGED <<base, fed>>

\* An assert() of a debug build fails.  Where a Release build would go on into
\* undefined behaviour the model stops as well.
Abort(assertion) == /\ pc' = "aborted" /\ outcome' = assertion
                    /\ UNCHANGED <<object, locals, ghosts>>

------------------------------------------------------------------------------
(* do_shift and do_reduce *)

DoShift(state, c) ==
    /\ p_state_stack' = Append(p_state_stack, state)
    /\ p_char_stack'  = Append(p_char_stack, c)

\* The assertions of do_reduce about the stacks, char_ already pushed.
DoReduceAsserts(r, chars, states) ==
    LET n == Len(Rhs(r)) IN
    /\ n <= Len(chars) /\ n <= Len(states)
    /\ \A k \in 1..n : chars[Len(chars) - n + k].id = Rhs(r)[k]

\* What the right side of rule r leaves of a stack it is taken off.
BelowButOne(r, s) == SubSeq(s, 1, Len(s) - Len(Rhs(r)) + 1)    \* fault
Below(r, s) == SubSeq(s, 1, Len(s) - Len(Rhs(r)))

\* The nonterminal the callback of rule r builds from the chars of its right
\* side.
ReductionOfLast(r, kids) ==                                     \* fault
    [id |-> Lhs(r), toks |-> kids[Len(kids)].toks, parts |-> {}]
Reduction(r, kids) ==
    [id    |-> Lhs(r),
     toks  |-> PositionsOf(kids),
     parts |-> {<<r, PositionsOf(kids)>>} \cup
               UNION {kids[k].parts : k \in DOMAIN kids}]

\* do_reduce, and the feed_internal its callers call with the nonterminal; the
\* start symbol stays on the char stack without a state of its own.
DoReduce(r, c, back, waiting) ==
    LET chars  == Append(p_char_stack, c)
        states == Append(p_state_stack, StartState)
        kids   == SubSeq(chars, Len(chars) - Len(Rhs(r)) + 1, Len(chars))
        below  == Below(r, chars)
    IN  IF ~DoReduceAsserts(r, chars, states) THEN Abort("do_reduce")
        ELSE /\ p_state_stack' = Below(r, states)
             /\ p_not_finished' = waiting
             /\ UNCHANGED <<m_prevSave, m_need_recover>>
             /\ \/ /\ CallbackFails
                   /\ p_char_stack' = below
                   /\ Throw("error", PositionsOf(kids))
                \/ /\ Lhs(r) = RealStart
                   /\ p_char_stack' = Append(below, Reduction(r, kids))
                   /\ pc' = back /\ ret' = "" /\ arg' = None
                   /\ UNCHANGED <<tok, cur, outcome, ghosts>>
                \/ /\ Lhs(r) # RealStart
                   /\ p_char_stack' = below
                   /\ pc' = "feed" /\ ret' = back /\ arg' = Reduction(r, kids)
                   /\ UNCHANGED <<tok, cur, outcome, ghosts>>

------------------------------------------------------------------------------
(* handle_lookahead *)

\* The token after the pending char is looked up in the table of the entry that
\* asked for it.
HandleLookahead(back) ==
    LET table == p_not_finished.next
        entry == table[cur.id]
    IN  /\ IsPending
        /\ \/ /\ cur.id \notin DOMAIN table
              /\ Throw("unknown", {})
              /\ UNCHANGED object
           \/ /\ cur.id \in DOMAIN table /\ entry.type = "REDUCE"
              /\ DoReduce(entry.rule, p_not_finished.char, back, NothingPending)
           \/ /\ cur.id \in DOMAIN table /\ entry.type = "SHIFT"
              /\ DoShift(entry.state, p_not_finished.char)
              /\ p_not_finished' = NothingPending
              /\ pc' = back
              /\ UNCHANGED <<m_prevSave, m_need_recover, locals, outcome, ghosts>>

------------------------------------------------------------------------------
(* feed_internal(arg) *)

EntryOf(c) == Table[Top][c.id]

ShiftStep(e) ==
    /\ e.type = "SHIFT"
    /\ DoShift(e.state, arg)
    /\ pc' = ret /\ ret' = "" /\ arg' = None
    /\ UNCHANGED <<p_not_finished, m_prevSave, m_need_recover, tok, cur,
                   outcome, ghosts>>

ReduceStep(e) ==
    e.type = "REDUCE" /\ DoReduce(e.rule, arg, ret, p_not_finished)

LookaheadStep(e) ==
    /\ e.type = "LOOKAHEAD"
    /\ p_not_finished' = NotFinished(arg, e.next)
    /\ pc' = ret /\ ret' = "" /\ arg' = None
    /\ UNCHANGED <<stacks, m_prevSave, m_need_recover, tok, cur, outcome, ghosts>>

\* ParserRejectTokenError: feed() catches it, end() lets it through.  A token
\* that was rejected is saved again by the catch block, a nonterminal is not.
RejectStep(e) ==
    /\ e.type = "REJECT"
    /\ UNCHANGED object
    /\ IF tok = None
       THEN Throw("reject", {})
       ELSE /\ pc' = "catch" /\ ret' = "" /\ cur' = None
            /\ arg' = IF arg.id \in Nonterms THEN arg ELSE None
            /\ UNCHANGED <<tok, outcome, ghosts>>

\* A decision asks the callbacks of the rules concerned; any of them may
\* eliminate its item.
FeedInternal ==
    /\ pc = "feed"
    /\ IF IsPending /\ ~NDebug
       THEN Abort("feed_internal")
       ELSE \/ /\ arg.id \notin Symbols
               /\ Throw("unknown", {})
               /\ UNCHANGED object
            \/ /\ arg.id \in Symbols
               /\ \E e \in Resolved(EntryOf(arg)) :
                     ShiftStep(e) \/ ReduceStep(e) \/ LookaheadStep(e)
                     \/ RejectStep(e)

------------------------------------------------------------------------------
(* recover_from_reject *)

\* What m_recFn can answer when it is shown the saved tokens: nullopt, to be
\* asked again with the next token ("wait"); a negative first component ("fail");
\* or how many chars to take off the stack ("resume"), never all the states.
\* `take' is the second component, the number of saved tokens to drop.  Without
\* a function the answer is false and nothing is dropped.
Answers(saved) ==
    LET takes == IF KeepsTokens /\ Len(saved) <= MaxSaved THEN 0..Len(saved)
                                                          ELSE {Len(saved)}
        rms   == 0..(Len(p_state_stack) - 1)
        all   == [kind : {"wait"},   take : {0},   rm : {0}] \cup
                 [kind : {"fail"},   take : takes, rm : {0}] \cup
                 [kind : {"resume"}, take : takes, rm : rms]
    IN  IF Recovery = {} THEN {[kind |-> "fail", take |-> 0, rm |-> 0]}
                         ELSE {a \in all : a.kind \in Recovery}

\* The assertions on the answer.
AnswerAsserts(a, saved) ==
    \/ NDebug \/ Recovery = {} \/ a.kind = "wait"
    \/ /\ Len(saved) <= a.take
       /\ a.kind = "resume" => Len(p_char_stack) > a.rm

\* The stacks and the saved tokens are cut as the answer says.
CutKeepsSaved(a, saved) ==                                      \* fault
    /\ m_prevSave' = saved
    /\ p_state_stack' = SubSeq(p_state_stack, 1, Len(p_state_stack) - a.rm)
    /\ p_char_stack' = SubSeq(p_char_stack, 1, Len(p_char_stack) - a.rm)
    /\ UNCHANGED p_not_finished
Cut(a, saved) ==
    /\ m_prevSave' = SubSeq(saved, a.take + 1, Len(saved))
    /\ p_state_stack' = SubSeq(p_state_stack, 1, Len(p_state_stack) - a.rm)
    /\ p_char_stack' = SubSeq(p_char_stack, 1, Len(p_char_stack) - a.rm)
    /\ UNCHANGED p_not_finished

\* The positions an answer gives up.
Dropped(a, saved) ==
    PositionsOf(SubSeq(saved, 1, a.take)) \cup
    PositionsOf(SubSeq(p_char_stack, Len(p_char_stack) - a.rm + 1,
                       Len(p_char_stack)))

Resume(a, saved, next) ==
    /\ a.kind = "resume"
    /\ Cut(a, saved) /\ m_need_recover' = FALSE
    /\ gone' = gone \cup Dropped(a, saved)
    /\ pc' = next /\ arg' = None
    /\ UNCHANGED <<ret, tok, cur, outcome, base, fed>>

GiveUp(a, saved, o) ==
    /\ Cut(a, saved) /\ m_need_recover' = FALSE
    /\ Throw(o, Dropped(a, saved))

\* A saved rejection is shown to m_recFn again with every token fed.  The
\* optional itself is thrown, not the error in it.
RecoverOnFeed ==
    /\ pc = "recover"
    /\ \E a \in Answers(m_prevSave) :
         IF ~AnswerAsserts(a, m_prevSave) THEN Abort("recover_from_reject")
         ELSE \/ Resume(a, m_prevSave, "loop")
              \/ a.kind = "fail" /\ GiveUp(a, m_prevSave, "optional")
              \/ a.kind = "wait" /\ Return("fed") /\ UNCHANGED <<object, ghosts>>

\* The catch block of feed(): the parameter of feed() is saved, whichever token
\* was rejected.
RecoverOnCatch ==
    /\ pc = "catch"
    /\ LET saved == Append(m_prevSave, tok) IN
       \E a \in Answers(saved) :
         IF m_need_recover /\ ~NDebug THEN Abort("catch")
         ELSE IF ~AnswerAsserts(a, saved) THEN Abort("recover_from_reject")
         ELSE \/ Resume(a, saved, "tail")
              \/ a.kind = "fail" /\ GiveUp(a, saved, "reject")
              \/ /\ a.kind = "wait"
                 /\ m_prevSave' = saved /\ m_need_recover' = TRUE
                 /\ Return("fed")
                 /\ UNCHANGED <<stacks, p_not_finished, ghosts>>

\* end() takes nullopt for a failure.
RecoverOnEnd ==
    /\ pc = "end_recover"
    /\ \E a \in Answers(m_prevSave) :
         IF ~AnswerAsserts(a, m_prevSave) THEN Abort("recover_from_reject")
         ELSE \/ Resume(a, m_prevSave, "end_loop")
              \/ a.kind # "resume" /\ GiveUp(a, m_prevSave, "optional")

------------------------------------------------------------------------------
(* feed(token) *)

Fresh == outcome \in {"none", "fed"}

FeedCall ==
    /\ pc = "idle" /\ (Fresh \/ GoesOn)
    /\ base + Len(fed) < MaxTokens
    /\ \E t \in Tokens :
          /\ tok' = [id |-> t, toks |-> {base + Len(fed) + 1}, parts |-> {}]
          /\ fed' = Append(fed, t)
    /\ pc' = "enter" /\ outcome' = "running"
    /\ UNCHANGED <<object, ret, cur, arg, base, gone>>

\* The state stack gets its first state before m_preAction can drop the token.
Enter ==
    /\ pc = "enter"
    /\ p_state_stack' = IF p_state_stack = << >> THEN <<StartState>>
                                                 ELSE p_state_stack
    /\ UNCHANGED <<p_char_stack, p_not_finished, m_need_recover, base, fed>>
    /\ \/ /\ tok.id \in Droppable
          /\ gone' = gone \cup tok.toks
          /\ Return("fed")
          /\ UNCHANGED m_prevSave
       \/ /\ m_prevSave' = Append(m_prevSave, tok)
          /\ pc' = IF m_need_recover THEN "recover" ELSE "loop"
          /\ UNCHANGED <<locals, outcome, gone>>

\* The next saved token becomes tt.
NextSaved ==
    /\ pc = "loop"
    /\ UNCHANGED <<stacks, p_not_finished, m_need_recover, ret, tok, arg,
                   outcome, ghosts>>
    /\ IF m_prevSave = << >>
       THEN pc' = "tail" /\ UNCHANGED <<m_prevSave, cur>>
       ELSE /\ cur' = Head(m_prevSave) /\ m_prevSave' = Tail(m_prevSave)
            /\ pc' = "ahead"

\* As long as a char waits for a lookahead tt is that lookahead.
Ahead == pc = "ahead" /\ HandleLookahead("ahead")

FeedTokenAtOnce ==                                              \* fault
    /\ pc = "ahead"
    /\ arg' = cur /\ cur' = None /\ ret' = "loop" /\ pc' = "feed"
    /\ UNCHANGED <<object, tok, outcome, ghosts>>
FeedToken ==
    /\ pc = "ahead" /\ ~IsPending
    /\ arg' = cur /\ cur' = None /\ ret' = "loop" /\ pc' = "feed"
    /\ UNCHANGED <<object, tok, outcome, ghosts>>

\* feed() calls itself with a token the recovery left.
FeedAgainForever ==                                             \* fault
    /\ pc = "tail"
    /\ IF m_need_recover THEN Return("fed") /\ UNCHANGED <<object, ghosts>>
       ELSE pc' = "loop" /\ UNCHANGED <<object, locals, outcome, ghosts>>
FeedAgain ==
    /\ pc = "tail"
    /\ UNCHANGED <<stacks, p_not_finished, m_need_recover>>
    /\ IF m_need_recover \/ m_prevSave = << >>
       THEN Return("fed") /\ UNCHANGED <<m_prevSave, ghosts>>
       ELSE /\ tok' = Head(m_prevSave) /\ m_prevSave' = Tail(m_prevSave)
            /\ pc' = "enter" /\ ret' = "" /\ cur' = None /\ arg' = None
            /\ UNCHANGED <<outcome, ghosts>>

------------------------------------------------------------------------------
(* end() *)

EndCall ==
    /\ pc = "idle" /\ (Fresh \/ GoesOn)
    /\ UNCHANGED <<stacks, p_not_finished, m_need_recover>>
    /\ IF p_state_stack = << >>
       THEN Throw("nothing", {}) /\ UNCHANGED m_prevSave
       ELSE IF p_char_stack = << >> /\ ~IsPending /\ ~NDebug
       THEN Abort("end")
       ELSE /\ m_prevSave' = Append(m_prevSave, EOS)
            /\ pc' = IF m_need_recover THEN "end_recover" ELSE "end_loop"
            /\ outcome' = "running"
            /\ UNCHANGED <<locals, ghosts>>

EndNextSaved ==
    /\ pc = "end_loop"
    /\ UNCHANGED <<stacks, p_not_finished, m_need_recover, ret, tok, arg,
                   outcome, ghosts>>
    /\ IF m_prevSave = << >>
       THEN pc' = "end_check" /\ cur' = None /\ UNCHANGED m_prevSave
       ELSE /\ cur' = Head(m_prevSave) /\ m_prevSave' = Tail(m_prevSave)
            /\ pc' = "end_ahead"

EndAhead == pc = "end_ahead" /\ HandleLookahead("end_fed")

\* Nothing waits for a lookahead: the token is let go.
EndSkip ==
    /\ pc = "end_ahead" /\ ~IsPending
    /\ pc' = "end_loop" /\ cur' = None
    /\ UNCHANGED <<object, ret, tok, arg, outcome, ghosts>>

\* The eos of this call is the last of m_prevSave and is never fed; any other
\* token is fed each time it has served as a lookahead.
EndFed ==
    /\ pc = "end_fed"
    /\ IF m_prevSave = << >>
       THEN pc' = "end_ahead" /\ UNCHANGED <<ret, arg>>
       ELSE pc' = "feed" /\ arg' = cur /\ ret' = "end_ahead"
    /\ UNCHANGED <<object, tok, cur, outcome, ghosts>>

EndCheckFirst ==                                                \* fault
    /\ pc = "end_check"
    /\ UNCHANGED object
    /\ IF p_char_stack = << >> \/ Len(p_state_stack) > 1
       THEN Throw("syntax", {})
       ELSE IF p_char_stack[1].id # RealStart THEN Abort("realstart")
       ELSE Return("accept") /\ UNCHANGED ghosts
EndCheck ==
    /\ pc = "end_check"
    /\ UNCHANGED object
    /\ IF p_char_stack = << >> /\ ~NDebug THEN Abort("end")
       ELSE IF Len(p_char_stack) # 1 \/ Len(p_state_stack) > 1
       THEN Throw("syntax", {})
       ELSE IF p_char_stack[1].id # RealStart THEN Abort("realstart")
       ELSE Return("accept") /\ UNCHANGED ghosts

------------------------------------------------------------------------------
(* reset() *)

ResetCallKeepsPending ==                                        \* fault
    /\ pc = "idle" /\ outcome \in ResetAfter
    /\ p_char_stack' = << >> /\ p_state_stack' = << >>
    /\ outcome' = "none"
    /\ base' = base + Len(fed) /\ fed' = << >> /\ gone' = {}
    /\ UNCHANGED <<p_not_finished, m_prevSave, m_need_recover, pc, locals>>
ResetCall ==
    /\ pc = "idle" /\ outcome \in ResetAfter
    /\ p_char_stack' = << >> /\ p_state_stack' = << >>
    /\ p_not_finished' = NothingPending
    /\ outcome' = "none"
    /\ base' = base + Len(fed) /\ fed' = << >> /\ gone' = {}
    /\ UNCHANGED <<m_prevSave, m_need_recover, pc, locals>>

------------------------------------------------------------------------------
\* The steps of a running call, one at a time: the parser has one thread.
Step == \/ Enter \/ NextSaved \/ Ahead \/ FeedToken \/ FeedAgain
        \/ FeedInternal \/ RecoverOnFeed \/ RecoverOnCatch \/ RecoverOnEnd
        \/ EndNextSaved \/ EndAhead \/ EndSkip \/ EndFed \/ EndCheck

Next == FeedCall \/ EndCall \/ ResetCall \/ Step

Spec     == Init /\ [][Next]_vars
FairSpec == Spec /\ WF_vars(Step)
------------------------------------------------------------------------------
(* Properties *)

DChar == [id    : Symbols \cup Tokens \cup {EOF},
          toks  : SUBSET Int,
          parts : SUBSET (RuleId \X SUBSET Int)]

CallPoints == {"enter", "recover", "loop", "ahead", "feed", "catch", "tail"}
EndPoints  == {"end_recover", "end_loop", "end_ahead", "end_fed", "end_check"}

\* The object of the parser and the locals of the running call hold states and
\* chars of the grammar.
TypeOK ==
    /\ p_state_stack \in Seq(States)
    /\ p_char_stack \in Seq(DChar)
    /\ p_not_finished.char \in DChar \cup {None}
    /\ m_prevSave \in Seq(DChar)
    /\ m_need_recover \in BOOLEAN
    /\ pc \in {"idle", "aborted"} \cup CallPoints \cup EndPoints
    /\ {tok, cur, arg} \subseteq DChar \cup {None}
    /\ fed \in Seq(Tokens) /\ base \in Nat /\ gone \subseteq Int

\* The start symbols of inputs already parsed lie at the bottom of the char
\* stack: they have no state of their own.
Bottom(ss, cs) == Len(cs) - (Len(ss) - 1)

\* Item <<r, p>> of the state at depth j: the p chars below that state are the
\* first p symbols of rule r, and the states between hold the item on its way.
Spelled(ss, cs, j, r, p) ==
    /\ p < j
    /\ \A k \in 0..p : <<r, p - k>> \in StateItems[ss[j - k]]
    /\ \A k \in 0..(p - 1) : cs[Bottom(ss, cs) + (j - 1) - k].id = Rhs(r)[p - k]

Viable(ss, cs) ==
    /\ ss[1] = StartState
    /\ Bottom(ss, cs) >= 0
    /\ \A k \in 1..Bottom(ss, cs) : cs[k].id = RealStart
    /\ \A j \in 1..Len(ss) : \A i \in StateItems[ss[j]] :
          /\ Spelled(ss, cs, j, i[1], i[2])
          /\ j > 1 /\ i[2] = 0 => Lhs(i[1]) # RealStart

\* The stacks stand for a viable prefix: everything an item of a stacked state
\* claims to have seen is on the char stack below it, in order.  do_reduce and
\* the decision callbacks take their arguments from the char stack on that
\* claim.
ViablePrefix == p_state_stack # << >> => Viable(p_state_stack, p_char_stack)

\* The args a decision callback is given, the chars before the dot of its item,
\* are the chars its rule says they are.
DecisionArgs ==
    pc = "feed" /\ arg.id \in Symbols =>
       LET chars == Append(p_char_stack, arg)
           entry == EntryOf(arg)
       IN  entry.type = "DECISION" =>
             \A i \in entry.evals :
                /\ i[2] <= Len(chars)
                /\ \A k \in 1..i[2] : chars[Len(chars) - i[2] + k].id = Rhs(i[1])[k]

\* The assertions about the parser's own bookkeeping hold: in do_reduce the
\* right side of the rule is on the stacks, feed_internal is not entered while a
\* char waits for a lookahead, a rejection is not caught before the last one is
\* dealt with, and end() finds the start symbol.
OwnAssertionsHold ==
    outcome \notin {"do_reduce", "feed_internal", "catch", "realstart"}

\* The chars the parser holds, from the bottom of the char stack to the saved
\* tokens.
Held == p_char_stack \o <<p_not_finished.char, arg, cur>> \o m_prevSave
        \o (IF pc \in {"enter", "catch"} THEN <<tok>> ELSE << >>)

\* Every token fed since the last reset is held exactly once and in input order,
\* except those the caller, through its callbacks or an exception, knows to be
\* given up: none is lost, duplicated, overtaken, or left from an earlier parse.
\* A program an assertion has stopped holds nothing any more.
EveryTokenOnce == pc # "aborted" =>
    /\ PositionsOf(Held) = ((base + 1)..(base + Len(fed))) \ gone
    /\ \A j, k \in DOMAIN Held :
          j < k => \A p \in Held[j].toks, q \in Held[k].toks : p < q

\* Only tokens fed after the last reset() reach the stacks: a parse does not
\* depend on the parse before it.
NoStaleToken ==
    \A p \in PositionsOf(p_char_stack \o <<p_not_finished.char, arg>>) : p > base

\* What end() returns was built from the whole input: from every token fed since
\* the last reset and not given up, with none left waiting, saved or stacked.
AcceptedIsWhole ==
    pc = "idle" /\ outcome = "accept" =>
       /\ p_char_stack[1].toks = ((base + 1)..(base + Len(fed))) \ gone
       /\ ~IsPending /\ m_prevSave = << >>

\* Every call returns or throws.
CallReturns == pc \notin {"idle", "aborted"} ~> pc \in {"idle", "aborted"}

------------------------------------------------------------------------------
(* The inductive invariant *)

\* The state of the object between two steps, by control point.
ControlOK ==
    /\ p_state_stack = << >> => p_char_stack = << >> /\ ~IsPending
    /\ pc \in (CallPoints \ {"enter"}) \cup EndPoints => p_state_stack # << >>
    /\ pc \in {"ahead", "end_ahead", "end_fed"} => cur # None
    /\ pc \in {"enter", "catch"} => tok # None
    /\ pc = "feed" =>
          /\ arg # None
          /\ ret \in {"loop", "ahead", "end_fed"}
          /\ ret \in {"ahead", "end_fed"} => cur # None
          /\ ret \in {"loop", "ahead"} => tok # None
    /\ pc \in {"recover", "loop", "ahead"} => tok # None

\* A rejection is not dealt with yet only between calls, and then nothing waits
\* for a lookahead.
RecoverOK ==
    /\ pc \in {"loop", "ahead", "feed", "catch", "tail", "end_loop",
               "end_ahead", "end_fed", "end_check"} => ~m_need_recover
    /\ m_need_recover \/ pc \in {"recover", "catch", "end_recover"} => ~IsPending

\* While a char waits for a lookahead no token is saved, so end() meets nothing
\* but its own eos.
SavedOK ==
    /\ IsPending =>
          /\ pc = "idle" /\ Fresh => m_prevSave = << >>
          /\ pc = "enter" => m_prevSave = << >>
          /\ pc = "tail" => m_prevSave = << >>
          /\ pc = "end_loop" => Len(m_prevSave) <= 1
          /\ pc = "end_ahead" => m_prevSave = << >>
          /\ pc # "feed"
    /\ pc = "end_fed" \/ (pc = "feed" /\ ret = "end_fed") => m_prevSave = << >>

\* The table of the char that waits fits the state on top of the stack.
PendingOK ==
    IsPending => LookaheadSound(Top, p_not_finished.char.id,
                                LOOKAHEAD(p_not_finished.next))

\* What the other invariants follow from, for a caller that does not go on after
\* an exception: inductive, where ViablePrefix alone is not.
IInv ==
    /\ TypeOK /\ ControlOK /\ RecoverOK /\ SavedOK /\ PendingOK
    /\ ViablePrefix /\ OwnAssertionsHold

------------------------------------------------------------------------------
(* The inductive invariant of the tokens *)

\* Outcomes after which reset() may find saved tokens, which it leaves: a
\* rejection that nobody recovers from, and a rejection still to be dealt with.
Keeping == {o \in {"reject"} : Recovery = {}} \cup
           {o \in {"fed", "optional"} : "wait" \in Recovery}

\* A state in which a rule begins has an entry for the left side of the rule,
\* which no decision takes away: no nonterminal is ever rejected.
GotoDefined ==
    \A s \in States, r \in RuleId :
       <<r, 0>> \in StateItems[s] /\ Lhs(r) # RealStart =>
          \A e \in Resolved(Table[s][Lhs(r)]) : e.type # "REJECT"

\* A char that is a token as it was fed.
IsLeaf(c) == \E t \in Tokens : \E p \in c.toks :
                c = [id |-> t, toks |-> {p}, parts |-> {}]

\* tt, when the running call has one.
HasCur == pc \in {"ahead", "end_ahead", "end_fed"} \/
          (pc = "feed" /\ ret \in {"ahead", "end_fed"})

\* Which token each local of the running call holds: feed() works on its
\* parameter only, end() on its own eos only.
LocalsOK ==
    /\ pc # "idle" => outcome = "running"
    /\ pc = "idle" => tok = None
    /\ pc \in CallPoints => IF pc = "feed" /\ ret = "end_fed" THEN tok = None
                                                            ELSE IsLeaf(tok)
    /\ pc \in EndPoints => tok = None
    /\ pc # "feed" => arg = None
    /\ cur = IF ~HasCur THEN None ELSE IF tok = None THEN EOS ELSE tok
    /\ pc = "feed" /\ arg.id \notin Nonterms => ret = "loop" /\ arg = tok

\* Where m_prevSave may hold anything, and what.
QueueOK ==
    /\ pc = "idle" =>
          /\ m_prevSave = << >> \/ outcome \in Keeping
          /\ outcome = "fed" => /\ p_state_stack # << >>
                                /\ m_prevSave = << >> \/ m_need_recover
          /\ m_need_recover => outcome = "fed"
    /\ m_need_recover => "wait" \in Recovery
    /\ pc = "enter" => m_prevSave = << >> \/ m_need_recover
    /\ pc = "loop" => m_prevSave \in {<< >>, <<tok>>}
    /\ pc = "end_loop" => m_prevSave \in {<< >>, <<EOS>>}
    /\ pc \in {"ahead", "feed", "catch", "tail", "end_ahead", "end_fed", "end_check"}
          => m_prevSave = << >>
    /\ pc \in {"recover", "end_recover"} => m_need_recover
    /\ pc = "end_check" \/ (pc = "end_loop" /\ m_prevSave = << >>) => ~IsPending

\* The state on top begins the rule a nonterminal fed has been reduced by.
GotoOK ==
    pc = "feed" /\ arg.id \in Nonterms =>
       \E r \in RuleId : /\ <<r, 0>> \in StateItems[Top]
                         /\ Lhs(r) = arg.id /\ Lhs(r) # RealStart

\* What end() has accepted is all the parser holds.
AcceptOK ==
    pc = "idle" /\ outcome = "accept" => Len(p_char_stack) = 1 /\ ~IsPending

\* What EveryTokenOnce follows from, next to IInv.
TokenInv ==
    /\ NoStaleToken
    /\ pc # "aborted" =>
          /\ LocalsOK /\ QueueOK /\ GotoOK /\ AcceptOK
          /\ gone \subseteq (base + 1)..(base + Len(fed))
          /\ EveryTokenOnce

==============================================================================
