------------------------------ MODULE CStatements ------------------------------
(****************************************************************************)
(* check_constraints() of the declarations and statements of cparser          *)
(* (cparser/lib/c_ast_check_constraints.cpp), walking a translation unit.     *)
(*                                                                            *)
(* The tree is not built first: which node is visited next is a choice, so    *)
(* that a behaviour is the walk of one tree.  walk is the stack of the        *)
(* visits that have begun and not ended.  An action is the part of a visit    *)
(* before its sub-statements, a whole visit where there are none, or the      *)
(* part after the last of them.                                               *)
(****************************************************************************)
EXTENDS CUnitContext, FiniteSets

CONSTANTS
    Names,              \* identifiers of variables and enumerators
    Functions,          \* identifiers of functions
    Labels, CaseValues,
    Basics,             \* the types that are no tags
    Void, Bool,         \* two of the types
    Specs,              \* of declarations: [basic], or [tag, def, enumerators]
    ParameterLists,     \* of functions: sequences of [name, type]
    TagType(_, _, _),   \* the type of a tag: its kind, id and definition
    Casts(_, _),        \* implicit_cast_to() of two types: "yes", "no", "fails"
    UnknownId,          \* m_type_id of an enum whose check is never run
    Budgets,            \* bounds on the nodes visited: numbers of each class
    MaxUnits            \* bound on the units

\* What the parser makes of a specifier: the enumerators of an enum are
\* identifiers, and so are the names of parameters.
ParameterTypes == UNION {{ps[i].type : i \in DOMAIN ps} : ps \in ParameterLists}
TagSpecs == {s \in Specs : "tag" \in DOMAIN s}
SpecsAssumption ==
    /\ \A s \in TagSpecs : s.enumerators \subseteq Names
    /\ ParameterLists \subseteq Seq([name : Names, type : ParameterTypes])

\* No function returns the null type, and `default' is not a constant.
ValuesAssumption == NoReturn \notin Basics /\ "default" \notin CaseValues

\* The classes of nodes that a budget bounds.
Classes == {"declaration", "function", "leaf", "branch", "nest"}
BoundsAssumption ==
    /\ Budgets # {} /\ Budgets \subseteq [Classes -> Nat]
    /\ MaxUnits \in Nat \ {0}

ASSUME StatementsAssumption == SpecsAssumption /\ ValuesAssumption /\ BoundsAssumption

VARIABLES ctx, walk, nodes, units
vars == << ctx, walk, nodes, units >>

NoName == "no name"
IsTag(s) == "tag" \in DOMAIN s

------------------------------------------------------------------------------
(* The stack of visits.  left is the number of sub-statements still to be     *)
(* visited; a block has any number of them.  names, labels, visited and       *)
(* refused record what the walk has seen, for the properties.                 *)

Frame(kind, left, arg) ==
    [kind |-> kind, left |-> left, arg |-> arg,
     names |-> {}, labels |-> {}, visited |-> {}, refused |-> 0, count |-> 0]

Top     == Len(walk)
Current == walk[Top]

TakesStatement == walk # << >> /\ (Current.kind = "block" \/ Current.left > 0)
                               /\ Current.kind # "function"
TakesDeclaration == walk # << >> /\ Current.kind \in {"unit", "block"}

\* The visits after one of the sub-statements of the current one is visited.
Consumed == IF Current.kind = "block" THEN walk ELSE [walk EXCEPT ![Top].left = @ - 1]
Returned == SubSeq(walk, 1, Top - 1)

Clear == [ctx EXCEPT !.reports = << >>]

NoNodes == [k \in Classes |-> 0]

Visit(class, c, w) ==
    /\ ~ctx.failed
    /\ nodes' = [nodes EXCEPT ![class] = @ + 1]
    /\ \E b \in Budgets : \A k \in Classes : nodes'[k] <= b[k]
    /\ ctx' = c
    /\ walk' = w
    /\ UNCHANGED units

\* A step that visits no new node: what follows the last sub-statement.
Leave(c, w) ==
    /\ ~ctx.failed
    /\ ctx' = c
    /\ walk' = w
    /\ UNCHANGED << nodes, units >>

------------------------------------------------------------------------------
(* Types, expressions and declarations *)

\* The enumerators are declared with a type of the enum that is never checked.
DefineEnumerators(c, s) ==
    IF c.reports # << >> \/ s.enumerators = {} THEN c
    ELSE DeclareVariable(c, CHOOSE n \in s.enumerators : TRUE,
                         TagType(s.tag[1], UnknownId, s.def))

CheckType(c, s) ==
    IF ~IsTag(s) THEN c
    ELSE IF s.def = NoDef THEN DeclareTag(c, s.tag)
    ELSE DefineEnumerators(DefineTag(c, s.tag, s.def), s)

TypeOf(c, s) ==
    IF ~IsTag(s) THEN s.basic
    ELSE TagType(s.tag[1], LookupTag(c, s.tag).id, LookupTag(c, s.tag).def)

\* An init declarator: the name is declared unless checking the type reported.
CheckDeclarator(c, n, s) ==
    LET typed == CheckType(c, s) IN
    IF typed.failed \/ typed.reports # << >> \/ n = NoName THEN typed
    ELSE DeclareVariable(typed, n, TypeOf(typed, s))

\* The names a declarator has bound in the scope of the frame w[i].
Bound(c, d) == DOMAIN TopScope(d).decls \ DOMAIN TopScope(c).decls
Record(w, new) == [w EXCEPT ![Len(w)].names = @ \cup new]

\* An expression that is the use of a name; what is not found is void.
CheckUse(c, n) == IF n = NoName \/ IsDeclared(c, n) THEN c ELSE Report(c, "VarNotDefined")
TypeOfUse(c, n) == IF IsDeclared(c, n) THEN LookupVariable(c, n) ELSE Void

\* implicit_cast_to() of the type of a use, or an error.
RequireCast(c, from, to) ==
    CASE Casts(from, to) = "yes" -> c
      [] Casts(from, to) = "no"  -> Report(c, "IncompatibleTypes")
      [] OTHER                   -> Fail(c)

\* The type of a condition is looked at only if checking it has reported.
ConditionErrs(c, n) == n # NoName /\ ~IsDeclared(c, n)
AfterCondition(c, errs) == IF errs THEN RequireCast(c, Void, Bool) ELSE c

Declaration(n, s) ==
    /\ TakesDeclaration
    /\ LET c == CheckDeclarator(Clear, n, s) IN Visit("declaration", c, Record(walk, Bound(ctx, c)))

\* A _Static_assert that fails throws CErrorStaticAssert out of the walk.
StaticAssertion ==
    /\ TakesDeclaration
    /\ Visit("declaration", Report(Clear, "StaticAssertFailed"), << >>)

------------------------------------------------------------------------------
(* Functions and the unit *)

FunctionDefinition(f, ret, ps) ==
    /\ walk # << >> /\ Current.kind = "unit"
    /\ LET c == FunctionBegin(Clear, f, ret, ps)
       IN  Visit("function", c, Append(walk, [Frame("function", 1, f) EXCEPT
                                              !.names = {ps[i].name : i \in DOMAIN ps}]))

FunctionBody ==
    /\ walk # << >> /\ Current.kind = "function" /\ Current.left = 1
    /\ Leave(EnterScope(Clear), Append(Consumed, Frame("block", 0, NoName)))

FunctionDone ==
    /\ walk # << >> /\ Current.kind = "function" /\ Current.left = 0
    /\ Leave(FunctionEnd(Clear), Returned)

UnitDone ==
    /\ walk # << >> /\ Current.kind = "unit"
    /\ Leave(Clear, << >>)

\* The next unit has a context of its own; the ids of types go on.
NextUnit ==
    /\ walk = << >> /\ units < MaxUnits /\ ~ctx.failed
    /\ ctx' = FreshContext(ctx.nextId)
    /\ walk' = << Frame("unit", 0, NoName) >>
    /\ units' = units + 1
    /\ UNCHANGED nodes

------------------------------------------------------------------------------
(* Statements without sub-statements *)

Simple(c) == TakesStatement /\ Visit("leaf", c, Consumed)

ExpressionStatement(n) == Simple(CheckUse(Clear, n))

Goto(l) == Simple(IF IsValidIdlabel(ctx, l) THEN Clear ELSE Report(Clear, "UndefinedLabel"))

Break    == Simple(IF Breakable(ctx) THEN Clear ELSE Report(Clear, "BreakOutsideLoop"))
Continue == Simple(IF Continueable(ctx) THEN Clear ELSE Report(Clear, "ContinueOutsideLoop"))

Return(n) ==
    Simple(IF n = NoName
           THEN IF ctx.ret = Void THEN Clear ELSE Report(Clear, "MissingReturnValue")
           ELSE RequireCast(CheckUse(Clear, n), TypeOfUse(ctx, n), ctx.ret))

------------------------------------------------------------------------------
(* Statements with sub-statements: what is done before them *)

Open(class, c, frame) == TakesStatement /\ Visit(class, c, Append(Consumed, frame))

Label(l)   == Open("nest", Clear, Frame("label", 1, l))
Case(v)    == Open("nest", Clear, Frame("case", 1, v))
Default    == Open("nest", Clear, Frame("default", 1, NoName))
Compound   == Open("nest", EnterScope(Clear), Frame("block", 0, NoName))
Switch     == Open("nest", EnterSwitch(Clear), Frame("switch", 1, NoName))

\* The false branch of an if, if there is one, is visited before the true one.
If(n, branches) ==
    Open("branch", CheckUse(Clear, n), Frame("if", branches, ConditionErrs(ctx, n)))

\* while, do and for; the initialisation of a for is an expression.
Loop(n) == Open("branch", CheckUse(Clear, n), Frame("loop", 1, ConditionErrs(ctx, n)))

\* for with a declaration.
ForDeclaration(n, s) ==
    LET inner == EnterScope(Clear)
        c     == CheckDeclarator(inner, n, s)
    IN  Open("declaration", c, [Frame("for", 1, FALSE) EXCEPT !.names = Bound(inner, c)])

------------------------------------------------------------------------------
(* ... and after them *)

\* The frame of the innermost switch, or of the function, in the walk w.
Innermost(w, kind) ==
    CHOOSE i \in DOMAIN w : w[i].kind = kind /\ \A j \in DOMAIN w : w[j].kind = kind => j <= i

Ends(kind) == walk # << >> /\ Current.kind = kind /\ Current.left = 0

LabelDone ==
    /\ Ends("label")
    /\ Leave(AddIdlabel(Clear, Current.arg),
             [Returned EXCEPT ![Innermost(walk, "function")].labels = @ \cup {Current.arg}])

\* The walk has seen a label of the innermost switch; some are reported.
Seen(f, v, refused) ==
    [f EXCEPT !.visited = @ \cup {v}, !.count = @ + 1,
              !.refused = @ + (IF refused THEN 1 ELSE 0)]
SawCase(w, v, refused) == [w EXCEPT ![Innermost(w, "switch")] = Seen(@, v, refused)]

CaseDone ==
    /\ Ends("case")
    /\ IF InSwitch(ctx)
       THEN LET c == AddCaselabel(Clear, Current.arg)
            IN  Leave(c, SawCase(Returned, Current.arg, c.reports # << >>))
       ELSE Leave(Report(Clear, "IncompatibleTypes"), Returned)

DefaultDone ==
    /\ Ends("default")
    /\ IF InSwitch(ctx)
       THEN LET c == AddDefaultlabel(Clear)
            IN  Leave(c, SawCase(Returned, "default", c.reports # << >>))
       ELSE Leave(Report(Clear, "IncompatibleTypes"), Returned)

CompoundDone ==
    /\ walk # << >> /\ Current.kind = "block"
    /\ Leave(LeaveScope(Clear), Returned)

SwitchDone == Ends("switch") /\ Leave(LeaveSwitch(Clear), Returned)

ConditionDone ==
    /\ Ends("if") \/ Ends("loop")
    /\ Leave(AfterCondition(Clear, Current.arg), Returned)

ForDone == Ends("for") /\ Leave(LeaveScope(Clear), Returned)

------------------------------------------------------------------------------
Init ==
    /\ ctx = FreshContext(0)
    /\ walk = << Frame("unit", 0, NoName) >>
    /\ nodes = NoNodes
    /\ units = 1

Next ==
    \/ \E n \in Names \cup {NoName}, s \in Specs : Declaration(n, s)
    \/ StaticAssertion
    \/ \E f \in Functions, r \in Basics, ps \in ParameterLists : FunctionDefinition(f, r, ps)
    \/ FunctionBody \/ FunctionDone \/ UnitDone \/ NextUnit
    \/ \E n \in Names \cup Functions : ExpressionStatement(n)
    \/ \E l \in Labels : Goto(l) \/ Label(l)
    \/ Break \/ Continue
    \/ \E n \in Names \cup {NoName} : Return(n) \/ Loop(n)
    \/ \E n \in Names, b \in 1..2 : If(n, b)
    \/ \E v \in CaseValues : Case(v)
    \/ Default \/ Compound \/ Switch
    \/ \E n \in Names, s \in Specs : ForDeclaration(n, s)
    \/ LabelDone \/ CaseDone \/ DefaultDone \/ CompoundDone
    \/ SwitchDone \/ ConditionDone \/ ForDone

Spec == Init /\ [][Next]_vars

------------------------------------------------------------------------------
(* Properties *)

FrameKinds == {"unit", "function", "block", "label", "case", "default", "switch",
               "if", "loop", "for"}

\* The fields of the context and of the walk have their types.
TypeOK ==
    /\ ctx.fake \in BOOLEAN /\ ctx.failed \in BOOLEAN
    /\ ctx.ret \in Basics \cup {NoReturn}
    /\ ctx.defined \subseteq Functions
    /\ ctx.labels \subseteq Labels
    /\ \A i \in DOMAIN ctx.switches : /\ ctx.switches[i].cases \subseteq CaseValues
                                      /\ ctx.switches[i].default \in BOOLEAN
    /\ \A i \in 1..Depth(ctx) : DOMAIN ctx.scopes[i].decls \subseteq Names
    /\ \A i \in DOMAIN walk : walk[i].kind \in FrameKinds /\ walk[i].left \in 0..2
    /\ (\E b \in Budgets : \A k \in Classes : nodes[k] \in 0..b[k]) /\ units \in 1..MaxUnits

Running == walk # << >> /\ ~ctx.failed
Open_(kind) == {i \in DOMAIN walk : walk[i].kind = kind}

\* The frames that have a scope of their own: the body of a function shares
\* that of its parameters, and takes it away when it ends.
OwnsScope(i) ==
    \/ walk[i].kind \in {"unit", "for"}
    \/ walk[i].kind = "function" /\ (walk[i].left = 1 \/ i < Top)
    \/ walk[i].kind = "block" /\ walk[i - 1].kind # "function"
Owners == {i \in DOMAIN walk : OwnsScope(i)}
NamesIn(i) ==
    walk[i].names \cup (IF walk[i].kind = "function" /\ i < Top THEN walk[i + 1].names ELSE {})

\* The stack of scopes is that of the open constructs of the source: as many
\* scopes as there are, each holding the names declared in its construct and no
\* others, with the parameters of a function in the scope of its body.  The flag
\* that merges those two is up exactly between the two visits, and none of it is
\* left to the declarations that follow.
ScopesMirrorWalk ==
    Running =>
      /\ Depth(ctx) = Cardinality(Owners)
      /\ \A i \in Owners :
            DOMAIN ctx.scopes[Cardinality({j \in Owners : j <= i})].decls = NamesIn(i)
      /\ ctx.fake <=> Current.kind = "function" /\ Current.left = 1

\* What the context keeps of a function and its switches is that of the
\* construct that is open: outside a function nothing is left of the one before,
\* and a label is known in a function iff its statement there has been visited.
FunctionStateMirrorsWalk ==
    Running =>
      /\ Len(ctx.switches) = Cardinality(Open_("switch"))
      /\ InFunction(ctx) <=> Open_("function") # {}
      /\ ctx.labels = UNION {walk[i].labels : i \in Open_("function")}

\* However switches are nested, those case and default labels of a switch are
\* reported as duplicates that repeat a label of the same switch, each once.
DuplicatesExact ==
    Running =>
      \A i \in Open_("switch") :
          walk[i].refused = walk[i].count - Cardinality(walk[i].visited)

Entries == UNION {{<< i, k >> : k \in DOMAIN ctx.scopes[i].tags} : i \in 1..Depth(ctx)}
EntryOf(e) == ctx.scopes[e[1]].tags[e[2]]

\* No two tags that are visible together have one id, whatever the scopes, kinds
\* and units they were declared in: the id is what types are compared by.
TypeIdsUnique ==
    \A a, b \in Entries :
        /\ EntryOf(a).id < ctx.nextId
        /\ EntryOf(a).id = EntryOf(b).id => a = b

\* As long as a scope is open, a tag of it keeps its id, and its definition once
\* it has one: the types that were made from it stay the types of that tag.
TagsStable ==
    [][\A i \in 1..Depth(ctx) :
          (walk # << >> /\ walk' # << >> /\ units' = units /\ i <= Depth(ctx')) =>
            \A k \in DOMAIN ctx.scopes[i].tags :
               (i < Depth(ctx) \/ Depth(ctx') >= Depth(ctx)) =>
                  /\ k \in DOMAIN ctx'.scopes[i].tags
                  /\ ctx'.scopes[i].tags[k].id = ctx.scopes[i].tags[k].id
                  /\ ctx.scopes[i].tags[k].def # NoDef =>
                        ctx'.scopes[i].tags[k].def = ctx.scopes[i].tags[k].def]_vars

------------------------------------------------------------------------------
(* The inductive invariant.  A walk is a unit, a function, the block of its   *)
(* body and statements inside it; frames are told from the outermost.         *)

Shape(w) ==
    /\ Len(w) >= 1 => w[1].kind = "unit" /\ w[1].left = 0
    /\ Len(w) >= 2 => w[2].kind = "function" /\ w[2].left \in 0..1
    /\ Len(w) >= 3 => w[3].kind = "block" /\ w[2].left = 0
    /\ \A i \in 4..Len(w) : w[i].kind \notin {"unit", "function"}
    /\ \A i \in 1..Len(w) :
          /\ w[i].kind = "label" => w[i].arg \in Labels
          /\ w[i].kind = "case" => w[i].arg \in CaseValues

\* Owners and NamesIn of a walk of this shape.
ScopeFrames(w) ==
    {i \in 1..Len(w) : \/ i = 1
                       \/ i = 2 /\ (Len(w) > 2 \/ w[2].left = 1)
                       \/ i >= 4 /\ w[i].kind \in {"for", "block"}}
NamesOf(w, i) == w[i].names \cup (IF i = 2 /\ Len(w) > 2 THEN w[3].names ELSE {})

SwitchFrames(w) == {i \in 1..Len(w) : w[i].kind = "switch"}
LabelsOf(f) == [cases |-> f.visited \ {"default"}, default |-> "default" \in f.visited]

\* q lists what f has for the members of O, in their order.
Rank(O, i) == Cardinality({j \in O : j <= i})
Mirrors(O, f, q) == Len(q) = Cardinality(O) /\ \A i \in O : q[Rank(O, i)] = f[i]

Declared(c) == [i \in 1..Depth(c) |-> DOMAIN c.scopes[i].decls]

\* The scopes and the switches are those of the frames, in their order, and the
\* fields of the context that a function sets are those of the frame of it.
MirroredScopes(c, w) ==
    Mirrors(ScopeFrames(w), [i \in ScopeFrames(w) |-> NamesOf(w, i)], Declared(c))
MirroredSwitches(c, w) ==
    Mirrors(SwitchFrames(w), [i \in SwitchFrames(w) |-> LabelsOf(w[i])], c.switches)
MirroredFunction(c, w) ==
    /\ c.fake <=> Len(w) = 2 /\ w[2].left = 1
    /\ c.ret # NoReturn <=> Len(w) >= 2
    /\ c.labels = IF Len(w) >= 2 THEN w[2].labels ELSE {}
LabelsCounted(w) ==
    \A i \in SwitchFrames(w) :
        IsFiniteSet(w[i].visited) /\ w[i].count = w[i].refused + Cardinality(w[i].visited)

Mirrored(c, w) == /\ MirroredScopes(c, w) /\ MirroredSwitches(c, w)
                  /\ MirroredFunction(c, w) /\ LabelsCounted(w)

WalkInv == Shape(walk) /\ (Running => Mirrored(ctx, walk))

==============================================================================
