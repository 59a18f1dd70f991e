----------------------------- MODULE CUnitContext -----------------------------
(****************************************************************************)
(* CTranslationUnitContext: what cparser keeps of a translation unit while    *)
(* its tree is checked (cparser/lib/c_translation_unit_context.cpp).  The     *)
(* context is a record,                                                       *)
(*    scopes    m_scopes, the file scope first                                *)
(*    fake      m_function_fake_scope: the scope of the parameters waits for  *)
(*              the body, whose own scope it is to be                         *)
(*    ret       m_return_type                                                 *)
(*    defined   m_defined_functions                                           *)
(*    labels    m_idlabels                                                    *)
(*    switches  m_switch_info                                                 *)
(*    nextId    user_defined_type_id, a static variable of the program        *)
(*    reports   the errors of the check under way                             *)
(*    failed    an assertion has failed or a null pointer was read            *)
(* and every operation is an operator from context to context.  A scope maps  *)
(* names to types and tags, pairs of a kind and a name, to the id and the     *)
(* definition of the type.  enter_loop() and leave_loop() are never called,   *)
(* nor is enter_struct_union_definition(): their counters stay 0.             *)
(****************************************************************************)
EXTENDS Integers, Sequences

CONSTANTS
    CompatibleTypes(_, _), \* compatible_with() of two types: "yes", "no" or "fails"
    NoDef,              \* a tag that is declared only
    NoReturn            \* m_return_type outside a function

NoMap == [x \in {} |-> x]
Bind(f, x, v) == [y \in DOMAIN f \cup {x} |-> IF y = x THEN v ELSE f[y]]

EmptyScope == [decls |-> NoMap, tags |-> NoMap]

\* The context a translation unit is checked in.
FreshContext(id) ==
    [scopes  |-> << EmptyScope >>, fake |-> FALSE, ret |-> NoReturn, defined |-> {},
     labels  |-> {}, switches |-> << >>, nextId |-> id, reports |-> << >>, failed |-> FALSE]

Report(c, error) == [c EXCEPT !.reports = Append(@, error)]
Fail(c)          == [c EXCEPT !.failed = TRUE]

Depth(c)    == Len(c.scopes)
TopScope(c) == c.scopes[Depth(c)]

------------------------------------------------------------------------------
(* Lookup: from the innermost scope outwards *)

InnermostOf(S) == CHOOSE i \in S : \A j \in S : j <= i

ScopesDeclaring(c, n) == {i \in 1..Depth(c) : n \in DOMAIN c.scopes[i].decls}
IsDeclared(c, n)      == ScopesDeclaring(c, n) # {}
LookupVariable(c, n)  == c.scopes[InnermostOf(ScopesDeclaring(c, n))].decls[n]

ScopesTagging(c, k) == {i \in 1..Depth(c) : k \in DOMAIN c.scopes[i].tags}
LookupTag(c, k)     == c.scopes[InnermostOf(ScopesTagging(c, k))].tags[k]

------------------------------------------------------------------------------
(* Declarations: always in the innermost scope *)

DeclareVariable(c, n, t) ==
    LET known == n \in DOMAIN TopScope(c).decls IN
    IF known /\ CompatibleTypes(TopScope(c).decls[n], t) = "fails" THEN Fail(c)
    ELSE IF known /\ CompatibleTypes(TopScope(c).decls[n], t) = "no" THEN Report(c, "Redefinition")
    ELSE [c EXCEPT !.scopes[Depth(c)].decls = Bind(@, n, t)]

\* declare_enum, declare_struct, declare_union.
DeclareTagUncounted(c, k) ==                                        \* fault
    IF k \in DOMAIN TopScope(c).tags THEN c
    ELSE [c EXCEPT !.scopes[Depth(c)].tags = Bind(@, k, [id |-> c.nextId, def |-> NoDef])]
DeclareTag(c, k) ==
    IF k \in DOMAIN TopScope(c).tags THEN c
    ELSE [c EXCEPT !.scopes[Depth(c)].tags = Bind(@, k, [id |-> c.nextId, def |-> NoDef]),
                   !.nextId = @ + 1]

\* define_enum without its enumerators, define_struct, define_union.
DefineTagAnew(c, k, def) ==                                         \* fault
    IF k \in DOMAIN TopScope(c).tags /\ TopScope(c).tags[k].def # NoDef
    THEN Report(c, "Redefinition")
    ELSE [c EXCEPT !.scopes[Depth(c)].tags = Bind(@, k, [id |-> c.nextId, def |-> def]),
                   !.nextId = @ + 1]
DefineTag(c, k, def) ==
    LET known == k \in DOMAIN TopScope(c).tags IN
    IF known /\ TopScope(c).tags[k].def # NoDef THEN Report(c, "Redefinition")
    ELSE [c EXCEPT
            !.scopes[Depth(c)].tags =
                Bind(@, k, [id  |-> IF known THEN TopScope(c).tags[k].id ELSE c.nextId,
                            def |-> def]),
            !.nextId = IF known THEN @ ELSE @ + 1]

------------------------------------------------------------------------------
(* Scopes and functions *)

EnterScope(c) ==
    IF c.fake
    THEN [c EXCEPT !.fake = FALSE]
    ELSE [c EXCEPT !.scopes = Append(@, EmptyScope)]

LeaveScope(c) == [c EXCEPT !.scopes = SubSeq(@, 1, Len(@) - 1)]

\* The parameters are declared in order; two of one name must be compatible.
DeclareParameters(c, ps) ==
    LET after[i \in 0..Len(ps)] ==
          IF i = 0 THEN c ELSE DeclareVariable(after[i - 1], ps[i].name, ps[i].type)
    IN  after[Len(ps)]

FunctionBeginUnmerged(c, f, ret, ps) ==                             \* fault
    LET known == IF f \in c.defined THEN Report(c, "Redefinition") ELSE c IN
    DeclareParameters(
        EnterScope([known EXCEPT !.defined = @ \cup {f}, !.ret = ret]), ps)
FunctionBegin(c, f, ret, ps) ==
    LET known == IF f \in c.defined THEN Report(c, "Redefinition") ELSE c
        inner == EnterScope([known EXCEPT !.defined = @ \cup {f}, !.ret = ret])
    IN  [DeclareParameters(inner, ps) EXCEPT !.fake = TRUE]

InFunction(c) == c.ret # NoReturn

FunctionEndKeepsLabels(c) == [c EXCEPT !.ret = NoReturn]            \* fault
FunctionEnd(c) == [c EXCEPT !.ret = NoReturn, !.labels = {}]

------------------------------------------------------------------------------
(* Switches and labels *)

EnterSwitch(c) == [c EXCEPT !.switches = Append(@, [cases |-> {}, default |-> FALSE])]
LeaveSwitch(c) == [c EXCEPT !.switches = SubSeq(@, 1, Len(@) - 1)]
InSwitch(c)    == c.switches # << >>

Breakable(c)    == InSwitch(c)
Continueable(c) == FALSE

AddCaselabelOutermost(c, v) ==                                      \* fault
    IF v \in c.switches[1].cases THEN Report(c, "DuplicateCaseLabel")
    ELSE [c EXCEPT !.switches[1].cases = @ \cup {v}]
AddCaselabel(c, v) ==
    LET n == Len(c.switches) IN
    IF v \in c.switches[n].cases THEN Report(c, "DuplicateCaseLabel")
    ELSE [c EXCEPT !.switches[n].cases = @ \cup {v}]

AddDefaultlabel(c) ==
    LET n == Len(c.switches) IN
    IF c.switches[n].default THEN Report(c, "DuplicateCaseLabel")
    ELSE [c EXCEPT !.switches[n].default = TRUE]

AddIdlabel(c, l)     == [c EXCEPT !.labels = @ \cup {l}]
IsValidIdlabel(c, l) == l \in c.labels
==============================================================================
