-------------------------- MODULE CStatements_proofs ---------------------------
(****************************************************************************)
(* Theorems about CStatements: what the context keeps of a translation unit   *)
(* mirrors the walk of its tree, and the ids of its tags are told apart.      *)
(* First what every operation of the context does, then stacks that mirror    *)
(* other stacks, then the actions.                                            *)
(****************************************************************************)
EXTENDS CStatements, TLAPS, FiniteSetTheorems, SequenceTheorems,
        WellFoundedInduction

------------------------------------------------------------------------------
(* What the variables are made of *)

Tags  == {s.tag : s \in TagSpecs}
Defs  == {NoDef} \cup {s.def : s \in TagSpecs}
Ids   == Nat \cup {UnknownId}
Types == Basics \cup ParameterTypes \cup {s.basic : s \in Specs \ TagSpecs}
           \cup {TagType(k[1], i, d) : k \in Tags, i \in Ids, d \in Defs}

Tables(K, V) == UNION {[D -> V] : D \in SUBSET K}
Scope   == [decls : Tables(Names, Types), tags : Tables(Tags, [id : Nat, def : Defs])]
Labeled == [cases : SUBSET CaseValues, default : BOOLEAN]
Errors  == {"Redefinition", "DuplicateCaseLabel", "VarNotDefined", "IncompatibleTypes",
            "StaticAssertFailed", "UndefinedLabel", "BreakOutsideLoop",
            "ContinueOutsideLoop", "MissingReturnValue"}
Context ==
    [scopes : Seq(Scope), fake : BOOLEAN, ret : Basics \cup {NoReturn},
     defined : SUBSET Functions, labels : SUBSET Labels, switches : Seq(Labeled),
     nextId : Nat, reports : Seq(Errors), failed : BOOLEAN]

\* A table with one more entry is a table, and has what it had elsewhere.
LEMMA BindFacts ==
  ASSUME NEW K, NEW V, NEW t \in Tables(K, V), NEW x \in K, NEW v \in V
  PROVE  /\ Bind(t, x, v) \in Tables(K, V)
         /\ DOMAIN Bind(t, x, v) = DOMAIN t \cup {x}
         /\ Bind(t, x, v)[x] = v
         /\ \A y \in DOMAIN t : y # x => Bind(t, x, v)[y] = t[y]
<1>1. PICK D \in SUBSET K : t \in [D -> V]
  BY Zenon DEF Tables
<1>2. Bind(t, x, v) \in [D \cup {x} -> V]
  BY <1>1 DEF Bind
<1>3. D \cup {x} \in SUBSET K
  OBVIOUS
<1>4. Bind(t, x, v) \in Tables(K, V)
  BY <1>2, <1>3, Zenon DEF Tables
<1>. QED
  BY <1>1, <1>4 DEF Bind

\* The domain of a table is among its keys and its values among the values.
LEMMA TableFacts ==
  ASSUME NEW K, NEW V, NEW t \in Tables(K, V)
  PROVE  /\ DOMAIN t \subseteq K
         /\ \A x \in DOMAIN t : t[x] \in V
  BY DEF Tables

\* The table of nothing.
LEMMA EmptyFacts ==
  /\ EmptyScope \in Scope
  /\ DOMAIN EmptyScope.decls = {} /\ DOMAIN EmptyScope.tags = {}
<1>1. \A K, V : NoMap \in Tables(K, V)
  <2> TAKE K, V
  <2>1. NoMap \in [{} -> V]
    BY DEF NoMap
  <2>. QED
    BY <2>1 DEF Tables
<1>. QED
  BY <1>1 DEF EmptyScope, Scope, NoMap

\* A context and its top scope.
LEMMA ContextFacts ==
  ASSUME NEW c \in Context
  PROVE  /\ c.scopes \in Seq(Scope) /\ Depth(c) \in Nat
         /\ Depth(c) >= 1 => TopScope(c) \in Scope
         /\ \A i \in 1..Depth(c) : /\ c.scopes[i] \in Scope
                                   /\ DOMAIN c.scopes[i].decls \subseteq Names
                                   /\ DOMAIN c.scopes[i].tags \subseteq Tags
                                   /\ \A k \in DOMAIN c.scopes[i].tags :
                                         c.scopes[i].tags[k] \in [id : Nat, def : Defs]
<1>1. c.scopes \in Seq(Scope)
  BY Zenon DEF Context
<1>2. \A i \in 1..Depth(c) : c.scopes[i] \in Scope
  BY <1>1 DEF Depth
<1>3. \A s \in Scope : /\ s.decls \in Tables(Names, Types)
                       /\ s.tags \in Tables(Tags, [id : Nat, def : Defs])
  BY DEF Scope
<1>4. \A s \in Scope : /\ DOMAIN s.decls \subseteq Names /\ DOMAIN s.tags \subseteq Tags
                       /\ \A k \in DOMAIN s.tags : s.tags[k] \in [id : Nat, def : Defs]
  <2> TAKE s \in Scope
  <2>1. DOMAIN s.decls \subseteq Names
    BY <1>3, TableFacts, Zenon
  <2>2. DOMAIN s.tags \subseteq Tags
        /\ \A k \in DOMAIN s.tags : s.tags[k] \in [id : Nat, def : Defs]
    <3> DEFINE V == [id : Nat, def : Defs]
    <3>1. s.tags \in Tables(Tags, V)
      BY <1>3
    <3> HIDE DEF V
    <3>2. DOMAIN s.tags \subseteq Tags /\ \A k \in DOMAIN s.tags : s.tags[k] \in V
      BY <3>1, TableFacts
    <3>. QED
      BY <3>2, Zenon DEF V
  <2>. QED
    BY <2>1, <2>2
<1>5. Depth(c) \in Nat /\ (Depth(c) >= 1 => TopScope(c) \in Scope)
  BY <1>1 DEF Depth, TopScope
<1>. QED
  BY <1>1, <1>2, <1>4, <1>5, Zenon

------------------------------------------------------------------------------
(* Declarations: what the operations that change the innermost scope keep *)

\* A tag keeps its id, and its definition once it has one.
TagsKept(s, t) ==
    \A k \in DOMAIN s.tags :
        /\ k \in DOMAIN t.tags
        /\ t.tags[k].id = s.tags[k].id
        /\ s.tags[k].def # NoDef => t.tags[k].def = s.tags[k].def

\* TypeIdsUnique of a context.
IdsUnique(c) ==
    \A i, j \in 1..Depth(c) :
        \A k \in DOMAIN c.scopes[i].tags, l \in DOMAIN c.scopes[j].tags :
            /\ c.scopes[i].tags[k].id < c.nextId
            /\ c.scopes[i].tags[k].id = c.scopes[j].tags[l].id => i = j /\ k = l

\* The fields that declarations leave alone.
SameFunction(c, d) == /\ d.fake = c.fake /\ d.ret = c.ret /\ d.labels = c.labels
                      /\ d.switches = c.switches

\* d is c after some declarations in its innermost scope.
Declares(c, d) ==
    /\ d \in Context /\ Depth(d) = Depth(c)
    /\ \A i \in 1..Depth(c) : i < Depth(c) => d.scopes[i] = c.scopes[i]
    /\ DOMAIN TopScope(c).decls \subseteq DOMAIN TopScope(d).decls
    /\ TagsKept(TopScope(c), TopScope(d))
    /\ SameFunction(c, d)
    /\ c.failed => d.failed
    /\ IdsUnique(c) => IdsUnique(d)

\* Declaring nothing is a declaration.
LEMMA DeclaresNothing ==
  ASSUME NEW c \in Context PROVE Declares(c, c)
BY ContextFacts DEF Declares, TagsKept, SameFunction

\* Declarations one after the other.
LEMMA DeclaresMore ==
  ASSUME NEW c \in Context, NEW d, NEW e, Depth(c) >= 1, Declares(c, d), Declares(d, e)
  PROVE  Declares(c, e)
<1>1. TagsKept(TopScope(c), TopScope(e))
  BY DEF Declares, TagsKept
<1>2. SameFunction(c, e)
  BY DEF Declares, SameFunction
<1>. QED
  BY <1>1, <1>2 DEF Declares

\* An error or a failure is noted and nothing else changes.
LEMMA ReportFacts ==
  ASSUME NEW c \in Context, NEW error \in Errors
  PROVE  /\ Declares(c, Report(c, error)) /\ Report(c, error).scopes = c.scopes
         /\ Report(c, error).failed = c.failed
         /\ Report(c, error).reports = Append(c.reports, error)
         /\ Report(c, error).nextId = c.nextId
<1>1. /\ Report(c, error) \in Context /\ Report(c, error).scopes = c.scopes
      /\ SameFunction(c, Report(c, error))
      /\ Report(c, error).failed = c.failed /\ Report(c, error).nextId = c.nextId
      /\ Report(c, error).reports = Append(c.reports, error)
  <2>1. Append(c.reports, error) \in Seq(Errors)
    BY DEF Context
  <2>. QED
    BY <2>1 DEF Context, Report, SameFunction
<1>. QED
  BY <1>1 DEF Declares, Depth, TopScope, TagsKept, IdsUnique

\* A translation that stops has declared nothing.
LEMMA FailFacts ==
  ASSUME NEW c \in Context
  PROVE  /\ Declares(c, Fail(c)) /\ Fail(c).scopes = c.scopes /\ Fail(c).failed
<1>1. /\ Fail(c) \in Context /\ Fail(c).scopes = c.scopes
      /\ SameFunction(c, Fail(c)) /\ Fail(c).failed /\ Fail(c).nextId = c.nextId
  BY DEF Context, Fail, SameFunction
<1>. QED
  BY <1>1 DEF Declares, Depth, TopScope, TagsKept, IdsUnique

\* The innermost scope is replaced by another one.
Retop(c, s, id) == [c EXCEPT !.scopes = [@ EXCEPT ![Depth(c)] = s], !.nextId = id]

\* A context whose innermost scope is another one.
LEMMA RetopFacts ==
  ASSUME NEW c \in Context, Depth(c) >= 1, NEW s \in Scope, NEW id \in Nat
  PROVE  /\ Retop(c, s, id) \in Context /\ Depth(Retop(c, s, id)) = Depth(c)
         /\ \A i \in 1..Depth(c) : i < Depth(c) => Retop(c, s, id).scopes[i] = c.scopes[i]
         /\ TopScope(Retop(c, s, id)) = s /\ SameFunction(c, Retop(c, s, id))
         /\ Retop(c, s, id).failed = c.failed /\ Retop(c, s, id).nextId = id
<1> DEFINE q == [c.scopes EXCEPT ![Depth(c)] = s]
<1>1. q \in Seq(Scope) /\ Len(q) = Depth(c) /\ q[Depth(c)] = s
      /\ \A i \in 1..Depth(c) : i < Depth(c) => q[i] = c.scopes[i]
  BY ContextFacts DEF Depth
<1> DEFINE d == Retop(c, s, id)
<1> HIDE DEF q
<1>2. /\ d \in Context /\ d.scopes = q
      /\ SameFunction(c, d) /\ d.failed = c.failed /\ d.nextId = id
  BY <1>1 DEF Context, Retop, SameFunction, q
<1> HIDE DEF d
<1>3. Depth(d) = Depth(c) /\ TopScope(d) = s
  BY <1>1, <1>2 DEF Depth, TopScope
<1>. QED
  BY <1>1, <1>2, <1>3, Zenon DEF d

\* A name is bound in the innermost scope unless the checks fail: the one it had
\* there before goes with it or is reported.
LEMMA DeclareVariableFacts ==
  ASSUME NEW c \in Context, Depth(c) >= 1, NEW n \in Names, NEW t \in Types
  PROVE  /\ Declares(c, DeclareVariable(c, n, t))
         /\ ~DeclareVariable(c, n, t).failed =>
               DOMAIN TopScope(DeclareVariable(c, n, t)).decls
                 = DOMAIN TopScope(c).decls \cup {n}
<1>1. TopScope(c) \in Scope /\ TopScope(c).decls \in Tables(Names, Types)
  BY ContextFacts DEF Scope
<1> DEFINE s == [TopScope(c) EXCEPT !.decls = Bind(@, n, t)]
<1>2. /\ s \in Scope /\ s.tags = TopScope(c).tags
      /\ DOMAIN s.decls = DOMAIN TopScope(c).decls \cup {n}
  <2>1. /\ Bind(TopScope(c).decls, n, t) \in Tables(Names, Types)
        /\ DOMAIN Bind(TopScope(c).decls, n, t) = DOMAIN TopScope(c).decls \cup {n}
    <3> DEFINE old == TopScope(c).decls
    <3>1. old \in Tables(Names, Types)
      BY <1>1
    <3> HIDE DEF old
    <3>2. /\ Bind(old, n, t) \in Tables(Names, Types)
          /\ DOMAIN Bind(old, n, t) = DOMAIN old \cup {n}
      BY <3>1, BindFacts
    <3>. QED
      BY <3>2 DEF old
  <2>. QED
    BY <1>1, <2>1 DEF Scope
<1>3. CASE DeclareVariable(c, n, t) = Fail(c)
  BY <1>3, FailFacts
<1>4. CASE /\ n \in DOMAIN TopScope(c).decls
           /\ DeclareVariable(c, n, t) = Report(c, "Redefinition")
  <2>1. /\ Declares(c, Report(c, "Redefinition"))
        /\ Report(c, "Redefinition").scopes = c.scopes
    <3> DEFINE error == "Redefinition"
    <3>1. error \in Errors
      BY DEF Errors
    <3> HIDE DEF error
    <3>2. Declares(c, Report(c, error)) /\ Report(c, error).scopes = c.scopes
      BY <3>1, ReportFacts
    <3>. QED
      BY <3>2 DEF error
  <2>2. TopScope(Report(c, "Redefinition")) = TopScope(c)
    BY <2>1 DEF TopScope, Depth
  <2>. QED
    BY <1>4, <2>1, <2>2
<1>5. CASE DeclareVariable(c, n, t) = [c EXCEPT !.scopes[Depth(c)].decls = Bind(@, n, t)]
  <2>1. DeclareVariable(c, n, t) = Retop(c, s, c.nextId)
    <3>1. c.nextId = c.nextId /\ Depth(c) \in DOMAIN c.scopes
      BY ContextFacts DEF Depth
    <3>. QED
      BY <1>5, <3>1 DEF Retop, TopScope, Context
  <2> DEFINE d == Retop(c, s, c.nextId)
  <2>2. c.nextId \in Nat
    BY DEF Context
  <2>3. /\ d \in Context /\ Depth(d) = Depth(c)
        /\ \A i \in 1..Depth(c) : i < Depth(c) => d.scopes[i] = c.scopes[i]
        /\ TopScope(d) = s /\ SameFunction(c, d)
        /\ d.failed = c.failed /\ d.nextId = c.nextId
    BY <2>2, <1>2, RetopFacts, Zenon
  <2> HIDE DEF d, s
  <2>4. \A i \in 1..Depth(c) : d.scopes[i].tags = c.scopes[i].tags
    BY <2>3, <1>2, ContextFacts DEF TopScope, Depth
  <2>5. IdsUnique(c) => IdsUnique(d)
    BY <2>3, <2>4 DEF IdsUnique
  <2>6. Declares(c, d)
    BY <2>3, <1>2, <2>5 DEF Declares, TagsKept
  <2>. QED
    BY <2>1, <2>3, <2>6, <1>2 DEF d
<1>. QED
  BY <1>3, <1>4, <1>5 DEF DeclareVariable
\* A tag is new and gets the next id, or gets a definition that it did not have.
LEMMA RetagFacts ==
  ASSUME NEW c \in Context, Depth(c) >= 1, NEW k \in Tags, NEW e \in [id : Nat, def : Defs],
         NEW id \in Nat, c.nextId <= id,
         IF k \in DOMAIN TopScope(c).tags
         THEN e.id = TopScope(c).tags[k].id /\ TopScope(c).tags[k].def = NoDef
         ELSE e.id = c.nextId /\ id = c.nextId + 1,
         NEW s, s = [TopScope(c) EXCEPT !.tags = Bind(@, k, e)],
         NEW d, d = Retop(c, s, id)
  PROVE  /\ Declares(c, d) /\ k \in DOMAIN TopScope(d).tags /\ d.failed = c.failed
<1> DEFINE V == [id : Nat, def : Defs]
           old == TopScope(c).tags
<1>1. TopScope(c) \in Scope /\ old \in Tables(Tags, V) /\ c.nextId \in Nat
  <2>1. TopScope(c) \in Scope /\ c.nextId \in Nat
    BY ContextFacts DEF Context
  <2>. QED
    BY <2>1 DEF Scope
<1>2. e \in V
  OBVIOUS
<1> HIDE DEF V, old
<1>3. /\ Bind(old, k, e) \in Tables(Tags, V)
      /\ DOMAIN Bind(old, k, e) = DOMAIN old \cup {k} /\ Bind(old, k, e)[k] = e
      /\ \A y \in DOMAIN old : y # k => Bind(old, k, e)[y] = old[y]
  BY <1>1, <1>2, BindFacts
<1>4. s \in Scope /\ s.tags = Bind(old, k, e) /\ s.decls = TopScope(c).decls
  BY <1>1, <1>3 DEF Scope, V, old
<1>5. /\ d \in Context /\ Depth(d) = Depth(c)
      /\ \A i \in 1..Depth(c) : i < Depth(c) => d.scopes[i] = c.scopes[i]
      /\ TopScope(d) = s /\ SameFunction(c, d)
      /\ d.failed = c.failed /\ d.nextId = id
  <2> HIDE DEF Retop
  <2>1. /\ Retop(c, s, id) \in Context /\ Depth(Retop(c, s, id)) = Depth(c)
        /\ \A i \in 1..Depth(c) : i < Depth(c) => Retop(c, s, id).scopes[i] = c.scopes[i]
        /\ TopScope(Retop(c, s, id)) = s /\ SameFunction(c, Retop(c, s, id))
        /\ Retop(c, s, id).failed = c.failed /\ Retop(c, s, id).nextId = id
    BY <1>4, RetopFacts
  <2>. QED
    BY <2>1
<1>6. TagsKept(TopScope(c), TopScope(d))
  <2> SUFFICES ASSUME NEW y \in DOMAIN old
               PROVE  /\ y \in DOMAIN s.tags /\ s.tags[y].id = old[y].id
                      /\ old[y].def # NoDef => s.tags[y].def = old[y].def
    BY <1>5 DEF TagsKept, old
  <2>1. CASE y = k
    BY <2>1, <1>3, <1>4 DEF old
  <2>2. CASE y # k
    BY <2>2, <1>3, <1>4
  <2>. QED
    BY <2>1, <2>2
<1>7. ASSUME IdsUnique(c) PROVE IdsUnique(d)
  <2> SUFFICES ASSUME NEW i \in 1..Depth(c), NEW j \in 1..Depth(c),
                      NEW x \in DOMAIN d.scopes[i].tags, NEW y \in DOMAIN d.scopes[j].tags
               PROVE  /\ d.scopes[i].tags[x].id < id
                      /\ d.scopes[i].tags[x].id = d.scopes[j].tags[y].id => i = j /\ x = y
    BY <1>5 DEF IdsUnique
  <2> DEFINE Old(m, z) == z \in DOMAIN c.scopes[m].tags
                            /\ d.scopes[m].tags[z].id = c.scopes[m].tags[z].id
             New(m, z) == m = Depth(c) /\ z = k /\ d.scopes[m].tags[z].id = c.nextId
                            /\ id = c.nextId + 1
  <2>1. \A m \in 1..Depth(c) : \A z \in DOMAIN d.scopes[m].tags : Old(m, z) \/ New(m, z)
    <3> TAKE m \in 1..Depth(c)
    <3> TAKE z \in DOMAIN d.scopes[m].tags
    <3>1. CASE m < Depth(c)
      BY <3>1, <1>5
    <3>2. CASE m = Depth(c)
      <4>1. d.scopes[m].tags = Bind(old, k, e) /\ c.scopes[m].tags = old
        BY <3>2, <1>4, <1>5 DEF TopScope, old
      <4>2. CASE z = k
        BY <4>1, <4>2, <3>2, <1>3 DEF old
      <4>3. CASE z # k
        BY <4>1, <4>3, <1>3
      <4>. QED
        BY <4>2, <4>3
    <3>. QED
      BY <3>1, <3>2, ContextFacts
  <2>2. \A m \in 1..Depth(c) : \A z \in DOMAIN c.scopes[m].tags :
           c.scopes[m].tags[z].id < c.nextId /\ c.scopes[m].tags[z].id \in Nat
    <3>1. \A m \in 1..Depth(c) : \A z \in DOMAIN c.scopes[m].tags :
             c.scopes[m].tags[z] \in V
      BY ContextFacts DEF V
    <3>. QED
      BY <3>1, <1>7 DEF IdsUnique, V
  <2>3. /\ Old(i, x) \/ New(i, x)
        /\ Old(j, y) \/ New(j, y)
    BY <2>1
  <2>4. CASE Old(i, x) /\ Old(j, y)
    BY <2>4, <2>2, <1>1, <1>7 DEF IdsUnique
  <2>5. CASE New(i, x) /\ Old(j, y)
    BY <2>5, <2>2, <1>1
  <2>6. CASE Old(i, x) /\ New(j, y)
    BY <2>6, <2>2, <1>1
  <2>7. CASE New(i, x) /\ New(j, y)
    BY <2>7, <1>1
  <2>. QED
    BY <2>3, <2>4, <2>5, <2>6, <2>7
<1>8. k \in DOMAIN TopScope(d).tags /\ DOMAIN TopScope(c).decls \subseteq DOMAIN TopScope(d).decls
  BY <1>3, <1>4, <1>5
<1>. QED
  BY <1>5, <1>6, <1>7, <1>8 DEF Declares

\* declareStruct() and its like put the tag in the innermost scope.
LEMMA DeclareTagFacts ==
  ASSUME NEW c \in Context, Depth(c) >= 1, NEW k \in Tags
  PROVE  /\ Declares(c, DeclareTag(c, k)) /\ DeclareTag(c, k).failed = c.failed
         /\ k \in DOMAIN TopScope(DeclareTag(c, k)).tags
<1>1. CASE k \in DOMAIN TopScope(c).tags
  BY <1>1, DeclaresNothing DEF DeclareTag
<1>2. CASE k \notin DOMAIN TopScope(c).tags
  <2> DEFINE e == [id |-> c.nextId, def |-> NoDef]
             s == [TopScope(c) EXCEPT !.tags = Bind(@, k, e)]
             id == c.nextId + 1
             d == Retop(c, s, id)
  <2>1. c.nextId \in Nat /\ c.scopes \in Seq(Scope) /\ Depth(c) \in DOMAIN c.scopes
    BY ContextFacts DEF Context, Depth
  <2>2. e \in [id : Nat, def : Defs] /\ e.id = c.nextId
    BY <2>1 DEF Defs
  <2>3. DeclareTag(c, k) = d
    BY <1>2, <2>1 DEF DeclareTag, Retop, TopScope, Context
  <2>5. id \in Nat /\ c.nextId <= id /\ id = c.nextId + 1
    BY <2>1
  <2> HIDE DEF e, s, id
  <2>4. Declares(c, d) /\ k \in DOMAIN TopScope(d).tags /\ d.failed = c.failed
    BY <1>2, <2>1, <2>2, <2>5, RetagFacts DEF s
  <2>. QED
    BY <2>3, <2>4
<1>. QED
  BY <1>1, <1>2

\* defineStruct() and its like put the tag in the innermost scope, or report.
LEMMA DefineTagFacts ==
  ASSUME NEW c \in Context, Depth(c) >= 1, NEW k \in Tags, NEW def \in Defs
  PROVE  /\ Declares(c, DefineTag(c, k, def)) /\ DefineTag(c, k, def).failed = c.failed
         /\ k \in DOMAIN TopScope(DefineTag(c, k, def)).tags
<1> DEFINE known == k \in DOMAIN TopScope(c).tags
<1>1. CASE known /\ TopScope(c).tags[k].def # NoDef
  <2>1. DefineTag(c, k, def) = Report(c, "Redefinition")
    BY <1>1 DEF DefineTag
  <2>2. "Redefinition" \in Errors
    BY DEF Errors
  <2>3. \A error \in Errors : /\ Declares(c, Report(c, error))
                              /\ Report(c, error).scopes = c.scopes
                              /\ Report(c, error).failed = c.failed
    BY ReportFacts
  <2>. QED
    BY <1>1, <2>1, <2>2, <2>3 DEF TopScope, Depth
<1>2. CASE ~(known /\ TopScope(c).tags[k].def # NoDef)
  <2> DEFINE id == IF known THEN c.nextId ELSE c.nextId + 1
             e == [id |-> IF known THEN TopScope(c).tags[k].id ELSE c.nextId, def |-> def]
             s == [TopScope(c) EXCEPT !.tags = Bind(@, k, e)]
             d == Retop(c, s, id)
  <2>1. c.nextId \in Nat /\ c.scopes \in Seq(Scope) /\ Depth(c) \in DOMAIN c.scopes
    BY ContextFacts DEF Context, Depth
  <2>2. known => TopScope(c).tags[k] \in [id : Nat, def : Defs]
    BY <2>1, ContextFacts DEF TopScope, Depth
  <2>3. e \in [id : Nat, def : Defs]
        /\ e.id = IF known THEN TopScope(c).tags[k].id ELSE c.nextId
    BY <2>1, <2>2
  <2>4. DefineTag(c, k, def) = d
    BY <1>2, <2>1 DEF DefineTag, Retop, TopScope, Context
  <2>5. id \in Nat /\ c.nextId <= id /\ (~known => id = c.nextId + 1)
    BY <2>1
  <2> HIDE DEF e, s, id
  <2>6. Declares(c, d) /\ k \in DOMAIN TopScope(d).tags /\ d.failed = c.failed
    BY <1>2, <2>1, <2>3, <2>5, RetagFacts DEF s
  <2>. QED
    BY <2>4, <2>6
<1>. QED
  BY <1>1, <1>2

------------------------------------------------------------------------------
(* Parameters, declared one after the other *)

\* Induction, on the numbers of which something holds.
LEMMA Induction ==
  ASSUME NEW S \in SUBSET Nat, 0 \in S, \A n \in S : n + 1 \in S
  PROVE  S = Nat
<1> DEFINE R == OpToRel(<, Nat)
<1>1. IsWellFoundedOn(R, Nat)
  BY NatLessThanWellFounded
<1>2. \A m, n \in Nat : m < n => <<m, n>> \in R
  BY DEF OpToRel
<1> HIDE DEF R
<1>3. SUFFICES ASSUME Nat \ S # {} PROVE FALSE
  OBVIOUS
<1>4. PICK n \in Nat \ S : \A m \in Nat \ S : <<m, n>> \notin R
  BY <1>1, <1>3, WFMin
<1>5. n \in Nat /\ n # 0 /\ n - 1 \in Nat /\ n - 1 < n
  BY <1>4
<1>6. n - 1 \in S
  BY <1>2, <1>4, <1>5
<1>. QED
  BY <1>4, <1>5, <1>6

\* The contexts after each of the parameters, up to the n-th.
Steps(c, ps, n, after) ==
    after = [i \in 0..n |->
               IF i = 0 THEN c ELSE DeclareVariable(after[i - 1], ps[i].name, ps[i].type)]

\* There are steps through every number of parameters: the least number without
\* them would be one more than a number that has them.
LEMMA StepsExist ==
  ASSUME NEW c, NEW ps, NEW n \in Nat
  PROVE  \E after : Steps(c, ps, n, after)
<1> DEFINE S == {m \in Nat : \E after : Steps(c, ps, m, after)}
<1>1. 0 \in S
  <2>1. Steps(c, ps, 0, [i \in 0..0 |-> c])
    BY DEF Steps
  <2>. QED
    BY <2>1
<1>2. ASSUME NEW m \in S PROVE m + 1 \in S
  <2>1. PICK f : Steps(c, ps, m, f)
    BY <1>2
  <2> DEFINE g == [i \in 0..(m + 1) |->
                     IF i = m + 1 THEN DeclareVariable(f[m], ps[m + 1].name, ps[m + 1].type)
                     ELSE f[i]]
  <2>2. m \in Nat /\ m + 1 \in Nat
    OBVIOUS
  <2>3. ASSUME NEW i \in 0..(m + 1)
        PROVE  g[i] = IF i = 0 THEN c
                      ELSE DeclareVariable(g[i - 1], ps[i].name, ps[i].type)
    <3>1. CASE i = m + 1
      <4>1. i # 0 /\ i - 1 = m /\ m \in 0..(m + 1) /\ m # m + 1
        BY <2>2, <3>1
      <4>2. g[i - 1] = f[m]
        BY <4>1
      <4>. QED
        BY <3>1, <4>1, <4>2
    <3>2. CASE i # m + 1
      <4>1. i \in 0..m /\ (i # 0 => i - 1 \in 0..(m + 1) /\ i - 1 # m + 1)
        BY <2>2, <3>2
      <4>2. g[i] = f[i] /\ (i # 0 => g[i - 1] = f[i - 1])
        BY <4>1, <3>2
      <4>3. f[i] = IF i = 0 THEN c
                   ELSE DeclareVariable(f[i - 1], ps[i].name, ps[i].type)
        BY <4>1, <2>1 DEF Steps
      <4>. QED
        BY <4>2, <4>3
    <3>. QED
      BY <3>1, <3>2
  <2>4. Steps(c, ps, m + 1, g)
    <3>1. g = [i \in 0..(m + 1) |-> g[i]]
      OBVIOUS
    <3> HIDE DEF g
    <3>. QED
      BY <2>3, <3>1 DEF Steps
  <2>. QED
    BY <2>2, <2>4
<1>. QED
  BY <1>1, <1>2, Induction

\* All parameters are declared, in the scope that is open, unless one of them is
\* beyond a check.
LEMMA DeclareParametersFacts ==
  ASSUME NEW c \in Context, Depth(c) >= 1, NEW ps \in ParameterLists
  PROVE  /\ Declares(c, DeclareParameters(c, ps))
         /\ ~DeclareParameters(c, ps).failed =>
               DOMAIN TopScope(DeclareParameters(c, ps)).decls
                 = DOMAIN TopScope(c).decls \cup {ps[i].name : i \in DOMAIN ps}
<1>1. /\ Len(ps) \in Nat /\ DOMAIN ps = 1..Len(ps)
      /\ \A i \in 1..Len(ps) : ps[i].name \in Names /\ ps[i].type \in Types
  <2>1. ps \in Seq([name : Names, type : ParameterTypes])
    BY StatementsAssumption DEF SpecsAssumption
  <2>2. \A i \in 1..Len(ps) : ps[i].name \in Names /\ ps[i].type \in ParameterTypes
    <3> DEFINE P == [name : Names, type : ParameterTypes]
    <3>1. \A p \in P : p.name \in Names /\ p.type \in ParameterTypes
      OBVIOUS
    <3> HIDE DEF P
    <3>2. ps \in Seq(P)
      BY <2>1 DEF P
    <3>. QED
      BY <3>1, <3>2
  <2>3. ParameterTypes \subseteq Types
    BY DEF Types
  <2>4. Len(ps) \in Nat /\ DOMAIN ps = 1..Len(ps)
    BY <2>1
  <2>. QED
    BY <2>2, <2>3, <2>4
<1>2. DeclareParameters(c, ps) = (CHOOSE after : Steps(c, ps, Len(ps), after))[Len(ps)]
  BY Zenon DEF DeclareParameters, Steps
<1>3. PICK after : Steps(c, ps, Len(ps), after) /\ DeclareParameters(c, ps) = after[Len(ps)]
  BY <1>1, <1>2, StepsExist
<1>4. /\ after[0] = c
      /\ \A i \in 1..Len(ps) : after[i] = DeclareVariable(after[i - 1], ps[i].name, ps[i].type)
  <2>1. \A i \in 0..Len(ps) :
           after[i] = IF i = 0 THEN c
                      ELSE DeclareVariable(after[i - 1], ps[i].name, ps[i].type)
    BY <1>3 DEF Steps
  <2>2. 0 \in 0..Len(ps) /\ \A i \in 1..Len(ps) : i \in 0..Len(ps) /\ i # 0
    BY <1>1
  <2>. QED
    BY <2>1, <2>2
<1> DEFINE Firsts(i) == {ps[j].name : j \in 1..i}
           Good(i) == /\ Declares(c, after[i])
                      /\ ~after[i].failed =>
                            DOMAIN TopScope(after[i]).decls
                              = DOMAIN TopScope(c).decls \cup Firsts(i)
           S == {i \in Nat : i <= Len(ps) => Good(i)}
<1>5. 0 \in S
  <2>1. Firsts(0) = {}
    OBVIOUS
  <2>. QED
    BY <1>4, <2>1, DeclaresNothing
<1>6. ASSUME NEW i \in S PROVE i + 1 \in S
  <2> SUFFICES ASSUME i + 1 <= Len(ps) PROVE Good(i + 1)
    OBVIOUS
  <2> DEFINE b == after[i]
             d == after[i + 1]
             n == ps[i + 1].name
  <2>1. i \in Nat /\ Good(i) /\ i + 1 \in 1..Len(ps) /\ (i + 1) - 1 = i
    BY <1>1
  <2>2. d = DeclareVariable(b, n, ps[i + 1].type) /\ n \in Names /\ ps[i + 1].type \in Types
    BY <1>1, <1>4, <2>1
  <2>3. Declares(c, b) /\ b \in Context /\ Depth(b) >= 1
    BY <2>1 DEF Declares
  <2>4. Firsts(i + 1) = Firsts(i) \cup {n}
    BY <2>1
  <2> HIDE DEF b, d, n, Firsts
  <2>5. Declares(b, d) /\ (~d.failed => DOMAIN TopScope(d).decls
                                          = DOMAIN TopScope(b).decls \cup {n})
    BY <2>2, <2>3, DeclareVariableFacts
  <2>6. Declares(c, d)
    BY <2>3, <2>5, DeclaresMore
  <2>7. ~d.failed => ~b.failed
    BY <2>5 DEF Declares
  <2>. QED
    BY <2>1, <2>4, <2>5, <2>6, <2>7 DEF b, d
<1>7. S = Nat
  <2> HIDE DEF S
  <2>1. S \in SUBSET Nat
    BY DEF S
  <2>. QED
    BY <1>5, <1>6, <2>1, Induction
<1>8. Good(Len(ps)) /\ Firsts(Len(ps)) = {ps[i].name : i \in DOMAIN ps}
  BY <1>1, <1>7
<1>. QED
  BY <1>3, <1>8

------------------------------------------------------------------------------
(* Types and declarators *)

\* A set of numbers up to n has a greatest one.
LEMMA Greatest ==
  ASSUME NEW n \in Nat, NEW S \in SUBSET (0..n), S # {}
  PROVE  \E m \in S : \A j \in S : j <= m
<1> DEFINE Has(T) == \E m \in T : \A j \in T : j <= m
           N == {k \in Nat : \A T \in SUBSET (0..k) : T # {} => Has(T)}
<1>1. 0 \in N
  <2> SUFFICES ASSUME NEW T \in SUBSET (0..0), T # {} PROVE Has(T)
    OBVIOUS
  <2>1. \A j \in 0..0 : j = 0 /\ j <= 0
    OBVIOUS
  <2>2. PICK m \in T : TRUE
    OBVIOUS
  <2>. QED
    BY <2>1, <2>2
<1>2. ASSUME NEW k \in N PROVE k + 1 \in N
  <2> SUFFICES ASSUME NEW T \in SUBSET (0..(k + 1)), T # {} PROVE Has(T)
    OBVIOUS
  <2>1. CASE k + 1 \in T
    <3>1. \A j \in T : j <= k + 1
      OBVIOUS
    <3>. QED
      BY <2>1, <3>1
  <2>2. CASE k + 1 \notin T
    <3>1. T \in SUBSET (0..k)
      BY <2>2
    <3>. QED
      BY <3>1
  <2>. QED
    BY <2>1, <2>2
<1>3. N = Nat
  <2>1. N \in SUBSET Nat
    OBVIOUS
  <2> HIDE DEF N
  <2>. QED
    BY <1>1, <1>2, <2>1, Induction
<1>. QED
  BY <1>3

\* InnermostOf is the greatest member.
LEMMA InnermostFacts ==
  ASSUME NEW n \in Nat, NEW S \in SUBSET (1..n), S # {}
  PROVE  InnermostOf(S) \in S /\ \A j \in S : j <= InnermostOf(S)
<1>1. S \in SUBSET (0..n)
  OBVIOUS
<1>2. \E m \in S : \A j \in S : j <= m
  BY <1>1, Greatest
<1>. QED
  BY <1>2 DEF InnermostOf

\* Checking the specifiers of a declaration declares at most their tag, which the
\* innermost scope then has.
LEMMA CheckTypeFacts ==
  ASSUME NEW c \in Context, Depth(c) >= 1, NEW s \in Specs
  PROVE  /\ Declares(c, CheckType(c, s))
         /\ IsTag(s) => s.tag \in DOMAIN TopScope(CheckType(c, s)).tags
<1>1. CASE ~IsTag(s)
  BY <1>1, DeclaresNothing DEF CheckType
<1>2. CASE IsTag(s)
  <2>1. s \in TagSpecs /\ s.tag \in Tags /\ s.def \in Defs /\ s.enumerators \subseteq Names
    BY <1>2, StatementsAssumption DEF SpecsAssumption, TagSpecs, Tags, Defs, IsTag
  <2>2. CASE s.def = NoDef
    BY <1>2, <2>1, <2>2, DeclareTagFacts DEF CheckType
  <2>3. CASE s.def # NoDef
    <3> DEFINE d == DefineTag(c, s.tag, s.def)
    <3>1. Declares(c, d) /\ s.tag \in DOMAIN TopScope(d).tags
      BY <2>1, DefineTagFacts
    <3>2. CheckType(c, s) = DefineEnumerators(d, s)
      BY <1>2, <2>3 DEF CheckType
    <3> HIDE DEF d
    <3>3. CASE DefineEnumerators(d, s) = d
      BY <3>1, <3>2, <3>3
    <3>4. CASE DefineEnumerators(d, s) # d
      <4> DEFINE n == CHOOSE x \in s.enumerators : TRUE
                 ty == TagType(s.tag[1], UnknownId, s.def)
      <4>1. DefineEnumerators(d, s) = DeclareVariable(d, n, ty) /\ n \in Names
        BY <3>4, <2>1 DEF DefineEnumerators
      <4>2. ty \in Types
        BY <2>1 DEF Types, Ids
      <4>3. d \in Context /\ Depth(d) >= 1
        BY <3>1 DEF Declares
      <4> HIDE DEF n, ty
      <4>4. Declares(d, DeclareVariable(d, n, ty))
        BY <4>1, <4>2, <4>3, DeclareVariableFacts
      <4>5. Declares(c, DeclareVariable(d, n, ty))
        BY <3>1, <4>4, DeclaresMore
      <4>. QED
        BY <3>1, <3>2, <4>1, <4>4, <4>5 DEF Declares, TagsKept
    <3>. QED
      BY <3>3, <3>4
  <2>. QED
    BY <2>2, <2>3
<1>. QED
  BY <1>1, <1>2

\* The type of specifiers whose tag has been checked is a type.
LEMMA TypeOfFacts ==
  ASSUME NEW c \in Context, Depth(c) >= 1, NEW s \in Specs,
         IsTag(s) => s.tag \in DOMAIN TopScope(c).tags
  PROVE  TypeOf(c, s) \in Types
<1>1. CASE ~IsTag(s)
  BY <1>1 DEF TypeOf, Types, TagSpecs, IsTag
<1>2. CASE IsTag(s)
  <2> DEFINE S == ScopesTagging(c, s.tag)
             i == InnermostOf(S)
  <2>1. Depth(c) \in Nat /\ S \in SUBSET (1..Depth(c)) /\ Depth(c) \in S
    BY <1>2, ContextFacts DEF ScopesTagging, TopScope
  <2>2. i \in S
    <3> HIDE DEF S
    <3>. QED
      BY <2>1, InnermostFacts
  <2>3. LookupTag(c, s.tag) \in [id : Nat, def : Defs]
    BY <2>2, ContextFacts DEF LookupTag, ScopesTagging
  <2>4. s.tag \in Tags
    BY <1>2 DEF Tags, TagSpecs, IsTag
  <2>. QED
    BY <1>2, <2>3, <2>4 DEF TypeOf, Types, Ids
<1>. QED
  BY <1>1, <1>2

\* A declarator declares in the innermost scope.
LEMMA CheckDeclaratorFacts ==
  ASSUME NEW c \in Context, Depth(c) >= 1, NEW n \in Names \cup {NoName}, NEW s \in Specs
  PROVE  Declares(c, CheckDeclarator(c, n, s))
<1> DEFINE d == CheckType(c, s)
<1>1. Declares(c, d) /\ (IsTag(s) => s.tag \in DOMAIN TopScope(d).tags)
  BY CheckTypeFacts
<1>2. CheckDeclarator(c, n, s) = d
        \/ (n # NoName /\ CheckDeclarator(c, n, s) = DeclareVariable(d, n, TypeOf(d, s)))
  BY DEF CheckDeclarator
<1> HIDE DEF d
<1>3. ASSUME n # NoName PROVE Declares(c, DeclareVariable(d, n, TypeOf(d, s)))
  <2>1. d \in Context /\ Depth(d) >= 1 /\ n \in Names
    BY <1>1, <1>3 DEF Declares
  <2>2. TypeOf(d, s) \in Types
    BY <1>1, <2>1, TypeOfFacts
  <2>3. Declares(d, DeclareVariable(d, n, TypeOf(d, s)))
    BY <2>1, <2>2, DeclareVariableFacts
  <2>. QED
    BY <1>1, <2>3, DeclaresMore
<1>. QED
  BY <1>1, <1>2, <1>3

------------------------------------------------------------------------------
(* Scopes, functions, switches and labels *)

\* The fields a context has in common with another one, and the ids of its tags.
SameRest(c, d) == /\ d.failed = c.failed /\ d.nextId = c.nextId
                  /\ d.ret = c.ret /\ d.labels = c.labels /\ d.switches = c.switches

\* enterScope() pushes an empty scope, or takes over the one of the parameters.
LEMMA EnterScopeFacts ==
  ASSUME NEW c \in Context, NEW d, d = EnterScope(c)
  PROVE  /\ d \in Context /\ d.fake = FALSE /\ SameRest(c, d)
         /\ c.fake => d.scopes = c.scopes
         /\ ~c.fake => /\ Depth(d) = Depth(c) + 1 /\ TopScope(d) = EmptyScope
                       /\ \A i \in 1..Depth(c) : d.scopes[i] = c.scopes[i]
         /\ IdsUnique(c) => IdsUnique(d)
<1>1. CASE c.fake
  <2>1. d \in Context /\ d.fake = FALSE /\ SameRest(c, d) /\ d.scopes = c.scopes
    BY <1>1 DEF EnterScope, Context, SameRest
  <2>. QED
    BY <1>1, <2>1 DEF IdsUnique, SameRest, Depth
<1>2. CASE ~c.fake
  <2> DEFINE q == Append(c.scopes, EmptyScope)
  <2>1. /\ q \in Seq(Scope) /\ Len(q) = Depth(c) + 1 /\ q[Depth(c) + 1] = EmptyScope
        /\ \A i \in 1..Depth(c) : q[i] = c.scopes[i]
    BY ContextFacts, EmptyFacts DEF Depth
  <2> HIDE DEF q
  <2>2. d \in Context /\ d.fake = FALSE /\ SameRest(c, d) /\ d.scopes = q
    BY <1>2, <2>1 DEF EnterScope, Context, SameRest, q
  <2>3. Depth(d) = Depth(c) + 1 /\ TopScope(d) = EmptyScope
    BY <2>1, <2>2 DEF Depth, TopScope
  <2>4. \A i \in 1..Depth(d) : (i \in 1..Depth(c) /\ d.scopes[i] = c.scopes[i])
                                \/ DOMAIN d.scopes[i].tags = {}
    BY <2>1, <2>2, <2>3, ContextFacts, EmptyFacts
  <2>5. IdsUnique(c) => IdsUnique(d)
    BY <2>2, <2>4 DEF IdsUnique, SameRest
  <2>. QED
    BY <1>2, <2>1, <2>2, <2>3, <2>5
<1>. QED
  BY <1>1, <1>2

\* leaveScope() drops the innermost scope and nothing else.
LEMMA LeaveScopeFacts ==
  ASSUME NEW c \in Context, Depth(c) >= 1, NEW d, d = LeaveScope(c)
  PROVE  /\ d \in Context /\ d.fake = c.fake /\ SameRest(c, d)
         /\ Depth(d) = Depth(c) - 1
         /\ \A i \in 1..Depth(d) : d.scopes[i] = c.scopes[i]
         /\ IdsUnique(c) => IdsUnique(d)
<1> DEFINE q == SubSeq(c.scopes, 1, Len(c.scopes) - 1)
<1>1. /\ q \in Seq(Scope) /\ Len(q) = Depth(c) - 1
      /\ \A i \in 1..(Depth(c) - 1) : q[i] = c.scopes[i]
  BY ContextFacts DEF Depth
<1>2. d \in Context /\ d.fake = c.fake /\ SameRest(c, d) /\ d.scopes = q
  BY <1>1 DEF LeaveScope, Context, SameRest
<1> HIDE DEF q
<1>3. Depth(d) = Depth(c) - 1 /\ \A i \in 1..Depth(d) : i \in 1..Depth(c)
  BY <1>1, <1>2, ContextFacts DEF Depth
<1>4. \A i \in 1..Depth(d) : d.scopes[i] = c.scopes[i]
  BY <1>1, <1>2, <1>3
<1>5. IdsUnique(c) => IdsUnique(d)
  BY <1>2, <1>3, <1>4 DEF IdsUnique, SameRest
<1>. QED
  BY <1>2, <1>3, <1>4, <1>5

------------------------------------------------------------------------------
(* Stacks that mirror the members of a set *)

\* The ranks in a set of numbers, and what a greater number adds to them.
LEMMA RankFacts ==
  ASSUME NEW n \in Nat, NEW O \in SUBSET (1..n)
  PROVE  /\ IsFiniteSet(O) /\ Cardinality(O) \in Nat
         /\ \A i \in O : Rank(O, i) \in 1..Cardinality(O)
         /\ \A i \in O : Rank(O \cup {n + 1}, i) = Rank(O, i)
         /\ Rank(O \cup {n + 1}, n + 1) = Cardinality(O) + 1
         /\ Cardinality(O \cup {n + 1}) = Cardinality(O) + 1
<1>1. IsFiniteSet(O) /\ Cardinality(O) \in Nat
  <2>1. IsFiniteSet(1..n)
    BY FS_Interval
  <2>2. IsFiniteSet(O)
    BY <2>1, FS_Subset
  <2>. QED
    BY <2>2, FS_CardinalityType
<1>2. ASSUME NEW i \in O PROVE Rank(O, i) \in 1..Cardinality(O)
  <2> DEFINE B == {j \in O : j <= i}
  <2>1. B \in SUBSET O /\ i \in B
    OBVIOUS
  <2> HIDE DEF B
  <2>2. IsFiniteSet(B) /\ Cardinality(B) <= Cardinality(O)
    BY <1>1, <2>1, FS_Subset
  <2>3. Cardinality(B) \in Nat /\ Cardinality(B) # 0
    BY <2>1, <2>2, FS_CardinalityType, FS_EmptySet
  <2>. QED
    BY <1>1, <2>2, <2>3 DEF Rank, B
<1>3. ASSUME NEW i \in O PROVE Rank(O \cup {n + 1}, i) = Rank(O, i)
  <2>1. {j \in O \cup {n + 1} : j <= i} = {j \in O : j <= i}
    OBVIOUS
  <2>. QED
    BY <2>1 DEF Rank
<1>4. Cardinality(O \cup {n + 1}) = Cardinality(O) + 1
  <2>1. n + 1 \notin O
    OBVIOUS
  <2>. QED
    BY <1>1, <2>1, FS_AddElement
<1>5. Rank(O \cup {n + 1}, n + 1) = Cardinality(O) + 1
  <2>1. {j \in O \cup {n + 1} : j <= n + 1} = O \cup {n + 1}
    <3>1. \A j \in O \cup {n + 1} : j <= n + 1
      OBVIOUS
    <3>. QED
      BY <3>1, Zenon
  <2>. QED
    BY <1>4, <2>1 DEF Rank
<1>. QED
  BY <1>1, <1>2, <1>3, <1>4, <1>5

\* A member above all others and an entry at the end come and go together.
Longer(n, O, f, q, g, r) ==
    /\ n \in Nat /\ O \in SUBSET (1..n)
    /\ Len(q) \in Nat /\ Len(r) = Len(q) + 1
    /\ \A i \in 1..Len(q) : r[i] = q[i]
    /\ \A i \in O : g[i] = f[i]

\* A longer stack mirrors a set with one more frame exactly when it did before and
\* its last entry mirrors that frame.
LEMMA MirrorsMore ==
  ASSUME NEW n, NEW O, NEW f, NEW q, NEW g, NEW r, Longer(n, O, f, q, g, r)
  PROVE  Mirrors(O \cup {n + 1}, g, r) <=> Mirrors(O, f, q) /\ r[Len(r)] = g[n + 1]
<1>0. /\ n \in Nat /\ O \in SUBSET (1..n)
      /\ Len(q) \in Nat /\ Len(r) = Len(q) + 1
      /\ \A i \in 1..Len(q) : r[i] = q[i]
      /\ \A i \in O : g[i] = f[i]
  BY DEF Longer
<1> DEFINE P == O \cup {n + 1}
<1>1. /\ Cardinality(O) \in Nat /\ \A i \in O : Rank(O, i) \in 1..Cardinality(O)
      /\ \A i \in O : Rank(P, i) = Rank(O, i)
      /\ Rank(P, n + 1) = Cardinality(O) + 1 /\ Cardinality(P) = Cardinality(O) + 1
  BY <1>0, RankFacts
<1>2. n + 1 \in P /\ \A i \in P : i \in O \/ i = n + 1
  BY <1>0
<1>3. \A i \in O : i \in P
  BY <1>0
<1> HIDE DEF P
<1>4. Mirrors(P, g, r) <=> Mirrors(O, f, q) /\ r[Len(r)] = g[n + 1]
  <2>1. ASSUME Mirrors(P, g, r) PROVE Mirrors(O, f, q) /\ r[Len(r)] = g[n + 1]
    <3>1. Len(q) = Cardinality(O)
      BY <1>0, <1>1, <2>1 DEF Mirrors
    <3>. QED
      BY <1>0, <1>1, <1>2, <1>3, <2>1, <3>1 DEF Mirrors
  <2>2. ASSUME Mirrors(O, f, q), r[Len(r)] = g[n + 1] PROVE Mirrors(P, g, r)
    BY <1>0, <1>1, <1>2, <2>2 DEF Mirrors
  <2>. QED
    BY <2>1, <2>2
<1>. QED
  BY <1>4 DEF P

\* The entry of the greatest member changes with what it is to be.
Retopped(n, O, f, q, g, r) ==
    /\ n \in Nat /\ O \in SUBSET (1..(n + 1)) /\ n + 1 \in O
    /\ Len(q) \in Nat \ {0} /\ Len(r) = Len(q)
    /\ \A i \in 1..Len(q) : i < Len(q) => r[i] = q[i]
    /\ \A i \in O : i # n + 1 => g[i] = f[i]
    /\ r[Len(r)] = g[n + 1]

\* The last entry and the last frame may change together.
LEMMA MirrorsTop ==
  ASSUME NEW n, NEW O, NEW f, NEW q, NEW g, NEW r,
         Retopped(n, O, f, q, g, r), Mirrors(O, f, q)
  PROVE  Mirrors(O, g, r)
<1> DEFINE P == O \ {n + 1}
           s == [i \in 1..(Len(q) - 1) |-> q[i]]
<1>0. /\ n \in Nat /\ O \in SUBSET (1..(n + 1)) /\ n + 1 \in O
      /\ Len(q) \in Nat \ {0} /\ Len(r) = Len(q)
      /\ \A i \in 1..Len(q) : i < Len(q) => r[i] = q[i]
      /\ \A i \in O : i # n + 1 => g[i] = f[i]
      /\ r[Len(r)] = g[n + 1]
  BY DEF Retopped
<1>1. P \in SUBSET (1..n) /\ O = P \cup {n + 1} /\ \A i \in P : g[i] = f[i]
  <2>1. \A i \in 1..(n + 1) : i = n + 1 \/ i \in 1..n
    BY <1>0
  <2>2. P \in SUBSET (1..n)
    BY <1>0, <2>1
  <2>3. O = P \cup {n + 1}
    BY <1>0, Zenon
  <2>. QED
    BY <1>0, <2>2, <2>3
<1>2. /\ Len(s) \in Nat /\ Len(q) = Len(s) + 1 /\ Len(r) = Len(s) + 1
      /\ \A i \in 1..Len(s) : q[i] = s[i] /\ r[i] = s[i]
  BY <1>0
<1> HIDE DEF P, s
<1>3. Longer(n, P, f, s, f, q) /\ Longer(n, P, f, s, g, r)
  BY <1>0, <1>1, <1>2 DEF Longer
<1>4. Mirrors(P, f, s)
  BY <1>1, <1>3, MirrorsMore
<1>. QED
  BY <1>0, <1>1, <1>3, <1>4, MirrorsMore

------------------------------------------------------------------------------
(* The frames of a walk, and those of the walk with one more *)

Args   == Labels \cup CaseValues \cup BOOLEAN \cup Functions \cup {NoName}
Frames == [kind : FrameKinds, left : 0..2, arg : Args, names : SUBSET Names,
           labels : SUBSET Labels, visited : SUBSET (CaseValues \cup {"default"}),
           refused : Nat, count : Nat]

\* The frames that own a scope or a switch are among the walk's.
LEMMA FramesOf ==
  ASSUME NEW w \in Seq(Frames)
  PROVE  /\ Len(w) \in Nat /\ DOMAIN w = 1..Len(w)
         /\ ScopeFrames(w) \in SUBSET (1..Len(w)) /\ SwitchFrames(w) \in SUBSET (1..Len(w))
BY DEF ScopeFrames, SwitchFrames

OneMore(w, f, v) ==
    /\ v \in Seq(Frames) /\ Len(v) = Len(w) + 1 /\ v[Len(w) + 1] = f
    /\ \A i \in 1..Len(w) : v[i] = w[i]
    /\ f.kind \in {"for", "block"} => ScopeFrames(v) = ScopeFrames(w) \cup {Len(w) + 1}
    /\ f.kind \notin {"for", "block"} => ScopeFrames(v) = ScopeFrames(w)
    /\ f.kind = "switch" => SwitchFrames(v) = SwitchFrames(w) \cup {Len(w) + 1}
    /\ f.kind # "switch" => SwitchFrames(v) = SwitchFrames(w)
    /\ \A i \in 1..Len(w) : NamesOf(v, i) = NamesOf(w, i)
    /\ NamesOf(v, Len(w) + 1) = f.names

\* A frame that is opened is the only one to join them.
LEMMA FramesMore ==
  ASSUME NEW w \in Seq(Frames), NEW f \in Frames, Len(w) >= 3,
         NEW v, v = Append(w, f)
  PROVE  OneMore(w, f, v)
<1>1. /\ v \in Seq(Frames) /\ Len(v) = Len(w) + 1 /\ v[Len(w) + 1] = f
      /\ Len(w) \in Nat /\ \A i \in 1..Len(w) : v[i] = w[i]
  <2> HIDE DEF Frames
  <2>. QED
    OBVIOUS
<1> HIDE DEF Frames
<1>2. \A i \in 1..Len(v) : i \in 1..Len(w) \/ i = Len(w) + 1
  BY <1>1
<1>3. /\ 2 \in 1..Len(w) /\ 3 \in 1..Len(w) /\ Len(w) + 1 >= 4 /\ Len(w) + 1 \in 1..Len(v)
      /\ \A i \in 1..Len(w) : i \in 1..Len(v)
  BY <1>1
<1>4. ScopeFrames(v) = IF f.kind \in {"for", "block"}
                       THEN ScopeFrames(w) \cup {Len(w) + 1} ELSE ScopeFrames(w)
  BY <1>1, <1>2, <1>3 DEF ScopeFrames
<1>5. SwitchFrames(v) = IF f.kind = "switch"
                        THEN SwitchFrames(w) \cup {Len(w) + 1} ELSE SwitchFrames(w)
  BY <1>1, <1>2, <1>3 DEF SwitchFrames
<1>6. /\ \A i \in 1..Len(w) : NamesOf(v, i) = NamesOf(w, i)
      /\ NamesOf(v, Len(w) + 1) = f.names
  BY <1>1, <1>3 DEF NamesOf
<1>. QED
  BY <1>1, <1>4, <1>5, <1>6 DEF OneMore

\* A frame that is no unit and no function can be put on top of a block.
FrameFits(f) == /\ f.kind \notin {"unit", "function"}
                /\ f.kind = "label" => f.arg \in Labels
                /\ f.kind = "case" => f.arg \in CaseValues

\* A frame that fits keeps the shape of the walk.
LEMMA ShapeMore ==
  ASSUME NEW w \in Seq(Frames), NEW f \in Frames, Len(w) >= 3,
         NEW v, v = Append(w, f)
  PROVE  Shape(v) <=> Shape(w) /\ FrameFits(f)
<1>1. /\ Len(v) = Len(w) + 1 /\ v[Len(w) + 1] = f
      /\ Len(w) \in Nat /\ \A i \in 1..Len(w) : v[i] = w[i]
  <2> HIDE DEF Frames
  <2>. QED
    OBVIOUS
<1>2. /\ 1 \in 1..Len(w) /\ 2 \in 1..Len(w) /\ 3 \in 1..Len(w)
      /\ \A i \in 1..Len(v) : i \in 1..Len(w) \/ i = Len(w) + 1
      /\ \A i \in 4..Len(v) : i \in 4..Len(w) \/ i = Len(w) + 1
      /\ \A i \in 4..Len(w) : i \in 1..Len(w) /\ i \in 4..Len(v)
      /\ Len(w) + 1 \in 4..Len(v) /\ Len(w) + 1 \in 1..Len(v)
      /\ \A i \in 1..Len(w) : i \in 1..Len(v)
  BY <1>1
<1>. QED
  BY <1>1, <1>2 DEF Shape, FrameFits

\* What is left of a walk when its last frame has gone.
LEMMA FramesLess ==
  ASSUME NEW w \in Seq(Frames), Len(w) >= 1, NEW v, v = SubSeq(w, 1, Len(w) - 1)
  PROVE  /\ v \in Seq(Frames) /\ Len(v) = Len(w) - 1
         /\ \A i \in 1..Len(v) : v[i] = w[i]
         /\ w[Len(w)] \in Frames /\ w = Append(v, w[Len(w)])
<1> HIDE DEF Frames
<1>1. /\ v \in Seq(Frames) /\ Len(v) = Len(w) - 1 /\ \A i \in 1..Len(v) : v[i] = w[i]
      /\ w[Len(w)] \in Frames /\ Len(w) \in Nat
  <2>1. Len(w) \in Nat /\ Len(w) - 1 \in Nat /\ w[Len(w)] \in Frames
        /\ \A i \in 1..(Len(w) - 1) : i \in 1..Len(w) /\ w[i] \in Frames
    OBVIOUS
  <2>2. v \in Seq(Frames) /\ Len(v) = Len(w) - 1
        /\ \A i \in 1..(Len(w) - 1) : v[i] = w[i]
    <3> DEFINE n == Len(w) - 1
    <3>1. /\ n \in Int /\ n >= 0 /\ n - 1 + 1 = n
          /\ \A i \in 1..n : 1 + i - 1 = i
          /\ ~(1 <= n) => n = 0
      <4>1. n \in Nat
        BY <2>1
      <4> HIDE DEF n
      <4>. QED
        BY <4>1
    <3>4. \A i \in 1..n : w[i] \in Frames
      BY <2>1
    <3>2. v = SubSeq(w, 1, n)
      OBVIOUS
    <3> HIDE DEF n
    <3>3. /\ v \in Seq(Frames)
          /\ Len(v) = IF 1 <= n THEN n - 1 + 1 ELSE 0
          /\ \A i \in 1..(n - 1 + 1) : v[i] = w[1 + i - 1]
      BY <3>1, <3>2, <3>4, SubSeqProperties
    <3>. QED
      BY <3>1, <3>3 DEF n
  <2>. QED
    BY <2>1, <2>2
<1> DEFINE u == Append(v, w[Len(w)])
<1>2. u \in Seq(Frames) /\ Len(u) = Len(w) /\ \A i \in 1..Len(w) : u[i] = w[i]
  BY <1>1
<1> HIDE DEF u
<1>3. w = u
  BY <1>2, SeqEqual
<1>. QED
  BY <1>1, <1>3 DEF u

------------------------------------------------------------------------------
(* The context mirrors the walk: what one more frame comes with *)

\* Checks that declare nothing.
Quiet(c, d) == /\ d \in Context /\ d.scopes = c.scopes /\ SameFunction(c, d)
               /\ d.nextId = c.nextId /\ (c.failed => d.failed)

\* They are declarations of nothing, and leave the scopes alone.
LEMMA QuietFacts ==
  ASSUME NEW c \in Context, NEW d, Quiet(c, d)
  PROVE  /\ Declares(c, d) /\ Depth(d) = Depth(c) /\ TopScope(d) = TopScope(c)
         /\ Declared(d) = Declared(c)
BY DEF Quiet, Declares, SameFunction, TagsKept, IdsUnique, Declared, Depth, TopScope

\* Two walks that differ in what is left to visit, below the function at most.
Alike(w, v) ==
    /\ Len(v) = Len(w)
    /\ \A i \in 1..Len(w) :
          /\ v[i].kind = w[i].kind /\ v[i].arg = w[i].arg /\ v[i].names = w[i].names
          /\ v[i].labels = w[i].labels /\ v[i].visited = w[i].visited
          /\ v[i].refused = w[i].refused /\ v[i].count = w[i].count
          /\ i <= 2 => v[i].left = w[i].left

\* Walks that differ only in what no scope and no switch sees mirror alike.
LEMMA AlikeFacts ==
  ASSUME NEW w \in Seq(Frames), NEW v \in Seq(Frames), Alike(w, v)
  PROVE  /\ Shape(w) => Shape(v)
         /\ ScopeFrames(v) = ScopeFrames(w) /\ SwitchFrames(v) = SwitchFrames(w)
         /\ \A c : Mirrored(c, w) => Mirrored(c, v)
<1> HIDE DEF Frames
<1>1. Len(w) \in Nat /\ Len(v) = Len(w)
  BY DEF Alike
<1>2. /\ Len(w) >= 1 => 1 \in 1..Len(w)
      /\ Len(w) >= 2 => 2 \in 1..Len(w)
      /\ Len(w) >= 3 => 3 \in 1..Len(w)
      /\ \A i \in 4..Len(w) : i \in 1..Len(w)
      /\ Len(w) > 2 => 3 \in 1..Len(w) /\ 2 \in 1..Len(w)
      /\ Len(w) = 2 => 2 \in 1..Len(w)
  BY <1>1
<1>3. Shape(w) => Shape(v)
  BY <1>1, <1>2 DEF Shape, Alike
<1>4. ScopeFrames(v) = ScopeFrames(w)
  BY <1>1, <1>2 DEF ScopeFrames, Alike
<1>5. SwitchFrames(v) = SwitchFrames(w)
  BY <1>1 DEF SwitchFrames, Alike
<1>6. ASSUME NEW c, Mirrored(c, w) PROVE Mirrored(c, v)
  <2>1. \A i \in ScopeFrames(w) : NamesOf(v, i) = NamesOf(w, i)
    BY <1>1, <1>2, FramesOf DEF NamesOf, Alike
  <2>2. \A i \in SwitchFrames(w) : LabelsOf(v[i]) = LabelsOf(w[i])
    BY <1>1, FramesOf DEF LabelsOf, Alike
  <2>3. MirroredScopes(c, v)
    BY <1>4, <1>6, <2>1 DEF Mirrored, MirroredScopes
  <2>4. MirroredSwitches(c, v)
    BY <1>5, <1>6, <2>2 DEF Mirrored, MirroredSwitches
  <2>5. MirroredFunction(c, v)
    BY <1>1, <1>2, <1>6 DEF Mirrored, MirroredFunction, Alike
  <2>6. LabelsCounted(v)
    BY <1>1, <1>5, <1>6, FramesOf DEF Mirrored, LabelsCounted, Alike
  <2>. QED
    BY <2>3, <2>4, <2>5, <2>6 DEF Mirrored
<1>. QED
  BY <1>3, <1>4, <1>5, <1>6

\* Quiet checks leave the context a mirror of the walk.
LEMMA QuietMirrors ==
  ASSUME NEW c \in Context, NEW d, Quiet(c, d), NEW w, Mirrored(c, w)
  PROVE  Mirrored(d, w)
BY QuietFacts DEF Quiet, SameFunction, Mirrored, MirroredScopes, MirroredSwitches,
                  MirroredFunction

\* One more frame, of a statement that is neither a scope nor a switch.
LEMMA PlainMore ==
  ASSUME NEW w \in Seq(Frames), NEW f \in Frames, Len(w) >= 3,
         f.kind \notin {"for", "block", "switch"}, NEW v, v = Append(w, f), NEW c
  PROVE  Mirrored(c, v) <=> Mirrored(c, w)
<1>1. /\ Len(v) = Len(w) + 1 /\ Len(w) \in Nat /\ \A i \in 1..Len(w) : v[i] = w[i]
      /\ ScopeFrames(v) = ScopeFrames(w) /\ SwitchFrames(v) = SwitchFrames(w)
      /\ \A i \in 1..Len(w) : NamesOf(v, i) = NamesOf(w, i)
      /\ \A i \in ScopeFrames(w) \cup SwitchFrames(w) : i \in 1..Len(w)
  <2>1. /\ Len(w) \in Nat /\ ScopeFrames(w) \in SUBSET (1..Len(w))
        /\ SwitchFrames(w) \in SUBSET (1..Len(w))
    BY FramesOf
  <2>2. \A i \in ScopeFrames(w) \cup SwitchFrames(w) : i \in 1..Len(w)
    BY <2>1
  <2>. QED
    <3>1. OneMore(w, f, v)
      BY FramesMore, Zenon
    <3>. QED
      BY <2>1, <2>2, <3>1 DEF OneMore
<1>2. MirroredScopes(c, v) <=> MirroredScopes(c, w)
  <2>1. [i \in ScopeFrames(w) |-> NamesOf(v, i)] = [i \in ScopeFrames(w) |-> NamesOf(w, i)]
    BY <1>1
  <2>. QED
    BY <1>1, <2>1, Zenon DEF MirroredScopes
<1>3. MirroredSwitches(c, v) <=> MirroredSwitches(c, w)
  <2>1. [i \in SwitchFrames(w) |-> LabelsOf(v[i])] = [i \in SwitchFrames(w) |-> LabelsOf(w[i])]
    BY <1>1
  <2>. QED
    BY <1>1, <2>1, Zenon DEF MirroredSwitches
<1>4. MirroredFunction(c, v) <=> MirroredFunction(c, w)
  <2>1. 2 \in 1..Len(w) /\ Len(w) # 2 /\ Len(v) # 2 /\ Len(w) >= 2 /\ Len(v) >= 2
    BY <1>1
  <2>. QED
    BY <1>1, <2>1 DEF MirroredFunction
<1>5. LabelsCounted(v) <=> LabelsCounted(w)
  BY <1>1 DEF LabelsCounted
<1>. QED
  BY <1>2, <1>3, <1>4, <1>5, Zenon DEF Mirrored

\* One more frame with a scope.
OneScope(w, f, c, d) ==
    /\ w \in Seq(Frames) /\ f \in Frames /\ Len(w) >= 3 /\ f.kind \in {"for", "block"}
    /\ c \in Context /\ d \in Context /\ SameFunction(c, d) /\ Depth(d) = Depth(c) + 1
    /\ \A i \in 1..Depth(c) : DOMAIN d.scopes[i].decls = DOMAIN c.scopes[i].decls

\* A frame with a scope, pushed together with the scope.
LEMMA ScopeMore ==
  ASSUME NEW w, NEW f, NEW c, NEW d, OneScope(w, f, c, d), NEW v, v = Append(w, f)
  PROVE  Mirrored(d, v) <=> Mirrored(c, w) /\ DOMAIN TopScope(d).decls = f.names
<1>0. /\ w \in Seq(Frames) /\ f \in Frames /\ Len(w) >= 3 /\ f.kind \in {"for", "block"}
      /\ c \in Context /\ d \in Context /\ SameFunction(c, d) /\ Depth(d) = Depth(c) + 1
      /\ \A i \in 1..Depth(c) : DOMAIN d.scopes[i].decls = DOMAIN c.scopes[i].decls
  BY DEF OneScope
<1>1. /\ Len(v) = Len(w) + 1 /\ Len(w) \in Nat /\ \A i \in 1..Len(w) : v[i] = w[i]
      /\ ScopeFrames(v) = ScopeFrames(w) \cup {Len(w) + 1}
      /\ SwitchFrames(v) = SwitchFrames(w)
      /\ \A i \in 1..Len(w) : NamesOf(v, i) = NamesOf(w, i)
      /\ NamesOf(v, Len(w) + 1) = f.names
      /\ \A i \in ScopeFrames(w) \cup SwitchFrames(w) : i \in 1..Len(w)
      /\ ScopeFrames(w) \in SUBSET (1..Len(w))
  <2>1. /\ Len(w) \in Nat /\ ScopeFrames(w) \in SUBSET (1..Len(w))
        /\ SwitchFrames(w) \in SUBSET (1..Len(w))
    BY <1>0, FramesOf
  <2>2. \A i \in ScopeFrames(w) \cup SwitchFrames(w) : i \in 1..Len(w)
    BY <2>1
  <2>. QED
    <3>1. OneMore(w, f, v)
      <4>1. w \in Seq(Frames) /\ f \in Frames /\ Len(w) >= 3
        BY <1>0, Zenon
      <4>. QED
        BY <4>1, FramesMore, Zenon
    <3>. QED
      BY <1>0, <2>1, <2>2, <3>1 DEF OneMore
<1>2. MirroredScopes(d, v) <=> MirroredScopes(c, w) /\ DOMAIN TopScope(d).decls = f.names
  <2> DEFINE O == ScopeFrames(w)
             a == [i \in O |-> NamesOf(w, i)]
             b == [i \in O \cup {Len(w) + 1} |-> NamesOf(v, i)]
             q == Declared(c)
             r == Declared(d)
  <2>1. /\ Len(q) = Depth(c) /\ Len(r) = Depth(c) + 1 /\ Depth(c) \in Nat
        /\ \A i \in 1..Depth(c) : r[i] = q[i]
        /\ r[Depth(c) + 1] = DOMAIN TopScope(d).decls
    BY <1>0, ContextFacts DEF Declared, TopScope
  <2>2. (\A i \in O : b[i] = a[i]) /\ b[Len(w) + 1] = f.names
    BY <1>1
  <2>3. /\ MirroredScopes(d, v) <=> Mirrors(O \cup {Len(w) + 1}, b, r)
        /\ MirroredScopes(c, w) <=> Mirrors(O, a, q)
    BY <1>1, Zenon DEF MirroredScopes
  <2>4. O \in SUBSET (1..Len(w)) /\ Len(w) \in Nat
    BY <1>1
  <2> HIDE DEF O, a, b, q, r
  <2>5. Mirrors(O \cup {Len(w) + 1}, b, r) <=> Mirrors(O, a, q) /\ r[Len(r)] = b[Len(w) + 1]
    <3>1. Longer(Len(w), O, a, q, b, r)
      BY <2>1, <2>2, <2>4 DEF Longer
    <3>. QED
      BY <3>1, MirrorsMore
  <2>. QED
    BY <2>1, <2>2, <2>3, <2>5
<1>3. MirroredSwitches(d, v) <=> MirroredSwitches(c, w)
  <2>1. [i \in SwitchFrames(w) |-> LabelsOf(v[i])] = [i \in SwitchFrames(w) |-> LabelsOf(w[i])]
    BY <1>1
  <2>2. d.switches = c.switches
    BY <1>0 DEF SameFunction
  <2>. QED
    BY <1>1, <2>1, <2>2, Zenon DEF MirroredSwitches
<1>4. MirroredFunction(d, v) <=> MirroredFunction(c, w)
  <2>1. 2 \in 1..Len(w) /\ Len(w) # 2 /\ Len(v) # 2 /\ Len(w) >= 2 /\ Len(v) >= 2
    BY <1>0, <1>1
  <2>. QED
    BY <1>0, <1>1, <2>1 DEF MirroredFunction, SameFunction
<1>5. LabelsCounted(v) <=> LabelsCounted(w)
  BY <1>1 DEF LabelsCounted
<1>. QED
  BY <1>2, <1>3, <1>4, <1>5, Zenon DEF Mirrored

\* One more switch.
LEMMA SwitchMore ==
  ASSUME NEW w \in Seq(Frames), NEW f \in Frames, Len(w) >= 3,
         f.kind = "switch", NEW v, v = Append(w, f),
         NEW c \in Context, NEW d \in Context, d.scopes = c.scopes,
         d.fake = c.fake, d.ret = c.ret, d.labels = c.labels,
         Len(d.switches) = Len(c.switches) + 1,
         \A i \in 1..Len(c.switches) : d.switches[i] = c.switches[i]
  PROVE  Mirrored(d, v) <=>
            /\ Mirrored(c, w)
            /\ d.switches[Len(d.switches)] = LabelsOf(f)
            /\ IsFiniteSet(f.visited) /\ f.count = f.refused + Cardinality(f.visited)
<1>1. /\ Len(v) = Len(w) + 1 /\ Len(w) \in Nat /\ \A i \in 1..Len(w) : v[i] = w[i]
      /\ v[Len(w) + 1] = f
      /\ ScopeFrames(v) = ScopeFrames(w)
      /\ SwitchFrames(v) = SwitchFrames(w) \cup {Len(w) + 1}
      /\ \A i \in 1..Len(w) : NamesOf(v, i) = NamesOf(w, i)
      /\ \A i \in ScopeFrames(w) \cup SwitchFrames(w) : i \in 1..Len(w)
      /\ SwitchFrames(w) \in SUBSET (1..Len(w))
  <2>1. /\ Len(w) \in Nat /\ ScopeFrames(w) \in SUBSET (1..Len(w))
        /\ SwitchFrames(w) \in SUBSET (1..Len(w))
    BY FramesOf
  <2>2. \A i \in ScopeFrames(w) \cup SwitchFrames(w) : i \in 1..Len(w)
    BY <2>1
  <2>. QED
    <3>1. OneMore(w, f, v)
      BY FramesMore, Zenon
    <3>. QED
      BY <2>1, <2>2, <3>1 DEF OneMore
<1>2. MirroredSwitches(d, v) <=>
         MirroredSwitches(c, w) /\ d.switches[Len(d.switches)] = LabelsOf(f)
  <2> DEFINE O == SwitchFrames(w)
             a == [i \in O |-> LabelsOf(w[i])]
             b == [i \in O \cup {Len(w) + 1} |-> LabelsOf(v[i])]
  <2>1. (\A i \in O : b[i] = a[i]) /\ b[Len(w) + 1] = LabelsOf(f)
    BY <1>1
  <2>2. /\ MirroredSwitches(d, v) <=> Mirrors(O \cup {Len(w) + 1}, b, d.switches)
        /\ MirroredSwitches(c, w) <=> Mirrors(O, a, c.switches)
    BY <1>1, Zenon DEF MirroredSwitches
  <2>3. O \in SUBSET (1..Len(w)) /\ Len(w) \in Nat
    BY <1>1
  <2>4. Len(c.switches) \in Nat
    <3>1. c.switches \in Seq(Labeled)
      BY DEF Context
    <3> HIDE DEF Labeled
    <3>. QED
      BY <3>1
  <2> HIDE DEF O, a, b
  <2>5. Mirrors(O \cup {Len(w) + 1}, b, d.switches)
          <=> Mirrors(O, a, c.switches) /\ d.switches[Len(d.switches)] = b[Len(w) + 1]
    <3>1. Longer(Len(w), O, a, c.switches, b, d.switches)
      BY <2>1, <2>3, <2>4 DEF Longer
    <3>. QED
      BY <3>1, MirrorsMore
  <2>. QED
    BY <2>1, <2>2, <2>5
<1>3. MirroredScopes(d, v) <=> MirroredScopes(c, w)
  <2>1. [i \in ScopeFrames(w) |-> NamesOf(v, i)] = [i \in ScopeFrames(w) |-> NamesOf(w, i)]
    BY <1>1
  <2>2. Declared(d) = Declared(c)
    BY DEF Declared, Depth
  <2>. QED
    BY <1>1, <2>1, <2>2, Zenon DEF MirroredScopes
<1>4. MirroredFunction(d, v) <=> MirroredFunction(c, w)
  <2>1. 2 \in 1..Len(w) /\ Len(w) # 2 /\ Len(v) # 2 /\ Len(w) >= 2 /\ Len(v) >= 2
    BY <1>1
  <2>. QED
    BY <1>1, <2>1 DEF MirroredFunction
<1>5. LabelsCounted(v) <=> LabelsCounted(w) /\ IsFiniteSet(f.visited)
                             /\ f.count = f.refused + Cardinality(f.visited)
  BY <1>1 DEF LabelsCounted
<1>. QED
  BY <1>2, <1>3, <1>4, <1>5, Zenon DEF Mirrored

------------------------------------------------------------------------------
(* The unit, the function and its body *)

\* What it is to mirror no frame, one frame and two.
LEMMA MirrorsFew ==
  /\ \A f, q : Mirrors({}, f, q) <=> Len(q) = 0
  /\ \A f, q : Mirrors({1}, f, q) <=> Len(q) = 1 /\ q[1] = f[1]
  /\ \A f, q : Mirrors({1, 2}, f, q) <=> Len(q) = 2 /\ q[1] = f[1] /\ q[2] = f[2]
<1>1. Cardinality({}) = 0 /\ Cardinality({1}) = 1 /\ Cardinality({1, 2}) = 2
  <2>1. Cardinality({}) = 0 /\ Cardinality({1}) = 1 /\ IsFiniteSet({1})
    BY FS_EmptySet, FS_Singleton
  <2>2. {1, 2} = {1} \cup {2} /\ 2 \notin {1}
    OBVIOUS
  <2>3. Cardinality({1} \cup {2}) = 2
    BY <2>1, <2>2, FS_AddElement
  <2>. QED
    BY <2>1, <2>2, <2>3
<1>2. /\ {j \in {1} : j <= 1} = {1} /\ {j \in {1, 2} : j <= 1} = {1}
      /\ {j \in {1, 2} : j <= 2} = {1, 2}
  OBVIOUS
<1>3. Rank({1}, 1) = 1 /\ Rank({1, 2}, 1) = 1 /\ Rank({1, 2}, 2) = 2
  BY <1>1, <1>2 DEF Rank
<1>4. ASSUME NEW f, NEW q PROVE Mirrors({}, f, q) <=> Len(q) = 0
  BY <1>1 DEF Mirrors
<1>5. ASSUME NEW f, NEW q PROVE Mirrors({1}, f, q) <=> Len(q) = 1 /\ q[1] = f[1]
  BY <1>1, <1>3 DEF Mirrors
<1>6. ASSUME NEW f, NEW q
      PROVE  Mirrors({1, 2}, f, q) <=> Len(q) = 2 /\ q[1] = f[1] /\ q[2] = f[2]
  <2>1. \A i : i \in {1, 2} <=> i = 1 \/ i = 2
    OBVIOUS
  <2>. QED
    BY <1>1, <1>3, <2>1 DEF Mirrors
<1>. QED
  BY <1>4, <1>5, <1>6

\* The function has no scope before its parameters and after its body.
HasScope(w) == Len(w) = 3 \/ (Len(w) = 2 /\ w[2].left = 1)

\* What Mirrored says while no statement of a body is open.
LEMMA Outside ==
  ASSUME NEW w \in Seq(Frames), Shape(w), Len(w) \in 1..3, NEW c \in Context
  PROVE  Mirrored(c, w) <=>
           /\ DOMAIN c.scopes[1].decls = w[1].names
           /\ HasScope(w) => Depth(c) = 2 /\ DOMAIN c.scopes[2].decls = NamesOf(w, 2)
           /\ ~HasScope(w) => Depth(c) = 1
           /\ Len(c.switches) = 0 /\ MirroredFunction(c, w)
<1> HIDE DEF Frames
<1>1. /\ Len(w) = 1 \/ Len(w) = 2 \/ Len(w) = 3
      /\ \A i \in 1..Len(w) : i = 1 \/ i = 2 \/ i = 3
      /\ 1 \in 1..Len(w) /\ (Len(w) >= 2 => 2 \in 1..Len(w))
  <2> DEFINE n == Len(w)
  <2>1. n \in 1..3
    OBVIOUS
  <2> HIDE DEF n
  <2>2. /\ n = 1 \/ n = 2 \/ n = 3
        /\ \A i \in 1..n : i = 1 \/ i = 2 \/ i = 3
        /\ 1 \in 1..n /\ (n >= 2 => 2 \in 1..n)
    BY <2>1
  <2>. QED
    BY <2>2 DEF n
<1>2. SwitchFrames(w) = {}
  BY <1>1 DEF SwitchFrames, Shape
<1>3. MirroredSwitches(c, w) <=> Len(c.switches) = 0
  BY <1>2, MirrorsFew DEF MirroredSwitches
<1>4. LabelsCounted(w)
  BY <1>2 DEF LabelsCounted
<1>5. Depth(c) \in Nat /\ Len(Declared(c)) = Depth(c)
      /\ \A i \in 1..Depth(c) : Declared(c)[i] = DOMAIN c.scopes[i].decls
  BY ContextFacts DEF Declared
<1>6. NamesOf(w, 1) = w[1].names
  BY DEF NamesOf
<1>7. CASE HasScope(w)
  <2>1. ScopeFrames(w) = {1, 2}
    BY <1>1, <1>7 DEF ScopeFrames, HasScope
  <2> DEFINE a == [i \in {1, 2} |-> NamesOf(w, i)]
  <2>2. a[1] = w[1].names /\ a[2] = NamesOf(w, 2)
    BY <1>6
  <2>3. MirroredScopes(c, w) <=> Mirrors({1, 2}, a, Declared(c))
    BY <2>1, Zenon DEF MirroredScopes
  <2> HIDE DEF a
  <2>4. Mirrors({1, 2}, a, Declared(c))
          <=> Depth(c) = 2 /\ Declared(c)[1] = a[1] /\ Declared(c)[2] = a[2]
    BY <1>5, MirrorsFew
  <2>5. MirroredScopes(c, w) <=> /\ Depth(c) = 2 /\ DOMAIN c.scopes[1].decls = w[1].names
                                 /\ DOMAIN c.scopes[2].decls = NamesOf(w, 2)
    BY <1>5, <2>2, <2>3, <2>4
  <2>. QED
    BY <1>3, <1>4, <1>7, <2>5 DEF Mirrored
<1>8. CASE ~HasScope(w)
  <2>1. ScopeFrames(w) = {1}
    <3>1. Len(w) = 1 \/ (Len(w) = 2 /\ w[2].left # 1)
      BY <1>1, <1>8 DEF HasScope
    <3> DEFINE n == Len(w)
               Has(i) == \/ i = 1
                         \/ i = 2 /\ (n > 2 \/ w[2].left = 1)
                         \/ i >= 4 /\ w[i].kind \in {"for", "block"}
    <3>2. n \in Nat /\ (n = 1 \/ (n = 2 /\ w[2].left # 1)) /\ 1 \in 1..n
      BY <1>1, <3>1
    <3>3. ScopeFrames(w) = {i \in 1..n : Has(i)}
      BY Zenon DEF ScopeFrames
    <3> HIDE DEF n
    <3>4. ASSUME NEW i \in 1..n, Has(i) PROVE i = 1
      <4>1. n \in {1, 2} /\ ~(n > 2)
        BY <3>2
      <4>2. i \in {1, 2} /\ ~(i >= 4)
        BY <4>1
      <4>3. i = 2 => n = 2
        BY <4>1
      <4>. QED
        BY <3>2, <3>4, <4>1, <4>2, <4>3
    <3>. QED
      BY <3>2, <3>3, <3>4
  <2> DEFINE a == [i \in {1} |-> NamesOf(w, i)]
  <2>2. a[1] = w[1].names
    BY <1>6
  <2>3. MirroredScopes(c, w) <=> Mirrors({1}, a, Declared(c))
    BY <2>1, Zenon DEF MirroredScopes
  <2> HIDE DEF a
  <2>4. Mirrors({1}, a, Declared(c)) <=> Depth(c) = 1 /\ Declared(c)[1] = a[1]
    BY <1>5, MirrorsFew
  <2>5. MirroredScopes(c, w) <=> Depth(c) = 1 /\ DOMAIN c.scopes[1].decls = w[1].names
    BY <1>5, <2>2, <2>3, <2>4
  <2>. QED
    BY <1>3, <1>4, <1>8, <2>5 DEF Mirrored
<1>. QED
  BY <1>7, <1>8

------------------------------------------------------------------------------
(* The innermost scope and the innermost switch *)

\* The last entry of a stack mirrors the last frame.
LEMMA MirrorsLast ==
  ASSUME NEW n \in Nat, NEW O \in SUBSET (1..(n + 1)), n + 1 \in O, NEW f, NEW q,
         Mirrors(O, f, q)
  PROVE  Len(q) \in Nat \ {0} /\ q[Len(q)] = f[n + 1]
<1> DEFINE P == O \ {n + 1}
<1>1. P \in SUBSET (1..n) /\ O = P \cup {n + 1}
  <2>1. \A i \in 1..(n + 1) : i = n + 1 \/ i \in 1..n
    OBVIOUS
  <2>2. P \in SUBSET (1..n)
    BY <2>1
  <2>3. O = P \cup {n + 1}
    BY Zenon
  <2>. QED
    BY <2>2, <2>3
<1> HIDE DEF P
<1>2. /\ Cardinality(P) \in Nat
      /\ Rank(P \cup {n + 1}, n + 1) = Cardinality(P) + 1
      /\ Cardinality(P \cup {n + 1}) = Cardinality(P) + 1
  BY <1>1, RankFacts
<1>3. Len(q) = Cardinality(P \cup {n + 1})
      /\ q[Rank(P \cup {n + 1}, n + 1)] = f[n + 1]
  BY <1>1, Zenon DEF Mirrors
<1>. QED
  BY <1>2, <1>3

\* The names bound in the innermost scope become names of the last frame.
LEMMA DeclareMirrors ==
  ASSUME NEW w \in Seq(Frames), Shape(w), Len(w) >= 1,
         w[Len(w)].kind \in {"unit", "block"}, NEW c \in Context, Depth(c) >= 1,
         NEW d, Declares(c, d), Mirrored(c, w), NEW v, v = Record(w, Bound(c, d))
  PROVE  v \in Seq(Frames) /\ Shape(v) /\ Mirrored(d, v)
<1> DEFINE new == Bound(c, d)
           L == Len(w)
<1>1. /\ L \in Nat /\ L \in 1..L /\ d \in Context /\ Depth(d) = Depth(c)
      /\ new \in SUBSET Names
      /\ DOMAIN TopScope(d).decls = DOMAIN TopScope(c).decls \cup new
  <2>1. d \in Context /\ Depth(d) = Depth(c) /\ Depth(c) \in Nat
        /\ DOMAIN TopScope(c).decls \subseteq DOMAIN TopScope(d).decls
    BY ContextFacts DEF Declares
  <2>2. DOMAIN TopScope(d).decls \subseteq Names
    BY <2>1, ContextFacts DEF TopScope
  <2>3. L \in Nat /\ L \in 1..L
    BY FramesOf
  <2>. QED
    BY <2>1, <2>2, <2>3 DEF Bound
<1>2. /\ v \in Seq(Frames) /\ Len(v) = L
      /\ \A i \in 1..L : i # L => v[i] = w[i]
      /\ v[L] = [w[L] EXCEPT !.names = @ \cup new]
      /\ w[L] \in Frames
  <2>1. w[L] \in Frames
    <3> HIDE DEF Frames
    <3>. QED
      BY <1>1
  <2>2. [w[L] EXCEPT !.names = @ \cup new] \in Frames
    BY <1>1, <2>1 DEF Frames
  <2> DEFINE e == [w[L] EXCEPT !.names = @ \cup new]
  <2>3. v = [w EXCEPT ![L] = e]
    BY Zenon DEF Record
  <2> HIDE DEF Frames, new, e, L
  <2>4. e \in Frames /\ w \in Seq(Frames) /\ L = Len(w)
    BY <2>2 DEF e, L
  <2>5. v \in Seq(Frames) /\ Len(v) = L /\ v[L] = e /\ \A i \in 1..L : i # L => v[i] = w[i]
    BY <1>1, <2>3, <2>4
  <2>. QED
    BY <2>1, <2>5 DEF e
<1>3. /\ v[L].kind = w[L].kind /\ v[L].left = w[L].left /\ v[L].arg = w[L].arg
      /\ v[L].labels = w[L].labels /\ v[L].visited = w[L].visited
      /\ v[L].refused = w[L].refused /\ v[L].count = w[L].count
      /\ v[L].names = w[L].names \cup new
  BY <1>2 DEF Frames
<1> HIDE DEF L, new
<1>4. \A i \in 1..L : /\ v[i].kind = w[i].kind /\ v[i].left = w[i].left /\ v[i].arg = w[i].arg
                      /\ v[i].labels = w[i].labels /\ v[i].visited = w[i].visited
                      /\ v[i].refused = w[i].refused /\ v[i].count = w[i].count
                      /\ i # L => v[i].names = w[i].names
  BY <1>2, <1>3
<1>5. /\ L >= 1 => 1 \in 1..L
      /\ L >= 2 => 2 \in 1..L
      /\ L >= 3 => 3 \in 1..L
      /\ \A i \in 4..L : i \in 1..L
      /\ L = 1 \/ L = 3 \/ (L >= 4 /\ w[L].kind = "block")
  <2>1. L = 2 => w[L].kind = "function"
    BY DEF Shape, L
  <2>2. L >= 4 => L \in 4..L /\ w[L].kind # "unit"
    BY <1>1 DEF Shape, L
  <2>3. L # 2 /\ L >= 1 /\ (L >= 4 => w[L].kind = "block")
    BY <1>1, <2>1, <2>2 DEF L
  <2>4. /\ L >= 1 => 1 \in 1..L
        /\ L >= 2 => 2 \in 1..L
        /\ L >= 3 => 3 \in 1..L
        /\ \A i \in 4..L : i \in 1..L
        /\ L = 1 \/ L = 2 \/ L = 3 \/ L >= 4
    BY <1>1, <2>3
  <2>. QED
    BY <2>3, <2>4
<1>6. Shape(v)
  BY <1>2, <1>4, <1>5 DEF Shape, L
<1>7. ScopeFrames(v) = ScopeFrames(w) /\ SwitchFrames(v) = SwitchFrames(w)
  BY <1>2, <1>4, <1>5 DEF ScopeFrames, SwitchFrames, L
<1>8. MirroredSwitches(d, v)
  <2>1. [i \in SwitchFrames(w) |-> LabelsOf(v[i])] = [i \in SwitchFrames(w) |-> LabelsOf(w[i])]
    <3>1. \A i \in SwitchFrames(w) : i \in 1..L
      BY DEF SwitchFrames, L
    <3>. QED
      BY <1>4, <3>1 DEF LabelsOf
  <2>2. d.switches = c.switches
    BY DEF Declares, SameFunction
  <2>. QED
    BY <1>7, <2>1, <2>2, Zenon DEF Mirrored, MirroredSwitches
<1>9. MirroredFunction(d, v)
  BY <1>2, <1>4, <1>5 DEF Mirrored, MirroredFunction, Declares, SameFunction, L
<1>10. LabelsCounted(v)
  <2>1. \A i \in SwitchFrames(w) : i \in 1..L
    BY DEF SwitchFrames, L
  <2>. QED
    BY <1>4, <1>7, <2>1 DEF Mirrored, LabelsCounted
<1>11. MirroredScopes(d, v)
  <2> DEFINE m == IF L = 3 THEN 2 ELSE L
             n == m - 1
             O == ScopeFrames(w)
             a == [i \in O |-> NamesOf(w, i)]
             b == [i \in O |-> NamesOf(v, i)]
             q == Declared(c)
             r == Declared(d)
  <2>1. n \in Nat /\ m = n + 1 /\ O \in SUBSET (1..m) /\ m \in O
    BY <1>1, <1>5 DEF ScopeFrames, Shape, L
  <2>2. Mirrors(O, a, q)
    BY Zenon DEF Mirrored, MirroredScopes
  <2>3. /\ Len(q) = Depth(c) /\ Len(r) = Depth(c) /\ Depth(c) \in Nat
        /\ \A i \in 1..Depth(c) : i < Depth(c) => r[i] = q[i]
        /\ q[Depth(c)] = DOMAIN TopScope(c).decls
        /\ r[Depth(c)] = DOMAIN TopScope(d).decls
    BY <1>1, ContextFacts DEF Declared, TopScope, Declares
  <2>4. NamesOf(v, m) = NamesOf(w, m) \cup new
    <3>1. CASE L = 3
      <4>1. m = 2 /\ 2 \in 1..L /\ 2 # L /\ Len(v) = 3 /\ Len(w) = 3
        BY <1>2, <1>5, <3>1 DEF L
      <4>2. NamesOf(v, 2) = v[2].names \cup v[3].names
            /\ NamesOf(w, 2) = w[2].names \cup w[3].names
        BY <4>1 DEF NamesOf
      <4>. QED
        BY <1>3, <1>4, <3>1, <4>1, <4>2
    <3>2. CASE L # 3
      <4>1. m = L /\ L # 2
        BY <1>5, <3>2
      <4>2. NamesOf(v, L) = v[L].names /\ NamesOf(w, L) = w[L].names
        BY <4>1 DEF NamesOf
      <4>. QED
        BY <1>3, <4>1, <4>2
    <3>. QED
      BY <3>1, <3>2
  <2>5. \A i \in O : i # m => NamesOf(v, i) = NamesOf(w, i)
    <3>4. \A i \in O : i \in 1..L /\ i # 3
      BY <1>1 DEF ScopeFrames, L
    <3>1. \A i \in O : i # m => i \in 1..L /\ i # L /\ i # 3
      BY <3>4
    <3>2. L > 2 /\ L # 3 => 3 \in 1..L /\ 3 # L
      BY <1>1
    <3>3. L = 3 => \A i \in O : i # m => i # 2
      OBVIOUS
    <3>. QED
      BY <1>2, <1>4, <3>1, <3>2, <3>3 DEF NamesOf, L
  <2>6. (\A i \in O : i # n + 1 => b[i] = a[i]) /\ b[m] = NamesOf(v, m) /\ a[m] = NamesOf(w, m)
    BY <2>1, <2>5
  <2>7. MirroredScopes(d, v) <=> Mirrors(O, b, r)
    BY <1>7, Zenon DEF MirroredScopes
  <2> HIDE DEF O, a, b, q, r, n, m
  <2>8. Len(q) \in Nat \ {0} /\ q[Len(q)] = a[n + 1]
    BY <2>1, <2>2, MirrorsLast
  <2>9. r[Len(r)] = b[n + 1]
    BY <1>1, <2>1, <2>3, <2>4, <2>6, <2>8
  <2>10. \A i \in 1..Len(q) : i < Len(q) => r[i] = q[i]
    BY <2>3
  <2>11. Mirrors(O, b, r)
    <3>1. Retopped(n, O, a, q, b, r)
      BY <2>1, <2>3, <2>6, <2>8, <2>9, <2>10 DEF Retopped
    <3>. QED
      BY <2>2, <3>1, MirrorsTop
  <2>. QED
    BY <2>7, <2>11
<1>. QED
  BY <1>2, <1>6, <1>8, <1>9, <1>10, <1>11 DEF Mirrored

------------------------------------------------------------------------------
(* A step of the walk *)

\* The tags of the scopes that stay open are kept.
Stable(c, d) ==
    \A i \in 1..Depth(c) :
        (i <= Depth(d) /\ (i < Depth(c) \/ Depth(d) >= Depth(c)))
          => TagsKept(c.scopes[i], d.scopes[i])

\* The state between two steps.
Between(c, w) == /\ c \in Context /\ w \in Seq(Frames) /\ Shape(w)
                 /\ (w # << >> /\ ~c.failed) => Mirrored(c, w)

\* What every step from c to d does to the tags.
TagStep(c, d) == (IdsUnique(c) => IdsUnique(d)) /\ Stable(c, d)

\* A scope that is left alone keeps its tags.
LEMMA KeptItself ==
  ASSUME NEW s PROVE TagsKept(s, s)
BY DEF TagsKept

\* Declarations keep the tags and their ids.
LEMMA DeclaresStep ==
  ASSUME NEW c \in Context, Depth(c) >= 1, NEW d, Declares(c, d)
  PROVE  TagStep(c, d)
<1>1. \A i \in 1..Depth(c) : i = Depth(c) \/ d.scopes[i] = c.scopes[i]
  BY ContextFacts DEF Declares
<1>2. Depth(d) = Depth(c) /\ TagsKept(TopScope(c), TopScope(d))
  BY DEF Declares
<1>3. ASSUME NEW i \in 1..Depth(c) PROVE TagsKept(c.scopes[i], d.scopes[i])
  BY <1>1, <1>2, KeptItself DEF TopScope
<1>. QED
  BY <1>3 DEF TagStep, Stable, Declares

\* Scopes that are the same, as far as both go.
LEMMA SameStep ==
  ASSUME NEW c \in Context, NEW d, IdsUnique(c) => IdsUnique(d),
         \A i \in 1..Depth(c) : i <= Depth(d) => d.scopes[i] = c.scopes[i]
  PROVE  TagStep(c, d)
BY KeptItself DEF TagStep, Stable

\* What a check reports does not matter to the rest.
LEMMA QuietClear ==
  ASSUME NEW c \in Context PROVE Quiet(c, [c EXCEPT !.reports = << >>])
<1>1. << >> \in Seq(Errors)
  OBVIOUS
<1>. QED
  BY <1>1 DEF Quiet, Context, SameFunction

\* Two quiet steps are one.
LEMMA QuietTwice ==
  ASSUME NEW c, NEW d, NEW e, Quiet(c, d), Quiet(d, e) PROVE Quiet(c, e)
BY DEF Quiet, SameFunction

\* Reporting an error is quiet: reports are no part of what the walk mirrors.
LEMMA QuietReport ==
  ASSUME NEW c \in Context, NEW error \in Errors PROVE Quiet(c, Report(c, error))
BY ReportFacts DEF Quiet, Declares

\* Stopping the translation is quiet.
LEMMA QuietFail ==
  ASSUME NEW c \in Context PROVE Quiet(c, Fail(c))
<1>1. Fail(c).nextId = c.nextId
  BY DEF Fail, Context
<1>. QED
  BY <1>1, FailFacts DEF Quiet, Declares

\* Doing nothing is quiet.
LEMMA QuietSelf ==
  ASSUME NEW c \in Context PROVE Quiet(c, c)
BY DEF Quiet, SameFunction

\* Looking up a name is quiet, whether it is found or not.
LEMMA QuietUse ==
  ASSUME NEW c \in Context, NEW n PROVE Quiet(c, CheckUse(c, n))
<1>1. "VarNotDefined" \in Errors
  BY DEF Errors
<1>2. \A error \in Errors : Quiet(c, Report(c, error))
  BY QuietReport
<1>. QED
  BY <1>1, <1>2, QuietSelf DEF CheckUse

\* Checking a conversion is quiet.
LEMMA QuietCast ==
  ASSUME NEW c \in Context, NEW from, NEW to PROVE Quiet(c, RequireCast(c, from, to))
<1>1. "IncompatibleTypes" \in Errors
  BY DEF Errors
<1>2. \A error \in Errors : Quiet(c, Report(c, error))
  BY QuietReport
<1>. QED
  BY <1>1, <1>2, QuietSelf, QuietFail DEF RequireCast

\* The context before a check, when a step is possible.
LEMMA Start ==
  ASSUME Between(ctx, walk), walk # << >>, ~ctx.failed
  PROVE  /\ Quiet(ctx, Clear) /\ Clear \in Context /\ Clear.failed = FALSE
         /\ Mirrored(Clear, walk) /\ Mirrored(ctx, walk)
         /\ ctx \in Context /\ walk \in Seq(Frames) /\ Shape(walk)
         /\ Top \in Nat /\ Top >= 1 /\ Current \in Frames
         /\ Clear.reports = << >>
<1>1. ctx \in Context /\ walk \in Seq(Frames) /\ Shape(walk) /\ Mirrored(ctx, walk)
  BY DEF Between
<1>2. Quiet(ctx, Clear)
  BY <1>1, QuietClear DEF Clear
<1>3. Clear \in Context /\ Mirrored(Clear, walk)
  BY <1>1, <1>2, QuietMirrors DEF Quiet
<1>4. Clear.failed = FALSE /\ Clear.reports = << >>
  BY <1>1 DEF Clear, Context
<1>5. Top \in Nat /\ Top >= 1 /\ Current \in Frames
  <2> HIDE DEF Frames
  <2>. QED
    BY <1>1 DEF Top, Current
<1>. QED
  BY <1>1, <1>2, <1>3, <1>4, <1>5

\* A quiet step.
LEMMA QuietStep ==
  ASSUME NEW c \in Context, NEW d, Quiet(c, d)
  PROVE  TagStep(c, d)
<1>1. IdsUnique(c) => IdsUnique(d)
  BY QuietFacts DEF Declares
<1>. QED
  BY <1>1, SameStep DEF Quiet

\* One statement of the current construct is visited.
LEMMA ConsumedFacts ==
  ASSUME Between(ctx, walk), ~ctx.failed, TakesStatement
  PROVE  /\ Consumed \in Seq(Frames) /\ Len(Consumed) >= 3 /\ Shape(Consumed)
         /\ \A c : Mirrored(c, walk) => Mirrored(c, Consumed)
<1>1. walk # << >> /\ walk \in Seq(Frames) /\ Shape(walk) /\ Top \in Nat /\ Current \in Frames
      /\ Top >= 1
  BY Start DEF TakesStatement
<1>2. Current.left \in Nat /\ Current.left <= 2
  BY <1>1 DEF Frames
<1>3. Top >= 3
  <2>1. Top # 1 /\ Top # 2
    BY <1>1, <1>2 DEF TakesStatement, Shape, Top, Current
  <2>. QED
    BY <1>1, <2>1
<1>4. CASE Current.kind = "block"
  BY <1>1, <1>3, <1>4 DEF Consumed, Top
<1>5. CASE Current.kind # "block"
  <2> DEFINE e == [Current EXCEPT !.left = @ - 1]
  <2>1. Current.left > 0 /\ Current.left - 1 \in 0..2
    BY <1>2, <1>5 DEF TakesStatement
  <2>2. /\ e \in Frames /\ e.kind = Current.kind /\ e.arg = Current.arg
        /\ e.names = Current.names /\ e.labels = Current.labels
        /\ e.visited = Current.visited /\ e.refused = Current.refused
        /\ e.count = Current.count
    BY <1>1, <2>1 DEF Frames
  <2>3. Consumed = [walk EXCEPT ![Top] = e]
    BY <1>5 DEF Consumed, Current
  <2> HIDE DEF e, Frames
  <2>4. /\ Consumed \in Seq(Frames) /\ Len(Consumed) = Len(walk) /\ Consumed[Top] = e
        /\ \A i \in 1..Len(walk) : i # Top => Consumed[i] = walk[i]
    BY <1>1, <2>2, <2>3 DEF Top
  <2>5. Alike(walk, Consumed)
    <3> SUFFICES ASSUME NEW i \in 1..Len(walk)
                 PROVE  LET f == Consumed[i] g == walk[i] IN
                        /\ f.kind = g.kind /\ f.arg = g.arg /\ f.names = g.names
                        /\ f.labels = g.labels /\ f.visited = g.visited
                        /\ f.refused = g.refused /\ f.count = g.count
                        /\ i <= 2 => f.left = g.left
      BY <2>4 DEF Alike
    <3>1. CASE i = Top
      BY <1>3, <2>2, <2>4, <3>1 DEF Current
    <3>2. CASE i # Top
      BY <2>4, <3>2
    <3>. QED
      BY <3>1, <3>2
  <2>. QED
    BY <1>1, <1>3, <2>4, <2>5, AlikeFacts DEF Top
<1>. QED
  BY <1>4, <1>5

\* The scope of the parameters does not wait for a body among statements.
LEMMA NoFake ==
  ASSUME Between(ctx, walk), ~ctx.failed, TakesStatement
  PROVE  Clear.fake = FALSE
<1> DEFINE e == Clear
           w == Consumed
<1>1. e \in Context /\ Mirrored(e, walk)
  BY Start DEF TakesStatement
<1>2. w \in Seq(Frames) /\ Len(w) >= 3 /\ Mirrored(e, w)
  BY <1>1, ConsumedFacts
<1> HIDE DEF e, w
<1>3. Len(w) # 2 /\ MirroredFunction(e, w)
  <2>1. Len(w) \in Nat
    BY <1>2, FramesOf
  <2> DEFINE n == Len(w)
  <2>2. n \in Nat /\ n >= 3
    BY <1>2, <2>1
  <2> HIDE DEF n
  <2>3. n # 2
    BY <2>2
  <2>. QED
    BY <1>2, <2>3 DEF Mirrored, n
<1>4. e.fake \in BOOLEAN
  BY <1>1 DEF Context
<1>. QED
  BY <1>3, <1>4 DEF MirroredFunction, e

\* Visits of one node that report at most.
LEMMA SimpleStep ==
  ASSUME Between(ctx, walk), NEW c, Simple(c), Quiet(ctx, c)
  PROVE  Between(ctx', walk') /\ TagStep(ctx, ctx')
<1>1. TakesStatement /\ ~ctx.failed /\ ctx' = c /\ walk' = Consumed /\ walk # << >>
  BY DEF Simple, Visit, TakesStatement
<1>2. ctx \in Context /\ Mirrored(ctx, walk)
  BY <1>1, Start
<1>3. Consumed \in Seq(Frames) /\ Shape(Consumed) /\ Mirrored(ctx, Consumed)
  BY <1>1, <1>2, ConsumedFacts
<1>4. Mirrored(c, Consumed) /\ c \in Context
  BY <1>2, <1>3, QuietMirrors DEF Quiet
<1>5. TagStep(ctx, c)
  BY <1>2, QuietStep
<1>. QED
  BY <1>1, <1>3, <1>4, <1>5 DEF Between

\* Visits that begin and declare nothing.
LEMMA OpenStep ==
  ASSUME Between(ctx, walk), NEW class, NEW c, NEW f, Open(class, c, f), Quiet(ctx, c),
         f \in Frames, FrameFits(f), f.kind \notin {"for", "block", "switch"}
  PROVE  Between(ctx', walk') /\ TagStep(ctx, ctx')
<1>1. TakesStatement /\ ~ctx.failed /\ ctx' = c /\ walk' = Append(Consumed, f) /\ walk # << >>
  BY DEF Open, Visit, TakesStatement
<1>2. ctx \in Context /\ Mirrored(ctx, walk)
  BY <1>1, Start
<1>3. /\ Consumed \in Seq(Frames) /\ Len(Consumed) >= 3 /\ Shape(Consumed)
      /\ Mirrored(ctx, Consumed)
  BY <1>1, <1>2, ConsumedFacts
<1> DEFINE w == Consumed
           v == Append(w, f)
<1>4. w \in Seq(Frames) /\ Len(w) >= 3 /\ Shape(w) /\ Mirrored(ctx, w)
  BY <1>3
<1> HIDE DEF w
<1>5. Mirrored(ctx, v)
  BY <1>4, PlainMore
<1>6. Shape(v)
  BY <1>4, ShapeMore
<1>7. v \in Seq(Frames)
  BY <1>4
<1>8. Mirrored(c, v) /\ c \in Context
  BY <1>2, <1>5, QuietMirrors DEF Quiet
<1>9. TagStep(ctx, c)
  BY <1>2, QuietStep
<1>. QED
  BY <1>1, <1>6, <1>7, <1>8, <1>9 DEF Between, w

------------------------------------------------------------------------------
(* The statements: before their sub-statements *)

StepOK == Between(ctx, walk)' /\ TagStep(ctx, ctx')

\* The fields of a frame that has just been made.
LEMMA FrameFacts ==
  ASSUME NEW kind \in FrameKinds, NEW left \in 0..2, NEW arg \in Args
  PROVE  /\ Frame(kind, left, arg) \in Frames
         /\ Frame(kind, left, arg).kind = kind /\ Frame(kind, left, arg).arg = arg
         /\ Frame(kind, left, arg).names = {} /\ Frame(kind, left, arg).visited = {}
         /\ Frame(kind, left, arg).refused = 0 /\ Frame(kind, left, arg).count = 0
         /\ Frame(kind, left, arg).labels = {} /\ Frame(kind, left, arg).left = left
BY DEF Frame, Frames

\* Statements without a statement in them: expression, goto, break, continue, return.
LEMMA Leaves ==
  ASSUME Between(ctx, walk), ~ctx.failed, walk # << >>,
         \/ \E n \in Names \cup Functions : ExpressionStatement(n)
         \/ \E l \in Labels : Goto(l)
         \/ Break \/ Continue
         \/ \E n \in Names \cup {NoName} : Return(n)
  PROVE  StepOK
<1>1. Quiet(ctx, Clear) /\ Clear \in Context
  BY Start
<1>2. \A c : Quiet(Clear, c) => Quiet(ctx, c)
  BY <1>1, QuietTwice
<1>3. \A c : Simple(c) /\ Quiet(ctx, c) => StepOK
  BY SimpleStep DEF StepOK
<1>4. \A error \in Errors : Quiet(ctx, Report(Clear, error))
  BY <1>1, <1>2, QuietReport
<1>5. CASE \E n \in Names \cup Functions : ExpressionStatement(n)
  <2>1. PICK n : ExpressionStatement(n)
    BY <1>5
  <2>2. Quiet(ctx, CheckUse(Clear, n))
    BY <1>1, <1>2, QuietUse
  <2>. QED
    BY <1>3, <2>1, <2>2 DEF ExpressionStatement
<1>6. CASE \E l \in Labels : Goto(l)
  <2>1. "UndefinedLabel" \in Errors
    BY DEF Errors
  <2>2. PICK l : Goto(l)
    BY <1>6
  <2>. QED
    BY <1>1, <1>3, <1>4, <2>1, <2>2, Zenon DEF Goto
<1>7. CASE Break
  <2>1. "BreakOutsideLoop" \in Errors
    BY DEF Errors
  <2>. QED
    BY <1>1, <1>3, <1>4, <1>7, <2>1, Zenon DEF Break
<1>8. CASE Continue
  <2>1. "ContinueOutsideLoop" \in Errors
    BY DEF Errors
  <2>. QED
    BY <1>1, <1>3, <1>4, <1>8, <2>1, Zenon DEF Continue
<1>9. CASE \E n \in Names \cup {NoName} : Return(n)
  <2>1. "MissingReturnValue" \in Errors
    BY DEF Errors
  <2>2. PICK n : Return(n)
    BY <1>9
  <2>3. Quiet(ctx, CheckUse(Clear, n)) /\ CheckUse(Clear, n) \in Context
    BY <1>1, <1>2, QuietUse DEF Quiet
  <2>4. \A from, to : Quiet(ctx, RequireCast(CheckUse(Clear, n), from, to))
    BY <2>3, QuietCast, QuietTwice
  <2>5. CASE n = NoName
    BY <1>1, <1>3, <1>4, <2>1, <2>2, <2>5, Zenon DEF Return
  <2>6. CASE n # NoName
    BY <1>3, <2>2, <2>4, <2>6, Zenon DEF Return
  <2>. QED
    BY <2>5, <2>6
<1>. QED
  BY <1>5, <1>6, <1>7, <1>8, <1>9

\* Statements that open a frame without a scope and without a switch.
LEMMA PlainOpens ==
  ASSUME Between(ctx, walk), ~ctx.failed, walk # << >>,
         \/ \E l \in Labels : Label(l)
         \/ \E v \in CaseValues : Case(v)
         \/ Default
         \/ \E n \in Names, b \in 1..2 : If(n, b)
         \/ \E n \in Names \cup {NoName} : Loop(n)
  PROVE  StepOK
<1>1. Quiet(ctx, Clear) /\ Clear \in Context
  BY Start
<1>2. \A n : Quiet(ctx, CheckUse(Clear, n))
  BY <1>1, QuietUse, QuietTwice
<1>3. \A class, c, f : /\ Open(class, c, f) /\ Quiet(ctx, c)
                       /\ f \in Frames /\ FrameFits(f) /\ f.kind \notin {"for", "block", "switch"}
                       => StepOK
  BY OpenStep DEF StepOK
<1>4. /\ \A n : ConditionErrs(ctx, n) \in Args
      /\ NoName \in Args /\ CaseValues \subseteq Args /\ Labels \subseteq Args
  BY DEF ConditionErrs, Args
<1>5. /\ 0 \in 0..2 /\ 1 \in 0..2 /\ \A b \in 1..2 : b \in 0..2
      /\ {"label", "case", "default", "if", "loop"} \subseteq FrameKinds
  BY DEF FrameKinds
<1>6. CASE \E l \in Labels : Label(l)
  <2>1. PICK l \in Labels : Label(l)
    BY <1>6
  <2> DEFINE f == Frame("label", 1, l)
  <2>2. f \in Frames /\ f.kind = "label" /\ f.arg = l
    BY <1>4, <1>5, FrameFacts
  <2>3. FrameFits(f) /\ f.kind \notin {"for", "block", "switch"}
    BY <2>2 DEF FrameFits
  <2>4. Open("nest", Clear, f)
    BY <2>1 DEF Label
  <2> HIDE DEF f
  <2>. QED
    BY <1>1, <1>3, <2>2, <2>3, <2>4
<1>7. CASE \E v \in CaseValues : Case(v)
  <2>1. PICK v \in CaseValues : Case(v)
    BY <1>7
  <2> DEFINE f == Frame("case", 1, v)
  <2>2. f \in Frames /\ f.kind = "case" /\ f.arg = v
    BY <1>4, <1>5, FrameFacts
  <2>3. FrameFits(f) /\ f.kind \notin {"for", "block", "switch"}
    BY <2>2 DEF FrameFits
  <2>4. Open("nest", Clear, f)
    BY <2>1 DEF Case
  <2> HIDE DEF f
  <2>. QED
    BY <1>1, <1>3, <2>2, <2>3, <2>4
<1>8. CASE Default
  <2> DEFINE f == Frame("default", 1, NoName)
  <2>2. f \in Frames /\ f.kind = "default"
    BY <1>4, <1>5, FrameFacts
  <2>3. FrameFits(f) /\ f.kind \notin {"for", "block", "switch"}
    BY <2>2 DEF FrameFits
  <2>4. Open("nest", Clear, f)
    BY <1>8 DEF Default
  <2> HIDE DEF f
  <2>. QED
    BY <1>1, <1>3, <2>2, <2>3, <2>4
<1>9. CASE \E n \in Names, b \in 1..2 : If(n, b)
  <2>1. PICK n \in Names, b \in 1..2 : If(n, b)
    BY <1>9
  <2> DEFINE f == Frame("if", b, ConditionErrs(ctx, n))
  <2>2. f \in Frames /\ f.kind = "if"
    BY <1>4, <1>5, FrameFacts
  <2>3. FrameFits(f) /\ f.kind \notin {"for", "block", "switch"}
    BY <2>2 DEF FrameFits
  <2>4. Open("branch", CheckUse(Clear, n), f)
    BY <2>1 DEF If
  <2> HIDE DEF f
  <2>. QED
    BY <1>2, <1>3, <2>2, <2>3, <2>4
<1>10. CASE \E n \in Names \cup {NoName} : Loop(n)
  <2>1. PICK n : Loop(n)
    BY <1>10
  <2> DEFINE f == Frame("loop", 1, ConditionErrs(ctx, n))
  <2>2. f \in Frames /\ f.kind = "loop"
    BY <1>4, <1>5, FrameFacts
  <2>3. FrameFits(f) /\ f.kind \notin {"for", "block", "switch"}
    BY <2>2 DEF FrameFits
  <2>4. Open("branch", CheckUse(Clear, n), f)
    BY <2>1 DEF Loop
  <2> HIDE DEF f
  <2>. QED
    BY <1>2, <1>3, <2>2, <2>3, <2>4
<1>. QED
  BY <1>6, <1>7, <1>8, <1>9, <1>10

\* A scope is entered, and perhaps something declared in it.
LEMMA ScopeOpen ==
  ASSUME Between(ctx, walk), NEW class, NEW c, NEW f, Open(class, c, f),
         f \in Frames, FrameFits(f), f.kind \in {"for", "block"},
         Declares(EnterScope(Clear), c), DOMAIN TopScope(c).decls = f.names
  PROVE  StepOK
<1>1. TakesStatement /\ ~ctx.failed /\ ctx' = c /\ walk' = Append(Consumed, f) /\ walk # << >>
  BY DEF Open, Visit, TakesStatement
<1>2. /\ Clear \in Context /\ Quiet(ctx, Clear) /\ Mirrored(Clear, walk) /\ ctx \in Context
  BY <1>1, Start
<1> DEFINE w == Consumed
           v == Append(w, f)
           d == EnterScope(Clear)
           e == Clear
<1>3. w \in Seq(Frames) /\ Len(w) >= 3 /\ Shape(w) /\ Mirrored(e, w) /\ Len(w) \in Nat
  BY <1>1, <1>2, ConsumedFacts
<1>4. e \in Context /\ d = EnterScope(e) /\ e.fake = FALSE /\ Declares(d, c)
      /\ e.scopes = ctx.scopes /\ Depth(e) \in Nat
  <2>1. e.fake = FALSE
    BY <1>1, NoFake
  <2>. QED
    BY <1>2, <2>1, ContextFacts DEF Quiet
<1> HIDE DEF w, d, e
<1>5. /\ d \in Context /\ d.fake = FALSE /\ SameRest(e, d)
      /\ Depth(d) = Depth(e) + 1
      /\ \A i \in 1..Depth(e) : d.scopes[i] = e.scopes[i]
      /\ IdsUnique(e) => IdsUnique(d)
  BY <1>4, EnterScopeFacts
<1>6. /\ c \in Context /\ Depth(c) = Depth(e) + 1
      /\ \A i \in 1..Depth(e) : c.scopes[i] = e.scopes[i]
      /\ SameFunction(e, c) /\ (IdsUnique(e) => IdsUnique(c))
  <2>1. \A i \in 1..Depth(e) : i \in 1..Depth(d) /\ i < Depth(d)
    BY <1>4, <1>5
  <2>. QED
    BY <1>4, <1>5, <2>1 DEF Declares, SameFunction, SameRest
<1>7. Mirrored(c, v)
  <2>1. \A i \in 1..Depth(e) : DOMAIN c.scopes[i].decls = DOMAIN e.scopes[i].decls
    BY <1>6
  <2>2. /\ w \in Seq(Frames) /\ f \in Frames /\ Len(w) >= 3 /\ f.kind \in {"for", "block"}
        /\ e \in Context /\ c \in Context /\ SameFunction(e, c) /\ Depth(c) = Depth(e) + 1
    BY <1>3, <1>4, <1>6
  <2>3. Mirrored(c, v) <=> Mirrored(e, w) /\ DOMAIN TopScope(c).decls = f.names
    <3>1. OneScope(w, f, e, c)
      BY <2>1, <2>2 DEF OneScope
    <3>. QED
      BY <3>1, ScopeMore
  <2>. QED
    BY <1>3, <2>3
<1>8. Shape(v) /\ v \in Seq(Frames)
  <2>1. Shape(v)
    BY <1>3, ShapeMore
  <2>2. v \in Seq(Frames)
    BY <1>3
  <2>. QED
    BY <2>1, <2>2
<1>9. TagStep(ctx, c)
  <2>1. IdsUnique(ctx) => IdsUnique(e)
    BY <1>2, QuietStep DEF TagStep, e
  <2>2. \A i \in 1..Depth(ctx) : c.scopes[i] = ctx.scopes[i]
    BY <1>4, <1>6 DEF Depth
  <2>. QED
    BY <1>2, <1>6, <2>1, <2>2, SameStep
<1>. QED
  BY <1>1, <1>6, <1>7, <1>8, <1>9 DEF Between, StepOK, w

\* A compound statement opens its scope, or takes over the function's.
LEMMA CompoundOpens ==
  ASSUME Between(ctx, walk), ~ctx.failed, walk # << >>, Compound
  PROVE  StepOK
<1> DEFINE f == Frame("block", 0, NoName)
           d == EnterScope(Clear)
<1>1. NoName \in Args /\ "block" \in FrameKinds /\ 0 \in 0..2
  BY DEF Args, FrameKinds
<1>2. f \in Frames /\ f.kind = "block" /\ f.names = {}
  BY <1>1, FrameFacts
<1>3. FrameFits(f)
  BY <1>2 DEF FrameFits
<1>4. Open("nest", d, f)
  BY DEF Compound
<1>5. Clear \in Context /\ Clear.fake = FALSE
  <2>1. TakesStatement
    BY DEF Compound, Open
  <2>. QED
    BY <2>1, Start, NoFake
<1>6. d \in Context /\ TopScope(d) = EmptyScope
  BY <1>5, EnterScopeFacts
<1>7. Declares(d, d) /\ DOMAIN TopScope(d).decls = {}
  BY <1>6, DeclaresNothing, EmptyFacts
<1> HIDE DEF f
<1>. QED
  BY <1>2, <1>3, <1>4, <1>7, ScopeOpen

\* A for statement opens its scope and declares in it.
LEMMA ForOpens ==
  ASSUME Between(ctx, walk), ~ctx.failed, walk # << >>,
         NEW n \in Names, NEW s \in Specs, ForDeclaration(n, s)
  PROVE  StepOK
<1> DEFINE d == EnterScope(Clear)
           c == CheckDeclarator(d, n, s)
           f == [Frame("for", 1, FALSE) EXCEPT !.names = Bound(d, c)]
<1>1. Clear \in Context /\ Clear.fake = FALSE
  <2>1. TakesStatement
    BY DEF ForDeclaration, Open
  <2>. QED
    BY <2>1, Start, NoFake
<1>2. d \in Context /\ TopScope(d) = EmptyScope /\ Depth(d) >= 1
  <2> DEFINE e == Clear
  <2>1. e \in Context /\ e.fake = FALSE /\ d = EnterScope(e)
    BY <1>1
  <2> HIDE DEF d, e
  <2>2. d \in Context /\ TopScope(d) = EmptyScope /\ Depth(d) = Depth(e) + 1
    BY <2>1, EnterScopeFacts
  <2>3. Depth(e) \in Nat
    BY <2>1, ContextFacts
  <2>. QED
    BY <2>2, <2>3
<1>3. Declares(d, c)
  BY <1>2, CheckDeclaratorFacts
<1>4. Bound(d, c) = DOMAIN TopScope(c).decls /\ Bound(d, c) \in SUBSET Names
  <2> HIDE DEF d, c
  <2>1. c \in Context /\ Depth(c) >= 1
    BY <1>2, <1>3 DEF Declares
  <2>2. DOMAIN TopScope(c).decls \subseteq Names
    BY <2>1, ContextFacts DEF TopScope
  <2>3. DOMAIN TopScope(d).decls = {}
    BY <1>2, EmptyFacts
  <2>. QED
    BY <2>2, <2>3 DEF Bound
<1>5. f \in Frames /\ f.kind = "for" /\ f.names = Bound(d, c)
  <2>1. FALSE \in Args /\ "for" \in FrameKinds /\ 1 \in 0..2
    BY DEF Args, FrameKinds
  <2>2. Frame("for", 1, FALSE) \in Frames /\ Frame("for", 1, FALSE).kind = "for"
    <3> DEFINE no == FALSE
    <3>1. no \in Args
      BY <2>1
    <3> HIDE DEF no
    <3>2. Frame("for", 1, no) \in Frames /\ Frame("for", 1, no).kind = "for"
      BY <2>1, <3>1, FrameFacts
    <3>. QED
      BY <3>2 DEF no
  <2> HIDE DEF d, c
  <2>. QED
    BY <1>4, <2>2 DEF Frames
<1>6. FrameFits(f)
  BY <1>5 DEF FrameFits
<1>7. Open("declaration", c, f)
  BY DEF ForDeclaration
<1> HIDE DEF f, c
<1>. QED
  BY <1>3, <1>4, <1>5, <1>6, <1>7, ScopeOpen

\* A switch statement pushes its labels.
LEMMA SwitchOpens ==
  ASSUME Between(ctx, walk), ~ctx.failed, walk # << >>, Switch
  PROVE  StepOK
<1> DEFINE f == Frame("switch", 1, NoName)
           e == Clear
           w == Consumed
           v == Append(w, f)
           d == EnterSwitch(e)
<1>1. TakesStatement /\ ctx' = d /\ walk' = v
  BY DEF Switch, Open, Visit
<1>2. e \in Context /\ Quiet(ctx, e) /\ ctx \in Context /\ Mirrored(e, walk)
  BY Start
<1>3. w \in Seq(Frames) /\ Len(w) >= 3 /\ Shape(w) /\ Mirrored(e, w)
  BY <1>1, <1>2, ConsumedFacts
<1>4. /\ f \in Frames /\ f.kind = "switch" /\ f.visited = {}
      /\ f.refused = 0 /\ f.count = 0
  <2>1. NoName \in Args /\ "switch" \in FrameKinds /\ 1 \in 0..2
    BY DEF Args, FrameKinds
  <2>. QED
    BY <2>1, FrameFacts
<1> HIDE DEF f
<1>5. FrameFits(f) /\ LabelsOf(f) = [cases |-> {}, default |-> FALSE]
  <2>1. FrameFits(f)
    BY <1>4 DEF FrameFits
  <2>2. f.visited \ {"default"} = {}
    BY <1>4
  <2>3. ("default" \in f.visited) = FALSE
    BY <1>4
  <2>. QED
    BY <2>1, <2>2, <2>3, Zenon DEF LabelsOf
<1>6. IsFiniteSet(f.visited) /\ f.count = f.refused + Cardinality(f.visited)
  <2>1. IsFiniteSet({}) /\ Cardinality({}) = 0
    BY FS_EmptySet
  <2>2. IsFiniteSet(f.visited) /\ Cardinality(f.visited) = 0
    BY <1>4, <2>1, Zenon
  <2>. QED
    BY <1>4, <2>2
<1> DEFINE q == e.switches
           none == [cases |-> {}, default |-> FALSE]
<1>7. q \in Seq(Labeled) /\ none \in Labeled
  BY <1>2 DEF Context, Labeled
<1> HIDE DEF f, w, e
<1>8. /\ d.switches = Append(q, none) /\ d.scopes = e.scopes /\ d.fake = e.fake
      /\ d.ret = e.ret /\ d.labels = e.labels /\ d.nextId = e.nextId
      /\ Append(q, none) \in Seq(Labeled)
  <2>1. Append(q, none) \in Seq(Labeled)
    BY <1>7
  <2>. QED
    BY <1>2, <2>1 DEF EnterSwitch, Context
<1>9. d \in Context
  BY <1>2, <1>8 DEF EnterSwitch, Context
<1> HIDE DEF d, q, none
<1>10. /\ Len(d.switches) = Len(e.switches) + 1
       /\ \A i \in 1..Len(e.switches) : d.switches[i] = e.switches[i]
       /\ d.switches[Len(d.switches)] = none
  BY <1>7, <1>8 DEF q
<1>11. Mirrored(d, v)
  <2>1. /\ w \in Seq(Frames) /\ f \in Frames /\ Len(w) >= 3 /\ f.kind = "switch"
        /\ e \in Context /\ d \in Context /\ d.scopes = e.scopes
        /\ d.fake = e.fake /\ d.ret = e.ret /\ d.labels = e.labels
        /\ Len(d.switches) = Len(e.switches) + 1
        /\ \A i \in 1..Len(e.switches) : d.switches[i] = e.switches[i]
    BY <1>2, <1>3, <1>4, <1>8, <1>9, <1>10
  <2>2. Mirrored(d, v) <=>
            /\ Mirrored(e, w)
            /\ d.switches[Len(d.switches)] = LabelsOf(f)
            /\ IsFiniteSet(f.visited) /\ f.count = f.refused + Cardinality(f.visited)
    BY <2>1, SwitchMore, Zenon
  <2>. QED
    BY <1>3, <1>5, <1>6, <1>10, <2>2, Zenon DEF none
<1>12. Shape(v) /\ v \in Seq(Frames)
  <2>1. Shape(v)
    BY <1>3, <1>4, <1>5, ShapeMore
  <2>2. v \in Seq(Frames)
    BY <1>3, <1>4
  <2>. QED
    BY <2>1, <2>2
<1>13. TagStep(ctx, d)
  <2>1. d.scopes = ctx.scopes /\ d.nextId = ctx.nextId
    BY <1>2, <1>8 DEF Quiet
  <2>2. IdsUnique(ctx) => IdsUnique(d)
    BY <2>1 DEF IdsUnique, Depth
  <2>. QED
    BY <1>2, <2>1, <2>2, SameStep
<1>. QED
  BY <1>1, <1>9, <1>11, <1>12, <1>13 DEF Between, StepOK

------------------------------------------------------------------------------
(* The statements: after their sub-statements *)

\* Statements that are not the body of a function stand above it.
LEMMA StatementAbove ==
  ASSUME Between(ctx, walk), ~ctx.failed, walk # << >>,
         Current.kind \notin {"unit", "function", "block"}
  PROVE  Top >= 4
<1>1. Shape(walk) /\ Top \in Nat /\ Top >= 1
  BY Start
<1>2. Top # 1 /\ Top # 2 /\ Top # 3
  BY <1>1 DEF Shape, Top, Current
<1>. QED
  BY <1>1, <1>2

\* What is below the last frame.
LEMMA ReturnedFacts ==
  ASSUME Between(ctx, walk), ~ctx.failed, walk # << >>, Top >= 4
  PROVE  /\ Returned \in Seq(Frames) /\ Len(Returned) >= 3 /\ Shape(Returned)
         /\ Len(Returned) \in Nat /\ Len(Returned) = Top - 1
         /\ \A i \in 1..Len(Returned) : Returned[i] = walk[i]
         /\ Current \in Frames /\ FrameFits(Current) /\ walk = Append(Returned, Current)
<1> DEFINE w == Returned
           f == Current
<1>1. walk \in Seq(Frames) /\ Shape(walk) /\ Top \in Nat
  BY Start
<1>2. /\ w \in Seq(Frames) /\ Len(w) = Top - 1 /\ f \in Frames /\ walk = Append(w, f)
      /\ \A i \in 1..Len(w) : w[i] = walk[i]
  <2> DEFINE v == SubSeq(walk, 1, Len(walk) - 1)
  <2>1. Len(walk) >= 1 /\ w = v /\ f = walk[Len(walk)]
    BY <1>1 DEF Top, Returned, Current
  <2> HIDE DEF w, f
  <2>2. /\ v \in Seq(Frames) /\ Len(v) = Len(walk) - 1
        /\ \A i \in 1..Len(v) : v[i] = walk[i]
        /\ walk[Len(walk)] \in Frames /\ walk = Append(v, walk[Len(walk)])
    BY <1>1, <2>1, FramesLess
  <2> HIDE DEF v
  <2>. QED
    BY <2>1, <2>2, Zenon DEF Top
<1>3. Len(w) \in Nat /\ Len(w) >= 3
  BY <1>1, <1>2
<1> HIDE DEF w, f
<1>4. Shape(w) /\ FrameFits(f)
  BY <1>1, <1>2, <1>3, ShapeMore
<1>. QED
  BY <1>2, <1>3, <1>4 DEF w, f

\* A visit ends that left neither a scope nor a switch to take away.
LEMMA QuietEnd ==
  ASSUME Between(ctx, walk), ~ctx.failed, walk # << >>,
         Current.kind \notin {"unit", "function", "block", "for", "switch"},
         NEW c, Quiet(ctx, c), ctx' = c, walk' = Returned
  PROVE  StepOK
<1> DEFINE w == Returned
           f == Current
<1>1. /\ w \in Seq(Frames) /\ Len(w) >= 3 /\ Shape(w) /\ f \in Frames
      /\ walk = Append(w, f)
  BY StatementAbove, ReturnedFacts
<1>2. ctx \in Context /\ Mirrored(ctx, walk)
  BY Start
<1>3. Mirrored(ctx, w)
  <2>1. f.kind \notin {"for", "block", "switch"}
    OBVIOUS
  <2> HIDE DEF w, f
  <2>. QED
    BY <1>1, <1>2, <2>1, PlainMore
<1>4. Mirrored(c, w) /\ c \in Context
  BY <1>2, <1>3, QuietMirrors DEF Quiet
<1>5. TagStep(ctx, c)
  BY <1>2, QuietStep
<1>. QED
  BY <1>1, <1>4, <1>5 DEF StepOK, Between

\* The end of an if statement or of a loop without a scope.
LEMMA ConditionEnds ==
  ASSUME Between(ctx, walk), ~ctx.failed, walk # << >>, ConditionDone
  PROVE  StepOK
<1>1. Quiet(ctx, Clear) /\ Clear \in Context
  BY Start
<1>2. Quiet(ctx, AfterCondition(Clear, Current.arg))
  <2>1. Quiet(Clear, RequireCast(Clear, Void, Bool))
    BY <1>1, QuietCast
  <2>2. Quiet(ctx, RequireCast(Clear, Void, Bool))
    BY <1>1, <2>1, QuietTwice
  <2>. QED
    BY <1>1, <2>2 DEF AfterCondition
<1>3. Current.kind \in {"if", "loop"}
  BY DEF ConditionDone, Ends
<1>4. /\ ctx' = AfterCondition(Clear, Current.arg) /\ walk' = Returned
      /\ Current.kind \notin {"unit", "function", "block", "for", "switch"}
  BY <1>3 DEF ConditionDone, Leave
<1>. QED
  BY <1>2, <1>4, QuietEnd

\* One frame of the walk notes what has been visited in it.
Noted(w, m, g, v) ==
    /\ w \in Seq(Frames) /\ m \in 1..Len(w) /\ g \in Frames
    /\ g.kind = w[m].kind /\ g.left = w[m].left /\ g.arg = w[m].arg
    /\ g.names = w[m].names
    /\ v = [w EXCEPT ![m] = g]

\* A frame whose notes change, its kind left alone.
LEMMA NotedFacts ==
  ASSUME NEW w, NEW m, NEW g, NEW v, Noted(w, m, g, v)
  PROVE  /\ v \in Seq(Frames) /\ Len(v) = Len(w) /\ v[m] = g
         /\ \A i \in 1..Len(w) : i # m => v[i] = w[i]
         /\ Shape(w) => Shape(v)
         /\ SwitchFrames(v) = SwitchFrames(w)
         /\ \A c : MirroredScopes(c, w) => MirroredScopes(c, v)
<1>1. /\ v \in Seq(Frames) /\ Len(v) = Len(w) /\ v[m] = g /\ Len(w) \in Nat
      /\ \A i \in 1..Len(w) : i # m => v[i] = w[i]
  <2> HIDE DEF Frames
  <2>. QED
    BY DEF Noted
<1>2. \A i \in 1..Len(w) : /\ v[i].kind = w[i].kind /\ v[i].left = w[i].left
                           /\ v[i].arg = w[i].arg /\ v[i].names = w[i].names
  BY <1>1 DEF Noted
<1> HIDE DEF Frames
<1>3. /\ Len(w) >= 1 => 1 \in 1..Len(w)
      /\ Len(w) >= 2 => 2 \in 1..Len(w)
      /\ Len(w) >= 3 => 3 \in 1..Len(w)
      /\ Len(w) > 2 => 3 \in 1..Len(w)
      /\ \A i \in 4..Len(w) : i \in 1..Len(w)
  BY <1>1
<1>4. Shape(w) => Shape(v)
  BY <1>1, <1>2, <1>3 DEF Shape
<1>5. ScopeFrames(v) = ScopeFrames(w) /\ SwitchFrames(v) = SwitchFrames(w)
  BY <1>1, <1>2, <1>3 DEF ScopeFrames, SwitchFrames
<1>6. ASSUME NEW c, MirroredScopes(c, w) PROVE MirroredScopes(c, v)
  <2>1. \A i \in ScopeFrames(w) : NamesOf(v, i) = NamesOf(w, i)
    <3>1. \A i \in ScopeFrames(w) : i \in 1..Len(w)
      BY DEF ScopeFrames
    <3>. QED
      BY <1>1, <1>2, <1>3, <3>1 DEF NamesOf
  <2>2. [i \in ScopeFrames(w) |-> NamesOf(v, i)] = [i \in ScopeFrames(w) |-> NamesOf(w, i)]
    BY <2>1
  <2>. QED
    BY <1>5, <1>6, <2>2, Zenon DEF MirroredScopes
<1>. QED
  BY <1>1, <1>4, <1>5, <1>6

\* The label of a statement is noted in the function and in the context.
LEMMA LabelEnds ==
  ASSUME Between(ctx, walk), ~ctx.failed, walk # << >>, LabelDone
  PROVE  StepOK
<1> DEFINE w == Returned
           e == Clear
           l == Current.arg
           g == [w[2] EXCEPT !.labels = @ \cup {l}]
           v == [w EXCEPT ![2] = g]
           c == AddIdlabel(e, l)
<1>1. Current.kind = "label" /\ Top \in Nat /\ Shape(walk) /\ walk \in Seq(Frames)
      /\ e \in Context /\ Quiet(ctx, e) /\ Mirrored(e, walk) /\ ctx \in Context
  BY Start DEF LabelDone, Ends
<1>2. Top >= 4
  BY <1>1, StatementAbove
<1>3. /\ w \in Seq(Frames) /\ Len(w) >= 3 /\ Shape(w) /\ Len(w) \in Nat
      /\ \A i \in 1..Len(w) : w[i] = walk[i]
      /\ Current \in Frames /\ walk = Append(w, Current) /\ FrameFits(Current)
  BY <1>2, ReturnedFacts
<1>4. Mirrored(e, w) /\ l \in Labels
  <2> DEFINE f == Current
  <2>1. f \in Frames /\ f.kind = "label" /\ walk = Append(w, f) /\ f.arg \in Labels
    BY <1>1, <1>3 DEF FrameFits
  <2> HIDE DEF w, f, e
  <2>2. f.kind \notin {"for", "block", "switch"}
    BY <2>1
  <2>3. Mirrored(e, w)
    BY <1>1, <1>3, <2>1, <2>2, PlainMore
  <2>. QED
    BY <2>1, <2>3 DEF f
<1>5. Innermost(walk, "function") = 2
  <2>1. /\ 2 \in DOMAIN walk /\ walk[2].kind = "function"
        /\ \A j \in DOMAIN walk : walk[j].kind = "function" => j = 2
    <3> DEFINE n == Len(walk)
    <3>1. n \in Nat /\ n >= 4 /\ DOMAIN walk = 1..n
      BY <1>1, <1>2 DEF Top
    <3>2. /\ walk[1].kind = "unit" /\ walk[2].kind = "function" /\ walk[3].kind = "block"
          /\ \A i \in 4..n : walk[i].kind # "function"
      BY <1>1, <3>1 DEF Shape
    <3> HIDE DEF n
    <3>3. \A j \in 1..n : j = 1 \/ j = 2 \/ j = 3 \/ j \in 4..n
      BY <3>1
    <3>. QED
      BY <3>1, <3>2, <3>3
  <2> DEFINE P(i) == walk[i].kind = "function"
                       /\ \A j \in DOMAIN walk : walk[j].kind = "function" => j <= i
  <2>2. P(2) /\ \A i \in DOMAIN walk : P(i) => i = 2
    BY <2>1
  <2> HIDE DEF P
  <2>3. (CHOOSE i \in DOMAIN walk : P(i)) = 2
    BY <2>1, <2>2
  <2>. QED
    BY <2>3 DEF Innermost, P
<1>6. ctx' = c /\ walk' = v
  BY <1>5 DEF LabelDone, Leave
<1>7. w[2] \in Frames /\ 2 \in 1..Len(w)
  <2> HIDE DEF w, Frames
  <2>. QED
    BY <1>3
<1>8. Noted(w, 2, g, v) /\ g.labels = w[2].labels \cup {l} /\ g.visited = w[2].visited
      /\ g.refused = w[2].refused /\ g.count = w[2].count
  <2> DEFINE x == w[2]
  <2>1. /\ g \in Frames /\ g.kind = x.kind /\ g.left = x.left /\ g.arg = x.arg
        /\ g.names = x.names /\ g.labels = x.labels \cup {l} /\ g.visited = x.visited
        /\ g.refused = x.refused /\ g.count = x.count
    <3> HIDE DEF w, l
    <3>1. x \in Frames /\ l \in Labels
      BY <1>4, <1>7
    <3> HIDE DEF x
    <3>2. g = [x EXCEPT !.labels = @ \cup {l}]
      BY DEF x
    <3>. QED
      BY <3>1, <3>2 DEF Frames
  <2> HIDE DEF g, w
  <2>. QED
    BY <1>3, <1>7, <2>1 DEF Noted
<1> HIDE DEF g, v, w, l, e
<1>9. /\ v \in Seq(Frames) /\ Len(v) = Len(w) /\ v[2] = g /\ Shape(v)
      /\ \A i \in 1..Len(w) : i # 2 => v[i] = w[i]
      /\ SwitchFrames(v) = SwitchFrames(w)
      /\ MirroredScopes(e, w) => MirroredScopes(e, v)
  BY <1>3, <1>8, NotedFacts
<1>10. /\ c \in Context /\ c.scopes = e.scopes /\ c.fake = e.fake /\ c.ret = e.ret
       /\ c.labels = e.labels \cup {l} /\ c.switches = e.switches /\ c.nextId = e.nextId
  BY <1>1, <1>4 DEF AddIdlabel, Context
<1> HIDE DEF c
<1>11. Mirrored(c, v)
  <2>1. MirroredScopes(c, v)
    <3>1. Declared(c) = Declared(e)
      BY <1>10 DEF Declared, Depth
    <3>. QED
      BY <1>4, <1>9, <3>1 DEF Mirrored, MirroredScopes
  <2>2. \A i \in SwitchFrames(w) : i \in 1..Len(w) /\ i # 2 /\ v[i] = w[i]
    <3>1. \A i \in SwitchFrames(w) : i \in 1..Len(w) /\ w[i].kind = "switch"
      BY DEF SwitchFrames
    <3>2. w[2].kind = "function"
      BY <1>3 DEF Shape
    <3>. QED
      BY <1>9, <3>1, <3>2
  <2>3. MirroredSwitches(c, v)
    <3>1. [i \in SwitchFrames(w) |-> LabelsOf(v[i])] = [i \in SwitchFrames(w) |-> LabelsOf(w[i])]
      BY <2>2
    <3>. QED
      BY <1>4, <1>9, <1>10, <3>1, Zenon DEF Mirrored, MirroredSwitches
  <2>4. MirroredFunction(c, v)
    <3>1. Len(w) >= 2 /\ Len(w) # 2
      BY <1>3
    <3>2. MirroredFunction(e, w)
      BY <1>4 DEF Mirrored
    <3>. QED
      BY <1>8, <1>9, <1>10, <3>1, <3>2 DEF MirroredFunction
  <2>5. LabelsCounted(v)
    BY <1>4, <1>9, <2>2 DEF Mirrored, LabelsCounted
  <2>. QED
    BY <2>1, <2>3, <2>4, <2>5 DEF Mirrored
<1>12. TagStep(ctx, c)
  <2>1. c.scopes = ctx.scopes /\ c.nextId = ctx.nextId
    BY <1>1, <1>10 DEF Quiet
  <2>2. IdsUnique(ctx) => IdsUnique(c)
    BY <2>1 DEF IdsUnique, Depth
  <2>. QED
    BY <1>1, <2>1, <2>2, SameStep
<1>. QED
  BY <1>6, <1>9, <1>10, <1>11, <1>12 DEF Between, StepOK

\* The switch whose label is visited is the last one of the walk.
LEMMA InnermostSwitch ==
  ASSUME NEW w \in Seq(Frames), NEW c \in Context, Mirrored(c, w), InSwitch(c),
         NEW m, m = Innermost(w, "switch")
  PROVE  /\ m \in SwitchFrames(w) /\ SwitchFrames(w) \in SUBSET (1..m) /\ m \in 1..Len(w)
         /\ Len(c.switches) \in Nat \ {0}
         /\ c.switches[Len(c.switches)] = LabelsOf(w[m])
<1> HIDE DEF Frames
<1>1. Len(w) \in Nat /\ DOMAIN w = 1..Len(w) /\ SwitchFrames(w) \in SUBSET (1..Len(w))
  BY FramesOf
<1> DEFINE O == SwitchFrames(w)
           a == [i \in O |-> LabelsOf(w[i])]
<1>2. Mirrors(O, a, c.switches)
  BY Zenon DEF Mirrored, MirroredSwitches
<1>3. O # {}
  <2>1. c.switches \in Seq(Labeled) /\ c.switches # << >>
    BY DEF Context, InSwitch
  <2> HIDE DEF Labeled, O
  <2>2. Len(c.switches) # 0
    BY <2>1
  <2>3. Len(c.switches) = Cardinality(O)
    BY <1>2 DEF Mirrors
  <2>. QED
    BY <2>2, <2>3, FS_EmptySet
<1>4. m \in O /\ \A j \in O : j <= m
  <2>1. O \in SUBSET (0..Len(w))
    BY <1>1
  <2> HIDE DEF O
  <2>2. \E i \in O : \A j \in O : j <= i
    BY <1>1, <1>3, <2>1, Greatest
  <2>3. \A i : i \in O <=> i \in DOMAIN w /\ w[i].kind = "switch"
    BY <1>1 DEF SwitchFrames, O
  <2> DEFINE P(i) == w[i].kind = "switch" /\ \A j \in DOMAIN w : w[j].kind = "switch" => j <= i
  <2>4. \E i \in DOMAIN w : P(i)
    BY <2>2, <2>3
  <2>5. m = CHOOSE i \in DOMAIN w : P(i)
    BY DEF Innermost
  <2>6. m \in DOMAIN w /\ P(m)
    <3> HIDE DEF P
    <3>. QED
      BY <2>4, <2>5
  <2>. QED
    BY <2>3, <2>6
<1>5. O \in SUBSET (1..m) /\ m \in Nat /\ m >= 1
  BY <1>1, <1>4
<1> DEFINE n == m - 1
<1>6. n \in Nat /\ m = n + 1
  BY <1>5
<1> HIDE DEF n, a, O
<1>7. Len(c.switches) \in Nat \ {0} /\ c.switches[Len(c.switches)] = a[n + 1]
  BY <1>2, <1>4, <1>5, <1>6, MirrorsLast
<1>8. a[m] = LabelsOf(w[m])
  BY <1>4 DEF a, O
<1>. QED
  BY <1>1, <1>4, <1>5, <1>6, <1>7, <1>8 DEF O

\* The label of a case is noted in the innermost switch and in the context.
SawsMore(w, c, x, refused, d) ==
    /\ w \in Seq(Frames) /\ Len(w) >= 3 /\ Shape(w)
    /\ c \in Context /\ Mirrored(c, w) /\ InSwitch(c)
    /\ x \in CaseValues \cup {"default"}
    /\ refused <=> x \in w[Innermost(w, "switch")].visited
    /\ d \in Context /\ d.scopes = c.scopes
    /\ d.fake = c.fake /\ d.ret = c.ret /\ d.labels = c.labels
    /\ Len(d.switches) = Len(c.switches)
    /\ \A i \in 1..Len(c.switches) : i < Len(c.switches) => d.switches[i] = c.switches[i]
    /\ d.switches[Len(d.switches)] = LabelsOf(Seen(w[Innermost(w, "switch")], x, refused))

\* A case label noted in the innermost switch of the walk and in the last switch of
\* the context keeps them mirrors of each other.
LEMMA SawMirrors ==
  ASSUME NEW w, NEW c, NEW x, NEW refused \in BOOLEAN, NEW d, SawsMore(w, c, x, refused, d),
         NEW v, v = SawCase(w, x, refused)
  PROVE  v \in Seq(Frames) /\ Shape(v) /\ Mirrored(d, v)
<1> DEFINE m == Innermost(w, "switch")
           g == Seen(w[m], x, refused)
           O == SwitchFrames(w)
<1>1. /\ w \in Seq(Frames) /\ c \in Context /\ Mirrored(c, w) /\ InSwitch(c) /\ Shape(w)
      /\ Len(w) >= 3 /\ Len(w) \in Nat
  BY FramesOf DEF SawsMore
<1>2. /\ m \in O /\ O \in SUBSET (1..m) /\ m \in 1..Len(w)
      /\ Len(c.switches) \in Nat \ {0}
      /\ c.switches[Len(c.switches)] = LabelsOf(w[m])
  BY <1>1, InnermostSwitch
<1>3. w[m] \in Frames
  <2> HIDE DEF Frames, m
  <2>. QED
    BY <1>1, <1>2
<1>4. /\ g \in Frames /\ g.kind = w[m].kind /\ g.left = w[m].left /\ g.arg = w[m].arg
      /\ g.names = w[m].names /\ g.labels = w[m].labels
      /\ g.visited = w[m].visited \cup {x} /\ g.count = w[m].count + 1
      /\ g.refused = w[m].refused + (IF refused THEN 1 ELSE 0)
  <2> DEFINE y == w[m]
  <2>1. y \in Frames /\ x \in CaseValues \cup {"default"}
    BY <1>3 DEF SawsMore
  <2> HIDE DEF y, m
  <2>2. /\ Seen(y, x, refused) \in Frames
        /\ Seen(y, x, refused).kind = y.kind /\ Seen(y, x, refused).left = y.left
        /\ Seen(y, x, refused).arg = y.arg /\ Seen(y, x, refused).names = y.names
        /\ Seen(y, x, refused).labels = y.labels
        /\ Seen(y, x, refused).visited = y.visited \cup {x}
        /\ Seen(y, x, refused).count = y.count + 1
        /\ Seen(y, x, refused).refused = y.refused + (IF refused THEN 1 ELSE 0)
    <3> DEFINE k == IF refused THEN 1 ELSE 0
               V == y.visited \cup {x}
               C == y.count + 1
               R == y.refused + k
    <3>1. V \in SUBSET (CaseValues \cup {"default"}) /\ C \in Nat /\ R \in Nat
      BY <2>1 DEF Frames
    <3>2. Seen(y, x, refused) = [y EXCEPT !.visited = V, !.count = C, !.refused = R]
      BY Zenon DEF Seen
    <3> HIDE DEF k, V, C, R
    <3>3. /\ Seen(y, x, refused) \in Frames
          /\ Seen(y, x, refused).kind = y.kind /\ Seen(y, x, refused).left = y.left
          /\ Seen(y, x, refused).arg = y.arg /\ Seen(y, x, refused).names = y.names
          /\ Seen(y, x, refused).labels = y.labels
          /\ Seen(y, x, refused).visited = V /\ Seen(y, x, refused).count = C
          /\ Seen(y, x, refused).refused = R
      BY <2>1, <3>1, <3>2 DEF Frames
    <3>. QED
      BY <3>3, Zenon DEF k, V, C, R
  <2>. QED
    BY <2>2, Zenon DEF y
<1>5. Noted(w, m, g, v)
  <2>1. v = [w EXCEPT ![m] = g]
    BY Zenon DEF SawCase
  <2> HIDE DEF g, m
  <2>. QED
    BY <1>1, <1>2, <1>4, <2>1 DEF Noted
<1> HIDE DEF g, m
<1>6. /\ v \in Seq(Frames) /\ Len(v) = Len(w) /\ v[m] = g /\ Shape(v)
      /\ \A i \in 1..Len(w) : i # m => v[i] = w[i]
      /\ SwitchFrames(v) = O
      /\ MirroredScopes(c, w) => MirroredScopes(c, v)
  BY <1>1, <1>5, NotedFacts
<1>7. m # 1 /\ m # 2
  <2>1. w[m].kind = "switch"
    BY <1>2 DEF SwitchFrames
  <2>. QED
    BY <1>1, <2>1 DEF Shape
<1>8. /\ d.scopes = c.scopes /\ d.fake = c.fake /\ d.ret = c.ret /\ d.labels = c.labels
      /\ Len(d.switches) = Len(c.switches)
      /\ \A i \in 1..Len(c.switches) : i < Len(c.switches) => d.switches[i] = c.switches[i]
      /\ d.switches[Len(d.switches)] = LabelsOf(g)
      /\ refused <=> x \in w[m].visited
  BY DEF SawsMore, g, m
<1>9. MirroredScopes(d, v)
  <2>1. Declared(d) = Declared(c)
    BY <1>8 DEF Declared, Depth
  <2>. QED
    BY <1>1, <1>6, <2>1 DEF Mirrored, MirroredScopes
<1>10. MirroredSwitches(d, v)
  <2> DEFINE a == [i \in O |-> LabelsOf(w[i])]
             b == [i \in O |-> LabelsOf(v[i])]
             n == m - 1
  <2>1. Mirrors(O, a, c.switches)
    BY <1>1, Zenon DEF Mirrored, MirroredSwitches
  <2>2. (\A i \in O : i # m => b[i] = a[i]) /\ b[m] = LabelsOf(g)
    <3>1. \A i \in O : i \in 1..Len(w)
      BY DEF SwitchFrames
    <3>. QED
      BY <1>2, <1>6, <3>1
  <2>3. n \in Nat /\ m = n + 1
    BY <1>1, <1>2
  <2> HIDE DEF a, b, n, O
  <2>4. Retopped(n, O, a, c.switches, b, d.switches)
    BY <1>2, <1>8, <2>2, <2>3 DEF Retopped
  <2>5. Mirrors(O, b, d.switches)
    BY <2>1, <2>4, MirrorsTop
  <2>. QED
    BY <1>6, <2>5, Zenon DEF MirroredSwitches, b
<1>11. MirroredFunction(d, v)
  <2>1. Len(w) >= 2 /\ Len(w) # 2 /\ 2 \in 1..Len(w)
    <3> DEFINE n == Len(w)
    <3>1. n \in Nat /\ n >= 3
      BY <1>1
    <3> HIDE DEF n
    <3>2. n >= 2 /\ n # 2 /\ 2 \in 1..n
      BY <3>1
    <3>. QED
      BY <3>2 DEF n
  <2>2. MirroredFunction(c, w)
    BY <1>1 DEF Mirrored
  <2>. QED
    BY <1>6, <1>7, <1>8, <2>1, <2>2 DEF MirroredFunction
<1>12. LabelsCounted(v)
  <2>1. /\ IsFiniteSet(w[m].visited)
        /\ w[m].count = w[m].refused + Cardinality(w[m].visited)
    BY <1>1, <1>2 DEF Mirrored, LabelsCounted
  <2> DEFINE old == w[m].visited
             now == g.visited
             card == Cardinality(old)
  <2>2. card \in Nat /\ w[m].count \in Nat /\ w[m].refused \in Nat
    BY <1>3, <2>1, FS_CardinalityType DEF Frames
  <2>3. IsFiniteSet(now) /\ Cardinality(now) = card + (IF refused THEN 0 ELSE 1)
    <3>1. now = old \cup {x}
      BY <1>4
    <3> HIDE DEF old, now, card
    <3>2. CASE refused
      <4>1. now = old
        BY <1>8, <3>1, <3>2 DEF old
      <4>. QED
        BY <2>1, <2>2, <3>2, <4>1 DEF old, card
    <3>3. CASE ~refused
      <4>1. x \notin old
        BY <1>8, <3>3 DEF old
      <4>2. IsFiniteSet(old)
        BY <2>1 DEF old
      <4>3. IsFiniteSet(now) /\ Cardinality(now) = Cardinality(old) + 1
        BY <3>1, <4>1, <4>2, FS_AddElement
      <4>. QED
        BY <3>3, <4>3 DEF card
    <3>. QED
      BY <3>2, <3>3
  <2>4. g.count = g.refused + Cardinality(g.visited)
    BY <1>4, <2>1, <2>2, <2>3
  <2>5. \A i \in O : i \in 1..Len(w)
    BY DEF SwitchFrames
  <2>. QED
    BY <1>1, <1>6, <2>3, <2>4, <2>5 DEF Mirrored, LabelsCounted
<1>. QED
  BY <1>6, <1>9, <1>10, <1>11, <1>12 DEF Mirrored

\* Labels with one more case, as an EXCEPT.
LEMMA CasesMore ==
  ASSUME NEW f \in Labeled, NEW h \in Labeled, NEW x, h.cases = f.cases \cup {x},
         h.default = f.default
  PROVE  h = [f EXCEPT !.cases = @ \cup {x}]
BY DEF Labeled

\* What a case label does to the labels of the innermost switch: it is reported
\* if it is one of them already, and one of them otherwise.
LEMMA CaseLabelFacts ==
  ASSUME NEW c \in Context, c.switches # << >>, c.reports = << >>, NEW f,
         f.visited \in SUBSET (CaseValues \cup {"default"}),
         c.switches[Len(c.switches)] = LabelsOf(f), NEW x \in CaseValues,
         NEW d, d = AddCaselabel(c, x), NEW h, h.visited = f.visited \cup {x}
  PROVE  /\ d \in Context /\ d.scopes = c.scopes /\ d.nextId = c.nextId
         /\ d.fake = c.fake /\ d.ret = c.ret /\ d.labels = c.labels
         /\ Len(d.switches) = Len(c.switches)
         /\ \A i \in 1..Len(c.switches) : i < Len(c.switches) => d.switches[i] = c.switches[i]
         /\ (d.reports # << >>) <=> x \in f.visited
         /\ d.switches[Len(d.switches)] = LabelsOf(h)
<1> DEFINE q == c.switches
           n == Len(q)
<1>1. q \in Seq(Labeled) /\ n \in Nat /\ n >= 1 /\ n \in 1..n
  <2>1. q \in Seq(Labeled) /\ q # << >>
    BY DEF Context
  <2> HIDE DEF Labeled, q
  <2>. QED
    BY <2>1
<1>2. x # "default"
  BY StatementsAssumption DEF ValuesAssumption
<1>3. LabelsOf(f).cases = f.visited \ {"default"} /\ LabelsOf(h).cases = h.visited \ {"default"}
      /\ LabelsOf(f) \in Labeled /\ LabelsOf(h) \in Labeled
      /\ LabelsOf(h) = [LabelsOf(f) EXCEPT !.cases = @ \cup {x}]
  <2> DEFINE dflt == "default" \in f.visited
  <2>1. ("default" \in h.visited) = dflt
    BY <1>2
  <2>2. h.visited \ {"default"} = (f.visited \ {"default"}) \cup {x}
    BY <1>2
  <2>3. LabelsOf(f) = [cases |-> f.visited \ {"default"}, default |-> dflt]
    BY Zenon DEF LabelsOf
  <2>4. LabelsOf(h) = [cases |-> h.visited \ {"default"}, default |-> dflt]
    BY <2>1, Zenon DEF LabelsOf
  <2>5. dflt \in BOOLEAN /\ f.visited \ {"default"} \in SUBSET CaseValues
        /\ h.visited \ {"default"} \in SUBSET CaseValues
    BY <1>2
  <2> DEFINE old == f.visited \ {"default"}
             now == h.visited \ {"default"}
  <2>6. /\ now = old \cup {x} /\ dflt \in BOOLEAN
        /\ old \in SUBSET CaseValues /\ now \in SUBSET CaseValues
        /\ LabelsOf(f) = [cases |-> old, default |-> dflt]
        /\ LabelsOf(h) = [cases |-> now, default |-> dflt]
    BY <2>2, <2>3, <2>4, <2>5
  <2> HIDE DEF dflt, old, now
  <2>7. /\ LabelsOf(f).cases = old /\ LabelsOf(h).cases = now
        /\ LabelsOf(f) \in Labeled /\ LabelsOf(h) \in Labeled
        /\ LabelsOf(h) = [LabelsOf(f) EXCEPT !.cases = @ \cup {x}]
    <3>1. LabelsOf(f).cases = old /\ LabelsOf(h).cases = now
      BY <2>6
    <3>2. LabelsOf(f) \in Labeled /\ LabelsOf(h) \in Labeled
      BY <2>6 DEF Labeled
    <3>3. LabelsOf(h).cases = LabelsOf(f).cases \cup {x}
      BY <2>6, <3>1
    <3>4. LabelsOf(h).default = LabelsOf(f).default
      BY <2>6
    <3>5. LabelsOf(h) = [LabelsOf(f) EXCEPT !.cases = @ \cup {x}]
      BY <3>2, <3>3, <3>4, CasesMore
    <3>. QED
      BY <3>1, <3>2, <3>5
  <2>. QED
    BY <2>7 DEF old, now
<1>4. CASE x \in f.visited
  <2> DEFINE error == "DuplicateCaseLabel"
  <2>1. d = Report(c, error)
    BY <1>2, <1>3, <1>4 DEF AddCaselabel
  <2>2. error \in Errors
    BY DEF Errors
  <2> HIDE DEF error
  <2>3. Quiet(c, d) /\ d.reports = Append(c.reports, error)
    BY <2>1, <2>2, ReportFacts, QuietReport
  <2>4. d.reports # << >>
    BY <2>3
  <2>5. LabelsOf(h) = LabelsOf(f)
    <3>1. h.visited = f.visited
      BY <1>4
    <3>. QED
      BY <3>1 DEF LabelsOf
  <2>. QED
    BY <1>4, <2>3, <2>4, <2>5 DEF Quiet, SameFunction
<1>5. CASE x \notin f.visited
  <2> DEFINE e == LabelsOf(h)
             r == [q EXCEPT ![n] = e]
  <2>1. r \in Seq(Labeled) /\ Len(r) = n /\ r[n] = e
        /\ \A i \in 1..n : i < n => r[i] = q[i]
    <3> HIDE DEF Labeled, e, q, n
    <3>1. e \in Labeled /\ n = Len(q)
      BY <1>3 DEF e, n
    <3>. QED
      BY <1>1, <3>1
  <2>2. d = [c EXCEPT !.switches = r]
    <3>1. x \notin q[n].cases
      BY <1>3, <1>5
    <3>2. d = [c EXCEPT !.switches[n].cases = @ \cup {x}]
      BY <3>1 DEF AddCaselabel
    <3>3. [q[n] EXCEPT !.cases = @ \cup {x}] = e
      BY <1>3
    <3>. QED
      BY <3>2, <3>3
  <2> HIDE DEF r
  <2>3. /\ d \in Context /\ d.scopes = c.scopes /\ d.nextId = c.nextId
        /\ d.fake = c.fake /\ d.ret = c.ret /\ d.labels = c.labels
        /\ d.switches = r /\ d.reports = c.reports
    BY <2>1, <2>2 DEF Context
  <2>. QED
    BY <1>5, <2>1, <2>3
<1>. QED
  BY <1>4, <1>5

\* The same of addDefaultlabel().
LEMMA DefaultLabelFacts ==
  ASSUME NEW c \in Context, c.switches # << >>, c.reports = << >>, NEW f,
         f.visited \in SUBSET (CaseValues \cup {"default"}),
         c.switches[Len(c.switches)] = LabelsOf(f),
         NEW d, d = AddDefaultlabel(c), NEW h, h.visited = f.visited \cup {"default"}
  PROVE  /\ d \in Context /\ d.scopes = c.scopes /\ d.nextId = c.nextId
         /\ d.fake = c.fake /\ d.ret = c.ret /\ d.labels = c.labels
         /\ Len(d.switches) = Len(c.switches)
         /\ \A i \in 1..Len(c.switches) : i < Len(c.switches) => d.switches[i] = c.switches[i]
         /\ (d.reports # << >>) <=> "default" \in f.visited
         /\ d.switches[Len(d.switches)] = LabelsOf(h)
<1> DEFINE q == c.switches
           n == Len(q)
<1>1. q \in Seq(Labeled) /\ n \in Nat /\ n >= 1 /\ n \in 1..n
  <2>1. q \in Seq(Labeled) /\ q # << >>
    BY DEF Context
  <2> HIDE DEF Labeled, q
  <2>. QED
    BY <2>1
<1>3. /\ LabelsOf(f).default <=> "default" \in f.visited
      /\ LabelsOf(f) \in Labeled /\ LabelsOf(h) \in Labeled
      /\ LabelsOf(h) = [LabelsOf(f) EXCEPT !.default = TRUE]
  <2> DEFINE dflt == "default" \in f.visited
             yes == TRUE
             old == f.visited \ {"default"}
  <2>1. ("default" \in h.visited) = yes
    OBVIOUS
  <2>2. h.visited \ {"default"} = old
    OBVIOUS
  <2>3. LabelsOf(f) = [cases |-> old, default |-> dflt]
    BY Zenon DEF LabelsOf
  <2>4. LabelsOf(h) = [cases |-> old, default |-> yes]
    BY <2>1, <2>2, Zenon DEF LabelsOf
  <2>5. dflt \in BOOLEAN /\ yes \in BOOLEAN /\ old \in SUBSET CaseValues
    OBVIOUS
  <2>6. LabelsOf(f).default = dflt
    BY <2>3
  <2>7. [LabelsOf(f) EXCEPT !.default = yes] = LabelsOf(h)
    <3> HIDE DEF dflt, yes, old
    <3>. QED
      BY <2>3, <2>4
  <2>8. LabelsOf(f) \in Labeled /\ LabelsOf(h) \in Labeled
    <3> HIDE DEF dflt, yes, old
    <3>. QED
      BY <2>3, <2>4, <2>5 DEF Labeled
  <2>. QED
    BY <2>6, <2>7, <2>8
<1>4. CASE "default" \in f.visited
  <2> DEFINE error == "DuplicateCaseLabel"
  <2>1. d = Report(c, error)
    BY <1>3, <1>4 DEF AddDefaultlabel
  <2>2. error \in Errors
    BY DEF Errors
  <2> HIDE DEF error
  <2>3. Quiet(c, d) /\ d.reports = Append(c.reports, error)
    BY <2>1, <2>2, ReportFacts, QuietReport
  <2>4. d.reports # << >>
    BY <2>3
  <2>5. LabelsOf(h) = LabelsOf(f)
    <3>1. h.visited = f.visited
      BY <1>4
    <3>. QED
      BY <3>1 DEF LabelsOf
  <2>. QED
    BY <1>4, <2>3, <2>4, <2>5 DEF Quiet, SameFunction
<1>5. CASE "default" \notin f.visited
  <2> DEFINE e == LabelsOf(h)
             r == [q EXCEPT ![n] = e]
  <2>1. r \in Seq(Labeled) /\ Len(r) = n /\ r[n] = e
        /\ \A i \in 1..n : i < n => r[i] = q[i]
    <3> HIDE DEF Labeled, e, q, n
    <3>1. e \in Labeled /\ n = Len(q)
      BY <1>3 DEF e, n
    <3>. QED
      BY <1>1, <3>1
  <2>2. d = [c EXCEPT !.switches = r]
    <3>1. ~q[n].default
      BY <1>3, <1>5
    <3>2. d = [c EXCEPT !.switches[n].default = TRUE]
      BY <3>1 DEF AddDefaultlabel
    <3>3. [q[n] EXCEPT !.default = TRUE] = e
      BY <1>3
    <3>. QED
      BY <3>2, <3>3
  <2> HIDE DEF r
  <2>3. /\ d \in Context /\ d.scopes = c.scopes /\ d.nextId = c.nextId
        /\ d.fake = c.fake /\ d.ret = c.ret /\ d.labels = c.labels
        /\ d.switches = r /\ d.reports = c.reports
    BY <2>1, <2>2 DEF Context
  <2>. QED
    BY <1>5, <2>1, <2>3
<1>. QED
  BY <1>4, <1>5

\* The label of a switch is visited after its statement, unless no switch is open.
LEMMA CaseEnds ==
  ASSUME Between(ctx, walk), ~ctx.failed, walk # << >>, CaseDone \/ DefaultDone
  PROVE  StepOK
<1> DEFINE w == Returned
           e == Clear
           f == Current
           m == Innermost(w, "switch")
<1>1. /\ f.kind \in {"case", "default"} /\ walk \in Seq(Frames) /\ e.reports = << >>
      /\ e \in Context /\ Quiet(ctx, e) /\ Mirrored(e, walk) /\ ctx \in Context
  BY Start DEF CaseDone, DefaultDone, Ends
<1>2. /\ w \in Seq(Frames) /\ Len(w) >= 3 /\ Shape(w) /\ Len(w) \in Nat
      /\ f \in Frames /\ walk = Append(w, f) /\ FrameFits(f)
  BY <1>1, StatementAbove, ReturnedFacts
<1>3. Mirrored(e, w)
  <2> HIDE DEF w, f, e
  <2>1. f.kind \notin {"for", "block", "switch"}
    BY <1>1
  <2>. QED
    BY <1>1, <1>2, <2>1, PlainMore
<1>4. InSwitch(e) <=> InSwitch(ctx)
  BY <1>1 DEF InSwitch, Quiet, SameFunction
<1>5. CASE ~InSwitch(ctx)
  <2> DEFINE error == "IncompatibleTypes"
  <2>1. ctx' = Report(e, error) /\ walk' = Returned
    BY <1>5 DEF CaseDone, DefaultDone, Leave
  <2>2. error \in Errors
    BY DEF Errors
  <2> HIDE DEF error, e
  <2>3. Quiet(ctx, Report(e, error))
    BY <1>1, <2>2, QuietReport, QuietTwice
  <2>4. Current.kind \notin {"unit", "function", "block", "for", "switch"}
    BY <1>1
  <2>. QED
    BY <2>1, <2>3, <2>4, QuietEnd
<1>6. CASE InSwitch(ctx)
  <2>1. InSwitch(e) /\ e.switches # << >>
    BY <1>4, <1>6 DEF InSwitch
  <2>2. /\ m \in 1..Len(w) /\ e.switches[Len(e.switches)] = LabelsOf(w[m])
    BY <1>1, <1>2, <1>3, <2>1, InnermostSwitch
  <2>3. w[m] \in Frames /\ w[m].visited \in SUBSET (CaseValues \cup {"default"})
    <3>1. w[m] \in Frames
      <4> HIDE DEF w, m, Frames
      <4>. QED
        BY <1>2, <2>2
    <3>. QED
      BY <3>1 DEF Frames
  <2>4. PICK x \in CaseValues \cup {"default"}, c \in {AddCaselabel(e, f.arg), AddDefaultlabel(e)} :
           /\ ctx' = c /\ walk' = SawCase(w, x, c.reports # << >>)
           /\ \/ x \in CaseValues /\ c = AddCaselabel(e, x)
              \/ x = "default" /\ c = AddDefaultlabel(e)
    <3>1. CASE CaseDone
      <4>1. f.kind = "case" /\ f.arg \in CaseValues
        BY <1>2, <3>1 DEF FrameFits, CaseDone, Ends
      <4>2. /\ ctx' = AddCaselabel(e, f.arg)
            /\ walk' = SawCase(w, f.arg, AddCaselabel(e, f.arg).reports # << >>)
        BY <1>6, <3>1 DEF CaseDone, Leave
      <4> HIDE DEF w, e, f
      <4>. QED
        BY <4>1, <4>2
    <3>2. CASE DefaultDone
      <4>1. /\ ctx' = AddDefaultlabel(e)
            /\ walk' = SawCase(w, "default", AddDefaultlabel(e).reports # << >>)
        BY <1>6, <3>2 DEF DefaultDone, Leave
      <4> HIDE DEF w, e, f
      <4>. QED
        BY <4>1
    <3>. QED
      BY <3>1, <3>2
  <2> DEFINE refused == c.reports # << >>
             g == w[m]
             h == Seen(g, x, refused)
  <2>5. h.visited = g.visited \cup {x}
    <3> HIDE DEF refused, w, m
    <3>1. g \in Frames
      BY <2>3
    <3> HIDE DEF g
    <3>. QED
      BY <3>1 DEF Seen, Frames
  <2>6. /\ c \in Context /\ c.scopes = e.scopes /\ c.nextId = e.nextId
        /\ c.fake = e.fake /\ c.ret = e.ret /\ c.labels = e.labels
        /\ Len(c.switches) = Len(e.switches)
        /\ \A i \in 1..Len(e.switches) : i < Len(e.switches) => c.switches[i] = e.switches[i]
        /\ (c.reports # << >>) <=> x \in g.visited
        /\ c.switches[Len(c.switches)] = LabelsOf(h)
    <3>1. /\ e \in Context /\ e.switches # << >> /\ e.reports = << >>
          /\ g.visited \in SUBSET (CaseValues \cup {"default"})
          /\ e.switches[Len(e.switches)] = LabelsOf(g)
      BY <1>1, <2>1, <2>2, <2>3
    <3> HIDE DEF e, g, h, w, f, m
    <3>2. CASE x \in CaseValues /\ c = AddCaselabel(e, x)
      BY <2>5, <3>1, <3>2, CaseLabelFacts
    <3>3. CASE x = "default" /\ c = AddDefaultlabel(e)
      BY <2>5, <3>1, <3>3, DefaultLabelFacts
    <3>. QED
      BY <2>4, <3>2, <3>3
  <2> DEFINE v == SawCase(w, x, refused)
  <2>7. refused \in BOOLEAN
    OBVIOUS
  <2>8. SawsMore(w, e, x, refused, c)
    <3>1. refused <=> x \in g.visited
      BY <2>6
    <3> HIDE DEF w, e, refused
    <3>. QED
      BY <1>1, <1>2, <1>3, <2>1, <2>6, <3>1 DEF SawsMore
  <2> HIDE DEF refused
  <2>9. v \in Seq(Frames) /\ Shape(v) /\ Mirrored(c, v)
    <3> HIDE DEF w, e, v
    <3>1. v = SawCase(w, x, refused)
      BY DEF v
    <3>. QED
      BY <2>7, <2>8, <3>1, SawMirrors
  <2>10. TagStep(ctx, c)
    <3>1. c.scopes = ctx.scopes /\ c.nextId = ctx.nextId
      BY <1>1, <2>6 DEF Quiet
    <3>2. IdsUnique(ctx) => IdsUnique(c)
      BY <3>1 DEF IdsUnique, Depth
    <3>. QED
      BY <1>1, <3>1, <3>2, SameStep
  <2>11. ctx' = c /\ walk' = v
    BY <2>4 DEF refused
  <2>. QED
    BY <2>6, <2>9, <2>10, <2>11 DEF Between, StepOK
<1>. QED
  BY <1>5, <1>6

\* There is a scope while something is visited.
LEMMA SomeScope ==
  ASSUME NEW c \in Context, NEW w \in Seq(Frames), Len(w) >= 1, Mirrored(c, w)
  PROVE  Depth(c) >= 1
<1>1. Len(w) \in Nat /\ ScopeFrames(w) \in SUBSET (1..Len(w)) /\ 1 \in ScopeFrames(w)
  BY FramesOf DEF ScopeFrames
<1> DEFINE O == ScopeFrames(w)
<1>2. Len(Declared(c)) = Cardinality(O)
  BY DEF Mirrored, MirroredScopes, Mirrors
<1>3. Len(Declared(c)) = Depth(c) /\ Depth(c) \in Nat
  BY ContextFacts DEF Declared
<1> HIDE DEF O
<1>4. 1 \in O /\ O \in SUBSET (1..Len(w))
  BY <1>1 DEF O
<1>5. Cardinality(O) \in Nat /\ Rank(O, 1) \in 1..Cardinality(O)
  BY <1>1, <1>4, RankFacts
<1>. QED
  BY <1>2, <1>3, <1>5

\* The scope of a for or of a block of statements goes with it.
LEMMA ScopeEnds ==
  ASSUME Between(ctx, walk), ~ctx.failed, walk # << >>, Top >= 4,
         Current.kind \in {"for", "block"}, ctx' = LeaveScope(Clear), walk' = Returned
  PROVE  StepOK
<1> DEFINE w == Returned
           e == Clear
           f == Current
           c == LeaveScope(e)
<1>1. /\ walk \in Seq(Frames) /\ Top >= 1
      /\ e \in Context /\ Quiet(ctx, e) /\ Mirrored(e, walk) /\ ctx \in Context
  BY Start
<1>2. /\ w \in Seq(Frames) /\ Len(w) >= 3 /\ Shape(w) /\ f \in Frames /\ walk = Append(w, f)
  BY ReturnedFacts
<1>3. Depth(e) >= 1
  BY <1>1, SomeScope DEF Top
<1> HIDE DEF e, f, w
<1>4. /\ c \in Context /\ c.fake = e.fake /\ SameRest(e, c) /\ Depth(c) = Depth(e) - 1
      /\ \A i \in 1..Depth(c) : c.scopes[i] = e.scopes[i]
      /\ IdsUnique(e) => IdsUnique(c)
  BY <1>1, <1>3, LeaveScopeFacts
<1> HIDE DEF c
<1>5. Depth(e) = Depth(c) + 1 /\ Depth(c) \in Nat
  BY <1>1, <1>4, ContextFacts
<1>6. Mirrored(c, w)
  <2>1. f.kind \in {"for", "block"}
    BY DEF f
  <2>2. \A i \in 1..Depth(c) : DOMAIN e.scopes[i].decls = DOMAIN c.scopes[i].decls
    BY <1>4
  <2>3. SameFunction(c, e)
    BY <1>4 DEF SameFunction, SameRest
  <2>4. OneScope(w, f, c, e)
    BY <1>1, <1>2, <1>4, <1>5, <2>1, <2>2, <2>3 DEF OneScope
  <2>5. Mirrored(e, Append(w, f))
    BY <1>1, <1>2
  <2>. QED
    <3> DEFINE v == Append(w, f)
    <3>1. Mirrored(e, v) <=> Mirrored(c, w) /\ DOMAIN TopScope(e).decls = f.names
      BY <2>4, ScopeMore
    <3>. QED
      BY <2>5, <3>1
<1>7. TagStep(ctx, c)
  <2>1. ctx.scopes = e.scopes /\ (IdsUnique(ctx) => IdsUnique(e))
    BY <1>1, QuietStep DEF Quiet, TagStep
  <2>2. \A i \in 1..Depth(ctx) : i <= Depth(c) => c.scopes[i] = ctx.scopes[i]
    BY <1>4, <1>5, <2>1 DEF Depth
  <2>. QED
    BY <1>1, <1>4, <2>1, <2>2, SameStep
<1>8. ctx' = c /\ walk' = w
  BY DEF c, w, e
<1>. QED
  BY <1>2, <1>4, <1>6, <1>7, <1>8 DEF Between, StepOK

\* The end of a for statement leaves its scope.
LEMMA ForEnds ==
  ASSUME Between(ctx, walk), ~ctx.failed, walk # << >>, ForDone
  PROVE  StepOK
<1>1. Current.kind = "for" /\ ctx' = LeaveScope(Clear) /\ walk' = Returned
  BY DEF ForDone, Ends, Leave
<1>2. Top >= 4
  BY <1>1, StatementAbove
<1>. QED
  BY <1>1, <1>2, ScopeEnds

\* A sequence without its last member.
LEMMA Shorter ==
  ASSUME NEW S, NEW q \in Seq(S), Len(q) >= 1, NEW r, r = SubSeq(q, 1, Len(q) - 1)
  PROVE  r \in Seq(S) /\ Len(r) = Len(q) - 1 /\ \A i \in 1..Len(r) : r[i] = q[i]
<1> DEFINE n == Len(q) - 1
<1>1. n \in Nat /\ \A i \in 1..n : q[i] \in S
  OBVIOUS
<1> HIDE DEF n
<1>4. /\ n \in Int /\ n >= 0 /\ n - 1 + 1 = n
      /\ \A i \in 1..n : 1 + i - 1 = i
      /\ ~(1 <= n) => n = 0
  BY <1>1
<1>2. r = SubSeq(q, 1, n)
  BY DEF n
<1>3. /\ r \in Seq(S) /\ Len(r) = IF 1 <= n THEN n - 1 + 1 ELSE 0
      /\ \A i \in 1..(n - 1 + 1) : r[i] = q[1 + i - 1]
  BY <1>1, <1>2, <1>4, SubSeqProperties
<1>. QED
  BY <1>3, <1>4 DEF n

\* The labels of a switch go with it.
LEMMA SwitchEnds ==
  ASSUME Between(ctx, walk), ~ctx.failed, walk # << >>, SwitchDone
  PROVE  StepOK
<1> DEFINE w == Returned
           e == Clear
           f == Current
           c == LeaveSwitch(e)
           q == e.switches
           n == Len(q)
<1>1. /\ walk \in Seq(Frames) /\ f.kind = "switch" /\ ctx' = c /\ walk' = w
      /\ e \in Context /\ Quiet(ctx, e) /\ Mirrored(e, walk) /\ ctx \in Context
  BY Start DEF SwitchDone, Ends, Leave
<1>2. Top >= 4
  BY <1>1, StatementAbove
<1>3. /\ w \in Seq(Frames) /\ Len(w) >= 3 /\ Shape(w) /\ f \in Frames /\ walk = Append(w, f)
  BY <1>2, ReturnedFacts
<1>4. q \in Seq(Labeled) /\ n \in Nat /\ n >= 1
  <2>1. q \in Seq(Labeled)
    BY <1>1 DEF Context
  <2>2. Len(walk) \in Nat /\ Len(walk) \in SwitchFrames(walk)
        /\ SwitchFrames(walk) \in SUBSET (1..Len(walk))
    <3>1. Len(walk) \in Nat /\ Len(walk) \in 1..Len(walk)
          /\ SwitchFrames(walk) \in SUBSET (1..Len(walk))
      BY <1>1, <1>2, FramesOf DEF Top
    <3>. QED
      BY <1>1, <3>1 DEF SwitchFrames, Current, Top
  <2> DEFINE O == SwitchFrames(walk)
  <2>3. n = Cardinality(O)
    BY <1>1 DEF Mirrored, MirroredSwitches, Mirrors
  <2> HIDE DEF O, q, e
  <2>4. Cardinality(O) \in Nat /\ Rank(O, Len(walk)) \in 1..Cardinality(O)
    BY <2>2, RankFacts DEF O
  <2>. QED
    BY <2>1, <2>3, <2>4
<1> DEFINE r == SubSeq(q, 1, n - 1)
<1>5. /\ r \in Seq(Labeled) /\ n = Len(r) + 1 /\ \A i \in 1..Len(r) : q[i] = r[i]
  <2>1. q \in Seq(Labeled) /\ Len(q) >= 1 /\ r = SubSeq(q, 1, Len(q) - 1)
    BY <1>4
  <2> HIDE DEF Labeled, q, r
  <2>2. r \in Seq(Labeled) /\ Len(r) = Len(q) - 1 /\ \A i \in 1..Len(r) : r[i] = q[i]
    BY <2>1, Shorter
  <2>. QED
    BY <1>4, <2>2
<1>6. /\ c \in Context /\ c.switches = r /\ c.scopes = e.scopes /\ c.nextId = e.nextId
      /\ c.fake = e.fake /\ c.ret = e.ret /\ c.labels = e.labels
  <2>1. c = [e EXCEPT !.switches = r]
    BY DEF LeaveSwitch
  <2> HIDE DEF c, r, e, q
  <2>. QED
    BY <1>1, <1>5, <2>1 DEF Context
<1> HIDE DEF c, r, e, w, f
<1>7. Mirrored(c, w)
  <2>1. /\ w \in Seq(Frames) /\ f \in Frames /\ Len(w) >= 3 /\ f.kind = "switch"
        /\ c \in Context /\ e \in Context /\ e.scopes = c.scopes
        /\ e.fake = c.fake /\ e.ret = c.ret /\ e.labels = c.labels
        /\ Len(e.switches) = Len(c.switches) + 1
        /\ \A i \in 1..Len(c.switches) : e.switches[i] = c.switches[i]
    BY <1>1, <1>3, <1>5, <1>6
  <2>2. walk = Append(w, f)
    BY <1>3
  <2>3. Mirrored(e, walk) <=>
            /\ Mirrored(c, w)
            /\ e.switches[Len(e.switches)] = LabelsOf(f)
            /\ IsFiniteSet(f.visited) /\ f.count = f.refused + Cardinality(f.visited)
    BY <2>1, <2>2, SwitchMore, Zenon
  <2>. QED
    BY <1>1, <2>3
<1>8. TagStep(ctx, c)
  <2>1. c.scopes = ctx.scopes /\ c.nextId = ctx.nextId
    BY <1>1, <1>6 DEF Quiet
  <2>2. IdsUnique(ctx) => IdsUnique(c)
    BY <2>1 DEF IdsUnique, Depth
  <2>. QED
    BY <1>1, <2>1, <2>2, SameStep
<1>. QED
  BY <1>1, <1>3, <1>6, <1>7, <1>8 DEF Between, StepOK

------------------------------------------------------------------------------
(* Declarations, functions and units *)

\* Up to which frame the walk goes tells what the last one is.
LEMMA LastKind ==
  ASSUME NEW w \in Seq(Frames), Shape(w), Len(w) >= 1
  PROVE  /\ w[Len(w)].kind = "unit" => Len(w) = 1
         /\ w[Len(w)].kind = "function" => Len(w) = 2
         /\ w[Len(w)].kind = "block" => Len(w) >= 3
<1> DEFINE n == Len(w)
<1>1. n \in Nat /\ n >= 1
  BY FramesOf
<1>2. /\ w[1].kind = "unit"
      /\ n >= 2 => w[2].kind = "function"
      /\ n >= 3 => w[3].kind = "block"
      /\ n >= 4 => w[n].kind \notin {"unit", "function"}
  <2>1. n >= 4 => n \in 4..n
    BY <1>1
  <2>. QED
    BY <1>1, <2>1 DEF Shape
<1> HIDE DEF n
<1>3. n = 1 \/ n = 2 \/ n = 3 \/ n >= 4
  BY <1>1
<1>4. /\ w[n].kind = "unit" => n = 1
      /\ w[n].kind = "function" => n = 2
      /\ w[n].kind = "block" => n >= 3
  BY <1>1, <1>2, <1>3
<1>. QED
  BY <1>4 DEF n

\* The block of a function gives back what its parameters came with; the scope
\* goes, and the function is open until its visit ends.
LEMMA BodyEnds ==
  ASSUME Between(ctx, walk), ~ctx.failed, walk # << >>, Top = 3,
         ctx' = LeaveScope(Clear), walk' = Returned
  PROVE  StepOK
<1> DEFINE w == Returned
           e == Clear
           c == LeaveScope(e)
<1>1. /\ walk \in Seq(Frames) /\ Shape(walk) /\ Len(walk) = 3
      /\ e \in Context /\ Quiet(ctx, e) /\ Mirrored(e, walk) /\ ctx \in Context
  BY Start DEF Top
<1>2. w \in Seq(Frames) /\ Len(w) = 2 /\ w[1] = walk[1] /\ w[2] = walk[2]
  <2>1. w = SubSeq(walk, 1, Len(walk) - 1)
    BY DEF Returned, Top
  <2> HIDE DEF w
  <2>2. w \in Seq(Frames) /\ Len(w) = Len(walk) - 1 /\ \A i \in 1..Len(w) : w[i] = walk[i]
    BY <1>1, <2>1, FramesLess
  <2>. QED
    BY <1>1, <2>2
<1> HIDE DEF e, w
<1>3. Shape(w) /\ w[2].left = 0
  <2>1. /\ walk[1].kind = "unit" /\ walk[1].left = 0
        /\ walk[2].kind = "function" /\ walk[2].left = 0
    BY <1>1 DEF Shape
  <2>2. \A i \in 1..2 : i = 1 \/ i = 2
    OBVIOUS
  <2>3. 4..2 = {}
    OBVIOUS
  <2>. QED
    BY <1>2, <2>1, <2>2, <2>3 DEF Shape
<1>4. /\ DOMAIN e.scopes[1].decls = walk[1].names /\ Depth(e) = 2
      /\ Len(e.switches) = 0 /\ MirroredFunction(e, walk)
  <2>1. HasScope(walk)
    BY <1>1 DEF HasScope
  <2>2. Len(walk) \in 1..3
    BY <1>1
  <2>. QED
    BY <1>1, <2>1, <2>2, Outside
<1>5. Depth(e) >= 1
  BY <1>4
<1>6. /\ c \in Context /\ c.fake = e.fake /\ SameRest(e, c) /\ Depth(c) = Depth(e) - 1
      /\ \A i \in 1..Depth(c) : c.scopes[i] = e.scopes[i]
      /\ IdsUnique(e) => IdsUnique(c)
  BY <1>1, <1>5, LeaveScopeFacts
<1> HIDE DEF c
<1>7. Depth(c) = 1 /\ c.scopes[1] = e.scopes[1]
  BY <1>4, <1>6
<1>8. MirroredFunction(c, w)
  BY <1>1, <1>2, <1>3, <1>4, <1>6 DEF MirroredFunction, SameRest
<1>9. Mirrored(c, w)
  <2>1. ~HasScope(w) /\ Len(w) \in 1..3
    BY <1>2, <1>3 DEF HasScope
  <2>2. DOMAIN c.scopes[1].decls = w[1].names /\ Depth(c) = 1 /\ Len(c.switches) = 0
    BY <1>2, <1>4, <1>6, <1>7 DEF SameRest
  <2>. QED
    BY <1>2, <1>3, <1>6, <1>8, <2>1, <2>2, Outside
<1>10. TagStep(ctx, c)
  <2>1. ctx.scopes = e.scopes /\ (IdsUnique(ctx) => IdsUnique(e))
    BY <1>1, QuietStep DEF Quiet, TagStep
  <2>2. \A i \in 1..Depth(ctx) : i <= Depth(c) => c.scopes[i] = ctx.scopes[i]
    BY <1>6, <1>7, <2>1 DEF Depth
  <2>. QED
    BY <1>1, <1>6, <2>1, <2>2, SameStep
<1>11. ctx' = c /\ walk' = w
  BY DEF c, w, e
<1>. QED
  BY <1>2, <1>3, <1>6, <1>9, <1>10, <1>11 DEF Between, StepOK

\* The end of a compound statement leaves its scope, a function's body included.
LEMMA CompoundEnds ==
  ASSUME Between(ctx, walk), ~ctx.failed, walk # << >>, CompoundDone
  PROVE  StepOK
<1>1. Current.kind = "block" /\ ctx' = LeaveScope(Clear) /\ walk' = Returned
  BY DEF CompoundDone, Leave
<1>2. walk \in Seq(Frames) /\ Shape(walk) /\ Top \in Nat /\ Top >= 1
  BY Start
<1>3. Top >= 3
  BY <1>1, <1>2, LastKind DEF Top, Current
<1>4. CASE Top = 3
  BY <1>1, <1>4, BodyEnds
<1>5. CASE Top # 3
  <2>1. Top >= 4
    BY <1>2, <1>3, <1>5
  <2>. QED
    BY <1>1, <2>1, ScopeEnds
<1>. QED
  BY <1>4, <1>5

\* A declaration, of the unit or of a block, declares in the innermost scope.
LEMMA Declarations ==
  ASSUME Between(ctx, walk), ~ctx.failed, walk # << >>,
         NEW n \in Names \cup {NoName}, NEW s \in Specs, Declaration(n, s)
  PROVE  StepOK
<1> DEFINE e == Clear
           c == CheckDeclarator(e, n, s)
           v == Record(walk, Bound(e, c))
<1>1. /\ walk \in Seq(Frames) /\ Shape(walk) /\ Len(walk) >= 1
      /\ e \in Context /\ Quiet(ctx, e) /\ Mirrored(e, walk) /\ ctx \in Context
  BY Start DEF Top
<1>2. walk[Len(walk)].kind \in {"unit", "block"}
  BY DEF Declaration, TakesDeclaration, Current, Top
<1>3. ctx' = c /\ walk' = v
  <2>1. ctx' = c /\ walk' = Record(walk, Bound(ctx, c))
    BY DEF Declaration, Visit
  <2>2. Bound(ctx, c) = Bound(e, c)
    <3>1. TopScope(e) = TopScope(ctx)
      BY <1>1 DEF Quiet, TopScope, Depth
    <3> HIDE DEF e, c
    <3>. QED
      BY <3>1 DEF Bound
  <2>. QED
    BY <2>1, <2>2, Zenon
<1>4. Depth(e) >= 1
  BY <1>1, SomeScope
<1> HIDE DEF e
<1>5. Declares(e, c)
  BY <1>1, <1>4, CheckDeclaratorFacts
<1> HIDE DEF c
<1>6. v \in Seq(Frames) /\ Shape(v) /\ Mirrored(c, v)
  BY <1>1, <1>2, <1>4, <1>5, DeclareMirrors
<1>7. TagStep(ctx, c)
  <2>1. IdsUnique(ctx) => IdsUnique(e)
    BY <1>1, QuietStep DEF TagStep
  <2>2. Depth(ctx) = Depth(e) /\ ctx.scopes = e.scopes
    BY <1>1 DEF Quiet, Depth
  <2>3. TagStep(e, c)
    BY <1>1, <1>4, <1>5, DeclaresStep
  <2>. QED
    BY <2>1, <2>2, <2>3 DEF TagStep, Stable
<1>8. c \in Context
  BY <1>5 DEF Declares
<1>. QED
  BY <1>3, <1>6, <1>7, <1>8 DEF Between, StepOK

\* Nothing is left of the walk.
LEMMA WalkEnds ==
  ASSUME Between(ctx, walk), ~ctx.failed, walk # << >>, StaticAssertion \/ UnitDone
  PROVE  StepOK
<1>1. Quiet(ctx, Clear) /\ Clear \in Context /\ ctx \in Context
  BY Start
<1>2. PICK c : Quiet(ctx, c) /\ ctx' = c /\ walk' = << >>
  <2>1. CASE StaticAssertion
    <3> DEFINE error == "StaticAssertFailed"
    <3>1. error \in Errors
      BY DEF Errors
    <3>2. ctx' = Report(Clear, error) /\ walk' = << >>
      BY <2>1 DEF StaticAssertion, Visit
    <3> HIDE DEF error
    <3>3. Quiet(ctx, Report(Clear, error))
      BY <1>1, <3>1, QuietReport, QuietTwice
    <3>. QED
      BY <3>2, <3>3
  <2>2. CASE UnitDone
    BY <1>1, <2>2 DEF UnitDone, Leave
  <2>. QED
    BY <2>1, <2>2
<1>3. << >> \in Seq(Frames) /\ Shape(<< >>)
  <2>1. Len(<< >>) = 0 /\ 4..0 = {} /\ 1..0 = {}
    OBVIOUS
  <2>2. Shape(<< >>)
    BY <2>1 DEF Shape
  <2>. QED
    BY <2>2
<1>4. c \in Context /\ TagStep(ctx, c)
  BY <1>1, <1>2, QuietStep DEF Quiet
<1>. QED
  BY <1>2, <1>3, <1>4 DEF Between, StepOK

\* A walk of the unit alone, and the context of it.
LEMMA InUnit ==
  ASSUME Between(ctx, walk), ~ctx.failed, walk # << >>, Current.kind = "unit"
  PROVE  /\ Len(walk) = 1 /\ walk[1].kind = "unit" /\ walk[1].left = 0
         /\ Depth(Clear) = 1 /\ DOMAIN Clear.scopes[1].decls = walk[1].names
         /\ Clear.switches = << >> /\ Clear.fake = FALSE /\ Clear.labels = {}
<1> DEFINE e == Clear
<1>1. /\ walk \in Seq(Frames) /\ Shape(walk) /\ Len(walk) >= 1
      /\ e \in Context /\ Mirrored(e, walk)
  BY Start DEF Top
<1>2. Len(walk) = 1 /\ Len(walk) \in 1..3
  <2>1. Len(walk) = 1
    BY <1>1, LastKind DEF Current, Top
  <2>. QED
    BY <2>1
<1>3. walk[1].kind = "unit" /\ walk[1].left = 0
  BY <1>1 DEF Shape
<1> HIDE DEF e
<1>4. /\ Depth(e) = 1 /\ DOMAIN e.scopes[1].decls = walk[1].names
      /\ Len(e.switches) = 0 /\ MirroredFunction(e, walk)
  <2>1. ~HasScope(walk)
    BY <1>2 DEF HasScope
  <2>. QED
    BY <1>1, <1>2, <2>1, Outside
<1>5. e.switches = << >>
  <2>1. e.switches \in Seq(Labeled)
    BY <1>1 DEF Context
  <2> HIDE DEF Labeled
  <2>. QED
    BY <1>4, <2>1
<1>6. e.fake = FALSE /\ e.labels = {}
  <2>1. e.fake \in BOOLEAN
    BY <1>1 DEF Context
  <2>2. Len(walk) # 2 /\ ~(Len(walk) >= 2)
    BY <1>2
  <2>. QED
    BY <1>4, <2>1, <2>2 DEF MirroredFunction
<1>. QED
  BY <1>2, <1>3, <1>4, <1>5, <1>6 DEF e

\* A sequence with one more member.
LEMMA AppendFacts ==
  ASSUME NEW S, NEW w \in Seq(S), NEW f \in S, NEW v, v = Append(w, f)
  PROVE  /\ v \in Seq(S) /\ Len(v) = Len(w) + 1 /\ v[Len(w) + 1] = f
         /\ \A i \in 1..Len(w) : v[i] = w[i]
OBVIOUS

\* The members of a sequence.
LEMMA EntryFacts ==
  ASSUME NEW S, NEW w \in Seq(S), NEW i \in 1..Len(w)
  PROVE  w[i] \in S
OBVIOUS

\* A function comes with a scope of its own, that of its parameters.
Begun(c, ret, ps, d) ==
    /\ d \in Context /\ d.fake = TRUE /\ d.ret = ret /\ d.labels = c.labels
    /\ d.switches = c.switches /\ Depth(d) = 2 /\ d.scopes[1] = c.scopes[1]
    /\ IdsUnique(c) => IdsUnique(d)
    /\ ~d.failed => DOMAIN d.scopes[2].decls = {ps[i].name : i \in DOMAIN ps}

\* function_begin() and the parameters that are declared in its fake scope.
LEMMA FunctionBeginFacts ==
  ASSUME NEW c \in Context, Depth(c) = 1, c.fake = FALSE, NEW f \in Functions,
         NEW ret \in Basics, NEW ps \in ParameterLists, NEW d, d = FunctionBegin(c, f, ret, ps)
  PROVE  Begun(c, ret, ps, d)
<1> DEFINE known == IF f \in c.defined THEN Report(c, "Redefinition") ELSE c
           begun == [known EXCEPT !.defined = @ \cup {f}, !.ret = ret]
           inner == EnterScope(begun)
           b == DeclareParameters(inner, ps)
<1>1. Quiet(c, known)
  <2>1. "Redefinition" \in Errors
    BY DEF Errors
  <2>2. \A error \in Errors : Quiet(c, Report(c, error))
    BY QuietReport
  <2>. QED
    BY <2>1, <2>2, QuietSelf
<1>2. d = [b EXCEPT !.fake = TRUE]
  BY Zenon DEF FunctionBegin
<1> HIDE DEF known
<1>3. /\ begun \in Context /\ begun.scopes = c.scopes /\ begun.fake = FALSE
      /\ begun.ret = ret /\ begun.labels = c.labels /\ begun.switches = c.switches
      /\ begun.nextId = c.nextId
  <2>1. /\ known \in Context /\ known.scopes = c.scopes /\ known.fake = FALSE
        /\ known.labels = c.labels /\ known.switches = c.switches /\ known.nextId = c.nextId
    BY <1>1 DEF Quiet, SameFunction
  <2>. QED
    BY <2>1 DEF Context
<1> HIDE DEF begun
<1>4. /\ inner \in Context /\ SameRest(begun, inner) /\ Depth(inner) = 2
      /\ TopScope(inner) = EmptyScope /\ inner.scopes[1] = c.scopes[1]
      /\ IdsUnique(c) => IdsUnique(inner)
  <2>1. Depth(begun) = 1
    BY <1>3 DEF Depth
  <2>2. IdsUnique(c) => IdsUnique(begun)
    BY <1>3 DEF IdsUnique, Depth
  <2> HIDE DEF inner
  <2>3. /\ inner \in Context /\ SameRest(begun, inner)
        /\ Depth(inner) = Depth(begun) + 1 /\ TopScope(inner) = EmptyScope
        /\ \A i \in 1..Depth(begun) : inner.scopes[i] = begun.scopes[i]
        /\ IdsUnique(begun) => IdsUnique(inner)
    BY <1>3, EnterScopeFacts DEF inner
  <2>4. 1 \in 1..Depth(begun)
    BY <2>1
  <2>. QED
    BY <1>3, <2>1, <2>2, <2>3, <2>4
<1> HIDE DEF inner
<1>5. /\ Declares(inner, b)
      /\ ~b.failed => DOMAIN TopScope(b).decls
                        = DOMAIN TopScope(inner).decls \cup {ps[i].name : i \in DOMAIN ps}
  BY <1>4, DeclareParametersFacts
<1> HIDE DEF b
<1>6. /\ b \in Context /\ Depth(b) = 2 /\ b.scopes[1] = c.scopes[1]
      /\ b.ret = ret /\ b.labels = c.labels /\ b.switches = c.switches
      /\ IdsUnique(c) => IdsUnique(b)
      /\ TopScope(b) = b.scopes[2]
  <2>1. 1 \in 1..Depth(inner) /\ 1 < Depth(inner)
    BY <1>4
  <2>2. b \in Context /\ Depth(b) = 2 /\ b.scopes[1] = inner.scopes[1]
    BY <1>4, <1>5, <2>1 DEF Declares
  <2>. QED
    BY <1>3, <1>4, <1>5, <2>2 DEF Declares, SameFunction, SameRest, TopScope
<1>7. /\ d \in Context /\ d.fake = TRUE /\ d.scopes = b.scopes /\ d.ret = b.ret
      /\ d.labels = b.labels /\ d.switches = b.switches /\ d.nextId = b.nextId
      /\ d.failed = b.failed
  BY <1>2, <1>6 DEF Context
<1>8. IdsUnique(b) => IdsUnique(d)
  BY <1>7 DEF IdsUnique, Depth
<1>9. ~d.failed => DOMAIN d.scopes[2].decls = {ps[i].name : i \in DOMAIN ps}
  BY <1>4, <1>5, <1>6, <1>7, EmptyFacts
<1>. QED
  BY <1>6, <1>7, <1>8, <1>9 DEF Depth, Begun

\* A function definition begins: the function is declared, then its scope is opened.
LEMMA Definitions ==
  ASSUME Between(ctx, walk), ~ctx.failed, walk # << >>,
         NEW f \in Functions, NEW ret \in Basics, NEW ps \in ParameterLists,
         FunctionDefinition(f, ret, ps)
  PROVE  StepOK
<1> DEFINE e == Clear
           c == FunctionBegin(e, f, ret, ps)
           names == {ps[i].name : i \in DOMAIN ps}
           g == [Frame("function", 1, f) EXCEPT !.names = names]
           v == Append(walk, g)
<1>1. Current.kind = "unit" /\ ctx' = c /\ walk' = v
  BY DEF FunctionDefinition, Visit
<1>2. /\ walk \in Seq(Frames) /\ e \in Context /\ Quiet(ctx, e) /\ ctx \in Context
  BY Start
<1>3. /\ Len(walk) = 1 /\ walk[1].kind = "unit" /\ walk[1].left = 0
      /\ Depth(e) = 1 /\ DOMAIN e.scopes[1].decls = walk[1].names
      /\ e.switches = << >> /\ e.fake = FALSE /\ e.labels = {}
  BY <1>1, InUnit
<1>4. /\ g \in Frames /\ g.kind = "function" /\ g.left = 1 /\ g.names = names /\ g.labels = {}
  <2>1. names \in SUBSET Names
    <3>1. ps \in Seq([name : Names, type : ParameterTypes])
      BY StatementsAssumption DEF SpecsAssumption
    <3> DEFINE P == [name : Names, type : ParameterTypes]
    <3>2. \A p \in P : p.name \in Names
      OBVIOUS
    <3> HIDE DEF P
    <3>3. ps \in Seq(P)
      BY <3>1 DEF P
    <3>4. \A i \in DOMAIN ps : ps[i] \in P
      BY <3>3
    <3>. QED
      BY <3>2, <3>4
  <2> DEFINE h == Frame("function", 1, f)
  <2>2. h \in Frames /\ h.kind = "function" /\ h.left = 1 /\ h.labels = {}
    <3>1. "function" \in FrameKinds /\ 1 \in 0..2 /\ f \in Args
      BY DEF FrameKinds, Args
    <3>. QED
      BY <3>1, FrameFacts
  <2> HIDE DEF h, names
  <2>3. [h EXCEPT !.names = names] \in Frames
    BY <2>1, <2>2 DEF Frames
  <2>4. /\ [h EXCEPT !.names = names].kind = h.kind /\ [h EXCEPT !.names = names].left = h.left
        /\ [h EXCEPT !.names = names].names = names
        /\ [h EXCEPT !.names = names].labels = h.labels
    BY <2>2 DEF Frames
  <2>5. g = [h EXCEPT !.names = names]
    BY DEF h
  <2>. QED
    BY <2>2, <2>3, <2>4, <2>5
<1> HIDE DEF e, g
<1>5. /\ c \in Context /\ c.fake = TRUE /\ c.ret = ret /\ c.labels = e.labels
      /\ c.switches = e.switches /\ Depth(c) = 2 /\ c.scopes[1] = e.scopes[1]
      /\ IdsUnique(e) => IdsUnique(c)
      /\ ~c.failed => DOMAIN c.scopes[2].decls = names
  <2>1. c = FunctionBegin(e, f, ret, ps)
    OBVIOUS
  <2> HIDE DEF c
  <2>2. Begun(e, ret, ps, c)
    <3>1. e \in Context /\ Depth(e) = 1 /\ e.fake = FALSE
      BY <1>2, <1>3
    <3>. QED
      BY <2>1, <3>1, FunctionBeginFacts
  <2>. QED
    BY <2>2 DEF Begun
<1> HIDE DEF c, names
<1>6. v \in Seq(Frames) /\ Len(v) = 2 /\ v[1] = walk[1] /\ v[2] = g
  <2> HIDE DEF Frames
  <2>1. v = Append(walk, g)
    OBVIOUS
  <2> HIDE DEF v
  <2>2. /\ v \in Seq(Frames) /\ Len(v) = Len(walk) + 1 /\ v[Len(walk) + 1] = g
        /\ \A i \in 1..Len(walk) : v[i] = walk[i]
    BY <1>2, <1>4, <2>1, AppendFacts
  <2>. QED
    BY <1>3, <2>2
<1> HIDE DEF v
<1>7. Shape(v)
  <2>1. \A i \in 1..2 : i = 1 \/ i = 2
    OBVIOUS
  <2>2. 4..2 = {}
    OBVIOUS
  <2>. QED
    BY <1>3, <1>4, <1>6, <2>1, <2>2 DEF Shape
<1>8. ~c.failed => Mirrored(c, v)
  <2>1. HasScope(v) /\ Len(v) \in 1..3
    BY <1>4, <1>6 DEF HasScope
  <2>2. NamesOf(v, 2) = names
    BY <1>4, <1>6 DEF NamesOf
  <2>3. MirroredFunction(c, v)
    <3>1. ret # NoReturn
      BY StatementsAssumption DEF ValuesAssumption
    <3>. QED
      BY <1>3, <1>4, <1>5, <1>6, <3>1 DEF MirroredFunction
  <2>4. Len(c.switches) = 0
    BY <1>3, <1>5
  <2>5. DOMAIN c.scopes[1].decls = v[1].names
    BY <1>3, <1>5, <1>6
  <2>. QED
    BY <1>5, <1>6, <1>7, <2>1, <2>2, <2>3, <2>4, <2>5, Outside
<1>9. TagStep(ctx, c)
  <2>1. ctx.scopes = e.scopes /\ (IdsUnique(ctx) => IdsUnique(e))
    BY <1>2, QuietStep DEF Quiet, TagStep
  <2>2. \A i \in 1..Depth(ctx) : i <= Depth(c) => c.scopes[i] = ctx.scopes[i]
    <3>1. Depth(ctx) = 1 /\ \A i \in 1..1 : i = 1
      BY <1>3, <2>1 DEF Depth
    <3>. QED
      BY <1>5, <2>1, <3>1
  <2>. QED
    BY <1>2, <1>5, <2>1, <2>2, SameStep
<1>. QED
  BY <1>1, <1>5, <1>6, <1>7, <1>8, <1>9 DEF Between, StepOK

\* A walk of a unit and a function in it.
LEMMA InFunctionOnly ==
  ASSUME Between(ctx, walk), ~ctx.failed, walk # << >>, Current.kind = "function",
         NEW left \in 0..1, Current.left = left
  PROVE  /\ Len(walk) = 2 /\ walk[1].kind = "unit" /\ walk[1].left = 0
         /\ walk[2].kind = "function" /\ walk[2].left = left
         /\ DOMAIN Clear.scopes[1].decls = walk[1].names /\ Clear.switches = << >>
         /\ left = 1 => Depth(Clear) = 2 /\ DOMAIN Clear.scopes[2].decls = walk[2].names
         /\ left = 0 => Depth(Clear) = 1
         /\ left = 1 => Clear.fake = TRUE
         /\ left = 0 => Clear.fake = FALSE
         /\ Clear.ret # NoReturn /\ Clear.labels = walk[2].labels
<1> DEFINE e == Clear
<1>1. /\ walk \in Seq(Frames) /\ Shape(walk) /\ Len(walk) >= 1
      /\ e \in Context /\ Mirrored(e, walk)
  BY Start DEF Top
<1>2. Len(walk) = 2 /\ Len(walk) \in 1..3
  <2>1. Len(walk) = 2
    BY <1>1, LastKind DEF Current, Top
  <2>. QED
    BY <2>1
<1>3. /\ walk[1].kind = "unit" /\ walk[1].left = 0
      /\ walk[2].kind = "function" /\ walk[2].left = left
  BY <1>1, <1>2 DEF Shape, Current, Top
<1> HIDE DEF e
<1>4. NamesOf(walk, 2) = walk[2].names
  BY <1>2 DEF NamesOf
<1>5. /\ left = 1 => HasScope(walk)
      /\ left = 0 => ~HasScope(walk)
  BY <1>2, <1>3 DEF HasScope
<1>6. /\ DOMAIN e.scopes[1].decls = walk[1].names
      /\ left = 1 => Depth(e) = 2 /\ DOMAIN e.scopes[2].decls = walk[2].names
      /\ left = 0 => Depth(e) = 1
      /\ Len(e.switches) = 0 /\ MirroredFunction(e, walk)
  BY <1>1, <1>2, <1>4, <1>5, Outside
<1>7. e.switches = << >>
  <2>1. e.switches \in Seq(Labeled)
    BY <1>1 DEF Context
  <2> HIDE DEF Labeled
  <2>. QED
    BY <1>6, <2>1
<1>8. /\ left = 1 => e.fake = TRUE
      /\ left = 0 => e.fake = FALSE
      /\ e.ret # NoReturn /\ e.labels = walk[2].labels
  <2>1. e.fake \in BOOLEAN
    BY <1>1 DEF Context
  <2>2. Len(walk) = 2 /\ Len(walk) >= 2
    BY <1>2
  <2>3. (e.fake <=> left = 1) /\ e.ret # NoReturn /\ e.labels = walk[2].labels
    BY <1>3, <1>6, <2>2 DEF MirroredFunction
  <2>. QED
    BY <2>1, <2>3
<1>. QED
  BY <1>2, <1>3, <1>6, <1>7, <1>8 DEF e

\* The body goes on in the scope of the parameters.
LEMMA BodyBegins ==
  ASSUME Between(ctx, walk), ~ctx.failed, walk # << >>, FunctionBody
  PROVE  StepOK
<1> DEFINE e == Clear
           c == EnterScope(e)
           w == Consumed
           f == Frame("block", 0, NoName)
           g == [walk[2] EXCEPT !.left = 0]
           v == Append(w, f)
<1>1. Current.kind = "function" /\ Current.left = 1 /\ ctx' = c /\ walk' = v
  BY DEF FunctionBody, Leave
<1>2. /\ walk \in Seq(Frames) /\ e \in Context /\ Quiet(ctx, e) /\ ctx \in Context
  BY Start
<1>3. /\ Len(walk) = 2 /\ walk[1].kind = "unit" /\ walk[1].left = 0
      /\ walk[2].kind = "function" /\ walk[2].left = 1
      /\ DOMAIN e.scopes[1].decls = walk[1].names /\ e.switches = << >>
      /\ Depth(e) = 2 /\ DOMAIN e.scopes[2].decls = walk[2].names
      /\ e.fake = TRUE /\ e.ret # NoReturn /\ e.labels = walk[2].labels
  <2> DEFINE left == 1
  <2>1. left \in 0..1 /\ Current.left = left
    BY <1>1
  <2> HIDE DEF left, e
  <2>2. /\ Len(walk) = 2 /\ walk[1].kind = "unit" /\ walk[1].left = 0
        /\ walk[2].kind = "function" /\ walk[2].left = left
        /\ DOMAIN e.scopes[1].decls = walk[1].names /\ e.switches = << >>
        /\ left = 1 => Depth(e) = 2 /\ DOMAIN e.scopes[2].decls = walk[2].names
        /\ left = 1 => e.fake = TRUE
        /\ e.ret # NoReturn /\ e.labels = walk[2].labels
    BY <1>1, <2>1, InFunctionOnly DEF e
  <2>. QED
    BY <2>2 DEF left
<1>4. f \in Frames /\ f.kind = "block" /\ f.left = 0 /\ f.names = {}
  <2>1. "block" \in FrameKinds /\ 0 \in 0..2 /\ NoName \in Args
    BY DEF FrameKinds, Args
  <2>. QED
    BY <2>1, FrameFacts
<1>5. walk[2] \in Frames
  <2>1. walk \in Seq(Frames) /\ 2 \in 1..Len(walk)
    BY <1>2, <1>3
  <2> HIDE DEF Frames
  <2>. QED
    BY <2>1, EntryFacts
<1>6. /\ g \in Frames /\ g.kind = "function" /\ g.left = 0 /\ g.names = walk[2].names
      /\ g.labels = walk[2].labels
  <2> DEFINE x == walk[2]
  <2>1. x \in Frames
    BY <1>5
  <2>2. x.kind = "function"
    BY <1>3
  <2> HIDE DEF x
  <2>3. [x EXCEPT !.left = 0] \in Frames
    BY <2>1 DEF Frames
  <2>4. /\ [x EXCEPT !.left = 0].kind = x.kind /\ [x EXCEPT !.left = 0].left = 0
        /\ [x EXCEPT !.left = 0].names = x.names /\ [x EXCEPT !.left = 0].labels = x.labels
    BY <2>1 DEF Frames
  <2>. QED
    BY <2>2, <2>3, <2>4 DEF x
<1>7. w = [walk EXCEPT ![2] = g]
  <2>1. Current.kind # "block" /\ Top = 2 /\ walk[2].left - 1 = 0
    BY <1>1, <1>3 DEF Top
  <2>2. w = [walk EXCEPT ![2].left = @ - 1]
    BY <2>1 DEF Consumed
  <2>. QED
    BY <2>1, <2>2
<1> HIDE DEF w, e, f, g
<1>8. w \in Seq(Frames) /\ Len(w) = 2 /\ w[1] = walk[1] /\ w[2] = g
  <2> HIDE DEF Frames
  <2>. QED
    BY <1>2, <1>3, <1>6, <1>7
<1>9. v \in Seq(Frames) /\ Len(v) = 3 /\ v[1] = walk[1] /\ v[2] = g /\ v[3] = f
  <2> HIDE DEF Frames
  <2>1. v = Append(w, f)
    OBVIOUS
  <2> HIDE DEF v
  <2>2. /\ v \in Seq(Frames) /\ Len(v) = Len(w) + 1 /\ v[Len(w) + 1] = f
        /\ \A i \in 1..Len(w) : v[i] = w[i]
    BY <1>4, <1>8, <2>1, AppendFacts
  <2>. QED
    BY <1>8, <2>2
<1> HIDE DEF v
<1>10. Shape(v)
  <2>1. \A i \in 1..3 : i = 1 \/ i = 2 \/ i = 3
    OBVIOUS
  <2>2. 4..3 = {} /\ 0 \in 0..1
    OBVIOUS
  <2>3. \A i \in 1..3 : v[i].kind \notin {"label", "case"}
    BY <1>3, <1>4, <1>6, <1>9, <2>1
  <2>. QED
    BY <1>3, <1>4, <1>6, <1>9, <2>2, <2>3 DEF Shape
<1>11. /\ c \in Context /\ c.fake = FALSE /\ SameRest(e, c) /\ c.scopes = e.scopes
       /\ IdsUnique(e) => IdsUnique(c)
  BY <1>2, <1>3, EnterScopeFacts
<1> HIDE DEF c
<1>12. Mirrored(c, v)
  <2>1. HasScope(v) /\ Len(v) \in 1..3
    BY <1>9 DEF HasScope
  <2>2. NamesOf(v, 2) = walk[2].names
    BY <1>4, <1>6, <1>9 DEF NamesOf
  <2>3. MirroredFunction(c, v)
    <3>1. Len(v) # 2 /\ Len(v) >= 2
      BY <1>9
    <3>. QED
      BY <1>3, <1>6, <1>9, <1>11, <3>1 DEF MirroredFunction, SameRest
  <2>4. Depth(c) = 2 /\ Len(c.switches) = 0
    BY <1>3, <1>11 DEF Depth, SameRest
  <2>5. DOMAIN c.scopes[1].decls = v[1].names /\ DOMAIN c.scopes[2].decls = NamesOf(v, 2)
    BY <1>3, <1>9, <1>11, <2>2
  <2>. QED
    BY <1>9, <1>10, <1>11, <2>1, <2>3, <2>4, <2>5, Outside
<1>13. TagStep(ctx, c)
  <2>1. ctx.scopes = e.scopes /\ (IdsUnique(ctx) => IdsUnique(e))
    BY <1>2, QuietStep DEF Quiet, TagStep
  <2>. QED
    BY <1>2, <1>11, <2>1, SameStep
<1>. QED
  BY <1>1, <1>9, <1>10, <1>11, <1>12, <1>13 DEF Between, StepOK

\* A function definition ends, its goto labels checked.
LEMMA FunctionEnds ==
  ASSUME Between(ctx, walk), ~ctx.failed, walk # << >>, FunctionDone
  PROVE  StepOK
<1> DEFINE e == Clear
           c == FunctionEnd(e)
           w == Returned
<1>1. Current.kind = "function" /\ Current.left = 0 /\ ctx' = c /\ walk' = w
  BY DEF FunctionDone, Leave
<1>2. /\ walk \in Seq(Frames) /\ e \in Context /\ Quiet(ctx, e) /\ ctx \in Context
  BY Start
<1>3. /\ Len(walk) = 2 /\ walk[1].kind = "unit" /\ walk[1].left = 0
      /\ DOMAIN e.scopes[1].decls = walk[1].names /\ e.switches = << >>
      /\ Depth(e) = 1 /\ e.fake = FALSE
  <2> DEFINE left == 0
  <2>1. left \in 0..1 /\ Current.left = left
    BY <1>1
  <2> HIDE DEF left, e
  <2>2. /\ Len(walk) = 2 /\ walk[1].kind = "unit" /\ walk[1].left = 0
        /\ DOMAIN e.scopes[1].decls = walk[1].names /\ e.switches = << >>
        /\ left = 0 => Depth(e) = 1
        /\ left = 0 => e.fake = FALSE
    BY <1>1, <2>1, InFunctionOnly DEF e
  <2>. QED
    BY <2>2 DEF left
<1>4. w \in Seq(Frames) /\ Len(w) = 1 /\ w[1] = walk[1]
  <2>1. w = SubSeq(walk, 1, Len(walk) - 1)
    BY DEF Returned, Top
  <2> HIDE DEF w
  <2>2. w \in Seq(Frames) /\ Len(w) = Len(walk) - 1 /\ \A i \in 1..Len(w) : w[i] = walk[i]
    BY <1>2, <1>3, <2>1, FramesLess
  <2>. QED
    BY <1>3, <2>2
<1> HIDE DEF e, w
<1>5. Shape(w)
  <2>1. \A i \in 1..1 : i = 1
    OBVIOUS
  <2>2. 4..1 = {}
    OBVIOUS
  <2>. QED
    BY <1>3, <1>4, <2>1, <2>2 DEF Shape
<1>6. /\ c \in Context /\ c.fake = e.fake /\ c.ret = NoReturn /\ c.labels = {}
      /\ c.scopes = e.scopes /\ c.switches = e.switches /\ c.nextId = e.nextId
  BY <1>2 DEF FunctionEnd, Context
<1> HIDE DEF c
<1>7. Mirrored(c, w)
  <2>1. ~HasScope(w) /\ Len(w) \in 1..3
    BY <1>4 DEF HasScope
  <2>2. Depth(c) = 1 /\ Len(c.switches) = 0
    BY <1>3, <1>6 DEF Depth
  <2>3. MirroredFunction(c, w)
    <3>1. Len(w) # 2 /\ ~(Len(w) >= 2)
      BY <1>4
    <3>. QED
      BY <1>3, <1>6, <3>1 DEF MirroredFunction
  <2>4. DOMAIN c.scopes[1].decls = w[1].names
    BY <1>3, <1>4, <1>6
  <2>. QED
    BY <1>4, <1>5, <1>6, <2>1, <2>2, <2>3, <2>4, Outside
<1>8. TagStep(ctx, c)
  <2>1. c.scopes = ctx.scopes /\ c.nextId = ctx.nextId
    BY <1>2, <1>6 DEF Quiet
  <2>2. IdsUnique(ctx) => IdsUnique(c)
    BY <2>1 DEF IdsUnique, Depth
  <2>. QED
    BY <1>2, <2>1, <2>2, SameStep
<1>. QED
  BY <1>1, <1>4, <1>5, <1>6, <1>7, <1>8 DEF Between, StepOK

\* A unit begins with a context of its own.
LEMMA FreshFacts ==
  ASSUME NEW id \in Nat, NEW c, c = FreshContext(id), NEW w, w = << Frame("unit", 0, NoName) >>
  PROVE  Between(c, w) /\ IdsUnique(c)
<1> DEFINE q == << EmptyScope >>
           f == Frame("unit", 0, NoName)
<1>1. q \in Seq(Scope) /\ Len(q) = 1 /\ q[1] = EmptyScope
  <2> HIDE DEF Scope
  <2>. QED
    BY EmptyFacts
<1>2. << >> \in Seq(Labeled) /\ << >> \in Seq(Errors)
  OBVIOUS
<1> HIDE DEF q
<1>3. /\ c \in Context /\ c.scopes = q /\ c.fake = FALSE /\ c.ret = NoReturn
      /\ c.labels = {} /\ c.switches = << >> /\ c.nextId = id
  <2>1. c = [scopes |-> q, fake |-> FALSE, ret |-> NoReturn, defined |-> {},
             labels |-> {}, switches |-> << >>, nextId |-> id, reports |-> << >>,
             failed |-> FALSE]
    BY DEF FreshContext, q
  <2>. QED
    BY <1>1, <1>2, <2>1 DEF Context
<1>4. f \in Frames /\ f.kind = "unit" /\ f.left = 0 /\ f.names = {}
  <2>1. "unit" \in FrameKinds /\ 0 \in 0..2 /\ NoName \in Args
    BY DEF FrameKinds, Args
  <2>. QED
    BY <2>1, FrameFacts
<1> HIDE DEF f
<1>5. w \in Seq(Frames) /\ Len(w) = 1 /\ w[1] = f
  <2>1. w = << f >>
    BY DEF f
  <2> HIDE DEF Frames
  <2>. QED
    BY <1>4, <2>1
<1>6. Shape(w)
  <2>1. \A i \in 1..1 : i = 1
    OBVIOUS
  <2>2. 4..1 = {}
    OBVIOUS
  <2>. QED
    BY <1>4, <1>5, <2>1, <2>2 DEF Shape
<1>7. Depth(c) = 1 /\ DOMAIN c.scopes[1].decls = {} /\ DOMAIN c.scopes[1].tags = {}
  BY <1>1, <1>3, EmptyFacts DEF Depth
<1>8. Mirrored(c, w)
  <2>1. ~HasScope(w) /\ Len(w) \in 1..3
    BY <1>5 DEF HasScope
  <2>2. MirroredFunction(c, w)
    <3>1. Len(w) # 2 /\ ~(Len(w) >= 2)
      BY <1>5
    <3>. QED
      BY <1>3, <3>1 DEF MirroredFunction
  <2>3. Len(c.switches) = 0
    BY <1>3
  <2>. QED
    BY <1>3, <1>4, <1>5, <1>6, <1>7, <2>1, <2>2, <2>3, Outside
<1>9. IdsUnique(c)
  <2>1. \A i \in 1..1 : i = 1
    OBVIOUS
  <2>. QED
    BY <1>7, <2>1 DEF IdsUnique
<1>. QED
  BY <1>3, <1>5, <1>6, <1>8, <1>9 DEF Between

------------------------------------------------------------------------------
(* Every step *)

\* What bounds the walk.
Counted == /\ nodes \in [Classes -> Nat] /\ units \in 1..MaxUnits
           /\ \E b \in Budgets : \A k \in Classes : nodes[k] <= b[k]

\* Visiting a node keeps the counters within their bounds.
LEMMA VisitCounts ==
  ASSUME Counted, NEW class \in Classes, NEW c, NEW w, Visit(class, c, w)
  PROVE  Counted'
<1>1. nodes' = [nodes EXCEPT ![class] = @ + 1] /\ units' = units
  BY DEF Visit
<1>2. nodes' \in [Classes -> Nat]
  BY <1>1 DEF Counted
<1>3. \E b \in Budgets : \A k \in Classes : nodes'[k] <= b[k]
  BY DEF Visit
<1>. QED
  BY <1>1, <1>2, <1>3 DEF Counted

\* Leaving a node keeps the counters within their bounds.
LEMMA LeaveCounts ==
  ASSUME Counted, NEW c, NEW w, Leave(c, w)
  PROVE  Counted'
BY DEF Counted, Leave

\* Every step goes on from a walk or begins the next one.
Visits == \E class \in Classes, c \in {ctx'}, w \in {walk'} : Visit(class, c, w)
Leaving == \E c \in {ctx'}, w \in {walk'} : Leave(c, w)

\* Opening a frame is a visit, made in an unfinished unit.
LEMMA OpenVisits ==
  ASSUME NEW class \in Classes, NEW c, NEW f, Open(class, c, f)
  PROVE  walk # << >> /\ Visits
BY DEF Open, TakesStatement, Visit, Visits

\* So is a statement without a statement in it.
LEMMA SimpleVisits ==
  ASSUME NEW c, Simple(c)
  PROVE  walk # << >> /\ Visits
BY DEF Simple, TakesStatement, Visit, Visits, Classes

\* Every step but the next unit visits or leaves a node of an unfinished unit.
LEMMA Going ==
  ASSUME Next
  PROVE  NextUnit \/ (walk # << >> /\ (Visits \/ Leaving))
<1>0. {"declaration", "function", "leaf", "branch", "nest"} \subseteq Classes
  BY DEF Classes
<1>1. CASE \E n \in Names \cup {NoName}, s \in Specs : Declaration(n, s)
  BY <1>0, <1>1 DEF Declaration, TakesDeclaration, Visit, Visits
<1>2. CASE StaticAssertion
  BY <1>0, <1>2 DEF StaticAssertion, TakesDeclaration, Visit, Visits
<1>3. CASE \E f \in Functions, r \in Basics, ps \in ParameterLists : FunctionDefinition(f, r, ps)
  BY <1>0, <1>3 DEF FunctionDefinition, Visit, Visits
<1>4. CASE \/ FunctionBody \/ FunctionDone \/ UnitDone \/ LabelDone \/ CaseDone
           \/ DefaultDone \/ CompoundDone \/ SwitchDone \/ ConditionDone \/ ForDone
  <2>1. Leaving
    BY <1>4 DEF FunctionBody, FunctionDone, UnitDone, LabelDone, CaseDone, DefaultDone,
                CompoundDone, SwitchDone, ConditionDone, ForDone, Leave, Leaving
  <2>2. walk # << >>
    BY <1>4 DEF FunctionBody, FunctionDone, UnitDone, LabelDone, CaseDone, DefaultDone,
                CompoundDone, SwitchDone, ConditionDone, ForDone, Ends
  <2>. QED
    BY <2>1, <2>2
<1>5. CASE \/ \E n \in Names \cup Functions : ExpressionStatement(n)
           \/ \E l \in Labels : Goto(l)
           \/ Break \/ Continue
           \/ \E n \in Names \cup {NoName} : Return(n)
  <2>1. \E c : Simple(c)
    BY <1>5 DEF ExpressionStatement, Goto, Break, Continue, Return
  <2>. QED
    BY <2>1, SimpleVisits
<1>6. CASE \/ \E l \in Labels : Label(l)
           \/ \E n \in Names \cup {NoName} : Loop(n)
           \/ \E n \in Names, b \in 1..2 : If(n, b)
           \/ \E v \in CaseValues : Case(v)
           \/ Default \/ Compound \/ Switch
           \/ \E n \in Names, s \in Specs : ForDeclaration(n, s)
  <2>1. \E class \in {"declaration", "branch", "nest"} : \E c, f : Open(class, c, f)
    BY <1>6 DEF Label, Loop, If, Case, Default, Compound, Switch, ForDeclaration
  <2>. QED
    BY <1>0, <2>1, OpenVisits
<1>. QED
  BY <1>1, <1>2, <1>3, <1>4, <1>5, <1>6 DEF Next

\* Every step of the walk of one unit.
LEMMA WalkStep ==
  ASSUME Between(ctx, walk), ~ctx.failed, walk # << >>, Next, ~NextUnit
  PROVE  StepOK
<1>1. CASE \E n \in Names \cup {NoName}, s \in Specs : Declaration(n, s)
  BY <1>1, Declarations
<1>2. CASE StaticAssertion \/ UnitDone
  BY <1>2, WalkEnds
<1>3. CASE \E f \in Functions, r \in Basics, ps \in ParameterLists : FunctionDefinition(f, r, ps)
  BY <1>3, Definitions
<1>4. CASE FunctionBody
  BY <1>4, BodyBegins
<1>5. CASE FunctionDone
  BY <1>5, FunctionEnds
<1>6. CASE \/ \E n \in Names \cup Functions : ExpressionStatement(n)
           \/ \E l \in Labels : Goto(l)
           \/ Break \/ Continue
           \/ \E n \in Names \cup {NoName} : Return(n)
  BY <1>6, Leaves
<1>7. CASE \/ \E l \in Labels : Label(l)
           \/ \E n \in Names \cup {NoName} : Loop(n)
           \/ \E n \in Names, b \in 1..2 : If(n, b)
           \/ \E v \in CaseValues : Case(v)
           \/ Default
  BY <1>7, PlainOpens
<1>8. CASE Compound
  BY <1>8, CompoundOpens
<1>9. CASE Switch
  BY <1>9, SwitchOpens
<1>10. CASE \E n \in Names, s \in Specs : ForDeclaration(n, s)
  BY <1>10, ForOpens
<1>11. CASE LabelDone
  BY <1>11, LabelEnds
<1>12. CASE CaseDone \/ DefaultDone
  BY <1>12, CaseEnds
<1>13. CASE CompoundDone
  BY <1>13, CompoundEnds
<1>14. CASE SwitchDone
  BY <1>14, SwitchEnds
<1>15. CASE ConditionDone
  BY <1>15, ConditionEnds
<1>16. CASE ForDone
  BY <1>16, ForEnds
<1>. QED
  BY <1>1, <1>2, <1>3, <1>4, <1>5, <1>6, <1>7, <1>8, <1>9, <1>10, <1>11, <1>12, <1>13,
     <1>14, <1>15, <1>16 DEF Next

IInv == Between(ctx, walk) /\ IdsUnique(ctx) /\ Counted

\* The inductive invariant holds at the start.
LEMMA InitHolds ==
  ASSUME Init PROVE IInv
<1>1. Between(ctx, walk) /\ IdsUnique(ctx)
  <2>1. 0 \in Nat
    OBVIOUS
  <2>. QED
    BY <2>1, FreshFacts DEF Init
<1>2. Counted
  <2>1. nodes \in [Classes -> Nat] /\ \A k \in Classes : nodes[k] = 0
    BY DEF Init, NoNodes
  <2>2. units \in 1..MaxUnits
    BY StatementsAssumption DEF Init, BoundsAssumption
  <2>3. PICK b \in Budgets : b \in [Classes -> Nat]
    BY StatementsAssumption DEF BoundsAssumption
  <2>4. \A k \in Classes : nodes[k] <= b[k]
    BY <2>1, <2>3
  <2>. QED
    BY <2>1, <2>2, <2>4 DEF Counted
<1>. QED
  BY <1>1, <1>2 DEF IInv

\* What a step does to the tags that are visible before and after it.
TagsStep == walk # << >> /\ walk' # << >> /\ units' = units => Stable(ctx, ctx')

\* Every step keeps it, and keeps the tags.
LEMMA NextKeeps ==
  ASSUME IInv, [Next]_vars PROVE IInv' /\ TagsStep
<1>1. CASE NextUnit
  <2>1. ctx.nextId \in Nat /\ walk = << >>
    BY <1>1 DEF IInv, Between, Context, NextUnit
  <2>2. Between(ctx', walk') /\ IdsUnique(ctx')
    BY <1>1, <2>1, FreshFacts DEF NextUnit
  <2>3. Counted'
    <3>1. units \in Nat /\ units >= 1 /\ units < MaxUnits /\ units' = units + 1
          /\ nodes' = nodes /\ MaxUnits \in Nat
      BY <1>1, StatementsAssumption DEF IInv, Counted, NextUnit, BoundsAssumption
    <3>2. units' \in 1..MaxUnits
      BY <3>1
    <3>. QED
      BY <3>1, <3>2 DEF IInv, Counted
  <2>. QED
    BY <2>1, <2>2, <2>3 DEF IInv, TagsStep
<1>2. CASE Next /\ ~NextUnit
  <2>1. walk # << >> /\ (Visits \/ Leaving)
    BY <1>2, Going
  <2>2. ~ctx.failed
    BY <2>1 DEF Visits, Leaving, Visit, Leave
  <2>3. StepOK
    BY <1>2, <2>1, <2>2, WalkStep DEF IInv
  <2>4. Counted'
    BY <2>1, VisitCounts, LeaveCounts DEF IInv, Visits, Leaving
  <2>. QED
    BY <2>3, <2>4 DEF StepOK, IInv, TagStep, TagsStep
<1>3. CASE UNCHANGED vars
  <2>1. IInv'
    BY <1>3 DEF IInv, vars, Counted
  <2>2. Stable(ctx, ctx')
    <3>1. ctx' = ctx
      BY <1>3 DEF vars
    <3>. QED
      BY <3>1, KeptItself DEF Stable
  <2>. QED
    BY <2>1, <2>2 DEF TagsStep
<1>. QED
  BY <1>1, <1>2, <1>3

\* What is known of the context, of the walk and of the counts at every step.
THEOREM Invariance == Spec => []IInv
<1>1. Init => IInv
  BY InitHolds
<1>2. IInv /\ [Next]_vars => IInv'
  BY NextKeeps
<1>. QED
  BY <1>1, <1>2, PTL DEF Spec

------------------------------------------------------------------------------
(* What the invariant says *)

\* TypeOK: every field of the context, of the walk and of the counts has its type.
THEOREM TypeCorrect == Spec => []TypeOK
<1>1. IInv => TypeOK
  <2> SUFFICES ASSUME IInv PROVE TypeOK
    OBVIOUS
  <2>1. ctx \in Context /\ walk \in Seq(Frames) /\ Counted
    BY DEF IInv, Between
  <2>2. /\ ctx.fake \in BOOLEAN /\ ctx.failed \in BOOLEAN
        /\ ctx.ret \in Basics \cup {NoReturn}
        /\ ctx.defined \subseteq Functions /\ ctx.labels \subseteq Labels
        /\ ctx.switches \in Seq(Labeled)
    BY <2>1 DEF Context
  <2>3. \A i \in DOMAIN ctx.switches : /\ ctx.switches[i].cases \subseteq CaseValues
                                       /\ ctx.switches[i].default \in BOOLEAN
    <3>1. \A l \in Labeled : l.cases \subseteq CaseValues /\ l.default \in BOOLEAN
      BY DEF Labeled
    <3> HIDE DEF Labeled
    <3>2. \A i \in DOMAIN ctx.switches : ctx.switches[i] \in Labeled
      BY <2>2
    <3>. QED
      BY <3>1, <3>2
  <2>4. \A i \in 1..Depth(ctx) : DOMAIN ctx.scopes[i].decls \subseteq Names
    BY <2>1, ContextFacts
  <2>5. \A i \in DOMAIN walk : walk[i].kind \in FrameKinds /\ walk[i].left \in 0..2
    <3>1. \A f \in Frames : f.kind \in FrameKinds /\ f.left \in 0..2
      BY DEF Frames
    <3> HIDE DEF Frames
    <3>2. \A i \in DOMAIN walk : walk[i] \in Frames
      BY <2>1
    <3>. QED
      BY <3>1, <3>2
  <2>6. (\E b \in Budgets : \A k \in Classes : nodes[k] \in 0..b[k]) /\ units \in 1..MaxUnits
    <3>1. PICK b \in Budgets : \A k \in Classes : nodes[k] <= b[k]
      BY <2>1 DEF Counted
    <3>2. b \in [Classes -> Nat] /\ nodes \in [Classes -> Nat]
      BY <2>1, StatementsAssumption DEF Counted, BoundsAssumption
    <3>3. \A k \in Classes : nodes[k] \in 0..b[k]
      BY <3>1, <3>2
    <3>. QED
      BY <2>1, <3>3 DEF Counted
  <2>. QED
    BY <2>2, <2>3, <2>4, <2>5, <2>6 DEF TypeOK
<1>. QED
  BY <1>1, Invariance, PTL

\* WalkInv: a walk is a unit, a function, its body and statements inside it, and
\* the context mirrors it frame by frame.
THEOREM WalkMirrored == Spec => []WalkInv
<1>1. IInv => WalkInv
  BY DEF IInv, Between, WalkInv, Running
<1>. QED
  BY <1>1, Invariance, PTL

\* The constructs that own a scope, and the names declared in them, are read off
\* a walk of this shape.
LEMMA OwnersAre ==
  ASSUME walk \in Seq(Frames), Shape(walk)
  PROVE  /\ Owners = ScopeFrames(walk)
         /\ \A i \in Owners : NamesIn(i) = NamesOf(walk, i)
         /\ Open_("switch") = SwitchFrames(walk)
         /\ Open_("function") = IF Len(walk) >= 2 THEN {2} ELSE {}
<1> DEFINE n == Len(walk)
<1>1. n \in Nat /\ DOMAIN walk = 1..n /\ Top = n
  BY FramesOf DEF Top
<1>2. /\ n >= 1 => walk[1].kind = "unit"
      /\ n >= 2 => walk[2].kind = "function" /\ walk[2].left \in 0..1
      /\ n >= 3 => walk[3].kind = "block"
      /\ \A i \in 4..n : walk[i].kind \notin {"unit", "function"}
  BY DEF Shape
<1>3. Open_("switch") = SwitchFrames(walk)
  BY <1>1 DEF Open_, SwitchFrames
<1> HIDE DEF n
<1>4. \A i \in 1..n : i = 1 \/ i = 2 \/ i = 3 \/ i \in 4..n
  BY <1>1
<1>5. \A i \in 1..n : walk[i].kind = "function" <=> i = 2
  BY <1>1, <1>2, <1>4
<1>6. Open_("function") = IF n >= 2 THEN {2} ELSE {}
  BY <1>1, <1>5 DEF Open_
<1>7. ASSUME NEW i \in 1..n
      PROVE  OwnsScope(i) <=> \/ i = 1
                              \/ i = 2 /\ (n > 2 \/ walk[2].left = 1)
                              \/ i >= 4 /\ walk[i].kind \in {"for", "block"}
  <2>1. CASE i = 1
    BY <1>1, <1>2, <2>1 DEF OwnsScope
  <2>2. CASE i = 2
    BY <1>1, <1>2, <2>2 DEF OwnsScope
  <2>3. CASE i = 3
    <3>1. walk[3].kind = "block" /\ walk[3 - 1].kind = "function"
      BY <1>1, <1>2, <2>3
    <3>. QED
      BY <2>3, <3>1 DEF OwnsScope
  <2>4. CASE i \in 4..n
    <3>1. i - 1 \in 1..n /\ i - 1 # 2 /\ i >= 4
      BY <1>1, <2>4
    <3>2. walk[i - 1].kind # "function" /\ walk[i].kind \notin {"unit", "function"}
      BY <1>2, <1>5, <2>4, <3>1
    <3>. QED
      BY <3>1, <3>2 DEF OwnsScope
  <2>. QED
    BY <1>4, <2>1, <2>2, <2>3, <2>4
<1>8. Owners = ScopeFrames(walk)
  BY <1>1, <1>7 DEF Owners, ScopeFrames, n
<1>9. ASSUME NEW i \in 1..n PROVE NamesIn(i) = NamesOf(walk, i)
  <2>1. CASE i = 2
    <3>1. 2 + 1 = 3 /\ walk[2].kind = "function"
      BY <1>5, <2>1
    <3>. QED
      BY <1>1, <2>1, <3>1 DEF NamesIn, NamesOf, n
  <2>2. CASE i # 2
    BY <1>5, <2>2 DEF NamesIn, NamesOf
  <2>. QED
    BY <2>1, <2>2
<1>. QED
  BY <1>1, <1>3, <1>6, <1>8, <1>9 DEF Owners, n

\* ScopesMirrorWalk: at every step of a walk the stack of scopes of the context is
\* that of the open constructs, each scope with the names declared in its construct.
THEOREM ScopesMirrored == Spec => []ScopesMirrorWalk
<1>1. IInv => ScopesMirrorWalk
  <2> SUFFICES ASSUME IInv, Running
               PROVE  /\ Depth(ctx) = Cardinality(Owners)
                      /\ \A i \in Owners :
                            DOMAIN ctx.scopes[Cardinality({j \in Owners : j <= i})].decls
                              = NamesIn(i)
                      /\ ctx.fake <=> Current.kind = "function" /\ Current.left = 1
    BY DEF ScopesMirrorWalk
  <2>1. /\ ctx \in Context /\ walk \in Seq(Frames) /\ Shape(walk) /\ Mirrored(ctx, walk)
        /\ walk # << >>
    BY DEF IInv, Between, Running
  <2> DEFINE O == ScopeFrames(walk)
             a == [i \in O |-> NamesOf(walk, i)]
             q == Declared(ctx)
  <2>2. Owners = O /\ \A i \in O : NamesIn(i) = a[i]
    BY <2>1, OwnersAre
  <2>3. Len(q) = Depth(ctx) /\ \A i \in 1..Depth(ctx) : q[i] = DOMAIN ctx.scopes[i].decls
    BY <2>1, ContextFacts DEF Declared
  <2>4. Mirrors(O, a, q)
    BY <2>1, Zenon DEF Mirrored, MirroredScopes
  <2>5. O \in SUBSET (1..Len(walk)) /\ Len(walk) \in Nat
    BY <2>1, FramesOf
  <2> HIDE DEF O, a, q
  <2>6. \A i \in O : Rank(O, i) \in 1..Cardinality(O)
    BY <2>5, RankFacts
  <2>7. Depth(ctx) = Cardinality(O)
    BY <2>3, <2>4 DEF Mirrors
  <2>8. \A i \in O : DOMAIN ctx.scopes[Rank(O, i)].decls = NamesIn(i)
    <3> TAKE i \in O
    <3>1. q[Rank(O, i)] = NamesIn(i)
      BY <2>2, <2>4 DEF Mirrors
    <3>. QED
      BY <2>3, <2>6, <2>7, <3>1
  <2>9. ctx.fake <=> Current.kind = "function" /\ Current.left = 1
    <3>1. Len(walk) >= 1
      BY <2>1, EmptySeq, FramesOf
    <3>2. Current.kind = "function" <=> Len(walk) = 2
      <4>1. Current.kind = "function" => Len(walk) = 2
        BY <2>1, <3>1, LastKind DEF Current, Top
      <4>2. Len(walk) = 2 => Current.kind = "function"
        BY <2>1 DEF Shape, Current, Top
      <4>. QED
        BY <4>1, <4>2
    <3>3. Len(walk) = 2 => Current.left = walk[2].left
      BY DEF Current, Top
    <3>. QED
      BY <2>1, <3>2, <3>3 DEF Mirrored, MirroredFunction
  <2>. QED
    BY <2>2, <2>7, <2>8, <2>9 DEF Rank
<1>. QED
  BY <1>1, Invariance, PTL

\* FunctionStateMirrorsWalk: the return type, the labels and the switches that the
\* context keeps are those of the function and of the switches that are open.
THEOREM FunctionStateMirrored == Spec => []FunctionStateMirrorsWalk
<1>1. IInv => FunctionStateMirrorsWalk
  <2> SUFFICES ASSUME IInv, Running
               PROVE  /\ Len(ctx.switches) = Cardinality(Open_("switch"))
                      /\ InFunction(ctx) <=> Open_("function") # {}
                      /\ ctx.labels = UNION {walk[i].labels : i \in Open_("function")}
    BY DEF FunctionStateMirrorsWalk
  <2>1. /\ ctx \in Context /\ walk \in Seq(Frames) /\ Shape(walk) /\ Mirrored(ctx, walk)
    BY DEF IInv, Between, Running
  <2>2. /\ Open_("switch") = SwitchFrames(walk)
        /\ Open_("function") = IF Len(walk) >= 2 THEN {2} ELSE {}
    BY <2>1, OwnersAre
  <2>3. Len(ctx.switches) = Cardinality(Open_("switch"))
    BY <2>1, <2>2 DEF Mirrored, MirroredSwitches, Mirrors
  <2>4. MirroredFunction(ctx, walk)
    BY <2>1 DEF Mirrored
  <2>5. CASE Len(walk) >= 2
    BY <2>2, <2>3, <2>4, <2>5 DEF MirroredFunction, InFunction
  <2>6. CASE ~(Len(walk) >= 2)
    BY <2>2, <2>3, <2>4, <2>6 DEF MirroredFunction, InFunction
  <2>. QED
    BY <2>5, <2>6
<1>. QED
  BY <1>1, Invariance, PTL

\* DuplicatesExact: of the case and default labels of every open switch, exactly
\* those are reported that repeat a label of that switch.
THEOREM DuplicatesCounted == Spec => []DuplicatesExact
<1>1. IInv => DuplicatesExact
  <2> SUFFICES ASSUME IInv, Running, NEW i \in Open_("switch")
               PROVE  walk[i].refused = walk[i].count - Cardinality(walk[i].visited)
    BY DEF DuplicatesExact
  <2>1. walk \in Seq(Frames) /\ Shape(walk) /\ Mirrored(ctx, walk)
    BY DEF IInv, Between, Running
  <2>2. i \in SwitchFrames(walk) /\ i \in 1..Len(walk)
    <3>1. i \in SwitchFrames(walk)
      BY <2>1, OwnersAre
    <3>. QED
      BY <3>1 DEF SwitchFrames
  <2>3. IsFiniteSet(walk[i].visited)
        /\ walk[i].count = walk[i].refused + Cardinality(walk[i].visited)
    BY <2>1, <2>2 DEF Mirrored, LabelsCounted
  <2>4. walk[i].refused \in Nat /\ Cardinality(walk[i].visited) \in Nat
    <3>1. walk[i] \in Frames
      <4> HIDE DEF Frames
      <4>. QED
        BY <2>1, <2>2, EntryFacts
    <3>. QED
      BY <2>3, <3>1, FS_CardinalityType DEF Frames
  <2>. QED
    BY <2>3, <2>4
<1>. QED
  BY <1>1, Invariance, PTL

\* TypeIdsUnique: no two tags that are visible together have one id.
THEOREM IdsAreUnique == Spec => []TypeIdsUnique
<1>1. IInv => TypeIdsUnique
  <2> SUFFICES ASSUME IInv, NEW a \in Entries, NEW b \in Entries
               PROVE  /\ EntryOf(a).id < ctx.nextId
                      /\ EntryOf(a).id = EntryOf(b).id => a = b
    BY DEF TypeIdsUnique
  <2>1. \A e \in Entries : \E i \in 1..Depth(ctx) : \E k \in DOMAIN ctx.scopes[i].tags :
           e = << i, k >> /\ EntryOf(e) = ctx.scopes[i].tags[k]
    BY DEF Entries, EntryOf
  <2>2. PICK i \in 1..Depth(ctx) : \E k \in DOMAIN ctx.scopes[i].tags :
           a = << i, k >> /\ EntryOf(a) = ctx.scopes[i].tags[k]
    BY <2>1
  <2>3. PICK k \in DOMAIN ctx.scopes[i].tags :
           a = << i, k >> /\ EntryOf(a) = ctx.scopes[i].tags[k]
    BY <2>2
  <2>4. PICK j \in 1..Depth(ctx) : \E l \in DOMAIN ctx.scopes[j].tags :
           b = << j, l >> /\ EntryOf(b) = ctx.scopes[j].tags[l]
    BY <2>1
  <2>5. PICK l \in DOMAIN ctx.scopes[j].tags :
           b = << j, l >> /\ EntryOf(b) = ctx.scopes[j].tags[l]
    BY <2>4
  <2>. QED
    BY <2>3, <2>5 DEF IInv, IdsUnique
<1>. QED
  BY <1>1, Invariance, PTL

\* TagsStable: a step that leaves a scope open keeps the id of each tag of it, and
\* the definition of a tag once it has one.
THEOREM TagsAreStable == Spec => TagsStable
<1> DEFINE A == \A i \in 1..Depth(ctx) :
          (walk # << >> /\ walk' # << >> /\ units' = units /\ i <= Depth(ctx')) =>
            \A k \in DOMAIN ctx.scopes[i].tags :
               (i < Depth(ctx) \/ Depth(ctx') >= Depth(ctx)) =>
                  /\ k \in DOMAIN ctx'.scopes[i].tags
                  /\ ctx'.scopes[i].tags[k].id = ctx.scopes[i].tags[k].id
                  /\ ctx.scopes[i].tags[k].def # NoDef =>
                        ctx'.scopes[i].tags[k].def = ctx.scopes[i].tags[k].def
<1>1. IInv /\ [Next]_vars => A
  <2> SUFFICES ASSUME IInv, [Next]_vars PROVE A
    OBVIOUS
  <2>1. TagsStep
    BY NextKeeps
  <2>. QED
    BY <2>1 DEF TagsStep, Stable, TagsKept
<1>2. []IInv /\ [][Next]_vars => [][A]_vars
  <2> HIDE DEF A
  <2>. QED
    BY <1>1, PTL
<1>. QED
  BY <1>2, Invariance, PTL DEF Spec, TagsStable
==============================================================================
