----------------------------- MODULE CInitializer -----------------------------
(****************************************************************************)
(* The initializer of a declared object (cparser/lib/c_initializer.cpp and    *)
(* check_initialization_of_object_with_intializer() with its list of          *)
(* c_ast_check_constraints.cpp): which subobject every value of a list with   *)
(* nested lists and designators is put in, and the size an array gets that is *)
(* declared without one.                                                      *)
(*                                                                            *)
(* The initializer is read from left to right, one action per value or brace. *)
(* frames are the lists that are open; at of a frame is the accesser iter,    *)
(* the _tree_list of the code: entries of a node of the tree of subobjects    *)
(* with the index of a child and, in a union, the token of the member chosen. *)
(* Strings for arrays of characters are left out.                             *)
(*                                                                            *)
(* placed, reached, and start, last and misled of a frame are not in the      *)
(* code: the steps from the object declared to what the last value was for    *)
(* and the largest first one of them, the steps to the object the list is for *)
(* and from there to what it gave its last value to, and whether the last     *)
(* designators of the list had an array index among them.                     *)
(*                                                                            *)
(* Of the casts only their answer matters here: CastTo is implicit_cast_to.   *)
(****************************************************************************)
EXTENDS CTypeKinds, SequencesExt

CONSTANTS
    Objects,        \* the types that objects are declared with
    Values,         \* the types of the expressions in initializers
    Members,        \* of a struct or union, by its id: records of a name and a type
    Designations,   \* the designator lists of an item, the empty one among them
    CastTo(_, _),   \* the first type cast to the second: a type, or NoType
    Nesting,        \* the depth to which types are nested in each other
    MaxItems        \* the values and lists an initializer may have

\* A designator is a name, or the empty one and an index.
ASSUME InitializerAssumption ==
    /\ Nesting \in Nat /\ MaxItems \in Nat
    /\ \A ds \in Designations : ds \in Seq([name : STRING, index : Nat])

VARIABLES
    object,         \* the type the object is declared with
    static,         \* it has a storage class
    size,           \* of the object, when it is an array
    frames,
    errors,         \* something was reported
    failed,         \* undefined behaviour or a failed assertion
    placed, reached,
    items,
    done
vars == << object, static, size, frames, errors, failed, placed, reached, items, done >>

------------------------------------------------------------------------------
(* The tree of subobjects *)

IsTree(t) == t.basic \in {"ARRAY", "STRUCT", "UNION"}

\* The members that are in the tree: those with a name, of complete type, the
\* first of a name.
Kept ==
    [id \in DOMAIN Members |->
        LET ms   == Members[id]
            In(i) == ms[i].name # "" /\ ~IsIncomplete(ms[i].type)
            kept == SelectSeq([i \in DOMAIN ms |-> i],
                              LAMBDA i : In(i) /\ \A j \in 1..(i - 1) :
                                             In(j) => ms[j].name # ms[i].name)
        IN  [k \in DOMAIN kept |-> ms[kept[k]]]]

Many == 1000                                     \* the 0xffffffff of an unknown size
numOfChildren(t) ==
    CASE t.basic = "ARRAY"  -> IF t.size = NoSize THEN Many ELSE t.size
      [] t.basic = "STRUCT" -> Len(Kept[t.id])
      [] OTHER              -> IF Kept[t.id] = << >> THEN 0 ELSE 1

\* The child that a step (an index, in a union the token of a member) leads to.
child(t, step) == IF t.basic = "ARRAY" THEN t.to ELSE Kept[t.id][step + 1].type

Entry(t, path, index, token) == [node |-> t, path |-> path, index |-> index, token |-> token]
Step(e) == IF e.node.basic = "UNION" THEN e.token ELSE e.index
Path(e) == Append(e.path, Step(e))

first(t) == << Entry(t, << >>, 0, 0) >>

\* The type at an accesser, NoType behind the last child.
type(at) ==
    LET e == Last(at) IN
    IF e.index >= numOfChildren(e.node) THEN NoType ELSE child(e.node, Step(e))

\* next(): on to the following child, of the node above where there is none.
nextInPlace(at) == [at EXCEPT ![Len(at)].index = @ + 1]             \* fault
next(at) ==
    LET n(i)    == numOfChildren(at[i].node)
        Over(i) == i > 1 /\ at[i].index # n(i) /\ at[i].index + 1 = n(i)
        on == CHOOSE i \in 1..Len(at) : ~Over(i) /\ \A j \in (i + 1)..Len(at) : Over(j)
        up == SubSeq(at, 1, on)
    IN  IF at[on].index = n(on) THEN up ELSE [up EXCEPT ![on].index = @ + 1]

CanGoDown(at) == IsTree(type(at)) /\ numOfChildren(type(at)) > 0
down(at)      == Append(at, Entry(type(at), Path(Last(at)), 0, 0))

\* Down to the first type that can be initialized with a value of type v.
Fitting(at, v) ==
    LET Down(a) == IF CastTo(v, type(a)) # NoType \/ ~CanGoDown(a) THEN a ELSE down(a)
        downs[n \in 0..Nesting] == IF n = 0 THEN at ELSE Down(downs[n - 1])
    IN  downs[Nesting]

------------------------------------------------------------------------------
(* access() *)

\* Nowhere: an accesser without a type.
NoAccess == << Entry(ARRAY(VOID, 0), << >>, 0, 0) >>

IsIndex(d) == d.name = ""

\* The child of a node of type t that a designator leads to: one or none.
Steps(t, d) ==
    IF ~IsTree(t) THEN {}
    ELSE IF t.basic = "ARRAY" THEN {i \in {d.index} : IsIndex(d) /\ i < numOfChildren(t)}
    ELSE {i \in 0..(Len(Kept[t.id]) - 1) : Kept[t.id][i + 1].name = d.name}

\* A walk along designators: the node it has come to, the steps to it, and the
\* accesser so far.  An array adds its index to a copy of the accesser: where a
\* member follows, the accesser begins at the element, and where the index
\* stands last it is not in the accesser at all.
Start(t) == [node |-> t, path |-> << >>, lost |-> FALSE, at |-> << >>]
Along(walk, t, step) ==
    [node |-> child(t, step), path |-> Append(walk.path, step), lost |-> FALSE,
     at |-> IF t.basic = "ARRAY" THEN walk.at
            ELSE Append(walk.at, IF t.basic = "UNION" THEN Entry(t, walk.path, 0, step)
                                 ELSE Entry(t, walk.path, step, 0))]
Follow(walk, d) ==
    LET steps == Steps(walk.node, d)
    IN  IF walk.lost \/ steps = {} THEN [walk EXCEPT !.lost = TRUE]
        ELSE Along(walk, walk.node, CHOOSE i \in steps : TRUE)
Arrived(walk) == IF walk.lost THEN NoAccess ELSE walk.at

\* What the designators ds lead to from the node t: the accesser, or NoAccess.
access(t, ds) ==
    LET walk[n \in 0..Len(ds)] == IF n = 0 THEN Start(t) ELSE Follow(walk[n - 1], ds[n])
    IN  Arrived(walk[Len(ds)])

NotedOfNext(f, step) ==                                            \* fault
    IF f.node.basic = "ARRAY" /\ f.node.size = NoSize THEN step + 1 ELSE f.size

\* child() of an array without a size notes how far it has been asked.
Noted(f, step) ==
    IF f.node.basic = "ARRAY" /\ f.node.size = NoSize /\ step + 1 > f.size THEN step + 1 ELSE f.size

------------------------------------------------------------------------------
(* The lists that are open *)

\* A list for a subobject of type t, and one for a scalar.
List(t, start) ==
    [node |-> t, at |-> IF IsTree(t) THEN first(t) ELSE << >>, start |-> start, size |-> 0,
     count |-> 0, broken |-> FALSE, last |-> << >>, misled |-> FALSE]

Top        == Last(frames)
Below      == Front(frames)
InTree     == frames # << >> /\ ~Top.broken /\ IsTree(Top.node)
InScalar   == frames # << >> /\ ~Top.broken /\ ~IsTree(Top.node)
Break(f)   == [f EXCEPT !.broken = TRUE]

\* The list with its accesser where the next value goes: moved by the
\* designators ds, which may lead nowhere.
Moved(f, ds) ==
    IF ds = << >> THEN f
    ELSE [f EXCEPT !.at = access(f.node, ds),
                   !.misled = \E i \in DOMAIN ds : IsIndex(ds[i]),
                   !.size = IF IsIndex(ds[1]) THEN Noted(f, ds[1].index) ELSE @]

\* The step of the accesser in the node of the list, when it is one of its own.
Asked(f) ==
    LET e == f.at[1] IN IF e.path = << >> THEN Noted(f, e.index) ELSE f.size

\* Behind the value the accesser stands at.
Passed(f) ==
    [f EXCEPT !.size = Asked(f), !.last = Path(Last(f.at)), !.at = next(f.at), !.count = @ + 1]

\* A value of type v for an object of type t is checked as an assignment to a
\* variable of that type; a variable of enum type is no lvalue there.
RefusesValue(t, cast) == t.basic \in {"ARRAY", "ENUM"} \/ cast = NoType
FailsValue(t, cast)   == t.basic # "ARRAY" /\ cast = AssertFails

\* The accesser of the list f stands at what the next value is for.
Puts(f) ==
    /\ placed' = f.start \o Path(Last(f.at))
    /\ reached' = IF placed'[1] > reached THEN placed'[1] ELSE reached

Counted == items' = items + 1 /\ items < MaxItems

------------------------------------------------------------------------------
(* Actions *)

\* The object is initialized with one value, or with a list.
Whole(v) ==
    /\ frames = << >> /\ ~done /\ Counted
    /\ errors' = RefusesValue(object, CastTo(v, object))
    /\ failed' = FailsValue(object, CastTo(v, object))
    /\ done' = TRUE
    /\ UNCHANGED << object, static, size, frames, placed, reached >>

Open ==
    /\ frames = << >> /\ ~done /\ Counted
    /\ frames' = << List(object, << >>) >>
    /\ UNCHANGED << object, static, size, errors, failed, placed, reached, done >>

\* The designators of an item of a list lead nowhere, or there is no member left.
Misplaced(ds) ==
    /\ InTree /\ ~failed /\ Counted
    /\ LET f == Moved(Top, ds) IN
       /\ f.at # << >> /\ type(f.at) = NoType
       /\ frames' = Append(Below, Break(f))
    /\ errors' = TRUE
    /\ UNCHANGED << object, static, size, failed, placed, reached, done >>

\* A designator list of array indices alone leaves the accesser empty, and its
\* last entry is read.
NoEntry(ds) ==
    /\ InTree /\ ~failed /\ Counted
    /\ Moved(Top, ds).at = << >>
    /\ failed' = TRUE
    /\ UNCHANGED << object, static, size, frames, errors, placed, reached, done >>

\* A value for the type t the accesser of the list f has come down to.
Settle(f, t, cast) ==
    IF cast = NoType
    THEN /\ frames' = Append(Below, Break([f EXCEPT !.size = Asked(f)]))
         /\ errors' = TRUE
         /\ UNCHANGED << failed, placed, reached >>
    ELSE /\ frames' = Append(Below, Passed(f))
         /\ errors' = (errors \/ RefusesValue(t, cast))
         /\ failed' = FailsValue(t, cast)
         /\ Puts(f)

Assign(f, v) ==
    /\ f.at # << >> /\ type(f.at) # NoType
    /\ LET at == Fitting(f.at, v)
       IN  Settle([f EXCEPT !.at = at], type(at), CastTo(v, type(at)))

Item(ds, v) ==
    /\ InTree /\ ~failed /\ Counted
    /\ Assign(Moved(Top, ds), v)
    /\ UNCHANGED << object, static, size, done >>

\* A list in a list, for the subobject the accesser stands at.
OpenFor(f, t) ==
    /\ f.at # << >> /\ t # NoType
    /\ frames' = Append(Below, f) \o << List(t, f.start \o Path(Last(f.at))) >>
    /\ Puts(f)

OpenList(ds) ==
    /\ InTree /\ ~failed /\ Counted
    /\ LET f == Moved(Top, ds) IN OpenFor(f, type(f.at))
    /\ UNCHANGED << object, static, size, errors, failed, done >>

\* The list of a scalar has one value, without a designator or another list.
ScalarItem(ds, v) ==
    /\ InScalar /\ ~failed /\ Counted
    /\ frames' = Append(Below, [Top EXCEPT !.count = @ + 1])
    /\ errors' = (errors \/ Top.count > 0 \/ ds # << >>
                         \/ RefusesValue(Top.node, CastTo(v, Top.node)))
    /\ failed' = (/\ Top.count = 0 /\ ds = << >>
                  /\ FailsValue(Top.node, CastTo(v, Top.node)))
    /\ UNCHANGED << object, static, size, placed, reached, done >>

ScalarList ==
    /\ InScalar /\ ~failed /\ Counted
    /\ frames' = Append(Below, Break([Top EXCEPT !.count = @ + 1]))
    /\ errors' = TRUE
    /\ UNCHANGED << object, static, size, failed, placed, reached, done >>

\* The size of an array that was declared without one is what was asked for; a
\* storage class has made the code work on a copy of the type.
Sized(t, f) ==
    IF t.basic # "ARRAY" \/ (t.size = NoSize /\ static) THEN NoSize
    ELSE IF t.size = NoSize THEN f.size ELSE t.size

\* A list ends.  What follows where a list was broken off is not looked at.
Close ==
    /\ frames # << >> /\ ~failed
    /\ errors' = (errors \/ (~IsTree(Top.node) /\ Top.count # 1))
    /\ IF Len(frames) = 1
       THEN frames' = << >> /\ size' = Sized(object, Top) /\ done' = TRUE
       ELSE /\ frames' = Append(Front(Below), Passed(Last(Below)))
            /\ UNCHANGED << size, done >>
    /\ UNCHANGED << object, static, failed, placed, reached, items >>

Init ==
    /\ object \in Objects
    /\ static \in BOOLEAN
    /\ frames = << >>
    /\ errors = FALSE /\ failed = FALSE /\ done = FALSE
    /\ placed = << >> /\ reached = -1
    /\ size = NoSize
    /\ items = 0

Next ==
    \/ \E v \in Values : Whole(v)
    \/ Open
    \/ \E ds \in Designations : Misplaced(ds) \/ NoEntry(ds) \/ OpenList(ds)
    \/ \E ds \in Designations, v \in Values : Item(ds, v) \/ ScalarItem(ds, v)
    \/ ScalarList
    \/ Close

Spec == Init /\ [][Next]_vars
------------------------------------------------------------------------------
(* Properties *)

\* An array declared without a size gets the size its values need.  (With a
\* storage class it gets none: the code sizes a copy of the type.)
SizeIsExact ==
    done /\ ~errors /\ ~failed /\ ~static /\ object.basic = "ARRAY" =>
        size = IF object.size = NoSize THEN reached + 1 ELSE object.size
==============================================================================
