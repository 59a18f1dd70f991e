-------------------------- MODULE CInitializerOrder --------------------------
(****************************************************************************)
(* Which subobject a value of an initializer is for: a reference, over all    *)
(* subobjects of the object declared, for what CInitializer finds with its    *)
(* accessers.                                                                 *)
(****************************************************************************)
EXTENDS CInitializer

\* The subobjects of an object of type t, as steps from it; of an array without
\* a size as many as values can reach.
RECURSIVE Subobjects(_)
Subobjects(t) ==
    IF ~IsTree(t) THEN {<< >>}
    ELSE LET steps == IF t.basic = "UNION" THEN 0..(Len(Kept[t.id]) - 1)
                      ELSE 0..((IF numOfChildren(t) = Many THEN MaxItems + 1 ELSE numOfChildren(t)) - 1)
         IN  {<< >>} \cup UNION {{<< i >> \o p : p \in Subobjects(child(t, i))} : i \in steps}

RECURSIVE TypeAt(_, _)
TypeAt(t, p) == IF p = << >> THEN t ELSE TypeAt(child(t, p[1]), Tail(p))

\* Those without parts of their own; an empty struct counts as one.
Leaves(t) == {p \in Subobjects(t) \ {<< >>} :
                 ~IsTree(TypeAt(t, p)) \/ numOfChildren(TypeAt(t, p)) = 0}

\* p and q go through the same members of the unions they share, until they part.
Common(p, q)  == {i \in 0..Len(p) : i <= Len(q) /\ SubSeq(p, 1, i) = SubSeq(q, 1, i)}
Parting(p, q) == CHOOSE i \in Common(p, q) : \A j \in Common(p, q) : j <= i
Before(p, q)  == LET i == Parting(p, q) + 1 IN i <= Len(p) /\ i <= Len(q) /\ p[i] < q[i]

\* From the depth n on q takes the first member of every union.
TakesFirst(t, q, n) ==
    \A i \in (n + 1)..Len(q) : TypeAt(t, SubSeq(q, 1, i - 1)).basic = "UNION" => q[i] = 0

\* The leaves of t that come after the subobject p, and those in it.
LeavesAfter(t, p) ==
    {q \in Leaves(t) : /\ Before(p, q)
                       /\ TypeAt(t, SubSeq(q, 1, Parting(p, q))).basic # "UNION"
                       /\ TakesFirst(t, q, Parting(p, q))}
LeavesIn(t, p)    == {q \in Leaves(t) : IsPrefix(p, q) /\ TakesFirst(t, q, Len(p))}

\* The subobjects that designators without an index name.
NamedBy(t, ds) ==
    {p \in Subobjects(t) :
        /\ Len(p) = Len(ds)
        /\ \A i \in DOMAIN ds : LET u == TypeAt(t, SubSeq(p, 1, i - 1))
                                 IN  u.basic # "ARRAY" /\ Kept[u.id][p[i] + 1].name = ds[i].name}

\* What an item of the list f may be for: the subobjects that begin at the leaf
\* its designators name or, without any, at the leaf after all that its last
\* value was for.
Wanted(f, ds) ==
    LET t      == f.node
        leaves == IF ds # << >> THEN UNION {LeavesIn(t, p) : p \in NamedBy(t, ds)}
                  ELSE IF f.count = 0 THEN LeavesIn(t, << >>)
                  ELSE LeavesAfter(t, f.last)
        from   == IF ds # << >> THEN Len(ds) ELSE 1
        leaf   == CHOOSE q \in leaves : \A r \in leaves \ {q} : Before(q, r)
    IN  IF leaves = {} THEN {}
        ELSE {p \in {SubSeq(leaf, 1, i) : i \in from..Len(leaf)} :
                 ds # << >> \/ f.count = 0 \/ ~IsPrefix(p, f.last)}

Outermost(ps) == CHOOSE p \in ps : \A q \in ps : Len(p) <= Len(q)

\* Every value is for the outermost of the subobjects its place in the list, or
\* its designators, stand for that can be given such a value, a list for the
\* outermost of all, and an item is refused only where there is none.  Claimed
\* as long as no array index has misled the list.
FillsInOrder ==
    [][InTree /\ ~failed =>
        \A ds \in {ds \in Designations : ~\E i \in DOMAIN ds : IsIndex(ds[i])} :
            (ds = << >> => ~Top.misled) =>
            LET wanted == Wanted(Top, ds)
                Fits(v) == {p \in wanted : CastTo(v, TypeAt(Top.node, p)) # NoType}
                To(p)   == placed' = Top.start \o p
            IN  /\ Misplaced(ds) => wanted = {}
                /\ OpenList(ds) => wanted # {} /\ To(Outermost(wanted))
                /\ \A v \in Values : Item(ds, v) =>
                      IF Fits(v) = {} THEN Last(frames').broken ELSE To(Outermost(Fits(v)))]_vars
==============================================================================
