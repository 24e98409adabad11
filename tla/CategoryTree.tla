---------------------------- MODULE CategoryTree ----------------------------
(***************************************************************************)
(* Category types and the trees of categories in them,                     *)
(* app/modules/categories.  A category is one row with a type and a parent *)
(* pointer; that the pointers form a tree within one type is the service's *)
(* business.  Names, slugs and descriptions decide nothing about the tree  *)
(* and are left out: every call is taken to name its row afresh.           *)
(*                                                                         *)
(* A definition under "Mutant:" is no part of the specification: it is the *)
(* next definition with a bug in it, which a property must notice.         *)
(***************************************************************************)
EXTENDS Calls

CONSTANTS
    Types,      \* category_types rows, existing or to be created
    Cats,       \* categories rows, existing or to be created
    MaxDepth    \* MAX_CATEGORY_DEPTH, MAX_MENU_DEPTH

VARIABLES types, cats

treeVars == <<types, cats>>

TypeRow == [gone : BOOLEAN]
CatRow == [type : Types, parent : Cats \cup {None}, active : BOOLEAN,
           gone : BOOLEAN]

\* A table has finitely many rows, and NULL is none of them.
ASSUME CatsAssumption == IsFiniteSet(Cats) /\ None \notin Cats \cup CatRow \cup TypeRow

(***************************************************************************)
(* Walking a tree of rows with a parent column.                            *)
(***************************************************************************)
LiveOr(rows, x) == IF x # None /\ Live(rows[x]) THEN x ELSE None

\* CategoryRepository.ancestors_of: the live rows above x.  The walk stops
\* at a missing row, at a deleted one, and at one it has been to.
Ancestors(rows, x) ==
    LET up[n \in 1..Cardinality(DOMAIN rows)] ==
          LiveOr(rows, IF n = 1 THEN rows[x].parent
                       ELSE IF up[n - 1] = None THEN None
                       ELSE rows[up[n - 1]].parent)
    IN  {up[n] : n \in DOMAIN up} \ {None, x}

\* descendant_ids: the live rows found a level at a time below x.
Levels(rows, x) ==
    LET below[n \in 0..Cardinality(DOMAIN rows)] ==
          IF n = 0 THEN {}
          ELSE below[n - 1] \cup
               {y \in DOMAIN rows : /\ Live(rows[y])
                                    /\ rows[y].parent \in below[n - 1] \cup {x}}
    IN  below

Descendants(rows, x) == Levels(rows, x)[Cardinality(DOMAIN rows)]

Children(rows, x) == {y \in DOMAIN rows : Live(rows[y]) /\ rows[y].parent = x}

\* _guard_depth: a child of p would be on this level, counting from 1.
DepthUnder(rows, p) == Cardinality(Ancestors(rows, p)) + 2

(***************************************************************************)
(* The guards of the service.                                              *)
(***************************************************************************)
\* _require_parent, and _guard_depth for a new row.
ParentFits(p, t) == p # None => /\ Live(cats[p])
                                /\ cats[p].type = t
                                /\ DepthUnder(cats, p) <= MaxDepth

GuardParent(c, p, t) ==
    p # None => /\ p # c
                /\ ParentFits(p, t)
                /\ p \notin Descendants(cats, c)

GuardTypeMove(c, t) ==
    t # cats[c].type => cats[c].parent = None /\ Children(cats, c) = {}

(***************************************************************************)
(* Category types.                                                         *)
(***************************************************************************)
CreateType(r, t) == /\ types[t] = None
                    /\ Unclaimed(t)
                    /\ Begin(r, [op |-> "types", id |-> t, set |-> [gone |-> FALSE]])

DeleteType(r, t) == /\ Live(types[t])
                    /\ \A c \in Cats : Live(cats[c]) => cats[c].type # t
                    /\ Begin(r, [op |-> "types", id |-> t, set |-> [gone |-> TRUE]])

RestoreType(r, t) == /\ types[t] # None
                     /\ Begin(r, [op |-> "types", id |-> t,
                                  set |-> Changed(types[t], [gone |-> FALSE])])

(***************************************************************************)
(* Categories.                                                             *)
(***************************************************************************)
CreateCategory(r, c, t, p) ==
    /\ cats[c] = None
    /\ Unclaimed(c)
    /\ Live(types[t])
    /\ ParentFits(p, t)
    /\ Begin(r, [op |-> "cats", id |-> c,
                 set |-> [type |-> t, parent |-> p, active |-> TRUE, gone |-> FALSE]])

\* CategoryUpdate: any of these columns, the rest left alone.
CategoryUpdates == [type : Types] \cup [parent : Cats \cup {None}]
                   \cup [active : BOOLEAN] \cup [type : Types, parent : Cats \cup {None}]

UpdateCategory(r, c, new) ==
    /\ Live(cats[c])
    /\ LET t == IF "type" \in DOMAIN new THEN new.type ELSE cats[c].type
       IN  /\ "type" \in DOMAIN new => Live(types[t]) /\ GuardTypeMove(c, t)
           /\ "parent" \in DOMAIN new => GuardParent(c, new.parent, t)
    /\ Begin(r, [op |-> "cats", id |-> c, set |-> Changed(cats[c], new)])

MoveCategory(r, c, p) ==
    /\ Live(cats[c])
    /\ GuardParent(c, p, cats[c].type)
    /\ Begin(r, [op |-> "cats", id |-> c, set |-> Changed(cats[c], [parent |-> p])])

DeleteCategory(r, c) ==
    /\ Live(cats[c])
    /\ Children(cats, c) = {}
    /\ Begin(r, [op |-> "cats", id |-> c, set |-> [gone |-> TRUE]])

\* restore loads a deleted row as well, and looks at nothing else.
RestoreCategory(r, c) ==
    /\ cats[c] # None
    /\ Begin(r, [op |-> "cats", id |-> c, set |-> Changed(cats[c], [gone |-> FALSE])])

WriteType(r) == /\ Doing(r, "types")
                /\ types' = [types EXCEPT ![call[r].id] = Written(@, call[r].set)]
                /\ UNCHANGED cats
                /\ End(r)

WriteCategory(r) == /\ Doing(r, "cats")
                    /\ cats' = [cats EXCEPT ![call[r].id] = Written(@, call[r].set)]
                    /\ UNCHANGED types
                    /\ End(r)

(***************************************************************************)
(* The specification.                                                      *)
(***************************************************************************)
\* What the comments of the module promise of the rows: no live category is
\* its own ancestor, and it lies in a live type and under a live parent of it.
InRing(rows, x) ==
    Live(rows[x]) /\ x \in Descendants(rows, x)

TypeHolds(c) == Live(types[cats[c].type])

UnderItsOwn(c) == cats[c].parent # None => /\ Live(cats[cats[c].parent])
                                           /\ cats[cats[c].parent].type = cats[c].type

TreeSound == \A c \in Cats : Live(cats[c]) =>
                TypeHolds(c) /\ UnderItsOwn(c) /\ ~InRing(cats, c)

\* Trees the calls can have built, at any depth they allow.
TreeInit == /\ types \in [Types -> {None, [gone |-> FALSE]}]
            /\ cats \in [Cats -> [type : Types, parent : Cats \cup {None},
                                  active : {TRUE}, gone : {FALSE}] \cup {None}]
            /\ TreeSound
            /\ \A c \in Cats : Live(cats[c]) => Cardinality(Ancestors(cats, c)) < MaxDepth

TypeCalls(r) == \E t \in Types : CreateType(r, t) \/ DeleteType(r, t) \/ RestoreType(r, t)

CategoryCalls(r) ==
    \/ \E c \in Cats, t \in Types, p \in Cats \cup {None} : CreateCategory(r, c, t, p)
    \/ \E c \in Cats, new \in CategoryUpdates : UpdateCategory(r, c, new)
    \/ \E c \in Cats, p \in Cats \cup {None} : MoveCategory(r, c, p)
    \/ \E c \in Cats : DeleteCategory(r, c) \/ RestoreCategory(r, c)

TreeNext == \E r \in Requests : \/ (TypeCalls(r) \/ CategoryCalls(r)) /\ UNCHANGED treeVars
                                \/ WriteType(r)
                                \/ WriteCategory(r)
                                \/ Die(r) /\ UNCHANGED treeVars

TreeTypeOK == /\ types \in [Types -> TypeRow \cup {None}]
              /\ cats \in [Cats -> CatRow \cup {None}]

TreeSpec == CallsInit /\ TreeInit /\ [][TreeNext]_<<callVars, treeVars>>

(***************************************************************************)
(* Properties.                                                             *)
(***************************************************************************)
\* A restored row comes back under whatever its parent and type are by now.
Restores(r) == call[r] # None /\ call[r].set = [gone |-> FALSE]

\* models/category.py: "The service enforces what the column cannot - that
\* a category is never its own ancestor".
NeverItsOwnAncestor == \A c \in Cats : ~InRing(cats, c)
=============================================================================
