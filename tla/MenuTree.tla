------------------------------ MODULE MenuTree ------------------------------
(***************************************************************************)
(* Menu items, app/modules/menus: a forest like the one of the categories, *)
(* whose rows lie in a category of the Menu Category type instead of in a  *)
(* type.  The calls on categories go on beside the calls on items, and     *)
(* look at no item.  Titles, links and the order among siblings decide     *)
(* nothing about the tree and are left out.                                *)
(***************************************************************************)
EXTENDS CategoryTree

CONSTANTS
    Items,      \* menus rows, existing or to be created
    MenuType    \* the seeded Menu Category type

ASSUME MenuTypeAssumption == MenuType \in Types

VARIABLE items

menuVars == <<types, cats, items>>

ItemRow == [cat : Cats, parent : Items \cup {None}, gone : BOOLEAN]

\* A table has finitely many rows, and NULL is none of them.
ASSUME ItemsAssumption == IsFiniteSet(Items) /\ None \notin Items \cup ItemRow

\* _resolve_menu_category: an active category of the Menu Category type,
\* which must be there itself.
Resolves(c) == /\ Live(types[MenuType])
               /\ Live(cats[c])
               /\ cats[c].type = MenuType
               /\ cats[c].active

\* _require_parent and _guard_depth.
ItemParentFits(p, c) == p # None => /\ Live(items[p])
                                    /\ items[p].cat = c
                                    /\ DepthUnder(items, p) <= MaxDepth

GuardItemParent(i, p, c) == p # None => /\ p # i
                                        /\ ItemParentFits(p, c)
                                        /\ p \notin Descendants(items, i)

\* Mutant: an item is taken to another navigation from under its parent.
GuardCategoryMoveChildrenOnly(i) == Children(items, i) = {}

\* _guard_category_move: an item that has neither a parent nor children.
GuardCategoryMove(i) == items[i].parent = None /\ Children(items, i) = {}

CreateItem(r, i, c, p) ==
    /\ items[i] = None
    /\ Unclaimed(i)
    /\ Resolves(c)
    /\ ItemParentFits(p, c)
    /\ Begin(r, [op |-> "items", id |-> i, set |-> [cat |-> c, parent |-> p, gone |-> FALSE]])

ItemUpdates == [cat : Cats] \cup [parent : Items \cup {None}]
               \cup [cat : Cats, parent : Items \cup {None}]

UpdateItem(r, i, new) ==
    /\ Live(items[i])
    /\ LET c == IF "cat" \in DOMAIN new THEN new.cat ELSE items[i].cat
       IN  /\ c # items[i].cat => Resolves(c) /\ GuardCategoryMove(i)
           /\ "parent" \in DOMAIN new => GuardItemParent(i, new.parent, c)
    /\ Begin(r, [op |-> "items", id |-> i, set |-> Changed(items[i], new)])

MoveItem(r, i, p) ==
    /\ Live(items[i])
    /\ GuardItemParent(i, p, items[i].cat)
    /\ Begin(r, [op |-> "items", id |-> i, set |-> Changed(items[i], [parent |-> p])])

DeleteItem(r, i) == /\ Live(items[i])
                    /\ Children(items, i) = {}
                    /\ Begin(r, [op |-> "items", id |-> i, set |-> [gone |-> TRUE]])

RestoreItem(r, i) == /\ items[i] # None
                     /\ Begin(r, [op |-> "items", id |-> i,
                                  set |-> Changed(items[i], [gone |-> FALSE])])

WriteItem(r) == /\ Doing(r, "items")
                /\ items' = [items EXCEPT ![call[r].id] = Written(@, call[r].set)]
                /\ UNCHANGED treeVars
                /\ End(r)

ItemSound(i) == LET p == items[i].parent
                IN  /\ p # None => Live(items[p]) /\ items[p].cat = items[i].cat
                    /\ ~InRing(items, i)

MenusSound == \A i \in Items : Live(items[i]) => ItemSound(i)

\* Every item lies in a category of the Menu Category type.
MenusFiled == \A i \in Items : Live(items[i]) =>
                /\ Live(cats[items[i].cat])
                /\ cats[items[i].cat].type = MenuType

MenuTypeOK == TreeTypeOK /\ items \in [Items -> ItemRow \cup {None}]

MenuInit == /\ TreeInit
            /\ Live(types[MenuType])
            /\ items \in [Items -> [cat : Cats, parent : Items \cup {None}, gone : {FALSE}]
                                   \cup {None}]
            /\ \A i \in Items : Live(items[i]) => Resolves(items[i].cat)
            /\ MenusSound
            /\ \A i \in Items : Live(items[i]) => Cardinality(Ancestors(items, i)) < MaxDepth

MenuLoad(r) ==
    \/ \E i \in Items, c \in Cats, p \in Items \cup {None} : CreateItem(r, i, c, p)
    \/ \E i \in Items, new \in ItemUpdates : UpdateItem(r, i, new)
    \/ \E i \in Items, p \in Items \cup {None} : MoveItem(r, i, p)
    \/ \E i \in Items : DeleteItem(r, i) \/ RestoreItem(r, i)

MenuNext == \/ TreeNext /\ UNCHANGED items
            \/ \E r \in Requests : MenuLoad(r) /\ UNCHANGED menuVars
            \/ \E r \in Requests : WriteItem(r)

MenuSpec == CallsInit /\ MenuInit /\ [][MenuNext]_<<callVars, menuVars>>

\* While calls do not overlap, no create, move, change of type, delete or
\* edit takes a sound tree of categories or of menu items apart: only
\* restoring a row, the one call that guards nothing, hangs it under a deleted
\* parent, across types or navigations, or in a ring.  And no call on items
\* takes one out of the Menu Category type, whatever happened to its category
\* since it was filed there: a call on categories or a restore has to.
OnlyRestoreBreaksTrees ==
    [][Alone =>
       /\ (TreeSound /\ ~TreeSound') => \E r \in Requests : Restores(r)
       /\ (MenusSound /\ ~MenusSound') => \E r \in Requests : Restores(r)
       /\ (MenusFiled /\ ~MenusFiled') => cats' # cats \/ \E r \in Requests : Restores(r)
      ]_<<callVars, menuVars>>
=============================================================================
