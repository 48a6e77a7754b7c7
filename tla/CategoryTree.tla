---------------------------- MODULE CategoryTree ----------------------------
(***************************************************************************)
(* CategoryService: categories and the tree that buyers are shown.  The    *)
(* column parent_id carries no foreign key.                                *)
(***************************************************************************)
EXTENDS ServiceCalls

CONSTANTS
    CategorySlugs,  \* what slugify makes of the names
    OldCategories   \* ids of stored categories, and ids of none

CategoryIds == Requests \cup OldCategories

Category == [slug : CategorySlugs, parent : CategoryIds \cup {None}, active : BOOLEAN]

(* None is a field that is not given, except in parent, where null is a    *)
(* value and "same" the field that is not given.                           *)
CategoryCall ==
    [op : {"createCategory"}, slug : CategorySlugs, parent : CategoryIds \cup {None},
     active : BOOLEAN]
    \cup [op : {"updateCategory"}, id : CategoryIds, slug : CategorySlugs \cup {None},
          parent : CategoryIds \cup {None, "same"}, active : BOOLEAN \cup {None}]
    \cup [op : {"removeCategory"}, id : CategoryIds]

ASSUME CategoryAssumption ==
    /\ Requests \cap OldCategories = {}
    /\ "same" \notin CategoryIds /\ None \notin CategoryIds /\ None \notin CategorySlugs
    /\ None \notin Category /\ None \notin BOOLEAN /\ None # "same"

VARIABLES
    categories, \* category: [CategoryIds -> Category or None]
    moved,      \* observer: the categories whose parent an update has set
    crossed     \* observer: the categories whose removal met the creation of a child

categoryVars == <<categories, moved, crossed>>

Taken(slug) == {c \in CategoryIds : categories[c] # None /\ categories[c].slug = slug}
ChildrenOf(p) == {c \in CategoryIds : categories[c] # None /\ categories[c].parent = p}

-----------------------------------------------------------------------------
(* findAll: buildTree puts each active category under its parent, if that  *)
(* is active too, and among the roots otherwise; the answer shows what     *)
(* hangs from the roots.                                                   *)
ActiveOnes == {c \in CategoryIds : categories[c] # None /\ categories[c].active}

ParentlessOnly == {c \in ActiveOnes : categories[c].parent = None}   \* plausible bug
Roots == {c \in ActiveOnes : categories[c].parent \notin ActiveOnes}

(* The least set with the roots in it and, with a category, its children.  *)
HoldsTree(S) ==
    /\ Roots \subseteq S
    /\ \A c \in ActiveOnes : categories[c].parent \in S => c \in S
Shown == {c \in ActiveOnes : \A S \in SUBSET ActiveOnes : HoldsTree(S) => c \in S}

(* No category of S is below itself by way of others of S.                 *)
NoCycleIn(S) ==
    \A C \in SUBSET S : C # {} => \E c \in C : categories[c].parent \notin C

CategoriesInit ==
    /\ categories \in [CategoryIds -> Category \cup {None}]
    /\ \A r \in Requests : categories[r] = None
    /\ \A s \in CategorySlugs : Cardinality(Taken(s)) <= 1
    /\ NoCycleIn({c \in OldCategories : categories[c] # None})
    /\ \A c \in OldCategories : categories[c] # None /\ categories[c].parent # None
            => categories[categories[c].parent] # None
    /\ moved = {} /\ crossed = {}

-----------------------------------------------------------------------------
(* create                                                                  *)

categoryBySlug(r) ==
    /\ pc[r] = "createCategory"
    /\ IF Taken(call[r].slug) # {} THEN End(r, "refused")
       ELSE Goto(r, IF call[r].parent = None THEN "insertCategory" ELSE "findParent", None)
    /\ UNCHANGED categoryVars

findParent(r) ==
    /\ pc[r] = "findParent"
    /\ IF categories[call[r].parent] = None THEN End(r, "refused")
       ELSE Goto(r, "insertCategory", None)
    /\ UNCHANGED categoryVars

RemovalsOf(p)  == {q \in Requests : pc[q] = "deleteCategory" /\ call[q].id = p}
CreationsIn(p) == {q \in Requests : pc[q] = "insertCategory" /\ call[q].parent = p}

insertCategory(r) ==
    LET c == call[r] IN
    /\ pc[r] = "insertCategory" /\ Taken(c.slug) = {}
    /\ categories' = [categories EXCEPT ![r] =
                        [slug |-> c.slug, parent |-> c.parent, active |-> c.active]]
    /\ crossed' = crossed \cup {p \in {c.parent} : RemovalsOf(p) # {}}
    /\ UNCHANGED moved
    /\ End(r, "ok")

-----------------------------------------------------------------------------
(* update: the new parent is looked up nowhere.                            *)

findCategory(r) ==
    /\ pc[r] = "updateCategory"
    /\ IF categories[call[r].id] = None THEN End(r, "refused")
       ELSE Goto(r, IF call[r].slug = None THEN "writeCategory" ELSE "otherSlug", None)
    /\ UNCHANGED categoryVars

otherSlug(r) ==
    /\ pc[r] = "otherSlug"
    /\ IF Taken(call[r].slug) \ {call[r].id} # {} THEN End(r, "refused")
       ELSE Goto(r, "writeCategory", None)
    /\ UNCHANGED categoryVars

AsGiven(x, old) == x                          \* plausible bug: undefined overwrites
Given(x, old) == IF x = None THEN old ELSE x

writeCategory(r) ==
    LET c == call[r] IN
    /\ pc[r] = "writeCategory" /\ categories[c.id] # None
    /\ c.slug # None => Taken(c.slug) \subseteq {c.id}
    /\ categories' = [categories EXCEPT ![c.id] =
            [slug |-> Given(c.slug, @.slug), active |-> Given(c.active, @.active),
             parent |-> IF c.parent = "same" THEN @.parent ELSE c.parent]]
    /\ moved' = IF c.parent = "same" THEN moved ELSE moved \cup {c.id}
    /\ UNCHANGED crossed
    /\ End(r, "ok")

-----------------------------------------------------------------------------
(* remove                                                                  *)

findForRemoval(r) ==
    /\ pc[r] = "removeCategory"
    /\ IF categories[call[r].id] = None THEN End(r, "refused") ELSE Goto(r, "findChildren", None)
    /\ UNCHANGED categoryVars

skipChildren(r) ==                            \* plausible bug: no check for children
    pc[r] = "findChildren" /\ Goto(r, "deleteCategory", None) /\ UNCHANGED categoryVars

findChildren(r) ==
    /\ pc[r] = "findChildren"
    /\ IF ChildrenOf(call[r].id) # {} THEN End(r, "refused") ELSE Goto(r, "deleteCategory", None)
    /\ UNCHANGED categoryVars

(* The database deletes the products of the category along with it.        *)
deleteCategory(r) ==
    LET c == call[r].id IN
    /\ pc[r] = "deleteCategory" /\ categories[c] # None
    /\ categories' = [categories EXCEPT ![c] = None]
    /\ crossed' = crossed \cup {p \in {c} : CreationsIn(p) # {}}
    /\ UNCHANGED moved
    /\ End(r, "ok")

(* Clients name ids they were shown, or any that no row has.               *)
CategoriesStart(r) == \E c \in Calls \cap CategoryCall :
    /\ \A i \in Requests :
        (c.op = "createCategory" /\ c.parent = i) \/ (c.op # "createCategory" /\ c.id = i)
            \/ (c.op = "updateCategory" /\ c.parent = i) => categories[i] # None
    /\ Begin(r, c, c.op)
    /\ UNCHANGED categoryVars

CategoriesStep(r) ==
    \/ CategoriesStart(r)
    \/ categoryBySlug(r) \/ findParent(r) \/ insertCategory(r)
    \/ findCategory(r) \/ otherSlug(r) \/ writeCategory(r)
    \/ findForRemoval(r) \/ findChildren(r)

-----------------------------------------------------------------------------
(* Type correctness. *)
CategoriesTypeOK ==
    /\ categories \in [CategoryIds -> Category \cup {None}]
    /\ moved \subseteq CategoryIds /\ crossed \subseteq CategoryIds

(* A category whose parent is gone comes from an update, which does not    *)
(* look the parent up, or from the removal of the parent while the child   *)
(* was being created: the check for children stops every other one.        *)
OrphansNeedRace == \A c \in CategoryIds :
    categories[c] # None /\ categories[c].parent # None /\ categories[categories[c].parent] = None
        => c \in moved \/ categories[c].parent \in crossed

(* Buyers see every active category, those under an inactive or missing    *)
(* parent included; only a cycle hides some, and only an update makes one. *)
HiddenNeedsMove == ActiveOnes = Shown \/ (ActiveOnes \ Shown) \cap moved # {}
=============================================================================
