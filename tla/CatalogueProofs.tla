--------------------------- MODULE CatalogueProofs ---------------------------
(***************************************************************************)
(* Categories are orphaned, or hidden in a cycle, by races only; nothing   *)
(* is left of what was removed, sellers change what is theirs, and images  *)
(* and their files go together: proofs, for any requests, categories,      *)
(* products, variants and images, with any of them in flight together and  *)
(* requests breaking off.                                                  *)
(***************************************************************************)
EXTENDS Catalogue, TotalsProofs, TLAPS

BaseOK ==
    /\ call \in [Requests -> Calls \cup {None}]
    /\ pc = [s \in Requests |-> pc[s]] /\ seen = [s \in Requests |-> seen[s]]

(* Request r goes on to p; the others stay where they are.                 *)
Moves(r, p) ==
    /\ pc[r] \notin Answers
    /\ pc' = [pc EXCEPT ![r] = p]
    /\ call' \in [Requests -> Calls \cup {None}] /\ seen' = [s \in Requests |-> seen'[s]]
    /\ \A s \in Requests : s # r => call'[s] = call[s] /\ seen'[s] = seen[s]

LEMMA BaseKept ==
    ASSUME BaseOK, NEW r \in Requests, NEW p, Moves(r, p)
    PROVE  BaseOK'
  BY DEF BaseOK, Moves

LEMMA GotoMoves ==
    ASSUME BaseOK, NEW r \in Requests, pc[r] \notin Answers, NEW p, NEW x,
           Goto(r, p, x)
    PROVE  Moves(r, p) /\ call' = call /\ pc'[r] = p /\ seen'[r] = x
  BY DEF BaseOK, Goto, Moves

LEMMA EndMoves ==
    ASSUME BaseOK, NEW r \in Requests, pc[r] \notin Answers, NEW a, End(r, a)
    PROVE  Moves(r, a) /\ call' = call /\ pc'[r] = a
  BY GotoMoves DEF End

LEMMA BeginMoves ==
    ASSUME BaseOK, NEW r \in Requests, NEW c \in Calls, NEW p, Begin(r, c, p)
    PROVE  Moves(r, p) /\ call'[r] = c /\ pc'[r] = p /\ pc[r] = "idle"
  BY DEF BaseOK, Begin, Moves, Answers

-----------------------------------------------------------------------------
(* The tree.                                                               *)

CategoryPoints ==
    {"createCategory", "findParent", "insertCategory", "updateCategory", "otherSlug",
     "writeCategory", "removeCategory", "findChildren", "deleteCategory"}

CategoryFits(r) ==
    /\ pc[r] \in CategoryPoints => call[r] \in CategoryCall
    /\ pc[r] \in {"createCategory", "findParent", "insertCategory"}
            => call[r].op = "createCategory"
    /\ pc[r] = "findParent" => call[r].parent # None
    /\ pc[r] \in {"updateCategory", "otherSlug", "writeCategory"}
            => call[r].op = "updateCategory"
    /\ pc[r] \in {"removeCategory", "findChildren", "deleteCategory"}
            => call[r].op = "removeCategory"

(* The parent was there when it was looked up; if it has gone since, its   *)
(* removal has met this creation.                                          *)
ParentKnown(r) ==
    pc[r] = "insertCategory" /\ call[r].parent # None =>
        categories[call[r].parent] # None \/ call[r].parent \in crossed

(* There were no children when they were looked for; one that has come     *)
(* since was moved there, or its creation has met this removal.            *)
ChildrenKnown(r) ==
    pc[r] = "deleteCategory" =>
        \A c \in ChildrenOf(call[r].id) : c \in moved \/ call[r].id \in crossed

TreeReq(r) == CategoryFits(r) /\ ParentKnown(r) /\ ChildrenKnown(r)

TreeInv ==
    /\ CategoriesTypeOK
    /\ \A r \in Requests : TreeReq(r)
    /\ OrphansNeedRace

LEMMA CategoryCalls ==
    ASSUME NEW c \in CategoryCall
    PROVE  /\ c.op = "createCategory" =>
                  c.slug \in CategorySlugs /\ c.parent \in CategoryIds \cup {None}
                    /\ c.active \in BOOLEAN
           /\ c.op = "updateCategory" =>
                  /\ c.id \in CategoryIds /\ c.slug \in CategorySlugs \cup {None}
                  /\ c.parent \in CategoryIds \cup {None, "same"}
                  /\ c.active \in BOOLEAN \cup {None}
           /\ c.op = "removeCategory" => c.id \in CategoryIds
           /\ c.op \in {"createCategory", "updateCategory", "removeCategory"}
  BY DEF CategoryCall

(* Steps that change no category.                                          *)
LEMMA TreeRead ==
    ASSUME BaseOK, TreeInv, NEW r \in Requests, NEW p, Moves(r, p),
           UNCHANGED categoryVars, TreeReq(r)'
    PROVE  TreeInv'
  <1>1. ASSUME NEW s \in Requests, s # r PROVE TreeReq(s)'
    BY <1>1 DEF BaseOK, TreeInv, Moves, TreeReq, CategoryFits, ParentKnown, ChildrenKnown,
                ChildrenOf, categoryVars
  <1>2. CategoriesTypeOK' /\ OrphansNeedRace'
    BY DEF TreeInv, CategoriesTypeOK, OrphansNeedRace, categoryVars
  <1> QED
    BY <1>1, <1>2 DEF TreeInv

LEMMA TreeElsewhere ==
    ASSUME BaseOK, TreeInv, NEW r \in Requests, NEW p, p \notin CategoryPoints, Moves(r, p),
           UNCHANGED categoryVars
    PROVE  TreeInv'
  <1>1. TreeReq(r)'
    BY DEF BaseOK, Moves, TreeReq, CategoryFits, ParentKnown, ChildrenKnown, CategoryPoints
  <1> QED
    BY <1>1, TreeRead

(* A new child of a category that is being removed is noticed.             *)
LEMMA InsertCategoryOK ==
    ASSUME BaseOK, TreeInv, NEW r \in Requests, insertCategory(r)
    PROVE  TreeInv'
  <1> DEFINE p   == call[r].parent
             row == [slug |-> call[r].slug, parent |-> p, active |-> call[r].active]
  <1>1. /\ pc[r] = "insertCategory" /\ categories' = [categories EXCEPT ![r] = row]
        /\ crossed' = crossed \cup {c \in {p} : RemovalsOf(c) # {}} /\ moved' = moved
        /\ End(r, "ok")
    BY DEF insertCategory
  <1>2. Moves(r, "ok") /\ call' = call
    <2>1. pc[r] \notin Answers
      BY <1>1 DEF Answers
    <2> QED
      BY <1>1, <2>1, EndMoves
  <1>3. /\ r \in CategoryIds /\ row \in Category /\ row # None /\ row.parent = p
        /\ p \in CategoryIds \cup {None}
    BY <1>1, CategoryCalls, CategoryAssumption
       DEF TreeInv, TreeReq, CategoryFits, CategoryPoints, CategoryIds, Category
  <1>4. p # None => categories[p] # None \/ p \in crossed
    BY <1>1 DEF TreeInv, TreeReq, ParentKnown
  <1> HIDE DEF row
  <1>5. \A c \in CategoryIds : categories'[c] = IF c = r THEN row ELSE categories[c]
    BY <1>1 DEF TreeInv, CategoriesTypeOK
  <1>6. CategoriesTypeOK'
    <2>1. crossed' \subseteq CategoryIds
      <3>1. ASSUME RemovalsOf(p) # {} PROVE p \in CategoryIds
        <4>1. PICK q \in Requests : pc[q] = "deleteCategory" /\ call[q].id = p
          BY <3>1 DEF RemovalsOf
        <4> QED
          BY <4>1, CategoryCalls DEF TreeInv, TreeReq, CategoryFits, CategoryPoints
      <3> QED
        BY <1>1, <3>1 DEF TreeInv, CategoriesTypeOK
    <2> QED
      BY <1>1, <1>3, <2>1 DEF TreeInv, CategoriesTypeOK
  <1>7. OrphansNeedRace'
    BY <1>1, <1>3, <1>4, <1>5 DEF TreeInv, OrphansNeedRace, CategoriesTypeOK
  <1>8. ASSUME NEW s \in Requests PROVE TreeReq(s)'
    <2>1. CASE s = r
      BY <1>2, <2>1 DEF BaseOK, Moves, TreeReq, CategoryFits, ParentKnown, ChildrenKnown,
                        CategoryPoints
    <2>2. CASE s # r
      <3>1. pc'[s] = pc[s] /\ call'[s] = call[s]
        BY <1>2, <2>2 DEF BaseOK, Moves
      <3>2. CategoryFits(s)'
        BY <3>1 DEF TreeInv, TreeReq, CategoryFits
      <3>3. ParentKnown(s)'
        <4>1. pc[s] = "insertCategory" => call[s].parent \in CategoryIds \cup {None}
          BY CategoryCalls DEF TreeInv, TreeReq, CategoryFits, CategoryPoints
        <4> QED
          BY <1>1, <1>3, <1>5, <3>1, <4>1 DEF TreeInv, TreeReq, ParentKnown
      <3>4. ChildrenKnown(s)'
        <4>1. ASSUME pc[s] = "deleteCategory", NEW c \in CategoryIds,
                     categories'[c] # None, categories'[c].parent = call[s].id
              PROVE  c \in moved \/ call[s].id \in crossed'
          <5>1. CASE c = r
            <6>1. call[s].id = p /\ s \in RemovalsOf(p)
              BY <1>3, <1>5, <4>1, <5>1 DEF RemovalsOf
            <6> QED
              BY <1>1, <6>1
          <5>2. CASE c # r
            <6>1. c \in ChildrenOf(call[s].id)
              BY <1>5, <4>1, <5>2 DEF ChildrenOf
            <6> QED
              BY <1>1, <4>1, <6>1 DEF TreeInv, TreeReq, ChildrenKnown
          <5> QED
            BY <5>1, <5>2
        <4> QED
          BY <1>1, <3>1, <4>1 DEF ChildrenKnown, ChildrenOf
      <3> QED
        BY <3>2, <3>3, <3>4 DEF TreeReq
    <2> QED
      BY <2>1, <2>2
  <1> QED
    BY <1>6, <1>7, <1>8 DEF TreeInv

(* An update that names a parent puts its category among the moved.        *)
LEMMA WriteCategoryOK ==
    ASSUME BaseOK, TreeInv, NEW r \in Requests, writeCategory(r)
    PROVE  /\ TreeInv'
           /\ \A c \in CategoryIds : categories[c] # None => categories'[c] # None
           /\ Moves(r, "ok")
  <1> DEFINE k   == call[r]
             old == categories[k.id]
             row == [slug |-> Given(k.slug, old.slug),
                     parent |-> IF k.parent = "same" THEN old.parent ELSE k.parent,
                     active |-> Given(k.active, old.active)]
  <1>1. /\ pc[r] = "writeCategory" /\ old # None /\ crossed' = crossed
        /\ moved' = IF k.parent = "same" THEN moved ELSE moved \cup {k.id}
        /\ End(r, "ok")
    BY DEF writeCategory
  <1>2. Moves(r, "ok") /\ call' = call
    <2>1. pc[r] \notin Answers
      BY <1>1 DEF Answers
    <2> QED
      BY <1>1, <2>1, EndMoves
  <1>3. /\ k.id \in CategoryIds /\ k.slug \in CategorySlugs \cup {None}
        /\ k.parent \in CategoryIds \cup {None, "same"} /\ k.active \in BOOLEAN \cup {None}
    BY <1>1, CategoryCalls DEF TreeInv, TreeReq, CategoryFits, CategoryPoints
  <1>4. old \in Category
    BY <1>1, <1>3 DEF TreeInv, CategoriesTypeOK
  <1>5. row \in Category /\ row # None
    BY <1>3, <1>4, CategoryAssumption DEF Category, Given
  <1>6. categories' = [categories EXCEPT ![k.id] = row]
    BY DEF writeCategory
  <1>7. row.parent = IF k.parent = "same" THEN old.parent ELSE k.parent
    OBVIOUS
  <1> HIDE DEF row
  <1>8. \A c \in CategoryIds : categories'[c] = IF c = k.id THEN row ELSE categories[c]
    BY <1>6 DEF TreeInv, CategoriesTypeOK
  <1>9. CategoriesTypeOK'
    BY <1>1, <1>3, <1>5, <1>6 DEF TreeInv, CategoriesTypeOK
  <1>10. \A c \in CategoryIds : categories'[c] # None <=> categories[c] # None
    BY <1>1, <1>5, <1>8
  <1>11. \A c \in CategoryIds : categories'[c] # None /\ c \notin moved' =>
             categories'[c].parent = categories[c].parent
    BY <1>1, <1>7, <1>8
  <1>12. OrphansNeedRace'
    <2>1. ASSUME NEW c \in CategoryIds, categories'[c] # None, categories'[c].parent # None,
                 categories'[categories'[c].parent] = None, c \notin moved'
          PROVE  categories'[c].parent \in crossed'
      <3>1. categories[c] # None /\ categories'[c].parent = categories[c].parent
        BY <1>10, <1>11, <2>1
      <3>2. categories[c].parent \in CategoryIds
        BY <2>1, <3>1 DEF TreeInv, CategoriesTypeOK, Category
      <3> QED
        BY <1>1, <1>10, <2>1, <3>1, <3>2 DEF TreeInv, OrphansNeedRace
    <2> QED
      BY <2>1 DEF OrphansNeedRace
  <1>13. ASSUME NEW s \in Requests PROVE TreeReq(s)'
    <2>1. CASE s = r
      BY <1>2, <2>1 DEF BaseOK, Moves, TreeReq, CategoryFits, ParentKnown, ChildrenKnown,
                        CategoryPoints
    <2>2. CASE s # r
      <3>1. pc'[s] = pc[s] /\ call'[s] = call[s]
        BY <1>2, <2>2 DEF BaseOK, Moves
      <3>2. CategoryFits(s)'
        BY <3>1 DEF TreeInv, TreeReq, CategoryFits
      <3>3. ParentKnown(s)'
        <4>1. pc[s] = "insertCategory" => call[s].parent \in CategoryIds \cup {None}
          BY CategoryCalls DEF TreeInv, TreeReq, CategoryFits, CategoryPoints
        <4> QED
          BY <1>1, <1>10, <3>1, <4>1 DEF TreeInv, TreeReq, ParentKnown
      <3>4. ChildrenKnown(s)'
        <4>1. ASSUME pc[s] = "deleteCategory", NEW c \in CategoryIds,
                     categories'[c] # None, categories'[c].parent = call[s].id, c \notin moved'
              PROVE  call[s].id \in crossed'
          <5>1. c \in ChildrenOf(call[s].id) /\ c \notin moved
            BY <1>1, <1>10, <1>11, <4>1 DEF ChildrenOf
          <5> QED
            BY <1>1, <4>1, <5>1 DEF TreeInv, TreeReq, ChildrenKnown
        <4> QED
          BY <3>1, <4>1 DEF ChildrenKnown, ChildrenOf
      <3> QED
        BY <3>2, <3>3, <3>4 DEF TreeReq
    <2> QED
      BY <2>1, <2>2
  <1> QED
    BY <1>2, <1>9, <1>10, <1>12, <1>13 DEF TreeInv

(* The removal of a category on whose creation of a child it comes across  *)
(* is noticed; any other has no children left that were not moved there.   *)
LEMMA DeleteCategoryOK ==
    ASSUME BaseOK, TreeInv, NEW r \in Requests, deleteCategory(r)
    PROVE  /\ TreeInv'
           /\ Moves(r, "ok") /\ call[r].id \in CategoryIds /\ categories[call[r].id] # None
           /\ \A c \in CategoryIds : categories'[c] = IF c = call[r].id THEN None ELSE categories[c]
  <1> DEFINE k == call[r].id
  <1>1. /\ pc[r] = "deleteCategory" /\ categories[k] # None /\ moved' = moved
        /\ categories' = [categories EXCEPT ![k] = None]
        /\ crossed' = crossed \cup {p \in {k} : CreationsIn(p) # {}}
        /\ End(r, "ok")
    BY DEF deleteCategory
  <1>2. Moves(r, "ok") /\ call' = call
    <2>1. pc[r] \notin Answers
      BY <1>1 DEF Answers
    <2> QED
      BY <1>1, <2>1, EndMoves
  <1>3. k \in CategoryIds
    BY <1>1, CategoryCalls DEF TreeInv, TreeReq, CategoryFits, CategoryPoints
  <1>4. \A c \in CategoryIds : categories'[c] = IF c = k THEN None ELSE categories[c]
    BY <1>1, <1>3 DEF TreeInv, CategoriesTypeOK
  <1>5. CategoriesTypeOK'
    BY <1>1, <1>3 DEF TreeInv, CategoriesTypeOK
  <1>6. OrphansNeedRace'
    <2>1. ASSUME NEW c \in CategoryIds, categories'[c] # None, categories'[c].parent # None,
                 categories'[categories'[c].parent] = None
          PROVE  c \in moved' \/ categories'[c].parent \in crossed'
      <3>1. categories[c] # None /\ categories'[c] = categories[c]
        BY <1>4, <2>1
      <3>2. categories[c].parent \in CategoryIds
        BY <2>1, <3>1 DEF TreeInv, CategoriesTypeOK, Category
      <3>3. CASE categories[c].parent = k
        <4>1. c \in ChildrenOf(k)
          BY <3>1, <3>3 DEF ChildrenOf
        <4> QED
          BY <1>1, <3>1, <3>3, <4>1 DEF TreeInv, TreeReq, ChildrenKnown
      <3>4. CASE categories[c].parent # k
        BY <1>1, <1>4, <2>1, <3>1, <3>2, <3>4 DEF TreeInv, OrphansNeedRace
      <3> QED
        BY <3>3, <3>4
    <2> QED
      BY <2>1 DEF OrphansNeedRace
  <1>7. ASSUME NEW s \in Requests PROVE TreeReq(s)'
    <2>1. CASE s = r
      BY <1>2, <2>1 DEF BaseOK, Moves, TreeReq, CategoryFits, ParentKnown, ChildrenKnown,
                        CategoryPoints
    <2>2. CASE s # r
      <3>1. pc'[s] = pc[s] /\ call'[s] = call[s]
        BY <1>2, <2>2 DEF BaseOK, Moves
      <3>2. CategoryFits(s)'
        BY <3>1 DEF TreeInv, TreeReq, CategoryFits
      <3>3. ParentKnown(s)'
        <4>1. ASSUME pc[s] = "insertCategory", call[s].parent # None,
                     categories'[call[s].parent] = None
              PROVE  call[s].parent \in crossed'
          <5>1. call[s].parent \in CategoryIds
            BY <4>1, CategoryCalls DEF TreeInv, TreeReq, CategoryFits, CategoryPoints
          <5>2. CASE call[s].parent = k
            BY <1>1, <4>1, <5>2 DEF CreationsIn
          <5>3. CASE call[s].parent # k
            BY <1>1, <1>4, <4>1, <5>1, <5>3 DEF TreeInv, TreeReq, ParentKnown
          <5> QED
            BY <5>2, <5>3
        <4> QED
          BY <3>1, <4>1 DEF ParentKnown
      <3>4. ChildrenKnown(s)'
        BY <1>1, <1>4, <3>1 DEF TreeInv, TreeReq, ChildrenKnown, ChildrenOf
      <3> QED
        BY <3>2, <3>3, <3>4 DEF TreeReq
    <2> QED
      BY <2>1, <2>2
  <1> QED
    BY <1>1, <1>2, <1>3, <1>4, <1>5, <1>6, <1>7 DEF TreeInv

-----------------------------------------------------------------------------
(* Products and variants.                                                  *)

ProductPoints ==
    {"createProduct", "productCategory", "insertProduct", "findProduct", "newSlug",
     "writeProduct", "softDelete", "newSku", "insertVariant", "findVariant", "writeVariant",
     "disable"}

(* Where a request has found its product, and where its variant.           *)
HasProduct(r) == pc[r] \in {"newSlug", "writeProduct", "softDelete", "newSku", "insertVariant",
                            "findVariant", "writeVariant", "disable"}
HasVariant(r) == \/ pc[r] \in {"writeVariant", "disable"}
                 \/ pc[r] = "newSku" /\ call[r].op = "updateVariant"

ProductCallFits(r) ==
    /\ pc[r] \in ProductPoints => call[r] \in ProductCall
    /\ pc[r] \in {"createProduct", "productCategory", "insertProduct"}
            => call[r].op = "createProduct"
    /\ pc[r] = "findProduct" => call[r].op # "createProduct"
    /\ pc[r] \in {"newSlug", "writeProduct"} => call[r].op = "updateProduct"
    /\ pc[r] = "softDelete" => call[r].op = "removeProduct"
    /\ pc[r] = "insertVariant" => call[r].op = "addVariant"
    /\ pc[r] = "newSku" => call[r].op \in {"addVariant", "updateVariant"}
    /\ pc[r] = "findVariant" => call[r].op \in {"updateVariant", "removeVariant"}
    /\ pc[r] = "writeVariant" => call[r].op = "updateVariant"
    /\ pc[r] = "disable" => call[r].op = "removeVariant"

(* Whose the product is was asked when it was found, and no other product  *)
(* takes its identity after.                                               *)
Owned(r) == HasProduct(r) =>
    /\ products[call[r].product] # None
            => products[call[r].product].seller = call[r].seller
    /\ call[r].product \in Requests => pc[call[r].product] \in Answers

Placed(r) == HasVariant(r) =>
    /\ variants[call[r].variant] # None
            => variants[call[r].variant].product = call[r].product
    /\ call[r].variant[1] \in Requests => pc[call[r].variant[1]] \in Answers

ShelfReq(r) == ProductCallFits(r) /\ Owned(r) /\ Placed(r)

(* What a request stores it stores with its last statement.                *)
StoredIsAnswered(r) == pc[r] \notin Answers =>
    products[r] = None /\ \A s \in Skus : variants[<<r, s>>] = None

ShelfInv ==
    /\ ProductsTypeOK
    /\ \A r \in Requests : ShelfReq(r) /\ StoredIsAnswered(r)
    /\ NothingDangles

LEMMA ProductCalls ==
    ASSUME NEW c \in ProductCall
    PROVE  /\ c.op \in {"createProduct", "updateProduct", "removeProduct", "addVariant",
                        "updateVariant", "removeVariant"}
           /\ c.seller \in Sellers
           /\ c.op = "createProduct" => c.category \in CategoryIds /\ c.slug \in ProductSlugs
           /\ c.op # "createProduct" => c.product \in ProductIds
           /\ c.op = "updateProduct" =>
                  c.category \in CategoryIds \cup {None} /\ c.slug \in ProductSlugs \cup {None}
           /\ c.op = "addVariant" => c.sku \in Skus
           /\ c.op \in {"updateVariant", "removeVariant"} => c.variant \in VariantIds
           /\ c.op = "updateVariant" =>
                  c.sku \in Skus \cup {None} /\ c.active \in BOOLEAN \cup {None}
  BY DEF ProductCall

LEMMA VariantPairs ==
    /\ \A v \in VariantIds : v[1] \in ProductIds /\ v[2] \in Skus /\ v = <<v[1], v[2]>>
    /\ \A p \in ProductIds, s \in Skus : <<p, s>> \in VariantIds
    /\ Requests \subseteq ProductIds
  BY DEF VariantIds, ProductIds

(* A step of r that leaves every seller and every variant's product as     *)
(* they were, and stores under no identity but r's.                        *)
LEMMA ShelfKept ==
    ASSUME BaseOK, ShelfInv, NEW r \in Requests, NEW p, Moves(r, p),
           ProductsTypeOK', NothingDangles', ShelfReq(r)',
           \A q \in ProductIds : products'[q] # None =>
               \/ products[q] # None /\ products'[q].seller = products[q].seller
               \/ q = r /\ p \in Answers,
           \A v \in VariantIds : variants'[v] # None =>
               \/ variants[v] # None /\ variants'[v].product = variants[v].product
               \/ v[1] = r /\ p \in Answers
    PROVE  ShelfInv'
  <1>1. ASSUME NEW s \in Requests PROVE StoredIsAnswered(s)'
    <2>1. SUFFICES ASSUME pc'[s] \notin Answers
                   PROVE  products'[s] = None /\ \A k \in Skus : variants'[<<s, k>>] = None
      BY DEF StoredIsAnswered
    <2>2. pc[s] \notin Answers /\ (s = r => p \notin Answers)
      BY <2>1 DEF BaseOK, Moves
    <2>3. products[s] = None /\ \A k \in Skus : variants[<<s, k>>] = None
      BY <2>2 DEF ShelfInv, StoredIsAnswered
    <2>4. products'[s] = None
      BY <2>2, <2>3, VariantPairs
    <2>5. ASSUME NEW k \in Skus PROVE variants'[<<s, k>>] = None
      <3> DEFINE v == <<s, k>>
      <3>1. v \in VariantIds /\ v[1] = s
        BY VariantPairs
      <3>2. variants[v] = None
        BY <2>3
      <3> HIDE DEF v
      <3>3. variants'[v] = None
        BY <2>2, <3>1, <3>2
      <3> QED
        BY <3>3 DEF v
    <2> QED
      BY <2>4, <2>5
  <1>2. ASSUME NEW s \in Requests, s # r PROVE ShelfReq(s)'
    <2>1. pc'[s] = pc[s] /\ call'[s] = call[s]
      BY <1>2 DEF BaseOK, Moves
    <2>2. \A q \in Requests : pc[q] \in Answers => q # r /\ pc'[q] \in Answers
      BY DEF BaseOK, Moves
    <2>3. ProductCallFits(s)'
      BY <2>1 DEF ShelfInv, ShelfReq, ProductCallFits
    <2>4. Owned(s)'
      <3>1. SUFFICES ASSUME HasProduct(s)
                     PROVE  /\ products'[call[s].product] # None
                                => products'[call[s].product].seller = call[s].seller
                            /\ call[s].product \in Requests => pc'[call[s].product] \in Answers
        BY <2>1 DEF Owned, HasProduct
      <3>2. call[s].product \in ProductIds
        BY <3>1, ProductCalls DEF ShelfInv, ShelfReq, ProductCallFits, HasProduct, ProductPoints
      <3> QED
        BY <2>2, <3>1, <3>2 DEF ShelfInv, ShelfReq, Owned
    <2>5. Placed(s)'
      <3>1. SUFFICES ASSUME HasVariant(s)
                     PROVE  /\ variants'[call[s].variant] # None
                                => variants'[call[s].variant].product = call[s].product
                            /\ call[s].variant[1] \in Requests
                                => pc'[call[s].variant[1]] \in Answers
        BY <2>1 DEF Placed, HasVariant
      <3>2. call[s].variant \in VariantIds
        BY <3>1, ProductCalls DEF ShelfInv, ShelfReq, ProductCallFits, HasVariant, ProductPoints
      <3> QED
        BY <2>2, <3>1, <3>2 DEF ShelfInv, ShelfReq, Placed
    <2> QED
      BY <2>3, <2>4, <2>5 DEF ShelfReq
  <1> QED
    BY <1>1, <1>2 DEF ShelfInv

CategoriesStay == \A c \in CategoryIds : categories[c] # None => categories'[c] # None

LEMMA ShelfRead ==
    ASSUME BaseOK, ShelfInv, NEW r \in Requests, NEW p, Moves(r, p),
           UNCHANGED productVars, CategoriesStay, ShelfReq(r)'
    PROVE  ShelfInv'
  <1>1. ProductsTypeOK'
    BY DEF ShelfInv, ProductsTypeOK, productVars
  <1>2. NothingDangles'
    BY DEF ShelfInv, ProductsTypeOK, NothingDangles, productVars, CategoriesStay, Product
  <1> QED
    BY <1>1, <1>2, ShelfKept DEF productVars

LEMMA ShelfElsewhere ==
    ASSUME BaseOK, ShelfInv, NEW r \in Requests, NEW p, p \notin ProductPoints, Moves(r, p),
           UNCHANGED productVars, CategoriesStay
    PROVE  ShelfInv'
  <1>1. ShelfReq(r)'
    BY DEF BaseOK, Moves, ShelfReq, ProductCallFits, Owned, Placed, HasProduct, HasVariant,
           ProductPoints
  <1> QED
    BY <1>1, ShelfRead

(* The statements of the product methods that only read.                   *)
ProductRead(r) ==
    \/ ProductsStart(r) \/ productBySlug(r) \/ productCategory(r) \/ findProduct(r)
    \/ newSlug(r) \/ newSku(r) \/ findVariant(r)

LEMMA ProductReadOK ==
    ASSUME BaseOK, ShelfInv, NEW r \in Requests, ProductRead(r), UNCHANGED categoryVars
    PROVE  /\ ShelfInv' /\ UNCHANGED productVars
           /\ \E p : p \in ProductPoints \cup Answers /\ Moves(r, p)
  <1>0. CategoriesStay
    BY DEF CategoriesStay, categoryVars
  <1>1. CASE ProductsStart(r)
    <2>1. PICK c \in Calls \cap ProductCall :
              Begin(r, c, IF c.op = "createProduct" THEN c.op ELSE "findProduct")
      BY <1>1 DEF ProductsStart
    <2> DEFINE p == IF c.op = "createProduct" THEN c.op ELSE "findProduct"
    <2>2. Moves(r, p) /\ call'[r] = c /\ pc'[r] = p
      BY <2>1, BeginMoves
    <2>3. p \in {"createProduct", "findProduct"} /\ (p = "createProduct" <=> c.op = "createProduct")
      OBVIOUS
    <2>4. UNCHANGED productVars
      BY <1>1 DEF ProductsStart
    <2> HIDE DEF p
    <2>5. ShelfReq(r)'
      BY <2>2, <2>3 DEF ShelfReq, ProductCallFits, Owned, Placed, HasProduct, HasVariant
    <2> QED
      BY <1>0, <2>2, <2>3, <2>4, <2>5, ShelfRead DEF ProductPoints
  <1>2. ASSUME NEW p, pc[r] \notin Answers, UNCHANGED productVars, pc'[r] = p,
               Moves(r, p), call' = call, p \in Answers \cup ProductPoints, ShelfReq(r)'
        PROVE  /\ ShelfInv' /\ UNCHANGED productVars
               /\ \E q : q \in ProductPoints \cup Answers /\ Moves(r, q)
    BY <1>0, <1>2, ShelfRead
  <1>3. ASSUME NEW a \in Answers, pc[r] \notin Answers, UNCHANGED productVars, End(r, a)
        PROVE  /\ ShelfInv' /\ UNCHANGED productVars
               /\ \E q : q \in ProductPoints \cup Answers /\ Moves(r, q)
    <2>1. Moves(r, a) /\ a \notin ProductPoints
      BY <1>3, EndMoves DEF Answers, ProductPoints
    <2> QED
      BY <1>0, <1>3, <2>1, ShelfElsewhere
  <1>4. "refused" \in Answers
    BY DEF Answers
  <1>5. CASE productBySlug(r)
    <2>1. pc[r] = "createProduct" /\ pc[r] \notin Answers /\ UNCHANGED productVars
      BY <1>5 DEF productBySlug, Answers
    <2>2. CASE End(r, "refused")
      BY <1>3, <1>4, <2>1, <2>2
    <2>3. CASE Goto(r, "productCategory", None)
      <3>1. Moves(r, "productCategory") /\ call' = call /\ pc'[r] = "productCategory"
        BY <2>1, <2>3, GotoMoves
      <3>2. ShelfReq(r)'
        BY <2>1, <3>1 DEF ShelfInv, ShelfReq, ProductCallFits, Owned, Placed, HasProduct,
                          HasVariant, ProductPoints
      <3> QED
        BY <1>2, <2>1, <3>1, <3>2 DEF ProductPoints
    <2> QED
      BY <1>5, <2>2, <2>3 DEF productBySlug
  <1>6. CASE productCategory(r)
    <2>1. pc[r] = "productCategory" /\ pc[r] \notin Answers /\ UNCHANGED productVars
      BY <1>6 DEF productCategory, Answers
    <2>2. CASE End(r, "refused")
      BY <1>3, <1>4, <2>1, <2>2
    <2>3. CASE Goto(r, "insertProduct", None)
      <3>1. Moves(r, "insertProduct") /\ call' = call /\ pc'[r] = "insertProduct"
        BY <2>1, <2>3, GotoMoves
      <3>2. ShelfReq(r)'
        BY <2>1, <3>1 DEF ShelfInv, ShelfReq, ProductCallFits, Owned, Placed, HasProduct,
                          HasVariant, ProductPoints
      <3> QED
        BY <1>2, <2>1, <3>1, <3>2 DEF ProductPoints
    <2> QED
      BY <1>6, <2>2, <2>3 DEF productCategory
  <1>7. CASE findProduct(r)
    <2>1. pc[r] = "findProduct" /\ pc[r] \notin Answers /\ UNCHANGED productVars
      BY <1>7 DEF findProduct, Answers
    <2>2. CASE End(r, "refused")
      BY <1>3, <1>4, <2>1, <2>2
    <2>3. CASE OwnProduct(r) /\ Goto(r, AfterFind(call[r]), None)
      <3> DEFINE p == AfterFind(call[r])
      <3>1. Moves(r, p) /\ call' = call /\ pc'[r] = p
        BY <2>1, <2>3, GotoMoves
      <3>2. call[r] \in ProductCall /\ call[r].op # "createProduct"
        BY <2>1 DEF ShelfInv, ShelfReq, ProductCallFits, ProductPoints
      <3>3. /\ p \in {"writeProduct", "newSlug", "softDelete", "newSku", "findVariant"}
            /\ p \in {"writeProduct", "newSlug"} => call[r].op = "updateProduct"
            /\ p = "softDelete" => call[r].op = "removeProduct"
            /\ p = "newSku" => call[r].op = "addVariant"
            /\ p = "findVariant" => call[r].op \in {"updateVariant", "removeVariant"}
        BY <3>2, ProductCalls DEF AfterFind
      <3>4. call[r].product \in Requests => pc[call[r].product] \in Answers
        BY <2>3 DEF OwnProduct, ShelfInv, StoredIsAnswered
      <3>5. call[r].product \in Requests => pc'[call[r].product] \in Answers
        BY <2>1, <3>1, <3>4 DEF BaseOK, Moves
      <3> HIDE DEF p
      <3>6. Owned(r)'
        BY <2>1, <2>3, <3>1, <3>5 DEF Owned, OwnProduct, productVars
      <3>7. ProductCallFits(r)' /\ ~ HasVariant(r)'
        BY <3>1, <3>2, <3>3 DEF ProductCallFits, HasVariant, ProductPoints
      <3>8. ShelfReq(r)'
        BY <3>6, <3>7 DEF ShelfReq, Placed
      <3> QED
        BY <1>2, <2>1, <3>1, <3>3, <3>8 DEF ProductPoints
    <2> QED
      BY <1>7, <2>2, <2>3 DEF findProduct
  <1>8. CASE newSlug(r)
    <2>1. pc[r] = "newSlug" /\ pc[r] \notin Answers /\ UNCHANGED productVars
      BY <1>8 DEF newSlug, Answers
    <2>2. CASE End(r, "refused")
      BY <1>3, <1>4, <2>1, <2>2
    <2>3. CASE Goto(r, "writeProduct", None)
      <3>1. Moves(r, "writeProduct") /\ call' = call /\ pc'[r] = "writeProduct"
        BY <2>1, <2>3, GotoMoves
      <3>2. \A q \in Requests : pc[q] \in Answers => pc'[q] \in Answers
        BY <3>1 DEF BaseOK, Moves
      <3>3. Owned(r)'
        BY <2>1, <3>1, <3>2 DEF ShelfInv, ShelfReq, Owned, HasProduct, productVars
      <3>4. ProductCallFits(r)' /\ ~ HasVariant(r)'
        BY <2>1, <3>1 DEF ShelfInv, ShelfReq, ProductCallFits, HasVariant, ProductPoints
      <3> QED
        BY <1>2, <2>1, <3>1, <3>3, <3>4 DEF ProductPoints, ShelfReq, Placed
    <2> QED
      BY <1>8, <2>2, <2>3 DEF newSlug
  <1>9. CASE newSku(r)
    <2> DEFINE p == IF call[r].op = "addVariant" THEN "insertVariant" ELSE "writeVariant"
    <2>1. pc[r] = "newSku" /\ pc[r] \notin Answers /\ UNCHANGED productVars
      BY <1>9 DEF newSku, Answers
    <2>2. CASE End(r, "refused")
      BY <1>3, <1>4, <2>1, <2>2
    <2>3. CASE Goto(r, p, seen[r])
      <3>1. Moves(r, p) /\ call' = call /\ pc'[r] = p
        BY <2>1, <2>3, GotoMoves
      <3>2. \A q \in Requests : pc[q] \in Answers => pc'[q] \in Answers
        BY <3>1 DEF BaseOK, Moves
      <3>3. call[r].op \in {"addVariant", "updateVariant"} /\ call[r] \in ProductCall
        BY <2>1 DEF ShelfInv, ShelfReq, ProductCallFits, ProductPoints
      <3>4. Owned(r)'
        BY <2>1, <3>1, <3>2 DEF ShelfInv, ShelfReq, Owned, HasProduct, productVars
      <3>5. Placed(r)'
        BY <2>1, <3>1, <3>2, <3>3
           DEF ShelfInv, ShelfReq, Placed, HasVariant, productVars
      <3>6. ProductCallFits(r)' /\ p \in ProductPoints
        BY <3>1, <3>3 DEF ProductCallFits, ProductPoints
      <3> QED
        BY <1>2, <2>1, <3>1, <3>4, <3>5, <3>6 DEF ShelfReq
    <2> QED
      BY <1>9, <2>2, <2>3 DEF newSku
  <1>10. CASE findVariant(r)
    <2> DEFINE c   == call[r]
               row == variants[c.variant]
               p   == IF c.op = "removeVariant" THEN "disable"
                      ELSE IF c.sku \in {None, row.sku} THEN "writeVariant" ELSE "newSku"
    <2>1. pc[r] = "findVariant" /\ pc[r] \notin Answers /\ UNCHANGED productVars
      BY <1>10 DEF findVariant, Answers
    <2>2. CASE End(r, "refused")
      BY <1>3, <1>4, <2>1, <2>2
    <2>3. CASE VariantFound(r) /\ Goto(r, p, row)
      <3>1. Moves(r, p) /\ call' = call /\ pc'[r] = p
        BY <2>1, <2>3, GotoMoves
      <3>2. \A q \in Requests : pc[q] \in Answers => pc'[q] \in Answers
        BY <3>1 DEF BaseOK, Moves
      <3>3. c.op \in {"updateVariant", "removeVariant"} /\ c \in ProductCall
        BY <2>1 DEF ShelfInv, ShelfReq, ProductCallFits, ProductPoints
      <3>4. /\ p \in {"disable", "writeVariant", "newSku"}
            /\ p = "disable" => c.op = "removeVariant"
            /\ p # "disable" => c.op = "updateVariant"
        BY <3>3
      <3> HIDE DEF p
      <3>5. Owned(r)'
        BY <2>1, <3>1, <3>2 DEF ShelfInv, ShelfReq, Owned, HasProduct, productVars
      <3>6. c.variant \in VariantIds
        BY <3>3, ProductCalls
      <3>7. c.variant[1] \in Requests => pc[c.variant[1]] \in Answers
        BY <2>3, <3>6, VariantPairs DEF VariantFound, ShelfInv, StoredIsAnswered
      <3>8. Placed(r)'
        BY <2>1, <2>3, <3>1, <3>2, <3>7 DEF Placed, VariantFound, productVars
      <3>9. ProductCallFits(r)' /\ p \in ProductPoints
        BY <3>1, <3>3, <3>4 DEF ProductCallFits, ProductPoints
      <3> QED
        BY <1>2, <2>1, <3>1, <3>5, <3>8, <3>9 DEF ShelfReq
    <2> QED
      BY <1>10, <2>2, <2>3 DEF findVariant
  <1> QED
    BY <1>1, <1>5, <1>6, <1>7, <1>8, <1>9, <1>10 DEF ProductRead

(* What a step may do to what belongs to sellers: the bodies of            *)
(* OnlyOwnerChanges and of DisabledUntilAsked.                             *)
OwnerStep ==
    /\ \A p \in ProductIds : products[p] # None /\ products'[p] # products[p] =>
        \/ \E r \in Requests : pc'[r] # pc[r] /\ call[r].op \in {"updateProduct", "removeProduct"}
                            /\ call[r].seller = products[p].seller
        \/ products'[p] = None /\ categories'[products[p].category] = None
    /\ \A v \in VariantIds : variants[v] # None /\ variants'[v] # variants[v] =>
        LET owner == products[variants[v].product].seller IN
        \/ \E r \in Requests : pc'[r] # pc[r] /\ call[r].op \in {"updateVariant", "removeVariant"}
                            /\ call[r].seller = owner
        \/ variants'[v] = None /\ products'[variants[v].product] = None

AskedStep == \A v \in VariantIds :
    /\ variants[v] # None /\ ~ variants[v].active
    /\ variants'[v] # None /\ variants'[v].active
    => \E r \in Requests : pc[r] = "writeVariant" /\ pc'[r] = "ok"
                        /\ call[r].variant = v /\ call[r].active = TRUE

(* Which products there are after a step of r that removes no category.    *)
ProductsKeep(r) == \A q \in ProductIds :
    /\ products[q] # None => products'[q] # None
    /\ products'[q] # None => products[q] # None \/ q = r

LEMMA StillSteps == UNCHANGED productVars => OwnerStep /\ AskedStep
  BY DEF productVars, OwnerStep, AskedStep

(* A statement that writes rows and answers.                               *)
Written(r) ==
    /\ ProductsTypeOK'
    /\ \A q \in ProductIds : products'[q] # None =>
           /\ categories[products'[q].category] # None
           /\ \/ products[q] # None /\ products'[q].seller = products[q].seller
              \/ q = r
    /\ \A v \in VariantIds : variants'[v] # None =>
           /\ products'[variants'[v].product] # None
           /\ \/ variants[v] # None /\ variants'[v].product = variants[v].product
              \/ v[1] = r

LEMMA WrittenOK ==
    ASSUME BaseOK, ShelfInv, NEW r \in Requests, pc[r] \notin Answers, End(r, "ok"),
           UNCHANGED categoryVars, Written(r)
    PROVE  ShelfInv' /\ Moves(r, "ok") /\ pc'[r] = "ok"
  <1>1. Moves(r, "ok") /\ pc'[r] = "ok" /\ "ok" \in Answers
    BY EndMoves DEF Answers
  <1>2. ShelfReq(r)'
    BY <1>1 DEF ShelfReq, ProductCallFits, Owned, Placed, HasProduct, HasVariant, ProductPoints
  <1>3. NothingDangles'
    BY DEF Written, NothingDangles, categoryVars
  <1> QED
    BY <1>1, <1>2, <1>3, ShelfKept DEF Written

LEMMA InsertProductOK ==
    ASSUME BaseOK, ShelfInv, NEW r \in Requests, insertProduct(r), UNCHANGED categoryVars
    PROVE  ShelfInv' /\ Moves(r, "ok") /\ OwnerStep /\ AskedStep /\ ProductsKeep(r)
  <1> DEFINE c == call[r]
             row == [seller |-> c.seller, category |-> c.category, slug |-> c.slug,
                     deleted |-> FALSE]
             new(v) == [product |-> r, sku |-> v[2], active |-> TRUE]
  <1>1. /\ pc[r] = "insertProduct" /\ pc[r] \notin Answers /\ End(r, "ok")
        /\ categories[c.category] # None
        /\ products' = [products EXCEPT ![r] = row]
        /\ variants' = [v \in VariantIds |-> IF v \in {r} \X c.skus THEN new(v) ELSE variants[v]]
    BY DEF insertProduct, ProductFits, Answers
  <1>2. /\ c \in ProductCall /\ c.op = "createProduct"
    BY <1>1 DEF ShelfInv, ShelfReq, ProductCallFits, ProductPoints
  <1>3. c.skus \subseteq Skus
    BY <1>2 DEF ProductCall
  <1>4. row \in Product /\ row # None /\ row.category = c.category
    <2>1. c.seller \in Sellers /\ c.category \in CategoryIds /\ c.slug \in ProductSlugs
      BY <1>2, ProductCalls
    <2>2. row \in Product /\ row.category = c.category
      BY <2>1 DEF Product
    <2> QED
      BY <2>2, ProductAssumption
  <1>5. \A v \in VariantIds : new(v) \in Variant /\ new(v) # None /\ new(v).product = r
    <2>1. ASSUME NEW v \in VariantIds PROVE new(v) \in Variant /\ new(v).product = r
      <3>1. v[2] \in Skus /\ r \in ProductIds
        BY VariantPairs
      <3> QED
        BY <3>1 DEF Variant
    <2> HIDE DEF new
    <2> QED
      BY <2>1, ProductAssumption
  <1>6. products[r] = None /\ \A k \in Skus : variants[<<r, k>>] = None
    BY <1>1 DEF ShelfInv, StoredIsAnswered
  <1>7. \A v \in VariantIds : v \in {r} \X c.skus => v[1] = r /\ variants[v] = None
    <2>1. ASSUME NEW v \in VariantIds, v \in {r} \X c.skus
          PROVE  v[1] = r /\ variants[v] = None
      <3>1. v[1] = r /\ v[2] \in Skus /\ v = <<v[1], v[2]>>
        BY <2>1, VariantPairs
      <3> QED
        BY <1>6, <3>1
    <2> QED
      BY <2>1
  <1>8. r \in ProductIds /\ ProductsTypeOK
    BY VariantPairs DEF ShelfInv
  <1> HIDE DEF row, new
  <1>9. \A q \in ProductIds : products'[q] = IF q = r THEN row ELSE products[q]
    BY <1>1, <1>8 DEF ProductsTypeOK
  <1>10. \A v \in VariantIds :
            variants'[v] = IF v \in {r} \X c.skus THEN new(v) ELSE variants[v]
    BY <1>1
  <1>11. ProductsTypeOK'
    BY <1>1, <1>4, <1>5, <1>8 DEF ProductsTypeOK
  <1>12. \A v \in VariantIds : variants[v] # None => variants[v].product \in ProductIds
    BY <1>8 DEF ProductsTypeOK, Variant
  <1>13. Written(r)
    <2>1. \A q \in ProductIds : products'[q] # None =>
              categories[products'[q].category] # None
      BY <1>1, <1>4, <1>9 DEF ShelfInv, NothingDangles
    <2>2. \A v \in VariantIds : variants'[v] # None => products'[variants'[v].product] # None
      BY <1>4, <1>5, <1>8, <1>9, <1>10, <1>12 DEF ShelfInv, NothingDangles
    <2>3. \A v \in VariantIds : variants'[v] # None =>
              \/ variants[v] # None /\ variants'[v].product = variants[v].product
              \/ v[1] = r
      BY <1>7, <1>10
    <2> QED
      BY <1>9, <1>11, <2>1, <2>2, <2>3 DEF Written
  <1>14. OwnerStep /\ AskedStep
    BY <1>6, <1>7, <1>9, <1>10 DEF OwnerStep, AskedStep
  <1>15. ProductsKeep(r)
    BY <1>4, <1>9 DEF ProductsKeep
  <1> QED
    BY <1>1, <1>13, <1>14, <1>15, WrittenOK

(* A product changes hands in no statement.                                *)
LEMMA WriteProductOK ==
    ASSUME BaseOK, ShelfInv, NEW r \in Requests, writeProduct(r) \/ softDelete(r),
           UNCHANGED categoryVars, CategoriesTypeOK
    PROVE  ShelfInv' /\ Moves(r, "ok") /\ OwnerStep /\ AskedStep /\ ProductsKeep(r)
  <1> DEFINE c   == call[r]
             p   == c.product
             old == products[p]
  <1>1. /\ pc[r] \in {"writeProduct", "softDelete"} /\ pc[r] \notin Answers /\ End(r, "ok")
        /\ old # None /\ UNCHANGED variants
    BY DEF writeProduct, softDelete, Answers
  <1>2. /\ c \in ProductCall /\ p \in ProductIds /\ c.op \in {"updateProduct", "removeProduct"}
        /\ old.seller = c.seller
    BY <1>1, ProductCalls
       DEF ShelfInv, ShelfReq, ProductCallFits, ProductPoints, Owned, HasProduct
  <1>3. ProductsTypeOK /\ old \in Product /\ categories[old.category] # None
    BY <1>1, <1>2 DEF ShelfInv, ProductsTypeOK, NothingDangles
  <1>4. PICK row \in Product :
            /\ products' = [products EXCEPT ![p] = row]
            /\ row.seller = old.seller /\ categories[row.category] # None
    <2>1. CASE writeProduct(r)
      <3> DEFINE row == [seller |-> old.seller, category |-> Given(c.category, old.category),
                         slug |-> Given(c.slug, old.slug), deleted |-> old.deleted]
      <3>1. products' = [products EXCEPT ![p] = row]
        BY <2>1 DEF writeProduct
      <3>2. /\ c.category \in CategoryIds \cup {None} /\ c.slug \in ProductSlugs \cup {None}
            /\ c.category # None => categories[c.category] # None
        BY <1>2, <2>1, ProductCalls
           DEF writeProduct, ShelfInv, ShelfReq, ProductCallFits
      <3>3. row \in Product /\ row.seller = old.seller /\ categories[row.category] # None
        BY <1>3, <3>2 DEF Product, Given
      <3> QED
        BY <3>1, <3>3
    <2>2. CASE softDelete(r)
      <3> DEFINE row == [old EXCEPT !.deleted = TRUE]
      <3>1. products' = [products EXCEPT ![p] = row]
        BY <1>2, <1>3, <2>2 DEF softDelete, ProductsTypeOK
      <3>2. row \in Product /\ row.seller = old.seller /\ row.category = old.category
        BY <1>3 DEF Product
      <3> QED
        BY <1>3, <3>1, <3>2
    <2> QED
      BY <2>1, <2>2
  <1>5. row # None
    BY ProductAssumption
  <1>6. \A q \in ProductIds : products'[q] = IF q = p THEN row ELSE products[q]
    BY <1>3, <1>4 DEF ProductsTypeOK
  <1>7. ProductsTypeOK'
    BY <1>1, <1>3, <1>4 DEF ProductsTypeOK
  <1>8. Written(r)
    <2>1. \A v \in VariantIds : variants[v] # None => variants[v].product \in ProductIds
      BY <1>3 DEF ProductsTypeOK, Variant
    <2> QED
      BY <1>1, <1>4, <1>5, <1>6, <1>7, <2>1 DEF Written, ShelfInv, NothingDangles
  <1>9. Moves(r, "ok") /\ pc'[r] = "ok"
    BY <1>1, EndMoves
  <1>10. OwnerStep /\ AskedStep
    BY <1>1, <1>2, <1>6, <1>9 DEF OwnerStep, AskedStep
  <1>11. ProductsKeep(r)
    BY <1>1, <1>2, <1>5, <1>6 DEF ProductsKeep
  <1> QED
    BY <1>1, <1>8, <1>10, <1>11, WrittenOK

LEMMA InsertVariantOK ==
    ASSUME BaseOK, ShelfInv, NEW r \in Requests, insertVariant(r), UNCHANGED categoryVars
    PROVE  ShelfInv' /\ Moves(r, "ok") /\ OwnerStep /\ AskedStep
  <1> DEFINE c   == call[r]
             id  == <<r, c.sku>>
             row == [product |-> c.product, sku |-> c.sku, active |-> TRUE]
  <1>1. /\ pc[r] = "insertVariant" /\ pc[r] \notin Answers /\ End(r, "ok")
        /\ products[c.product] # None /\ UNCHANGED products
        /\ variants' = [variants EXCEPT ![id] = row]
    BY DEF insertVariant, PutVariant, Answers
  <1>2. c \in ProductCall /\ c.op = "addVariant"
    BY <1>1 DEF ShelfInv, ShelfReq, ProductCallFits, ProductPoints
  <1>3. c.product \in ProductIds /\ c.sku \in Skus
    BY <1>2, ProductCalls
  <1>4. row \in Variant /\ row.product = c.product
    BY <1>3 DEF Variant
  <1>5. id \in VariantIds /\ id[1] = r /\ variants[id] = None
    BY <1>1, <1>3, VariantPairs DEF ShelfInv, StoredIsAnswered
  <1> HIDE DEF row, id
  <1>6. ProductsTypeOK
    BY DEF ShelfInv
  <1>7. \A v \in VariantIds : variants'[v] = IF v = id THEN row ELSE variants[v]
    BY <1>1, <1>6 DEF ProductsTypeOK
  <1>8. ProductsTypeOK'
    BY <1>1, <1>4, <1>6 DEF ProductsTypeOK
  <1>9. Written(r)
    BY <1>1, <1>4, <1>5, <1>7, <1>8 DEF Written, ShelfInv, NothingDangles
  <1>10. OwnerStep /\ AskedStep
    BY <1>1, <1>5, <1>7 DEF OwnerStep, AskedStep
  <1> QED
    BY <1>1, <1>9, <1>10, WrittenOK

(* A variant stays with its product, and on sale or off it unless asked.   *)
LEMMA ChangeVariantOK ==
    ASSUME BaseOK, ShelfInv, NEW r \in Requests, writeVariant(r) \/ disableVariant(r),
           UNCHANGED categoryVars
    PROVE  ShelfInv' /\ Moves(r, "ok") /\ OwnerStep /\ AskedStep
  <1> DEFINE c   == call[r]
             id  == c.variant
             old == variants[id]
  <1>1. /\ pc[r] \in {"writeVariant", "disable"} /\ pc[r] \notin Answers /\ End(r, "ok")
        /\ old # None /\ UNCHANGED products
    BY DEF writeVariant, disableVariant, PutVariant, Answers
  <1>2. /\ c \in ProductCall /\ c.op \in {"updateVariant", "removeVariant"}
        /\ id \in VariantIds /\ c.product \in ProductIds
    BY <1>1, ProductCalls DEF ShelfInv, ShelfReq, ProductCallFits, ProductPoints
  <1>3. /\ ProductsTypeOK /\ old \in Variant /\ old.product = c.product
        /\ products[c.product] # None /\ products[c.product].seller = c.seller
    <2>1. ProductsTypeOK /\ old \in Variant /\ old.product = c.product
      BY <1>1, <1>2 DEF ShelfInv, ShelfReq, Placed, HasVariant, ProductsTypeOK
    <2>2. products[c.product] # None
      BY <1>1, <1>2, <2>1 DEF ShelfInv, NothingDangles
    <2> QED
      BY <1>1, <2>1, <2>2 DEF ShelfInv, ShelfReq, Owned, HasProduct
  <1>4. PICK row \in Variant :
            /\ variants' = [variants EXCEPT ![id] = row]
            /\ row.product = old.product
            /\ row.active => old.active \/ (pc[r] = "writeVariant" /\ c.active = TRUE)
    <2>1. CASE writeVariant(r)
      <3> DEFINE row == [product |-> old.product, sku |-> Given(OtherSku(r), old.sku),
                         active |-> Given(c.active, old.active)]
      <3>1. variants' = [variants EXCEPT ![id] = row] /\ pc[r] = "writeVariant"
        BY <2>1 DEF writeVariant, PutVariant, CurrentRow
      <3>2. c.op = "updateVariant"
        BY <3>1 DEF ShelfInv, ShelfReq, ProductCallFits
      <3>3. c.sku \in Skus \cup {None} /\ c.active \in BOOLEAN \cup {None}
        BY <1>2, <3>2, ProductCalls
      <3>4. row \in Variant /\ row.product = old.product
        BY <1>3, <3>3 DEF Variant, Given, OtherSku
      <3>5. row.active => old.active \/ c.active = TRUE
        BY <1>3, <3>3 DEF Variant, Given
      <3> QED
        BY <3>1, <3>4, <3>5
    <2>2. CASE disableVariant(r)
      <3> DEFINE row == [old EXCEPT !.active = FALSE]
      <3>1. variants' = [variants EXCEPT ![id] = row]
        BY <2>2 DEF disableVariant, PutVariant
      <3>2. row \in Variant /\ row.product = old.product /\ row.active = FALSE
        BY <1>3 DEF Variant
      <3> QED
        BY <3>1, <3>2
    <2> QED
      BY <2>1, <2>2
  <1>5. \A v \in VariantIds : variants'[v] = IF v = id THEN row ELSE variants[v]
    BY <1>3, <1>4 DEF ProductsTypeOK
  <1>6. ProductsTypeOK'
    BY <1>1, <1>3, <1>4 DEF ProductsTypeOK
  <1>7. Written(r)
    BY <1>1, <1>3, <1>4, <1>5, <1>6 DEF Written, ShelfInv, NothingDangles
  <1>8. Moves(r, "ok") /\ pc'[r] = "ok"
    BY <1>1, EndMoves
  <1>9. OwnerStep
    BY <1>1, <1>2, <1>3, <1>5, <1>8 DEF OwnerStep
  <1>10. AskedStep
    BY <1>1, <1>4, <1>5, <1>8 DEF AskedStep
  <1> QED
    BY <1>1, <1>7, <1>9, <1>10, WrittenOK

(* The cascade takes all that hangs on the category, and nothing else.     *)
LEMMA CascadeOK ==
    ASSUME BaseOK, TreeInv, ShelfInv, NEW r \in Requests, removeWithProducts(r)
    PROVE  TreeInv' /\ ShelfInv' /\ Moves(r, "ok") /\ OwnerStep /\ AskedStep
  <1> DEFINE k    == call[r].id
             gone == InCategory(k)
  <1>1. /\ deleteCategory(r)
        /\ products' = [p \in ProductIds |-> IF p \in gone THEN None ELSE products[p]]
        /\ variants' = [v \in VariantIds |->
              IF variants[v] # None /\ variants[v].product \in gone THEN None ELSE variants[v]]
    BY DEF removeWithProducts
  <1>2. /\ TreeInv' /\ Moves(r, "ok") /\ k \in CategoryIds
        /\ \A c \in CategoryIds : categories'[c] = IF c = k THEN None ELSE categories[c]
    BY <1>1, DeleteCategoryOK
  <1>3. \A p \in ProductIds : p \in gone <=> products[p] # None /\ products[p].category = k
    BY DEF InCategory
  <1> HIDE DEF gone
  <1>4. /\ ProductsTypeOK
        /\ \A p \in ProductIds : products[p] # None => products[p].category \in CategoryIds
        /\ \A v \in VariantIds : variants[v] # None => variants[v].product \in ProductIds
    BY DEF ShelfInv, ProductsTypeOK, Product, Variant
  <1>5. ProductsTypeOK'
    BY <1>1, <1>4 DEF ProductsTypeOK
  <1>6. NothingDangles'
    <2>1. \A p \in ProductIds : products'[p] # None => categories'[products'[p].category] # None
      BY <1>1, <1>2, <1>3, <1>4 DEF ShelfInv, NothingDangles
    <2>2. \A v \in VariantIds : variants'[v] # None => products'[variants'[v].product] # None
      BY <1>1, <1>4 DEF ShelfInv, NothingDangles
    <2> QED
      BY <2>1, <2>2 DEF NothingDangles
  <1>7. pc'[r] = "ok"
    BY <1>2 DEF BaseOK, Moves
  <1>8. ShelfReq(r)'
    BY <1>7 DEF ShelfReq, ProductCallFits, Owned, Placed, HasProduct, HasVariant, ProductPoints
  <1>9. ShelfInv'
    BY <1>1, <1>2, <1>5, <1>6, <1>8, ShelfKept
  <1>10. OwnerStep
    BY <1>1, <1>2, <1>3, <1>4 DEF OwnerStep
  <1>11. AskedStep
    BY <1>1 DEF AskedStep
  <1> QED
    BY <1>2, <1>9, <1>10, <1>11

-----------------------------------------------------------------------------
(* The statements of the category methods.                                 *)
LEMMA CategoriesOK ==
    ASSUME BaseOK, TreeInv, NEW r \in Requests, CategoriesStep(r)
    PROVE  /\ TreeInv' /\ CategoriesStay
           /\ \E p : p \in CategoryPoints \cup Answers /\ Moves(r, p)
  <1> DEFINE Goal == /\ TreeInv' /\ CategoriesStay
                     /\ \E p : p \in CategoryPoints \cup Answers /\ Moves(r, p)
  <1>1. ASSUME NEW p, p \in CategoryPoints, Moves(r, p), UNCHANGED categoryVars, TreeReq(r)'
        PROVE  Goal
    BY <1>1, TreeRead DEF CategoriesStay, categoryVars
  <1>2. ASSUME NEW a \in Answers, pc[r] \notin Answers, End(r, a), UNCHANGED categoryVars
        PROVE  Goal
    <2>1. Moves(r, a) /\ a \notin CategoryPoints
      BY <1>2, EndMoves DEF Answers, CategoryPoints
    <2> QED
      BY <1>2, <2>1, TreeElsewhere DEF CategoriesStay, categoryVars
  <1>3. "refused" \in Answers
    BY DEF Answers
  <1>4. CASE CategoriesStart(r)
    <2>1. PICK c \in Calls \cap CategoryCall : Begin(r, c, c.op)
      BY <1>4 DEF CategoriesStart
    <2>2. Moves(r, c.op) /\ call'[r] = c /\ pc'[r] = c.op /\ UNCHANGED categoryVars
      BY <1>4, <2>1, BeginMoves DEF CategoriesStart
    <2>3. c.op \in {"createCategory", "updateCategory", "removeCategory"}
      BY CategoryCalls
    <2>4. TreeReq(r)'
      BY <2>2, <2>3 DEF TreeReq, CategoryFits, ParentKnown, ChildrenKnown
    <2> QED
      BY <1>1, <2>2, <2>3, <2>4 DEF CategoryPoints
  <1>5. CASE categoryBySlug(r)
    <2> DEFINE p == IF call[r].parent = None THEN "insertCategory" ELSE "findParent"
    <2>1. pc[r] = "createCategory" /\ pc[r] \notin Answers /\ UNCHANGED categoryVars
      BY <1>5 DEF categoryBySlug, Answers
    <2>2. CASE End(r, "refused")
      BY <1>2, <1>3, <2>1, <2>2
    <2>3. CASE Goto(r, p, None)
      <3>1. Moves(r, p) /\ call' = call /\ pc'[r] = p
        BY <2>1, <2>3, GotoMoves
      <3>2. TreeReq(r)'
        BY <2>1, <3>1 DEF TreeInv, TreeReq, CategoryFits, ParentKnown, ChildrenKnown,
                          CategoryPoints
      <3> QED
        BY <1>1, <2>1, <3>1, <3>2 DEF CategoryPoints
    <2> QED
      BY <1>5, <2>2, <2>3 DEF categoryBySlug
  <1>6. CASE findParent(r)
    <2>1. pc[r] = "findParent" /\ pc[r] \notin Answers /\ UNCHANGED categoryVars
      BY <1>6 DEF findParent, Answers
    <2>2. CASE End(r, "refused")
      BY <1>2, <1>3, <2>1, <2>2
    <2>3. CASE categories[call[r].parent] # None /\ Goto(r, "insertCategory", None)
      <3>1. Moves(r, "insertCategory") /\ call' = call /\ pc'[r] = "insertCategory"
        BY <2>1, <2>3, GotoMoves
      <3>2. TreeReq(r)'
        BY <2>1, <2>3, <3>1 DEF TreeInv, TreeReq, CategoryFits, ParentKnown, ChildrenKnown,
                                CategoryPoints, categoryVars
      <3> QED
        BY <1>1, <2>1, <3>1, <3>2 DEF CategoryPoints
    <2> QED
      BY <1>6, <2>2, <2>3 DEF findParent
  <1>7. CASE insertCategory(r)
    <2> DEFINE row == [slug |-> call[r].slug, parent |-> call[r].parent, active |-> call[r].active]
    <2>1. /\ pc[r] = "insertCategory" /\ pc[r] \notin Answers /\ End(r, "ok")
          /\ categories' = [categories EXCEPT ![r] = row]
      BY <1>7 DEF insertCategory, Answers
    <2>2. Moves(r, "ok") /\ "ok" \in Answers
      BY <2>1, EndMoves DEF Answers
    <2>3. row # None
      <3>1. call[r] \in CategoryCall /\ call[r].op = "createCategory"
        BY <2>1 DEF TreeInv, TreeReq, CategoryFits, CategoryPoints
      <3>2. row \in Category
        BY <3>1, CategoryCalls DEF Category
      <3> QED
        BY <3>2, CategoryAssumption
    <2> HIDE DEF row
    <2>4. CategoriesStay
      BY <2>1, <2>3 DEF CategoriesStay, TreeInv, CategoriesTypeOK
    <2> QED
      BY <1>7, <2>2, <2>4, InsertCategoryOK
  <1>8. CASE findCategory(r)
    <2> DEFINE p == IF call[r].slug = None THEN "writeCategory" ELSE "otherSlug"
    <2>1. pc[r] = "updateCategory" /\ pc[r] \notin Answers /\ UNCHANGED categoryVars
      BY <1>8 DEF findCategory, Answers
    <2>2. CASE End(r, "refused")
      BY <1>2, <1>3, <2>1, <2>2
    <2>3. CASE Goto(r, p, None)
      <3>1. Moves(r, p) /\ call' = call /\ pc'[r] = p
        BY <2>1, <2>3, GotoMoves
      <3>2. TreeReq(r)'
        BY <2>1, <3>1 DEF TreeInv, TreeReq, CategoryFits, ParentKnown, ChildrenKnown,
                          CategoryPoints
      <3> QED
        BY <1>1, <2>1, <3>1, <3>2 DEF CategoryPoints
    <2> QED
      BY <1>8, <2>2, <2>3 DEF findCategory
  <1>9. CASE otherSlug(r)
    <2>1. pc[r] = "otherSlug" /\ pc[r] \notin Answers /\ UNCHANGED categoryVars
      BY <1>9 DEF otherSlug, Answers
    <2>2. CASE End(r, "refused")
      BY <1>2, <1>3, <2>1, <2>2
    <2>3. CASE Goto(r, "writeCategory", None)
      <3>1. Moves(r, "writeCategory") /\ call' = call /\ pc'[r] = "writeCategory"
        BY <2>1, <2>3, GotoMoves
      <3>2. TreeReq(r)'
        BY <2>1, <3>1 DEF TreeInv, TreeReq, CategoryFits, ParentKnown, ChildrenKnown,
                          CategoryPoints
      <3> QED
        BY <1>1, <2>1, <3>1, <3>2 DEF CategoryPoints
    <2> QED
      BY <1>9, <2>2, <2>3 DEF otherSlug
  <1>10. CASE writeCategory(r)
    BY <1>10, WriteCategoryOK DEF CategoriesStay, Answers
  <1>11. CASE findForRemoval(r)
    <2>1. pc[r] = "removeCategory" /\ pc[r] \notin Answers /\ UNCHANGED categoryVars
      BY <1>11 DEF findForRemoval, Answers
    <2>2. CASE End(r, "refused")
      BY <1>2, <1>3, <2>1, <2>2
    <2>3. CASE Goto(r, "findChildren", None)
      <3>1. Moves(r, "findChildren") /\ call' = call /\ pc'[r] = "findChildren"
        BY <2>1, <2>3, GotoMoves
      <3>2. TreeReq(r)'
        BY <2>1, <3>1 DEF TreeInv, TreeReq, CategoryFits, ParentKnown, ChildrenKnown,
                          CategoryPoints
      <3> QED
        BY <1>1, <2>1, <3>1, <3>2 DEF CategoryPoints
    <2> QED
      BY <1>11, <2>2, <2>3 DEF findForRemoval
  <1>12. CASE findChildren(r)
    <2>1. pc[r] = "findChildren" /\ pc[r] \notin Answers /\ UNCHANGED categoryVars
      BY <1>12 DEF findChildren, Answers
    <2>2. CASE End(r, "refused")
      BY <1>2, <1>3, <2>1, <2>2
    <2>3. CASE ChildrenOf(call[r].id) = {} /\ Goto(r, "deleteCategory", None)
      <3>1. Moves(r, "deleteCategory") /\ call' = call /\ pc'[r] = "deleteCategory"
        BY <2>1, <2>3, GotoMoves
      <3>2. TreeReq(r)'
        BY <2>1, <2>3, <3>1 DEF TreeInv, TreeReq, CategoryFits, ParentKnown, ChildrenKnown,
                                ChildrenOf, CategoryPoints, categoryVars
      <3> QED
        BY <1>1, <2>1, <3>1, <3>2 DEF CategoryPoints
    <2> QED
      BY <1>12, <2>2, <2>3 DEF findChildren
  <1> QED
    BY <1>4, <1>5, <1>6, <1>7, <1>8, <1>9, <1>10, <1>11, <1>12 DEF CategoriesStep

(* The image methods touch neither categories nor products.                *)
ImagePoints ==
    {"findProductOfImage", "upload", "storeImages", "findImage", "primary", "deleteFile",
     "deleteRow", "findNext", "promote"}

LEMMA ImagesMove ==
    ASSUME BaseOK, NEW r \in Requests, ImagesStep(r) \/ imageRequestFails(r)
    PROVE  \E p : p \in ImagePoints \cup Answers /\ Moves(r, p)
  <1> DEFINE Goal == \E p : p \in ImagePoints \cup Answers /\ Moves(r, p)
  <1>1. ASSUME NEW p \in ImagePoints \cup Answers, NEW x, pc[r] \notin Answers, Goto(r, p, x)
        PROVE  Goal
    BY <1>1, GotoMoves
  <1>2. ASSUME NEW a \in Answers, pc[r] \notin Answers, End(r, a)
        PROVE  Goal
    BY <1>2, EndMoves
  <1>3. "ok" \in Answers /\ "refused" \in Answers /\ "failed" \in Answers
    BY DEF Answers
  <1>4. CASE ImagesStart(r)
    <2>1. PICK c \in Calls : Begin(r, c, "findProductOfImage")
      BY <1>4 DEF ImagesStart
    <2> QED
      BY <2>1, BeginMoves DEF ImagePoints
  <1>5. CASE findProductOfImage(r)
    <2>1. pc[r] \notin Answers
      BY <1>5 DEF findProductOfImage, Answers
    <2>2. End(r, "refused") \/ (\E x : Goto(r, "upload", x)) \/ Goto(r, "findImage", None)
      BY <1>5 DEF findProductOfImage
    <2>3. "upload" \in ImagePoints /\ "findImage" \in ImagePoints
      BY DEF ImagePoints
    <2> QED
      BY <1>1, <1>2, <1>3, <2>1, <2>2, <2>3
  <1>6. CASE upload(r)
    <2>1. pc[r] \notin Answers /\ \E x : Goto(r, "storeImages", x)
      BY <1>6 DEF upload, Answers
    <2> QED
      BY <1>1, <2>1 DEF ImagePoints
  <1>7. CASE uploadFails(r)
    <2>1. pc[r] \notin Answers /\ End(r, "failed")
      BY <1>7 DEF uploadFails, Answers
    <2> QED
      BY <1>2, <1>3, <2>1
  <1>8. CASE storeImages(r) \/ promote(r) \/ setPrimary(r)
    <2>1. pc[r] \notin Answers /\ End(r, "ok")
      BY <1>8 DEF storeImages, promote, setPrimary, Answers
    <2> QED
      BY <1>2, <1>3, <2>1
  <1>9. CASE findImage(r)
    <2>1. pc[r] \notin Answers
      BY <1>9 DEF findImage, Answers
    <2>2. \/ End(r, "refused")
          \/ \E x : Goto(r, "deleteFile", x) \/ Goto(r, "primary", x)
      BY <1>9 DEF findImage
    <2>3. "deleteFile" \in ImagePoints /\ "primary" \in ImagePoints
      BY DEF ImagePoints
    <2> QED
      BY <1>1, <1>2, <1>3, <2>1, <2>2, <2>3
  <1>10. CASE deleteFile(r)
    <2>1. pc[r] \notin Answers /\ \E x : Goto(r, "deleteRow", x)
      BY <1>10 DEF deleteFile, Answers
    <2> QED
      BY <1>1, <2>1 DEF ImagePoints
  <1>11. CASE deleteRow(r)
    <2>1. pc[r] \notin Answers /\ (End(r, "ok") \/ Goto(r, "findNext", None))
      BY <1>11 DEF deleteRow, Answers
    <2>2. "findNext" \in ImagePoints
      BY DEF ImagePoints
    <2> QED
      BY <1>1, <1>2, <1>3, <2>1, <2>2
  <1>12. CASE findNext(r)
    <2>1. pc[r] \notin Answers /\ (End(r, "ok") \/ \E x : Goto(r, "promote", x))
      BY <1>12 DEF findNext, Answers
    <2>2. "promote" \in ImagePoints
      BY DEF ImagePoints
    <2> QED
      BY <1>1, <1>2, <1>3, <2>1, <2>2
  <1>13. CASE imageRequestFails(r)
    <2>1. pc[r] \notin Answers /\ End(r, "failed")
      BY <1>13 DEF imageRequestFails, Abort, Running
    <2> QED
      BY <1>2, <1>3, <2>1
  <1> QED
    BY <1>4, <1>5, <1>6, <1>7, <1>8, <1>9, <1>10, <1>11, <1>12, <1>13 DEF ImagesStep

-----------------------------------------------------------------------------
(* Cycles: a category is created under one that was there before, so that  *)
(* among those whose parent no update has set there is none.               *)

Answered(x) == x \in Requests => pc[x] \in Answers

Unmoved == {c \in CategoryIds : categories[c] # None} \ moved

CreationPoints == {"createCategory", "findParent", "insertCategory"}

NoLoop ==
    /\ \A c \in CategoryIds : categories[c] # None => Answered(c)
    /\ \A c \in Unmoved : Answered(categories[c].parent)
    /\ \A r \in Requests : pc[r] \in CreationPoints => Answered(call[r].parent)
    /\ NoCycleIn(Unmoved)

LEMMA AnsweredStays ==
    ASSUME BaseOK, NEW r \in Requests, NEW p, Moves(r, p)
    PROVE  \A x : Answered(x) => Answered(x)' /\ x # r
  BY DEF BaseOK, Moves, Answered

(* Steps that write no category.                                           *)
LEMMA LoopRead ==
    ASSUME BaseOK, NoLoop, NEW r \in Requests, NEW p, Moves(r, p), UNCHANGED categoryVars,
           p \in CreationPoints => Answered(call'[r].parent)
    PROVE  NoLoop'
  <1>1. \A x : Answered(x) => Answered(x)'
    BY AnsweredStays
  <1>2. Unmoved' = Unmoved /\ \A c \in Unmoved : categories'[c] = categories[c]
    BY DEF Unmoved, categoryVars
  <1>3. \A c \in CategoryIds : categories'[c] # None => Answered(c)'
    BY <1>1 DEF NoLoop, categoryVars
  <1>4. \A c \in Unmoved' : Answered(categories[c].parent)'
    <2>1. ASSUME NEW c \in Unmoved, NEW x, x = categories[c].parent PROVE Answered(x)'
      BY <1>1, <2>1 DEF NoLoop
    <2> QED
      BY <1>2, <2>1 DEF Answered, categoryVars
  <1>5. ASSUME NEW s \in Requests, pc'[s] \in CreationPoints
        PROVE  Answered(call[s].parent)'
    <2>1. CASE s = r
      <3>1. p \in CreationPoints /\ Answered(call'[r].parent)
        BY <1>5, <2>1 DEF BaseOK, Moves
      <3>2. PICK x : x = call'[r].parent
        OBVIOUS
      <3>3. Answered(x)'
        BY <1>1, <3>1, <3>2
      <3> QED
        BY <2>1, <3>2, <3>3 DEF Answered
    <2>2. CASE s # r
      <3>1. pc'[s] = pc[s] /\ call'[s] = call[s]
        BY <2>2 DEF BaseOK, Moves
      <3>2. PICK x : x = call[s].parent
        OBVIOUS
      <3>3. Answered(x)'
        BY <1>1, <1>5, <3>1, <3>2 DEF NoLoop
      <3> QED
        BY <3>1, <3>2, <3>3 DEF Answered
    <2> QED
      BY <2>1, <2>2
  <1>6. NoCycleIn(Unmoved)'
    BY <1>2 DEF NoLoop, NoCycleIn, categoryVars
  <1> QED
    BY <1>3, <1>4, <1>5, <1>6 DEF NoLoop

(* Statements that answer.                                                 *)
LEMMA LoopWrite ==
    ASSUME BaseOK, NoLoop, NEW r \in Requests, NEW a \in Answers, Moves(r, a),
           \A c \in CategoryIds : categories'[c] # None => categories[c] # None \/ c = r,
           \A c \in Unmoved' :
               \/ c \in Unmoved /\ categories'[c].parent = categories[c].parent
               \/ c = r /\ Answered(categories'[c].parent)
    PROVE  NoLoop'
  <1>1. \A x : Answered(x) => Answered(x)' /\ x # r
    BY AnsweredStays
  <1>2. Answered(r)' /\ a \notin CreationPoints /\ pc'[r] = a
    BY DEF BaseOK, Moves, Answered, Answers, CreationPoints
  <1>3. \A c \in CategoryIds : categories'[c] # None => Answered(c)'
    BY <1>1, <1>2 DEF NoLoop
  <1>4. \A c \in Unmoved' : Answered(categories'[c].parent)
    BY DEF NoLoop
  <1>5. \A c \in Unmoved' : Answered(categories[c].parent)'
    <2>1. ASSUME NEW c \in Unmoved', NEW x, x = categories'[c].parent PROVE Answered(x)'
      BY <1>1, <1>4, <2>1
    <2> QED
      BY <2>1 DEF Answered
  <1>6. ASSUME NEW s \in Requests, pc'[s] \in CreationPoints
        PROVE  Answered(call[s].parent)'
    <2>1. s # r
      BY <1>2, <1>6
    <2>2. pc'[s] = pc[s] /\ call'[s] = call[s]
      BY <2>1 DEF BaseOK, Moves
    <2>3. PICK x : x = call[s].parent
      OBVIOUS
    <2>4. Answered(x)'
      BY <1>1, <1>6, <2>2, <2>3 DEF NoLoop
    <2> QED
      BY <2>2, <2>3, <2>4 DEF Answered
  <1>7. ASSUME NEW C \in SUBSET Unmoved', C # {}
        PROVE  \E c \in C : categories'[c].parent \notin C
    <2> DEFINE D == C \ {r}
    <2>1. CASE D = {}
      <3>1. C = {r}
        BY <1>7, <2>1
      <3>2. Answered(categories'[r].parent)
        BY <1>4, <3>1
      <3> QED
        BY <1>1, <3>1, <3>2
    <2>2. CASE D # {}
      <3>1. D \in SUBSET Unmoved
        OBVIOUS
      <3> HIDE DEF D
      <3>2. PICK c \in D : categories[c].parent \notin D
        BY <2>2, <3>1 DEF NoLoop, NoCycleIn
      <3>3. c \in C /\ c # r
        BY <3>2 DEF D
      <3>4. categories'[c].parent = categories[c].parent /\ categories'[c].parent # r
        BY <1>1, <1>4, <3>3
      <3>5. categories'[c].parent \notin C
        BY <3>2, <3>4 DEF D
      <3> QED
        BY <3>3, <3>5
    <2> QED
      BY <2>1, <2>2
  <1>8. NoCycleIn(Unmoved)'
    BY <1>7 DEF NoCycleIn
  <1> QED
    BY <1>3, <1>5, <1>6, <1>8 DEF NoLoop

LEMMA LoopElsewhere ==
    ASSUME BaseOK, NoLoop, NEW r \in Requests, NEW p, p \notin CategoryPoints, Moves(r, p),
           UNCHANGED categoryVars
    PROVE  NoLoop'
  <1>1. p \notin CreationPoints
    BY DEF CategoryPoints, CreationPoints
  <1> QED
    BY <1>1, LoopRead

(* A category goes, and with it what hung from it is no child any more.    *)
LEMMA LoopDelete ==
    ASSUME BaseOK, TreeInv, NoLoop, NEW r \in Requests, deleteCategory(r)
    PROVE  NoLoop'
  <1>1. /\ Moves(r, "ok") /\ moved' = moved
        /\ \A c \in CategoryIds : categories'[c] = IF c = call[r].id THEN None ELSE categories[c]
    BY DeleteCategoryOK DEF deleteCategory
  <1>2. "ok" \in Answers
    BY DEF Answers
  <1>3. \A c \in Unmoved' : c \in Unmoved /\ categories'[c].parent = categories[c].parent
    BY <1>1 DEF Unmoved
  <1> QED
    BY <1>1, <1>2, <1>3, LoopWrite

LEMMA LoopInsert ==
    ASSUME BaseOK, TreeInv, NoLoop, NEW r \in Requests, insertCategory(r)
    PROVE  NoLoop'
  <1> DEFINE row == [slug |-> call[r].slug, parent |-> call[r].parent, active |-> call[r].active]
  <1>1. /\ pc[r] = "insertCategory" /\ categories' = [categories EXCEPT ![r] = row]
        /\ moved' = moved /\ End(r, "ok")
    BY DEF insertCategory
  <1>2. Moves(r, "ok") /\ "ok" \in Answers
    BY <1>1, EndMoves DEF Answers
  <1>3. row.parent = call[r].parent /\ Answered(row.parent)
    BY <1>1 DEF NoLoop, CreationPoints
  <1> HIDE DEF row
  <1>4. \A c \in CategoryIds : categories'[c] = IF c = r THEN row ELSE categories[c]
    BY <1>1 DEF TreeInv, CategoriesTypeOK
  <1>5. \A c \in Unmoved' : \/ c \in Unmoved /\ categories'[c].parent = categories[c].parent
                            \/ c = r /\ Answered(categories'[c].parent)
    BY <1>1, <1>3, <1>4 DEF Unmoved
  <1> QED
    BY <1>2, <1>4, <1>5, LoopWrite

LEMMA LoopUpdate ==
    ASSUME BaseOK, TreeInv, NoLoop, NEW r \in Requests, writeCategory(r)
    PROVE  NoLoop'
  <1> DEFINE k   == call[r]
             old == categories[k.id]
             row == [slug |-> Given(k.slug, old.slug), active |-> Given(k.active, old.active),
                     parent |-> IF k.parent = "same" THEN old.parent ELSE k.parent]
  <1>1. /\ old # None /\ moved' = IF k.parent = "same" THEN moved ELSE moved \cup {k.id}
        /\ categories' = [categories EXCEPT ![k.id] = row]
    BY DEF writeCategory
  <1>2. Moves(r, "ok") /\ "ok" \in Answers
    BY WriteCategoryOK DEF Answers
  <1>3. row.parent = IF k.parent = "same" THEN old.parent ELSE k.parent
    OBVIOUS
  <1> HIDE DEF row
  <1>4. \A c \in CategoryIds : categories'[c] = IF c = k.id THEN row ELSE categories[c]
    BY <1>1 DEF TreeInv, CategoriesTypeOK
  <1>5. \A c \in CategoryIds : categories'[c] # None => categories[c] # None
    BY <1>1, <1>4
  <1>6. \A c \in Unmoved' : c \in Unmoved /\ categories'[c].parent = categories[c].parent
    <2>1. ASSUME NEW c \in Unmoved'
          PROVE  c \in Unmoved /\ categories'[c].parent = categories[c].parent
      <3>1. c \in CategoryIds /\ categories'[c] # None /\ c \notin moved'
        BY DEF Unmoved
      <3>2. c \in Unmoved
        BY <1>1, <1>5, <3>1 DEF Unmoved
      <3>3. c = k.id => k.parent = "same"
        BY <1>1, <3>1
      <3> QED
        BY <1>3, <1>4, <3>1, <3>2, <3>3
    <2> QED
      BY <2>1
  <1> QED
    BY <1>2, <1>5, <1>6, LoopWrite

(* A client names a parent that it was shown; then its creation had been   *)
(* answered.                                                               *)
LEMMA LoopStep ==
    ASSUME BaseOK, TreeInv, NoLoop, NEW r \in Requests, CategoriesStep(r)
    PROVE  NoLoop'
  <1>1. ASSUME NEW p, NEW x, pc[r] \notin Answers, Goto(r, p, x), UNCHANGED categoryVars,
               p \in CreationPoints => pc[r] \in CreationPoints
        PROVE  NoLoop'
    <2>1. Moves(r, p) /\ call' = call
      BY <1>1, GotoMoves
    <2>2. p \in CreationPoints => Answered(call'[r].parent)
      BY <1>1, <2>1 DEF NoLoop
    <2> QED
      BY <1>1, <2>1, <2>2, LoopRead
  <1>2. CASE CategoriesStart(r)
    <2>1. PICK c \in Calls \cap CategoryCall :
              /\ \A i \in Requests : c.op = "createCategory" /\ c.parent = i
                                         => categories[i] # None
              /\ Begin(r, c, c.op)
      BY <1>2 DEF CategoriesStart
    <2>2. Moves(r, c.op) /\ call'[r] = c /\ UNCHANGED categoryVars
      BY <1>2, <2>1, BeginMoves DEF CategoriesStart
    <2>3. ASSUME c.op \in CreationPoints PROVE Answered(c.parent)
      <3>1. c.op = "createCategory"
        BY <2>3, CategoryCalls DEF CreationPoints
      <3>2. c.parent \in Requests => c.parent \in CategoryIds /\ categories[c.parent] # None
        BY <2>1, <3>1 DEF CategoryIds
      <3> QED
        BY <3>2 DEF NoLoop, Answered
    <2> QED
      BY <2>2, <2>3, LoopRead
  <1>3. CASE categoryBySlug(r)
    <2>1. pc[r] = "createCategory" /\ UNCHANGED categoryVars
      BY <1>3 DEF categoryBySlug
    <2>2. \E p, x : Goto(r, p, x)
      BY <1>3 DEF categoryBySlug, End
    <2> QED
      BY <1>1, <2>1, <2>2 DEF Answers, CreationPoints
  <1>4. CASE findParent(r)
    <2>1. pc[r] = "findParent" /\ UNCHANGED categoryVars
      BY <1>4 DEF findParent
    <2>2. \E p, x : Goto(r, p, x)
      BY <1>4 DEF findParent, End
    <2> QED
      BY <1>1, <2>1, <2>2 DEF Answers, CreationPoints
  <1>5. ASSUME pc[r] \in CategoryPoints \ CreationPoints, UNCHANGED categoryVars,
               NEW p, NEW x, Goto(r, p, x), p \notin CreationPoints
        PROVE  NoLoop'
    BY <1>1, <1>5 DEF Answers, CategoryPoints
  <1>6. CASE findCategory(r)
    <2>1. /\ pc[r] = "updateCategory" /\ UNCHANGED categoryVars
          /\ \E p, x : p \in {"refused", "writeCategory", "otherSlug"} /\ Goto(r, p, x)
      BY <1>6 DEF findCategory, End
    <2> QED
      BY <1>5, <2>1 DEF CategoryPoints, CreationPoints
  <1>7. CASE otherSlug(r)
    <2>1. /\ pc[r] = "otherSlug" /\ UNCHANGED categoryVars
          /\ \E p, x : p \in {"refused", "writeCategory"} /\ Goto(r, p, x)
      BY <1>7 DEF otherSlug, End
    <2> QED
      BY <1>5, <2>1 DEF CategoryPoints, CreationPoints
  <1>8. CASE findForRemoval(r)
    <2>1. /\ pc[r] = "removeCategory" /\ UNCHANGED categoryVars
          /\ \E p, x : p \in {"refused", "findChildren"} /\ Goto(r, p, x)
      BY <1>8 DEF findForRemoval, End
    <2> QED
      BY <1>5, <2>1 DEF CategoryPoints, CreationPoints
  <1>9. CASE findChildren(r)
    <2>1. /\ pc[r] = "findChildren" /\ UNCHANGED categoryVars
          /\ \E p, x : p \in {"refused", "deleteCategory"} /\ Goto(r, p, x)
      BY <1>9 DEF findChildren, End
    <2> QED
      BY <1>5, <2>1 DEF CategoryPoints, CreationPoints
  <1> QED
    BY <1>2, <1>3, <1>4, <1>6, <1>7, <1>8, <1>9, LoopInsert, LoopUpdate DEF CategoriesStep

(* Whoever is hidden hangs from a hidden one.                              *)
LEMMA HiddenAreMoved ==
    ASSUME NoLoop
    PROVE  HiddenNeedsMove
  <1> DEFINE H == ActiveOnes \ Shown
  <1>1. Shown \subseteq ActiveOnes
    BY DEF Shown
  <1>2. Roots \subseteq Shown
    BY DEF Shown, HoldsTree, Roots
  <1>3. ASSUME NEW c \in ActiveOnes, categories[c].parent \in Shown PROVE c \in Shown
    BY <1>3 DEF Shown, HoldsTree
  <1>4. ASSUME H # {}, H \cap moved = {} PROVE FALSE
    <2>1. H \subseteq Unmoved
      BY <1>4 DEF Unmoved, ActiveOnes
    <2> HIDE DEF H
    <2>2. PICK c \in H : categories[c].parent \notin H
      BY <1>4, <2>1 DEF NoLoop, NoCycleIn
    <2>3. c \in ActiveOnes /\ c \notin Shown
      BY <2>2 DEF H
    <2>4. categories[c].parent \in ActiveOnes
      BY <1>2, <2>3 DEF Roots
    <2>5. categories[c].parent \in Shown
      BY <2>2, <2>4 DEF H
    <2> QED
      BY <1>3, <2>3, <2>5
  <1> QED
    BY <1>1, <1>4 DEF HiddenNeedsMove

-----------------------------------------------------------------------------
(* The inductive invariant.                                                *)
CatalogueInv == BaseOK /\ TreeInv /\ NoLoop /\ ShelfInv

LEMMA CatalogueInit == Init => CatalogueInv
  <1> SUFFICES ASSUME Init PROVE CatalogueInv
    OBVIOUS
  <1> USE DEF Init
  <1>1. \A r \in Requests : pc[r] = "idle" /\ call[r] = None
    BY DEF CallsInit
  <1>2. BaseOK
    BY DEF CallsInit, BaseOK
  <1>3. TreeInv
    <2>1. CategoriesTypeOK
      BY DEF CategoriesInit, CategoriesTypeOK
    <2>2. OrphansNeedRace
      BY DEF CategoriesInit, OrphansNeedRace, CategoryIds
    <2>3. \A r \in Requests : TreeReq(r)
      BY <1>1 DEF TreeReq, CategoryFits, ParentKnown, ChildrenKnown, CategoryPoints
    <2> QED
      BY <2>1, <2>2, <2>3 DEF TreeInv
  <1>4. ShelfInv
    <2>1. ProductsTypeOK
      BY DEF ProductsInit, ProductsTypeOK
    <2>2. \A r \in Requests : ShelfReq(r)
      BY <1>1 DEF ShelfReq, ProductCallFits, Owned, Placed, HasProduct, HasVariant, ProductPoints
    <2>3. \A r \in Requests : StoredIsAnswered(r)
      <3>1. ASSUME NEW r \in Requests, NEW s \in Skus PROVE variants[<<r, s>>] = None
        <4> DEFINE v == <<r, s>>
        <4>1. v \in VariantIds /\ v[1] = r
          BY VariantPairs
        <4> HIDE DEF v
        <4>2. variants[v] = None
          BY <4>1, ProductAssumption DEF ProductsInit
        <4> QED
          BY <4>2 DEF v
      <3>2. \A r \in Requests : products[r] = None
        BY DEF ProductsInit
      <3> QED
        BY <3>1, <3>2 DEF StoredIsAnswered
    <2>4. NothingDangles
      BY DEF ProductsInit, NothingDangles, ProductIds
    <2> QED
      BY <2>1, <2>2, <2>3, <2>4 DEF ShelfInv
  <1>5. NoLoop
    <2>1. \A c \in CategoryIds : categories[c] # None => c \in OldCategories
      BY DEF CategoriesInit, CategoryIds
    <2>2. \A c \in OldCategories : c \notin Requests
      BY CategoryAssumption
    <2>3. \A c \in CategoryIds : categories[c] # None => Answered(c)
      BY <2>1, <2>2 DEF Answered
    <2>4. ASSUME NEW c \in Unmoved PROVE Answered(categories[c].parent)
      <3>1. c \in OldCategories /\ categories[c] # None
        BY <2>1 DEF Unmoved
      <3>2. CASE categories[c].parent = None
        <4>1. None \notin Requests
          BY CategoryAssumption DEF CategoryIds
        <4> QED
          BY <3>2, <4>1 DEF Answered
      <3>3. CASE categories[c].parent # None
        <4>1. categories[categories[c].parent] # None
          BY <3>1, <3>3 DEF CategoriesInit
        <4>2. categories[c].parent \in Requests => categories[categories[c].parent] = None
          BY DEF CategoriesInit
        <4> QED
          BY <4>1, <4>2 DEF Answered
      <3> QED
        BY <3>2, <3>3
    <2>5. Unmoved = {c \in OldCategories : categories[c] # None}
      BY <2>1 DEF Unmoved, CategoriesInit, CategoryIds
    <2>6. NoCycleIn(Unmoved)
      BY <2>5 DEF CategoriesInit
    <2> QED
      BY <1>1, <2>3, <2>4, <2>6 DEF NoLoop, CreationPoints
  <1> QED
    BY <1>2, <1>3, <1>4, <1>5 DEF CatalogueInv

LEMMA CatalogueStep ==
    ASSUME CatalogueInv, Next
    PROVE  CatalogueInv' /\ OwnerStep /\ AskedStep
  <1> USE DEF CatalogueInv
  <1>1. PICK r \in Requests :
           \/ CategoriesStep(r) /\ UNCHANGED <<productVars, imageVars>>
           \/ removeWithProducts(r)
           \/ ProductsStep(r) /\ UNCHANGED <<categoryVars, imageVars>>
           \/ ImagesStep(r) /\ UNCHANGED <<categoryVars, productVars>>
           \/ imageRequestFails(r) /\ UNCHANGED <<categoryVars, productVars>>
    BY DEF Next
  <1>2. CASE CategoriesStep(r) /\ UNCHANGED productVars
    <2>1. PICK p : p \notin ProductPoints /\ Moves(r, p)
      <3>1. \A p \in CategoryPoints \cup Answers : p \notin ProductPoints
        BY DEF CategoryPoints, Answers, ProductPoints
      <3> QED
        BY <1>2, <3>1, CategoriesOK
    <2>2. TreeInv' /\ CategoriesStay
      BY <1>2, CategoriesOK
    <2> QED
      BY <1>2, <2>1, <2>2, BaseKept, ShelfElsewhere, StillSteps, LoopStep
  <1>3. CASE removeWithProducts(r)
    <2>1. NoLoop'
      BY <1>3, LoopDelete DEF removeWithProducts
    <2> QED
      BY <1>3, <2>1, CascadeOK, BaseKept
  <1>4. CASE ProductsStep(r) /\ UNCHANGED categoryVars
    <2>1. ASSUME NEW p, p \notin CategoryPoints, Moves(r, p), ShelfInv', OwnerStep, AskedStep
          PROVE  CatalogueInv' /\ OwnerStep /\ AskedStep
      BY <1>4, <2>1, BaseKept, TreeElsewhere, LoopElsewhere
    <2>2. "ok" \notin CategoryPoints /\ CategoriesTypeOK
      BY DEF CategoryPoints, TreeInv
    <2>3. CASE ProductRead(r)
      <3>1. \A p \in ProductPoints \cup Answers : p \notin CategoryPoints
        BY DEF ProductPoints, Answers, CategoryPoints
      <3> QED
        BY <1>4, <2>1, <2>3, <3>1, ProductReadOK, StillSteps
    <2>4. CASE insertProduct(r)
      BY <1>4, <2>1, <2>2, <2>4, InsertProductOK
    <2>5. CASE writeProduct(r) \/ softDelete(r)
      BY <1>4, <2>1, <2>2, <2>5, WriteProductOK
    <2>6. CASE insertVariant(r)
      BY <1>4, <2>1, <2>2, <2>6, InsertVariantOK
    <2>7. CASE writeVariant(r) \/ disableVariant(r)
      BY <1>4, <2>1, <2>2, <2>7, ChangeVariantOK
    <2> QED
      BY <1>4, <2>3, <2>4, <2>5, <2>6, <2>7 DEF ProductsStep, ProductRead
  <1>5. CASE (ImagesStep(r) \/ imageRequestFails(r)) /\ UNCHANGED <<categoryVars, productVars>>
    <2>1. PICK p : p \in ImagePoints \cup Answers /\ Moves(r, p)
      BY <1>5, ImagesMove
    <2>2. p \notin CategoryPoints /\ p \notin ProductPoints
      BY <2>1 DEF ImagePoints, Answers, CategoryPoints, ProductPoints
    <2>3. CategoriesStay
      BY <1>5 DEF CategoriesStay, categoryVars
    <2> QED
      BY <1>5, <2>1, <2>2, <2>3, BaseKept, TreeElsewhere, LoopElsewhere, ShelfElsewhere,
         StillSteps
  <1> QED
    BY <1>1, <1>2, <1>3, <1>4, <1>5

LEMMA CatalogueStutter ==
    ASSUME CatalogueInv, UNCHANGED vars
    PROVE  CatalogueInv'
  <1>1. UNCHANGED <<categories, moved, pc, call>> /\ NoLoop
    BY DEF CatalogueInv, vars, callVars, categoryVars
  <1>2. NoLoop'
    BY <1>1 DEF NoLoop, Answered, Unmoved, NoCycleIn
  <1> QED
    BY <1>2 DEF CatalogueInv, vars, callVars, categoryVars, productVars, imageVars, BaseOK, TreeInv,
           CategoriesTypeOK, TreeReq, CategoryFits, ParentKnown, ChildrenKnown, ChildrenOf,
           OrphansNeedRace, ShelfInv, ProductsTypeOK, ShelfReq, ProductCallFits, Owned, Placed,
           HasProduct, HasVariant, StoredIsAnswered, NothingDangles

THEOREM CatalogueHolds == Spec => []CatalogueInv
  <1>1. CatalogueInv /\ [Next]_vars => CatalogueInv'
    BY CatalogueStep, CatalogueStutter
  <1> QED
    BY CatalogueInit, <1>1, PTL DEF Spec

(* The category a parent names exists, or an update named it, or its       *)
(* removal met the creation of the child: for any number of admins.        *)
THEOREM OnlyRacesOrphan == Spec => []OrphansNeedRace
  <1>1. CatalogueInv => OrphansNeedRace
    BY DEF CatalogueInv, TreeInv
  <1> QED
    BY CatalogueHolds, <1>1, PTL

(* Buyers see every active category but those on a cycle, or below one,    *)
(* that an update of a parent has closed: however requests overlap, no     *)
(* creation, removal or other update hides one.                            *)
THEOREM OnlyMovesHide == Spec => []HiddenNeedsMove
  <1>1. CatalogueInv => HiddenNeedsMove
    BY HiddenAreMoved DEF CatalogueInv
  <1> QED
    BY CatalogueHolds, <1>1, PTL

(* No request, alone or among others, leaves a product without its         *)
(* category or a variant without its product.                              *)
THEOREM NothingLeftDangling == Spec => []NothingDangles
  <1>1. CatalogueInv => NothingDangles
    BY DEF CatalogueInv, ShelfInv
  <1> QED
    BY CatalogueHolds, <1>1, PTL

(* What is a seller's no other seller changes, although each write names   *)
(* its row by id alone, some statements after it was asked whose it is.    *)
THEOREM SellersKeepTheirs == Spec => OnlyOwnerChanges
  <1>1. CatalogueInv /\ [Next]_vars => [OwnerStep]_<<callVars, categoryVars, productVars>>
    BY CatalogueStep DEF vars
  <1>2. [][OwnerStep]_<<callVars, categoryVars, productVars>> => OnlyOwnerChanges
    BY PTL DEF OwnerStep, OnlyOwnerChanges
  <1> QED
    BY CatalogueHolds, <1>1, <1>2, PTL DEF Spec

(* A variant taken off sale is not put back by an update under way.        *)
THEOREM OffSaleUntilAsked == Spec => DisabledUntilAsked
  <1>1. CatalogueInv /\ [Next]_vars => [AskedStep]_<<callVars, categoryVars, productVars>>
    BY CatalogueStep DEF vars
  <1>2. [][AskedStep]_<<callVars, categoryVars, productVars>> => DisabledUntilAsked
    BY PTL DEF AskedStep, DisabledUntilAsked
  <1> QED
    BY CatalogueHolds, <1>1, <1>2, PTL DEF Spec

-----------------------------------------------------------------------------
(* Images.  An image and its file have the identity of the upload, which   *)
(* stores the rows with its last statement and the files with the one      *)
(* before; the rest names rows that were there when it began.              *)

RowPoints == {"findImage", "primary", "deleteFile", "deleteRow", "findNext", "promote"}
RemovalPoints == {"deleteFile", "deleteRow", "findNext", "promote"}

ImageFits(r) == pc[r] \in ImagePoints =>
    /\ call[r] \in ImageCall /\ Answered(call[r].product)
    /\ call[r].op # "addImages" => Answered(call[r].image[1])
    /\ pc[r] \in {"upload", "storeImages"} => call[r].op = "addImages"
    /\ pc[r] \in RowPoints => call[r].op # "addImages"
    /\ pc[r] \in RemovalPoints => call[r].op = "removeImage"

(* The file of an image is its own, or that of another of the same upload. *)
FileFits(i, f) ==
    /\ f[1] = i[1]
    /\ i[1] \in OldProducts \/ ~ call[i[1]].oneName => f = i

(* The product the images of an upload, or the stored ones, are of.        *)
UploadFor(x) == IF x \in OldProducts THEN x ELSE call[x].product

OfProduct(r, i) == images[i] # None => images[i].product = call[r].product

Uploaded(r) == pc[r] = "storeImages" =>
    /\ seen[r].key \in Keys(r)
    /\ \A i \in NewIds(r) : seen[r].key[i] \in files
    /\ \A f \in files : f[1] = r => \E i \in NewIds(r) : seen[r].key[i] = f

(* The row a removal holds, and the one it promotes, are as they were.     *)
Found(r) ==
    /\ pc[r] \in {"primary", "deleteFile", "deleteRow"} => OfProduct(r, call[r].image)
    /\ pc[r] \in {"deleteFile", "deleteRow"} =>
        /\ seen[r] \in Image /\ FileFits(call[r].image, seen[r].file)
        /\ images[call[r].image] # None => images[call[r].image].file = seen[r].file
    /\ pc[r] = "deleteRow" => seen[r].file \notin files \/ seen[r].file \in kept
    /\ pc[r] = "promote" => seen[r] \in ImageIds /\ Answered(seen[r][1]) /\ OfProduct(r, seen[r])

ImageReq(r) == ImageFits(r) /\ Uploaded(r) /\ Found(r)

RowFits(i) == images[i] # None =>
    /\ Answered(i[1]) /\ images[i].product = UploadFor(i[1])
    /\ products[images[i].product] # None
    /\ FileFits(i, images[i].file)

FilesFit == \A f \in files :
    /\ Answered(f[1]) \/ pc[f[1]] = "storeImages"
    /\ Answered(UploadFor(f[1])) /\ UploadFor(f[1]) \in ProductIds

ImagesInv ==
    /\ ImagesTypeOK
    /\ \A r \in Requests : ImageReq(r)
    /\ \A i \in ImageIds : RowFits(i)
    /\ FilesFit

LEMMA ImageCalls ==
    ASSUME NEW c \in ImageCall
    PROVE  /\ c.op \in {"addImages", "removeImage", "setPrimary"}
           /\ c.product \in ProductIds
           /\ c.op = "addImages" => c.files \in 1 .. MaxFiles /\ c.oneName \in BOOLEAN
           /\ c.op # "addImages" => c.image \in ImageIds
  BY DEF ImageCall

LEMMA ImagePairs ==
    /\ \A i \in ImageIds : i[1] \in ProductIds /\ i[2] \in 1 .. MaxImages /\ i = <<i[1], i[2]>>
    /\ \A r \in Requests, n \in 1 .. MaxFiles :
           /\ {r} \X (1 .. n) \subseteq ImageIds
           /\ \A i \in {r} \X (1 .. n) : i[1] = r
           /\ <<r, 1>> \in {r} \X (1 .. n)
  BY ImageAssumption DEF ImageIds, ProductIds

LEMMA OldOrRequest ==
    /\ \A x \in ProductIds : x \in OldProducts <=> x \notin Requests
    /\ \A x \in OldProducts : Answered(x)
  BY ProductAssumption DEF ProductIds, Answered

(* What a request asked is no longer changed once it is answered.          *)
LEMMA AsAnswered ==
    ASSUME BaseOK, NEW r \in Requests, NEW p, Moves(r, p), NEW x \in ProductIds, Answered(x)
    PROVE  /\ Answered(x)' /\ x # r /\ UploadFor(x)' = UploadFor(x)
           /\ \A i, f : i[1] = x => (FileFits(i, f)' <=> FileFits(i, f))
  <1>1. Answered(x)' /\ x # r
    BY AnsweredStays
  <1>2. x \in OldProducts \/ call'[x] = call[x]
    BY <1>1 DEF Moves, ProductIds
  <1> QED
    BY <1>1, <1>2 DEF UploadFor, FileFits

LEMMA KeysFit ==
    ASSUME NEW r \in Requests, NEW k \in Keys(r)
    PROVE  /\ k \in [NewIds(r) -> NewIds(r)] /\ \A i \in NewIds(r) : i[1] = r
           /\ ~ call[r].oneName => \A i \in NewIds(r) : k[i] = i
  BY DEF Keys, NewIds

(* What a step of r leaves alone of the rows and files of others.          *)
RowsKeep(r) == \A i \in ImageIds : images'[i] # None =>
    \/ i[1] = r
    \/ /\ images[i] # None
       /\ images'[i].product = images[i].product /\ images'[i].file = images[i].file

FilesKeep(r) ==
    /\ files' \subseteq ImageIds /\ kept \subseteq kept'
    /\ \A f \in files' : f \in files \/ (f[1] = r /\ pc[r] = "upload")
    /\ \A f \in files : f \in files' \/ Answered(f[1])

LEMMA OthersKept ==
    ASSUME BaseOK, ImagesInv, NEW r \in Requests, NEW p, Moves(r, p),
           RowsKeep(r), FilesKeep(r), NEW s \in Requests, s # r
    PROVE  ImageReq(s)'
  <1>1. pc'[s] = pc[s] /\ call'[s] = call[s] /\ seen'[s] = seen[s]
    BY DEF BaseOK, Moves
  <1>2. ImageReq(s) /\ ImagesTypeOK
    BY DEF ImagesInv
  <1>3. \A x : Answered(x) => Answered(x)' /\ x # r
    BY AnsweredStays
  <1>4. ImageFits(s)'
    <2>1. SUFFICES ASSUME pc[s] \in ImagePoints PROVE ImageFits(s)'
      BY <1>1 DEF ImageFits
    <2>2. PICK x, y : x = call[s].product /\ y = call[s].image[1]
      OBVIOUS
    <2>3. Answered(x)' /\ (call[s].op # "addImages" => Answered(y)')
      BY <1>2, <1>3, <2>1, <2>2 DEF ImageReq, ImageFits
    <2>4. x = call'[s].product /\ y = call'[s].image[1]
      BY <1>1, <2>2
    <2>5. Answered(call[s].product)' /\ (call[s].op # "addImages" => Answered(call[s].image[1])')
      BY <2>3, <2>4 DEF Answered
    <2> QED
      BY <1>1, <1>2, <2>1, <2>5 DEF ImageReq, ImageFits
  <1>5. Uploaded(s)'
    <2>1. SUFFICES ASSUME pc[s] = "storeImages" PROVE Uploaded(s)'
      BY <1>1 DEF Uploaded
    <2>2. NewIds(s)' = NewIds(s) /\ Keys(s)' = Keys(s)
      BY <1>1 DEF NewIds, Keys
    <2> DEFINE k == seen[s].key
    <2>3. /\ k \in Keys(s) /\ \A i \in NewIds(s) : k[i] \in files
          /\ \A f \in files : f[1] = s => \E i \in NewIds(s) : k[i] = f
      BY <1>2, <2>1 DEF ImageReq, Uploaded
    <2>4. \A i \in NewIds(s) : k[i][1] = s
      BY <2>3, KeysFit
    <2>5. ~ Answered(s)
      BY <2>1 DEF Answered, Answers
    <2> HIDE DEF k
    <2>6. \A i \in NewIds(s) : k[i] \in files'
      BY <2>3, <2>4, <2>5 DEF FilesKeep
    <2>7. \A f \in files' : f[1] = s => \E i \in NewIds(s) : k[i] = f
      BY <2>3 DEF FilesKeep
    <2>8. k = seen'[s].key
      BY <1>1 DEF k
    <2> QED
      BY <2>2, <2>3, <2>6, <2>7, <2>8 DEF Uploaded
  <1>6. Found(s)'
    <2>1. ASSUME pc[s] \in {"primary", "deleteFile", "deleteRow"}
          PROVE  /\ OfProduct(s, call[s].image)'
                 /\ pc[s] # "primary" =>
                       /\ FileFits(call[s].image, seen[s].file)'
                       /\ images'[call[s].image] # None
                            => images'[call[s].image].file = seen[s].file
      <3>0. PICK i, f : i = call[s].image /\ f = seen[s].file
        OBVIOUS
      <3>1. /\ i \in ImageIds /\ Answered(i[1])
        BY <1>2, <2>1, <3>0, ImageCalls DEF ImageReq, ImageFits, ImagePoints, RowPoints
      <3>2. OfProduct(s, i) /\ (pc[s] # "primary" =>
               /\ FileFits(i, f)
               /\ images[i] # None => images[i].file = f)
        BY <1>2, <2>1, <3>0 DEF ImageReq, Found
      <3>3. i = call'[s].image /\ f = seen'[s].file
        BY <1>1, <3>0
      <3>4. images'[i] # None => /\ images[i] # None
                /\ images'[i].product = images[i].product /\ images'[i].file = images[i].file
        BY <1>3, <3>1 DEF RowsKeep
      <3>5. images'[i] # None => images'[i].product = call'[s].product
        BY <1>1, <3>2, <3>4 DEF OfProduct
      <3>6. pc[s] # "primary" =>
               /\ FileFits(i, f)'
               /\ images'[i] # None => images'[i].file = f
        <4>1. i[1] \in ProductIds
          BY <3>1, ImagePairs
        <4> QED
          BY <3>1, <3>2, <3>4, <4>1, AsAnswered
      <3>7. OfProduct(s, call[s].image)'
        BY <3>3, <3>5 DEF OfProduct
      <3>8. pc[s] # "primary" => FileFits(call[s].image, seen[s].file)'
        BY <3>3, <3>6 DEF FileFits
      <3> QED
        BY <3>0, <3>6, <3>7, <3>8
    <2>2. ASSUME pc[s] = "promote"
          PROVE  seen[s] \in ImageIds /\ Answered(seen[s][1])' /\ OfProduct(s, seen[s])'
      <3> DEFINE i == seen[s]
      <3>1. i \in ImageIds /\ Answered(i[1]) /\ OfProduct(s, i)
        BY <1>2, <2>2 DEF ImageReq, Found
      <3>2. i = seen'[s]
        BY <1>1
      <3> HIDE DEF i
      <3>3. images'[i] # None => images[i] # None /\ images'[i].product = images[i].product
        BY <1>3, <3>1 DEF RowsKeep
      <3>4. images'[i] # None => images'[i].product = call'[s].product
        BY <1>1, <3>1, <3>3 DEF OfProduct
      <3>5. PICK x : x = i[1]
        OBVIOUS
      <3>6. Answered(x)'
        BY <1>3, <3>1, <3>5
      <3> QED
        BY <3>1, <3>2, <3>4, <3>5, <3>6 DEF OfProduct, Answered, i
    <2>3. pc[s] = "deleteRow" => seen[s].file \notin files' \/ seen[s].file \in kept'
      <3>1. SUFFICES ASSUME pc[s] = "deleteRow", seen[s].file \in files'
                     PROVE  seen[s].file \in kept'
        OBVIOUS
      <3> DEFINE f == seen[s].file
      <3>2. /\ f \notin files \/ f \in kept
            /\ f[1] = call[s].image[1]
        BY <1>2, <3>1 DEF ImageReq, Found, FileFits
      <3>3. Answered(call[s].image[1])
        BY <1>2, <3>1 DEF ImageReq, ImageFits, ImagePoints, RowPoints
      <3>4. f[1] # r
        BY <1>3, <3>2, <3>3
      <3> QED
        BY <3>1, <3>2, <3>4 DEF FilesKeep
    <2> QED
      BY <1>1, <1>2, <2>1, <2>2, <2>3 DEF ImageReq, Found
  <1> QED
    BY <1>4, <1>5, <1>6 DEF ImageReq

(* A step of r that lists no image it did not list before.                 *)
RowsStay == \A i \in ImageIds : images'[i] # None =>
    /\ images[i] # None
    /\ images'[i].product = images[i].product /\ images'[i].file = images[i].file

ProductsThere == \A i \in ImageIds : images'[i] # None => products'[images'[i].product] # None

(* What r does next, p, from where it is.                                  *)
GoesOn(r, p) ==
    /\ Moves(r, p)
    /\ pc[r] # "idle" => call'[r] = call[r]
    /\ pc[r] = "storeImages" => p \in Answers
    /\ pc[r] = "upload" => p \in {"storeImages", "failed"}

LEMMA FilesKept ==
    ASSUME BaseOK, ImagesInv, NEW r \in Requests, NEW p, GoesOn(r, p), FilesKeep(r)
    PROVE  FilesFit'
  <1>1. ASSUME NEW f \in files'
        PROVE  /\ Answered(f[1])' \/ pc'[f[1]] = "storeImages"
               /\ Answered(UploadFor(f[1]))' /\ UploadFor(f[1])' \in ProductIds
    <2>1. f \in ImageIds /\ f[1] \in ProductIds
      BY ImagePairs DEF FilesKeep
    <2>2. PICK x : x = f[1]
      OBVIOUS
    <2>3. PICK y : y = UploadFor(x)
      OBVIOUS
    <2>4. \A z : Answered(z) => Answered(z)' /\ z # r
      BY AnsweredStays DEF GoesOn
    <2>5. CASE Answered(x)
      <3>1. f \in files
        BY <2>2, <2>4, <2>5 DEF FilesKeep
      <3>2. Answered(y) /\ y \in ProductIds
        BY <2>2, <2>3, <3>1 DEF ImagesInv, FilesFit
      <3>3. Answered(x)' /\ UploadFor(x)' = y
        BY <2>1, <2>2, <2>3, <2>5, AsAnswered DEF GoesOn
      <3>4. Answered(UploadFor(x))'
        BY <2>4, <3>2, <3>3 DEF Answered
      <3> QED
        BY <2>2, <3>2, <3>3, <3>4
    <2>6. CASE ~ Answered(x)
      <3>1. x \in Requests /\ x \notin OldProducts
        BY <2>1, <2>2, <2>6, OldOrRequest DEF Answered
      <3>2. pc[x] \in {"upload", "storeImages"} /\ (pc[x] = "upload" => x = r)
        BY <2>2, <2>6, <3>1 DEF FilesKeep, ImagesInv, FilesFit
      <3>3. call[x] \in ImageCall /\ Answered(call[x].product)
        BY <3>1, <3>2 DEF ImagesInv, ImageReq, ImageFits, ImagePoints
      <3>4. call'[x] = call[x]
        BY <3>1, <3>2 DEF GoesOn, Moves
      <3>5. UploadFor(x)' = call[x].product
        BY <3>1, <3>4 DEF UploadFor
      <3>6. PICK z : z = call[x].product
        OBVIOUS
      <3>7. Answered(z)' /\ z \in ProductIds
        BY <2>4, <3>3, <3>6, ImageCalls
      <3>8. Answered(UploadFor(x))' /\ UploadFor(x)' \in ProductIds
        BY <3>5, <3>6, <3>7 DEF Answered
      <3>9. Answered(x)' \/ pc'[x] = "storeImages"
        <4>1. CASE x # r
          BY <3>1, <3>2, <4>1 DEF GoesOn, Moves, BaseOK
        <4>2. CASE x = r
          <5>1. pc'[r] = p /\ p \in Answers \cup {"storeImages"}
            BY <3>2, <4>2 DEF GoesOn, Moves, BaseOK, Answers
          <5> QED
            BY <4>2, <5>1 DEF Answered
        <4> QED
          BY <4>1, <4>2
      <3> QED
        BY <2>2, <3>8, <3>9
    <2> QED
      BY <2>5, <2>6
  <1> QED
    BY <1>1 DEF FilesFit

LEMMA RowsKept ==
    ASSUME BaseOK, ImagesInv, ImagesTypeOK', NEW r \in Requests, NEW p, Moves(r, p),
           ProductsThere, NEW i \in ImageIds, images[i] # None,
           images'[i] # None =>
               images'[i].product = images[i].product /\ images'[i].file = images[i].file
    PROVE  RowFits(i)'
  <1>1. SUFFICES ASSUME images'[i] # None PROVE RowFits(i)'
    BY DEF RowFits
  <1>2. /\ Answered(i[1]) /\ images[i].product = UploadFor(i[1])
        /\ FileFits(i, images[i].file) /\ i[1] \in ProductIds
    BY ImagePairs DEF ImagesInv, RowFits
  <1>3. PICK x, f : x = i[1] /\ f = images[i].file
    OBVIOUS
  <1>4. Answered(x)' /\ UploadFor(x)' = UploadFor(x) /\ FileFits(i, f)'
    BY <1>2, <1>3, AsAnswered
  <1>5. images'[i].file = f
    BY <1>1, <1>3
  <1>6. FileFits(i, images[i].file)'
    BY <1>4, <1>5 DEF FileFits
  <1> QED
    BY <1>1, <1>2, <1>3, <1>4, <1>6 DEF RowFits, ProductsThere

LEMMA ImagesKept ==
    ASSUME BaseOK, ImagesInv, NEW r \in Requests, NEW p, GoesOn(r, p), RowsStay,
           FilesKeep(r), ImagesTypeOK', ProductsThere, ImageReq(r)'
    PROVE  ImagesInv'
  <1>1. RowsKeep(r)
    BY DEF RowsStay, RowsKeep
  <1>2. \A s \in Requests : ImageReq(s)'
    BY <1>1, OthersKept DEF GoesOn
  <1>3. ASSUME NEW i \in ImageIds PROVE RowFits(i)'
    <2>1. CASE images'[i] = None
      BY <2>1 DEF RowFits
    <2>2. CASE images'[i] # None
      BY <2>2, RowsKept DEF RowsStay, GoesOn
    <2> QED
      BY <2>1, <2>2
  <1> QED
    BY <1>2, <1>3, FilesKept DEF ImagesInv

(* What excuses an image without its file, and a file without its image.   *)
RowExcused(i) == \/ Removing(i) # {}
                 \/ i[1] \in Requests /\ call[i[1]].oneName

FileExcused(f) == \/ f \in kept
                  \/ f[1] \in Requests /\ pc[f[1]] # "ok"
                  \/ products[UploadFor(f[1])] = None

Named(f) == \E i \in ImageIds : images[i] # None /\ images[i].file = f

LEMMA Excuses ==
    /\ RowsHaveFiles <=> \A i \in ImageIds :
           images[i] # None /\ images[i].file \notin files => RowExcused(i)
    /\ FilesHaveRows <=> \A f \in files : Named(f) \/ FileExcused(f)
  BY DEF RowsHaveFiles, FilesHaveRows, RowExcused, FileExcused, Named, UploadFor

LEMMA RowExcuseKept ==
    ASSUME BaseOK, ImagesInv, NEW r \in Requests, NEW p, GoesOn(r, p),
           NEW i \in ImageIds, images[i] # None, RowExcused(i),
           pc[r] = "deleteRow" => p = "failed" \/ call[r].image # i
    PROVE  RowExcused(i)'
  <1>1. \A s \in Requests : s # r => pc'[s] = pc[s] /\ call'[s] = call[s]
    BY DEF GoesOn, Moves, BaseOK
  <1>2. pc'[r] = p /\ pc[r] \notin Answers
    BY DEF GoesOn, Moves, BaseOK
  <1>3. CASE i[1] \in Requests /\ call[i[1]].oneName
    <2>1. Answered(i[1])
      BY DEF ImagesInv, RowFits
    <2>2. i[1] # r
      BY <1>2, <2>1 DEF Answered
    <2> QED
      BY <1>1, <1>3, <2>2 DEF RowExcused
  <1>4. ASSUME NEW q \in Removing(i) PROVE q \in Removing(i)'
    <2>1. /\ q \in Requests /\ call[q].op = "removeImage"
          /\ call[q].image = i /\ pc[q] \in {"deleteRow", "failed"}
      BY <1>4 DEF Removing
    <2>2. CASE q # r
      BY <1>1, <2>1, <2>2 DEF Removing
    <2>3. CASE q = r
      <3>1. pc[r] = "deleteRow"
        BY <1>2, <2>1, <2>3 DEF Answers
      <3>2. call'[r] = call[r] /\ pc'[r] = "failed"
        BY <1>2, <2>1, <2>3, <3>1 DEF GoesOn
      <3> QED
        BY <2>1, <2>3, <3>2 DEF Removing
    <2> QED
      BY <2>2, <2>3
  <1> QED
    BY <1>3, <1>4 DEF RowExcused

LEMMA FileExcuseKept ==
    ASSUME BaseOK, ImagesInv, NEW r \in Requests, NEW p, GoesOn(r, p),
           NEW f \in files, FileExcused(f), kept \subseteq kept',
           \A q \in ProductIds : products'[q] # None => products[q] # None \/ q = r,
           pc[r] = "storeImages" => p = "failed" \/ f[1] # r
    PROVE  FileExcused(f)'
  <1>1. \A s \in Requests : s # r => pc'[s] = pc[s] /\ call'[s] = call[s]
    BY DEF GoesOn, Moves, BaseOK
  <1>2. pc'[r] = p /\ pc[r] \notin Answers
    BY DEF GoesOn, Moves, BaseOK
  <1>3. SUFFICES ASSUME f \notin kept', ~ (f[1] \in Requests /\ pc'[f[1]] # "ok")
                 PROVE  products'[UploadFor(f[1])'] = None
    BY DEF FileExcused
  <1>4. f[1] \in ProductIds
    BY ImagePairs DEF ImagesInv, ImagesTypeOK
  <1>5. Answered(f[1])
    <2>1. SUFFICES ASSUME pc[f[1]] = "storeImages", f[1] \in Requests PROVE FALSE
      BY DEF ImagesInv, FilesFit, Answered
    <2>2. f[1] = r => p = "failed"
      BY <2>1
    <2> QED
      BY <1>1, <1>2, <1>3, <2>1, <2>2
  <1>6. f[1] # r /\ (f[1] \in Requests => pc[f[1]] = "ok")
    BY <1>1, <1>2, <1>3, <1>5 DEF Answered
  <1>7. products[UploadFor(f[1])] = None
    BY <1>3, <1>6 DEF FileExcused
  <1>8. Answered(UploadFor(f[1])) /\ UploadFor(f[1]) \in ProductIds
    BY DEF ImagesInv, FilesFit
  <1>9. UploadFor(f[1]) # r
    BY <1>2, <1>8 DEF Answered
  <1>10. PICK x : x = f[1]
    OBVIOUS
  <1>11. UploadFor(x)' = UploadFor(x)
    BY <1>4, <1>5, <1>10, AsAnswered DEF GoesOn
  <1> QED
    BY <1>7, <1>8, <1>9, <1>10, <1>11

(* A step of r that takes no image off the list and no file off the store, *)
(* and answers no upload.                                                  *)
LEMMA ListedKept ==
    ASSUME BaseOK, ImagesInv, RowsHaveFiles, FilesHaveRows,
           NEW r \in Requests, NEW p, GoesOn(r, p), RowsStay, FilesKeep(r), ProductsKeep(r),
           \A i \in ImageIds : images[i] # None => images'[i] # None,
           files \subseteq files',
           pc[r] \in {"deleteRow", "storeImages"} => p = "failed"
    PROVE  RowsHaveFiles' /\ FilesHaveRows'
  <1>1. ASSUME NEW i \in ImageIds, images'[i] # None, images'[i].file \notin files'
        PROVE  RowExcused(i)'
    <2>1. images[i] # None /\ images[i].file \notin files
      BY <1>1 DEF RowsStay
    <2>2. RowExcused(i)
      BY <2>1, Excuses
    <2> QED
      BY <2>1, <2>2, RowExcuseKept
  <1>2. ASSUME NEW f \in files', ~ Named(f)'
        PROVE  FileExcused(f)'
    <2>1. CASE f \in files
      <3>1. ~ Named(f)
        BY <1>2 DEF Named, RowsStay
      <3>2. FileExcused(f)
        BY <2>1, <3>1, Excuses
      <3> QED
        BY <2>1, <3>2, FileExcuseKept DEF FilesKeep, ProductsKeep
    <2>2. CASE f \notin files
      <3>1. f[1] = r /\ pc[r] = "upload"
        BY <2>2 DEF FilesKeep
      <3>2. pc'[r] # "ok"
        BY <3>1 DEF GoesOn, Moves, BaseOK
      <3> QED
        BY <3>1, <3>2 DEF FileExcused
    <2> QED
      BY <2>1, <2>2
  <1>3. RowsHaveFiles'
    BY <1>1 DEF RowsHaveFiles, RowExcused
  <1>4. FilesHaveRows'
    BY <1>2 DEF FilesHaveRows, FileExcused, Named, UploadFor
  <1> QED
    BY <1>3, <1>4

ImagesAll == ImagesInv /\ RowsHaveFiles /\ FilesHaveRows

(* Steps that list no image more or less, and leave the files alone.       *)
LEMMA QuietOK ==
    ASSUME BaseOK, ImagesAll, NEW r \in Requests, NEW p, GoesOn(r, p),
           UNCHANGED <<files, kept>>, ProductsKeep(r),
           images' \in [ImageIds -> Image \cup {None}], disturbed' \subseteq ProductIds,
           \A i \in ImageIds : images[i] # None =>
               /\ images'[i] # None
               /\ images'[i].product = images[i].product /\ images'[i].file = images[i].file,
           \A i \in ImageIds : images'[i] # None => images[i] # None,
           pc[r] \in {"deleteRow", "storeImages"} => p = "failed", ImageReq(r)'
    PROVE  ImagesAll'
  <1>1. ImagesInv /\ RowsHaveFiles /\ FilesHaveRows
    BY DEF ImagesAll
  <1>2. RowsStay
    BY DEF RowsStay
  <1>3. FilesKeep(r) /\ files \subseteq files'
    <2>1. files' = files /\ kept' = kept /\ files \subseteq ImageIds
      BY <1>1 DEF ImagesInv, ImagesTypeOK
    <2> QED
      BY <2>1 DEF FilesKeep
  <1>4. ImagesTypeOK'
    BY <1>1 DEF ImagesInv, ImagesTypeOK
  <1>5. ProductsThere
    <2>1. ASSUME NEW i \in ImageIds, images'[i] # None PROVE products'[images'[i].product] # None
      <3>1. images[i] # None /\ images'[i].product = images[i].product
        BY <2>1
      <3>2. images[i].product \in ProductIds /\ products[images[i].product] # None
        BY <1>1, <3>1 DEF ImagesInv, ImagesTypeOK, RowFits, Image
      <3> QED
        BY <3>1, <3>2 DEF ProductsKeep
    <2> QED
      BY <2>1 DEF ProductsThere
  <1>6. ImagesInv'
    BY <1>1, <1>2, <1>3, <1>4, <1>5, ImagesKept
  <1>7. RowsHaveFiles' /\ FilesHaveRows'
    BY <1>1, <1>2, <1>3, ListedKept
  <1> QED
    BY <1>6, <1>7 DEF ImagesAll

LEMMA StillImages ==
    ASSUME BaseOK, ImagesAll, NEW r \in Requests, NEW p, GoesOn(r, p),
           UNCHANGED <<images, files, kept>>, ProductsKeep(r), disturbed' \subseteq ProductIds,
           pc[r] \in {"deleteRow", "storeImages"} => p = "failed", ImageReq(r)'
    PROVE  ImagesAll'
  BY QuietOK DEF ImagesAll, ImagesInv, ImagesTypeOK

LEMMA NoImagePoint ==
    ASSUME BaseOK, NEW r \in Requests, NEW p, Moves(r, p), p \notin ImagePoints
    PROVE  ImageReq(r)'
  <1>1. pc'[r] \notin ImagePoints
    BY DEF Moves, BaseOK
  <1> QED
    BY <1>1 DEF ImageReq, ImageFits, Uploaded, Found, ImagePoints

(* The other services.                                                     *)
LEMMA ImagesElsewhere ==
    ASSUME BaseOK, ImagesAll, NEW r \in Requests, NEW p, Moves(r, p), p \notin ImagePoints,
           pc[r] \notin ImagePoints, pc[r] # "idle" => call'[r] = call[r],
           UNCHANGED imageVars, ProductsKeep(r)
    PROVE  ImagesAll'
  <1>1. GoesOn(r, p) /\ pc[r] \notin {"deleteRow", "storeImages"}
    BY DEF GoesOn, ImagePoints
  <1>2. disturbed' \subseteq ProductIds
    BY DEF ImagesAll, ImagesInv, ImagesTypeOK, imageVars
  <1> QED
    BY <1>1, <1>2, NoImagePoint, StillImages DEF imageVars

(* Where a request of another service is.                                  *)
LEMMA OtherServices ==
    ASSUME BaseOK, NEW r \in Requests, CategoriesStep(r) \/ ProductsStep(r)
    PROVE  /\ pc[r] \notin ImagePoints \cup Answers
           /\ pc[r] # "idle" => call' = call
  <1>1. CASE CategoriesStart(r) \/ ProductsStart(r)
    BY <1>1 DEF CategoriesStart, ProductsStart, Begin, ImagePoints, Answers
  <1>2. CASE categoryBySlug(r) \/ findParent(r) \/ insertCategory(r) \/ findCategory(r)
    BY <1>2 DEF categoryBySlug, findParent, insertCategory, findCategory, End, Goto,
                ImagePoints, Answers
  <1>3. CASE otherSlug(r) \/ writeCategory(r) \/ findForRemoval(r) \/ findChildren(r)
    BY <1>3 DEF otherSlug, writeCategory, findForRemoval, findChildren, End, Goto,
                ImagePoints, Answers
  <1>4. CASE productBySlug(r) \/ productCategory(r) \/ insertProduct(r) \/ findProduct(r)
    BY <1>4 DEF productBySlug, productCategory, insertProduct, findProduct, End, Goto,
                ImagePoints, Answers
  <1>5. CASE newSlug(r) \/ writeProduct(r) \/ softDelete(r) \/ newSku(r)
    BY <1>5 DEF newSlug, writeProduct, softDelete, newSku, End, Goto, ImagePoints, Answers
  <1>6. CASE insertVariant(r) \/ findVariant(r) \/ writeVariant(r) \/ disableVariant(r)
    BY <1>6 DEF insertVariant, findVariant, writeVariant, disableVariant, End, Goto,
                ImagePoints, Answers
  <1> QED
    BY <1>1, <1>2, <1>3, <1>4, <1>5, <1>6 DEF CategoriesStep, ProductsStep

LEMMA OthersLeaveImages ==
    ASSUME BaseOK, TreeInv, ShelfInv, ImagesAll, NEW r \in Requests, UNCHANGED imageVars,
           \/ CategoriesStep(r) /\ UNCHANGED productVars
           \/ ProductsStep(r) /\ UNCHANGED categoryVars
    PROVE  ImagesAll' /\ ProductsKeep(r)
           /\ \E p : Moves(r, p) /\ p \notin ImagePoints /\ pc[r] \notin ImagePoints
  <1>1. pc[r] \notin ImagePoints /\ (pc[r] # "idle" => call'[r] = call[r])
    BY OtherServices
  <1>2. \A p \in CategoryPoints \cup ProductPoints \cup Answers : p \notin ImagePoints
    BY DEF CategoryPoints, ProductPoints, Answers, ImagePoints
  <1>3. ASSUME NEW p \in CategoryPoints \cup ProductPoints \cup Answers, Moves(r, p),
               ProductsKeep(r)
        PROVE  /\ ImagesAll' /\ ProductsKeep(r)
               /\ \E q : Moves(r, q) /\ q \notin ImagePoints /\ pc[r] \notin ImagePoints
    BY <1>1, <1>2, <1>3, ImagesElsewhere
  <1>4. ASSUME UNCHANGED productVars PROVE ProductsKeep(r)
    BY <1>4 DEF productVars, ProductsKeep
  <1>5. CASE CategoriesStep(r) /\ UNCHANGED productVars
    BY <1>3, <1>4, <1>5, CategoriesOK
  <1>6. "ok" \in Answers /\ CategoriesTypeOK
    BY DEF Answers, TreeInv
  <1>7. CASE ProductRead(r) /\ UNCHANGED categoryVars
    BY <1>3, <1>4, <1>7, ProductReadOK
  <1>8. CASE insertProduct(r) /\ UNCHANGED categoryVars
    BY <1>3, <1>6, <1>8, InsertProductOK
  <1>9. CASE (writeProduct(r) \/ softDelete(r)) /\ UNCHANGED categoryVars
    BY <1>3, <1>6, <1>9, WriteProductOK
  <1>10. CASE insertVariant(r) /\ UNCHANGED categoryVars
    <2>1. ProductsKeep(r)
      BY <1>10 DEF insertVariant, PutVariant, ProductsKeep
    <2> QED
      BY <1>3, <1>6, <1>10, <2>1, InsertVariantOK
  <1>11. CASE (writeVariant(r) \/ disableVariant(r)) /\ UNCHANGED categoryVars
    <2>1. ProductsKeep(r)
      BY <1>11 DEF writeVariant, disableVariant, PutVariant, ProductsKeep
    <2> QED
      BY <1>3, <1>6, <1>11, <2>1, ChangeVariantOK
  <1> QED
    BY <1>5, <1>7, <1>8, <1>9, <1>10, <1>11 DEF ProductsStep, ProductRead

(* The statements of the image methods that only read.                     *)
LEMMA ProductsSame ==
    ASSUME NEW r, UNCHANGED productVars
    PROVE  ProductsKeep(r)
  BY DEF ProductsKeep, productVars

LEMMA ImagesStartOK ==
    ASSUME BaseOK, ShelfInv, ImagesAll, NEW r \in Requests, ImagesStart(r),
           UNCHANGED productVars
    PROVE  ImagesAll'
  <1>1. PICK c \in Calls \cap ImageCall :
            /\ products[c.product] # None
            /\ c.op # "addImages" => images[c.image] # None
            /\ Begin(r, c, "findProductOfImage") /\ UNCHANGED imageVars
    BY DEF ImagesStart
  <1>2. /\ Moves(r, "findProductOfImage") /\ call'[r] = c /\ pc'[r] = "findProductOfImage"
        /\ pc[r] = "idle"
    BY <1>1, BeginMoves
  <1>3. \A x : Answered(x) => Answered(x)'
    BY <1>2, AnsweredStays
  <1>4. PICK x, y : x = c.product /\ y = c.image[1]
    OBVIOUS
  <1>5. Answered(x)'
    <2>1. x \in Requests => pc[x] \in Answers
      BY <1>1, <1>4 DEF ShelfInv, StoredIsAnswered
    <2> QED
      BY <1>3, <2>1 DEF Answered
  <1>6. c.op # "addImages" => Answered(y)'
    <2>1. c.op # "addImages" => Answered(y)
      BY <1>1, <1>4, ImageCalls DEF ImagesAll, ImagesInv, RowFits
    <2> QED
      BY <1>3, <2>1
  <1>7. Answered(call[r].product)' /\ (c.op # "addImages" => Answered(call[r].image[1])')
    BY <1>2, <1>4, <1>5, <1>6 DEF Answered
  <1>8. ImageReq(r)'
    BY <1>1, <1>2, <1>7 DEF ImageReq, ImageFits, Uploaded, Found, RowPoints, RemovalPoints
  <1>9. GoesOn(r, "findProductOfImage") /\ disturbed' \subseteq ProductIds
    BY <1>1, <1>2 DEF GoesOn, ImagesAll, ImagesInv, ImagesTypeOK, imageVars
  <1> QED
    BY <1>1, <1>2, <1>8, <1>9, ProductsSame, StillImages DEF imageVars

LEMMA ImageFitsOn ==
    ASSUME BaseOK, ImagesAll, NEW r \in Requests, NEW p \in ImagePoints, Moves(r, p),
           pc[r] \in ImagePoints, call' = call,
           p \in {"upload", "storeImages"} => call[r].op = "addImages",
           p \in RowPoints => call[r].op # "addImages",
           p \in RemovalPoints => call[r].op = "removeImage"
    PROVE  ImageFits(r)'
  <1>1. \A x : Answered(x) => Answered(x)'
    BY AnsweredStays
  <1>2. PICK x, y : x = call[r].product /\ y = call[r].image[1]
    OBVIOUS
  <1>3. /\ call[r] \in ImageCall /\ Answered(x)
        /\ call[r].op # "addImages" => Answered(y)
    BY <1>2 DEF ImagesAll, ImagesInv, ImageReq, ImageFits
  <1>4. x = call'[r].product /\ y = call'[r].image[1]
    BY <1>2
  <1>5. Answered(call[r].product)' /\ (call[r].op # "addImages" => Answered(call[r].image[1])')
    BY <1>1, <1>3, <1>4 DEF Answered
  <1>6. pc'[r] = p
    BY DEF Moves, BaseOK
  <1> QED
    BY <1>3, <1>5, <1>6 DEF ImageFits

LEMMA FindProductOfImageOK ==
    ASSUME BaseOK, ImagesAll, NEW r \in Requests, findProductOfImage(r), UNCHANGED productVars
    PROVE  ImagesAll'
  <1>1. /\ pc[r] = "findProductOfImage" /\ pc[r] \notin Answers /\ pc[r] \in ImagePoints
        /\ UNCHANGED <<images, files, kept>>
    BY DEF findProductOfImage, Answers, ImagePoints
  <1>2. call[r] \in ImageCall /\ call[r].product \in ProductIds
    BY <1>1, ImageCalls DEF ImagesAll, ImagesInv, ImageReq, ImageFits
  <1>3. disturbed' \subseteq ProductIds
    BY <1>2 DEF findProductOfImage, ImagesAll, ImagesInv, ImagesTypeOK
  <1>4. ASSUME NEW p, GoesOn(r, p), ImageReq(r)'
        PROVE  ImagesAll'
    BY <1>1, <1>3, <1>4, ProductsSame, StillImages
  <1>5. CASE End(r, "refused")
    <2>1. Moves(r, "refused") /\ call' = call /\ "refused" \notin ImagePoints
      BY <1>1, <1>5, EndMoves DEF ImagePoints
    <2>2. GoesOn(r, "refused")
      BY <1>1, <2>1 DEF GoesOn
    <2> QED
      BY <1>4, <2>1, <2>2, NoImagePoint
  <1>6. ASSUME NEW p \in {"upload", "findImage"}, NEW x, Goto(r, p, x),
               p = "upload" <=> call[r].op = "addImages"
        PROVE  ImagesAll'
    <2>1. Moves(r, p) /\ call' = call /\ pc'[r] = p
      BY <1>1, <1>6, GotoMoves
    <2>2. GoesOn(r, p)
      BY <1>1, <2>1 DEF GoesOn
    <2>3. ImageFits(r)'
      BY <1>1, <1>6, <2>1, ImageFitsOn DEF ImagePoints, RowPoints, RemovalPoints
    <2> QED
      BY <1>4, <2>1, <2>2, <2>3 DEF ImageReq, Uploaded, Found
  <1> QED
    BY <1>5, <1>6 DEF findProductOfImage

LEMMA FindImageOK ==
    ASSUME BaseOK, ImagesAll, NEW r \in Requests, findImage(r), UNCHANGED productVars
    PROVE  ImagesAll'
  <1> DEFINE i == call[r].image
             p == IF call[r].op = "removeImage" THEN "deleteFile" ELSE "primary"
  <1>1. /\ pc[r] = "findImage" /\ pc[r] \notin Answers /\ pc[r] \in ImagePoints
        /\ UNCHANGED <<images, files, kept, disturbed>>
    BY DEF findImage, Answers, ImagePoints, imageVars
  <1>2. disturbed' \subseteq ProductIds
    BY <1>1 DEF ImagesAll, ImagesInv, ImagesTypeOK
  <1>3. ASSUME NEW q, GoesOn(r, q), ImageReq(r)'
        PROVE  ImagesAll'
    BY <1>1, <1>2, <1>3, ProductsSame, StillImages
  <1>4. CASE End(r, "refused")
    <2>1. Moves(r, "refused") /\ call' = call /\ "refused" \notin ImagePoints
      BY <1>1, <1>4, EndMoves DEF ImagePoints
    <2>2. GoesOn(r, "refused")
      BY <1>1, <2>1 DEF GoesOn
    <2> QED
      BY <1>3, <2>1, <2>2, NoImagePoint
  <1>5. CASE i \in ImagesOf(call[r].product) /\ Goto(r, p, images[i])
    <2>1. Moves(r, p) /\ call' = call /\ pc'[r] = p /\ seen'[r] = images[i]
      BY <1>1, <1>5, GotoMoves
    <2>2. GoesOn(r, p)
      BY <1>1, <2>1 DEF GoesOn
    <2>3. call[r].op # "addImages"
      BY <1>1 DEF ImagesAll, ImagesInv, ImageReq, ImageFits, RowPoints
    <2>4. p \in {"deleteFile", "primary"} /\ (p = "deleteFile" => call[r].op = "removeImage")
      OBVIOUS
    <2> HIDE DEF p
    <2>5. ImageFits(r)'
      BY <1>1, <2>1, <2>3, <2>4, ImageFitsOn DEF ImagePoints, RowPoints, RemovalPoints
    <2>6. /\ i \in ImageIds /\ images[i] # None /\ images[i].product = call[r].product
          /\ images[i] \in Image
      BY <1>5 DEF ImagesOf, ImagesAll, ImagesInv, ImagesTypeOK
    <2>7. PICK k, f : k = i /\ f = images[i].file
      OBVIOUS
    <2>8. Answered(k[1]) /\ FileFits(k, f) /\ k[1] \in ProductIds
      BY <2>6, <2>7, ImagePairs DEF ImagesAll, ImagesInv, RowFits
    <2>9. FileFits(k, f)'
      BY <2>1, <2>8, AsAnswered
    <2>10. FileFits(call[r].image, seen[r].file)'
      BY <2>1, <2>7, <2>9 DEF FileFits
    <2>11. Found(r)'
      BY <1>1, <2>1, <2>4, <2>6, <2>10 DEF Found, OfProduct
    <2>12. Uploaded(r)'
      BY <2>1, <2>4 DEF Uploaded
    <2> QED
      BY <1>3, <2>2, <2>5, <2>11, <2>12 DEF ImageReq
  <1> QED
    BY <1>4, <1>5 DEF findImage

LEMMA FindNextOK ==
    ASSUME BaseOK, ImagesAll, NEW r \in Requests, findNext(r), UNCHANGED productVars
    PROVE  ImagesAll'
  <1>1. /\ pc[r] = "findNext" /\ pc[r] \notin Answers /\ pc[r] \in ImagePoints
        /\ UNCHANGED <<images, files, kept, disturbed>>
    BY DEF findNext, Answers, ImagePoints, imageVars
  <1>2. disturbed' \subseteq ProductIds
    BY <1>1 DEF ImagesAll, ImagesInv, ImagesTypeOK
  <1>3. ASSUME NEW q, GoesOn(r, q), ImageReq(r)'
        PROVE  ImagesAll'
    BY <1>1, <1>2, <1>3, ProductsSame, StillImages
  <1>4. CASE End(r, "ok")
    <2>1. Moves(r, "ok") /\ call' = call /\ "ok" \notin ImagePoints
      BY <1>1, <1>4, EndMoves DEF ImagePoints
    <2>2. GoesOn(r, "ok")
      BY <1>1, <2>1 DEF GoesOn
    <2> QED
      BY <1>3, <2>1, <2>2, NoImagePoint
  <1>5. ASSUME NEW i \in ImagesOf(call[r].product), Goto(r, "promote", i)
        PROVE  ImagesAll'
    <2>1. Moves(r, "promote") /\ call' = call /\ pc'[r] = "promote" /\ seen'[r] = i
      BY <1>1, <1>5, GotoMoves
    <2>2. GoesOn(r, "promote")
      BY <1>1, <2>1 DEF GoesOn
    <2>3. call[r].op = "removeImage"
      BY <1>1 DEF ImagesAll, ImagesInv, ImageReq, ImageFits, ImagePoints, RemovalPoints
    <2>4. ImageFits(r)'
      BY <1>1, <2>1, <2>3, ImageFitsOn DEF ImagePoints, RowPoints, RemovalPoints
    <2>5. i \in ImageIds /\ images[i] # None /\ images[i].product = call[r].product
      BY DEF ImagesOf
    <2>6. PICK x : x = i[1]
      OBVIOUS
    <2>7. Answered(x)'
      BY <2>1, <2>5, <2>6, AnsweredStays DEF ImagesAll, ImagesInv, RowFits
    <2>8. Answered(seen[r][1])'
      BY <2>1, <2>6, <2>7 DEF Answered
    <2>9. OfProduct(r, seen[r])'
      BY <1>1, <2>1, <2>5 DEF OfProduct
    <2>10. Found(r)' /\ Uploaded(r)'
      BY <2>1, <2>5, <2>8, <2>9 DEF Found, Uploaded
    <2> QED
      BY <1>3, <2>2, <2>4, <2>10 DEF ImageReq
  <1> QED
    BY <1>4, <1>5 DEF findNext

(* The statements that write.                                              *)
LEMMA NewIdsFit ==
    ASSUME NEW r \in Requests, call[r] \in ImageCall, call[r].op = "addImages"
    PROVE  /\ NewIds(r) \subseteq ImageIds /\ \A i \in NewIds(r) : i[1] = r
           /\ <<r, 1>> \in NewIds(r)
  <1>1. PICK n \in 1 .. MaxFiles : n = call[r].files
    BY ImageCalls
  <1>2. NewIds(r) = {r} \X (1 .. n)
    BY <1>1 DEF NewIds
  <1> QED
    BY <1>2, ImagePairs

LEMMA UploadsOK ==
    ASSUME BaseOK, ImagesAll, NEW r \in Requests, upload(r) \/ uploadFails(r),
           UNCHANGED productVars
    PROVE  ImagesAll'
  <1>1. /\ pc[r] = "upload" /\ pc[r] \notin Answers /\ pc[r] \in ImagePoints
        /\ UNCHANGED <<images, kept, disturbed>>
    BY DEF upload, uploadFails, Answers, ImagePoints
  <1>2. /\ ImagesInv /\ RowsHaveFiles /\ FilesHaveRows /\ ImagesTypeOK
        /\ call[r] \in ImageCall /\ call[r].op = "addImages"
    BY <1>1 DEF ImagesAll, ImagesInv, ImageReq, ImageFits
  <1>3. NewIds(r) \subseteq ImageIds /\ \A i \in NewIds(r) : i[1] = r
    BY <1>2, NewIdsFit
  <1>4. ASSUME NEW p, GoesOn(r, p), ImageReq(r)', NEW new \in SUBSET NewIds(r),
               files' = files \cup new
        PROVE  ImagesAll'
    <2>1. FilesKeep(r) /\ files \subseteq files'
      BY <1>1, <1>2, <1>3, <1>4 DEF FilesKeep, ImagesTypeOK
    <2>2. RowsStay /\ \A i \in ImageIds : images[i] # None => images'[i] # None
      BY <1>1 DEF RowsStay
    <2>3. ImagesTypeOK'
      BY <1>1, <1>2, <2>1 DEF ImagesTypeOK, FilesKeep
    <2>4. ProductsThere
      BY <1>1, <1>2 DEF ProductsThere, productVars, ImagesInv, RowFits
    <2>5. ImagesInv'
      BY <1>2, <1>4, <2>1, <2>2, <2>3, <2>4, ImagesKept
    <2>6. RowsHaveFiles' /\ FilesHaveRows'
      BY <1>1, <1>2, <1>4, <2>1, <2>2, ProductsSame, ListedKept
    <2> QED
      BY <2>5, <2>6 DEF ImagesAll
  <1>5. CASE upload(r)
    <2>1. PICK k \in Keys(r) : /\ files' = files \cup {k[i] : i \in NewIds(r)}
                               /\ Goto(r, "storeImages", [count |-> seen[r], key |-> k])
      BY <1>5 DEF upload
    <2>2. /\ Moves(r, "storeImages") /\ call' = call /\ pc'[r] = "storeImages"
          /\ seen'[r] = [count |-> seen[r], key |-> k]
      BY <1>1, <2>1, GotoMoves
    <2>3. GoesOn(r, "storeImages")
      BY <1>1, <2>2 DEF GoesOn
    <2>4. ImageFits(r)'
      BY <1>1, <1>2, <2>2, ImageFitsOn DEF ImagePoints, RowPoints, RemovalPoints
    <2>5. Found(r)'
      BY <2>2 DEF Found
    <2>6. k \in [NewIds(r) -> NewIds(r)]
      BY KeysFit
    <2> DEFINE new == {k[i] : i \in NewIds(r)}
    <2>7. new \in SUBSET NewIds(r)
      BY <2>6
    <2>8. \A f \in files : f[1] # r
      BY <1>1, <1>2 DEF ImagesInv, FilesFit, Answered
    <2>9. \A f \in files' : f[1] = r => \E i \in NewIds(r) : k[i] = f
      BY <2>1, <2>8
    <2>10. \A i \in NewIds(r) : k[i] \in files'
      BY <2>1
    <2>11. seen'[r].key = k
      BY <2>2
    <2>12. Keys(r)' = Keys(r) /\ NewIds(r)' = NewIds(r)
      BY <2>2 DEF Keys, NewIds
    <2>13. Uploaded(r)'
      BY <2>9, <2>10, <2>11, <2>12 DEF Uploaded
    <2> QED
      BY <1>4, <2>1, <2>3, <2>4, <2>5, <2>7, <2>13 DEF ImageReq
  <1>6. CASE uploadFails(r)
    <2>1. PICK done \in SUBSET NewIds(r) : files' = files \cup done
      BY <1>6 DEF uploadFails
    <2>2. Moves(r, "failed") /\ call' = call /\ "failed" \notin ImagePoints
      BY <1>1, <1>6, EndMoves DEF uploadFails, ImagePoints
    <2>3. GoesOn(r, "failed")
      BY <1>1, <2>2 DEF GoesOn
    <2> QED
      BY <1>4, <2>1, <2>2, <2>3, NoImagePoint
  <1> QED
    BY <1>5, <1>6

(* A stored upload: rows of its own, of a product that is there, with      *)
(* files of its own.                                                       *)
LEMMA StoreImagesOK ==
    ASSUME BaseOK, ImagesAll, NEW r \in Requests, storeImages(r), UNCHANGED productVars
    PROVE  ImagesAll'
  <1> DEFINE N == NewIds(r)
             k == seen[r].key
             row(i) == [product |-> call[r].product, primary |-> IsFirst(r, i), file |-> k[i]]
  <1>1. /\ pc[r] = "storeImages" /\ pc[r] \notin Answers /\ pc[r] \in ImagePoints
        /\ products[call[r].product] # None /\ UNCHANGED <<files, kept, disturbed>>
        /\ images' = [i \in ImageIds |-> IF i \in N THEN row(i) ELSE images[i]]
        /\ End(r, "ok")
    BY DEF storeImages, Answers, ImagePoints
  <1>2. /\ ImagesInv /\ RowsHaveFiles /\ FilesHaveRows /\ ImagesTypeOK
        /\ call[r] \in ImageCall /\ call[r].op = "addImages"
    BY <1>1 DEF ImagesAll, ImagesInv, ImageReq, ImageFits
  <1>3. Moves(r, "ok") /\ call' = call /\ pc'[r] = "ok"
    BY <1>1, EndMoves
  <1>4. GoesOn(r, "ok")
    BY <1>1, <1>3 DEF GoesOn, Answers
  <1>5. /\ N \subseteq ImageIds /\ \A i \in N : i[1] = r
        /\ call[r].product \in ProductIds
    BY <1>2, ImageCalls, NewIdsFit
  <1>6. /\ k \in Keys(r) /\ \A i \in N : k[i] \in files
        /\ \A f \in files : f[1] = r => \E i \in N : k[i] = f
    BY <1>1, <1>2 DEF ImagesInv, ImageReq, Uploaded
  <1>7. \A i \in N : k[i][1] = r /\ (~ call[r].oneName => k[i] = i)
    BY <1>6, KeysFit
  <1>8. \A i \in N : /\ row(i) \in Image /\ row(i).file = k[i] /\ row(i).product = call[r].product
    <2>1. \A i \in N : k[i] \in ImageIds /\ IsFirst(r, i) \in BOOLEAN
      BY <1>2, <1>6 DEF ImagesTypeOK, IsFirst
    <2> QED
      BY <1>5, <2>1 DEF Image
  <1> HIDE DEF row, k, N
  <1>9. \A i \in N : row(i) # None
    BY <1>8, ImageAssumption
  <1>10. \A i \in ImageIds : images'[i] = IF i \in N THEN row(i) ELSE images[i]
    BY <1>1
  <1>11. ImagesTypeOK'
    BY <1>1, <1>2, <1>8 DEF ImagesTypeOK
  <1>12. \A i \in N : images[i] = None
    <2>1. \A i \in ImageIds : images[i] # None => Answered(i[1])
      BY <1>2 DEF ImagesInv, RowFits
    <2> QED
      BY <1>1, <1>5, <2>1 DEF Answered
  <1>13. ProductsThere
    BY <1>1, <1>2, <1>8, <1>10 DEF ProductsThere, productVars, ImagesInv, RowFits
  <1>14. FilesKeep(r) /\ RowsKeep(r)
    <2>1. FilesKeep(r)
      <3>1. files' = files /\ kept' = kept /\ files \subseteq ImageIds
        BY <1>1, <1>2 DEF ImagesTypeOK
      <3> QED
        BY <3>1 DEF FilesKeep
    <2>2. RowsKeep(r)
      BY <1>5, <1>10 DEF RowsKeep
    <2> QED
      BY <2>1, <2>2
  <1>15. \A s \in Requests : ImageReq(s)'
    <2>1. ImageReq(r)'
      BY <1>3, NoImagePoint DEF ImagePoints
    <2> QED
      BY <1>2, <1>3, <1>14, <2>1, OthersKept
  <1>16. ASSUME NEW i \in ImageIds PROVE RowFits(i)'
    <2>1. CASE i \in N
      <3>1. Answered(i[1])' /\ i[1] = r /\ r \notin OldProducts
        BY <1>3, <1>5, <2>1, OldOrRequest DEF Answered, Answers, ProductIds
      <3>2. images'[i].product = UploadFor(i[1])'
        BY <1>3, <1>8, <1>10, <2>1, <3>1 DEF UploadFor
      <3>3. images'[i].file = k[i]
        BY <1>8, <1>10, <2>1
      <3>4. FileFits(i, images[i].file)'
        BY <1>3, <1>7, <2>1, <3>1, <3>3 DEF FileFits
      <3> QED
        BY <1>13, <3>1, <3>2, <3>4 DEF RowFits, ProductsThere
    <2>2. CASE i \notin N /\ images[i] = None
      BY <1>10, <2>2 DEF RowFits
    <2>3. CASE i \notin N /\ images[i] # None
      BY <1>2, <1>3, <1>10, <1>11, <1>13, <2>3, RowsKept
    <2> QED
      BY <2>1, <2>2, <2>3
  <1>17. ImagesInv'
    BY <1>2, <1>4, <1>11, <1>14, <1>15, <1>16, FilesKept DEF ImagesInv
  <1>18. RowsHaveFiles'
    <2>1. ASSUME NEW i \in ImageIds, images'[i] # None, images'[i].file \notin files'
          PROVE  RowExcused(i)'
      <3>1. i \notin N
        BY <1>1, <1>6, <1>8, <1>10, <2>1
      <3>2. images[i] # None /\ images[i].file \notin files
        BY <1>1, <1>10, <2>1, <3>1
      <3>3. RowExcused(i)
        BY <1>2, <3>2, Excuses
      <3> QED
        BY <1>1, <1>2, <1>4, <3>2, <3>3, RowExcuseKept
    <2> QED
      BY <2>1 DEF RowsHaveFiles, RowExcused
  <1>19. FilesHaveRows'
    <2>1. ASSUME NEW f \in files', ~ Named(f)'
          PROVE  FileExcused(f)'
      <3>1. f \in files
        BY <1>1
      <3>2. f[1] # r
        <4>1. SUFFICES ASSUME f[1] = r PROVE FALSE
          OBVIOUS
        <4>2. PICK i \in N : k[i] = f
          BY <1>6, <3>1, <4>1
        <4>3. images'[i] # None /\ images'[i].file = f
          BY <1>5, <1>8, <1>9, <1>10, <4>2
        <4> QED
          BY <1>5, <2>1, <4>3 DEF Named
      <3>3. ~ Named(f)
        BY <1>10, <1>12, <2>1 DEF Named
      <3>4. FileExcused(f)
        BY <1>2, <3>1, <3>3, Excuses
      <3>5. \A q \in ProductIds : products'[q] # None => products[q] # None \/ q = r
        BY DEF productVars
      <3> QED
        BY <1>1, <1>2, <1>4, <3>1, <3>2, <3>4, <3>5, FileExcuseKept
    <2> QED
      BY <2>1 DEF FilesHaveRows, FileExcused, Named, UploadFor
  <1> QED
    BY <1>17, <1>18, <1>19 DEF ImagesAll

(* A file deleted before its row: the removal is still at work on the row. *)
LEMMA DeleteFileOK ==
    ASSUME BaseOK, ImagesAll, NEW r \in Requests, deleteFile(r), UNCHANGED productVars
    PROVE  ImagesAll'
  <1>0. PICK k, f : k = call[r].image /\ f = seen[r].file
    OBVIOUS
  <1>1. /\ pc[r] = "deleteFile" /\ pc[r] \notin Answers /\ pc[r] \in ImagePoints
        /\ \/ files' = files \ {f} /\ kept' = kept
           \/ files' = files /\ kept' = kept \cup {f}
        /\ UNCHANGED <<images, disturbed>> /\ Goto(r, "deleteRow", seen[r])
    BY <1>0 DEF deleteFile, Answers, ImagePoints
  <1>2. ImagesInv /\ RowsHaveFiles /\ FilesHaveRows /\ ImagesTypeOK
    BY DEF ImagesAll, ImagesInv
  <1>3. /\ Moves(r, "deleteRow") /\ call' = call /\ pc'[r] = "deleteRow"
        /\ seen'[r] = seen[r]
    BY <1>1, GotoMoves
  <1>4. GoesOn(r, "deleteRow")
    BY <1>1, <1>3 DEF GoesOn
  <1>5. /\ call[r] \in ImageCall /\ call[r].op = "removeImage" /\ Answered(k[1])
        /\ k \in ImageIds /\ k[1] \in ProductIds
    BY <1>0, <1>1, <1>2, ImageCalls, ImagePairs
       DEF ImagesInv, ImageReq, ImageFits, RemovalPoints
  <1>6. /\ OfProduct(r, k) /\ seen[r] \in Image /\ FileFits(k, f)
        /\ images[k] # None => images[k].file = f
    BY <1>0, <1>1, <1>2 DEF ImagesInv, ImageReq, Found
  <1>7. f \in ImageIds
    BY <1>0, <1>6 DEF Image
  <1>8. files' \subseteq files /\ kept \subseteq kept' /\ (f \notin files' \/ f \in kept')
    BY <1>1
  <1>9. \A g \in files : g # f => g \in files'
    BY <1>1
  <1>10. FilesKeep(r)
    <2>1. \A g \in files : g \in files' \/ Answered(g[1])
      BY <1>5, <1>6, <1>9 DEF FileFits
    <2> QED
      BY <1>2, <1>8, <2>1 DEF FilesKeep, ImagesTypeOK
  <1>11. RowsStay
    BY <1>1 DEF RowsStay
  <1>12. ImagesTypeOK'
    BY <1>1, <1>2, <1>7 DEF ImagesTypeOK
  <1>13. ProductsThere
    BY <1>1, <1>2 DEF ProductsThere, productVars, ImagesInv, RowFits
  <1>14. ImageReq(r)'
    <2>1. ImageFits(r)'
      BY <1>1, <1>2, <1>3, <1>5, ImageFitsOn DEF ImagesAll, ImagePoints, RowPoints, RemovalPoints
    <2>2. FileFits(k, f)'
      BY <1>3, <1>5, <1>6, AsAnswered
    <2>3. FileFits(call[r].image, seen[r].file)'
      BY <1>0, <1>3, <2>2 DEF FileFits
    <2>4. OfProduct(r, call[r].image)'
      BY <1>0, <1>1, <1>3, <1>6 DEF OfProduct
    <2>5. Found(r)'
      BY <1>0, <1>1, <1>3, <1>6, <1>8, <2>3, <2>4 DEF Found
    <2> QED
      BY <1>3, <2>1, <2>5 DEF ImageReq, Uploaded
  <1>15. ImagesInv'
    BY <1>2, <1>4, <1>10, <1>11, <1>12, <1>13, <1>14, ImagesKept
  <1>16. RowsHaveFiles'
    <2>1. ASSUME NEW i \in ImageIds, images'[i] # None, images'[i].file \notin files'
          PROVE  RowExcused(i)'
      <3>1. images[i] # None /\ images[i].file = images'[i].file
        BY <1>1, <2>1
      <3>2. CASE images[i].file \notin files
        <4>1. RowExcused(i)
          BY <1>2, <3>1, <3>2, Excuses
        <4> QED
          BY <1>1, <1>2, <1>4, <3>1, <4>1, RowExcuseKept
      <3>3. CASE images[i].file = f /\ i = k
        BY <1>0, <1>3, <1>5, <3>3 DEF RowExcused, Removing
      <3>4. CASE images[i].file = f /\ i # k
        <4>1. FileFits(i, f) /\ i[1] \in ProductIds
          BY <1>2, <3>1, <3>4, ImagePairs DEF ImagesInv, RowFits
        <4>2. i[1] = k[1] /\ ~ (i[1] \in OldProducts \/ ~ call[i[1]].oneName)
          BY <1>6, <3>4, <4>1 DEF FileFits
        <4> QED
          BY <1>3, <4>1, <4>2, OldOrRequest DEF RowExcused
      <3> QED
        BY <1>9, <2>1, <3>1, <3>2, <3>3, <3>4
    <2> QED
      BY <2>1 DEF RowsHaveFiles, RowExcused
  <1>17. FilesHaveRows'
    <2>1. ASSUME NEW g \in files', ~ Named(g)'
          PROVE  FileExcused(g)'
      <3>1. g \in files /\ ~ Named(g)
        BY <1>1, <1>8, <2>1 DEF Named
      <3>2. FileExcused(g)
        BY <1>2, <3>1, Excuses
      <3>3. \A q \in ProductIds : products'[q] # None => products[q] # None \/ q = r
        BY DEF productVars
      <3> QED
        BY <1>1, <1>2, <1>4, <1>8, <3>1, <3>2, <3>3, FileExcuseKept
    <2> QED
      BY <2>1 DEF FilesHaveRows, FileExcused, Named, UploadFor
  <1> QED
    BY <1>15, <1>16, <1>17 DEF ImagesAll

LEMMA DeleteRowOK ==
    ASSUME BaseOK, ImagesAll, NEW r \in Requests, deleteRow(r), UNCHANGED productVars
    PROVE  ImagesAll'
  <1>0. PICK k, f : k = call[r].image /\ f = seen[r].file
    OBVIOUS
  <1>1. /\ pc[r] = "deleteRow" /\ pc[r] \notin Answers /\ pc[r] \in ImagePoints
        /\ images[k] # None /\ images' = [images EXCEPT ![k] = None]
        /\ UNCHANGED <<files, kept, disturbed>>
        /\ Goto(r, "findNext", None) \/ End(r, "ok")
    BY <1>0 DEF deleteRow, Answers, ImagePoints
  <1>2. ImagesInv /\ RowsHaveFiles /\ FilesHaveRows /\ ImagesTypeOK
    BY DEF ImagesAll, ImagesInv
  <1>3. /\ call[r] \in ImageCall /\ call[r].op = "removeImage" /\ k \in ImageIds
        /\ images[k].file = f /\ (f \notin files \/ f \in kept)
    BY <1>0, <1>1, <1>2, ImageCalls DEF ImagesInv, ImageReq, ImageFits, RemovalPoints, Found
  <1>4. \A i \in ImageIds : images'[i] = IF i = k THEN None ELSE images[i]
    BY <1>1, <1>2 DEF ImagesTypeOK
  <1>5. PICK p \in {"findNext", "ok"} : Moves(r, p) /\ call' = call /\ pc'[r] = p
    <2>1. ASSUME Goto(r, "findNext", None)
          PROVE  Moves(r, "findNext") /\ call' = call /\ pc'[r] = "findNext"
      BY <1>1, <2>1, GotoMoves
    <2>2. ASSUME End(r, "ok") PROVE Moves(r, "ok") /\ call' = call /\ pc'[r] = "ok"
      BY <1>1, <2>2, EndMoves
    <2> QED
      BY <1>1, <2>1, <2>2
  <1>6. GoesOn(r, p)
    BY <1>1, <1>5 DEF GoesOn
  <1>7. RowsStay
    BY <1>4 DEF RowsStay
  <1>8. FilesKeep(r)
    <2>1. files' = files /\ kept' = kept /\ files \subseteq ImageIds
      BY <1>1, <1>2 DEF ImagesTypeOK
    <2> QED
      BY <2>1 DEF FilesKeep
  <1>9. ImagesTypeOK' /\ ProductsThere
    <2>1. ImagesTypeOK'
      BY <1>1, <1>2 DEF ImagesTypeOK
    <2>2. ProductsThere
      BY <1>2, <1>4 DEF ProductsThere, productVars, ImagesInv, RowFits
    <2> QED
      BY <2>1, <2>2
  <1>10. ImageReq(r)'
    <2>1. p = "findNext" => ImageFits(r)'
      BY <1>1, <1>3, <1>5, ImageFitsOn DEF ImagePoints, RowPoints, RemovalPoints
    <2>2. p = "ok" => ImageReq(r)'
      BY <1>5, NoImagePoint DEF ImagePoints
    <2> QED
      BY <1>5, <2>1, <2>2 DEF ImageReq, Uploaded, Found
  <1>11. ImagesInv'
    BY <1>2, <1>6, <1>7, <1>8, <1>9, <1>10, ImagesKept
  <1>12. RowsHaveFiles'
    <2>1. ASSUME NEW i \in ImageIds, images'[i] # None, images'[i].file \notin files'
          PROVE  RowExcused(i)'
      <3>1. i # k /\ images[i] # None /\ images[i].file \notin files
        BY <1>1, <1>4, <2>1
      <3>2. RowExcused(i)
        BY <1>2, <3>1, Excuses
      <3> QED
        BY <1>0, <1>2, <1>6, <3>1, <3>2, RowExcuseKept
    <2> QED
      BY <2>1 DEF RowsHaveFiles, RowExcused
  <1>13. FilesHaveRows'
    <2>1. ASSUME NEW g \in files', ~ Named(g)'
          PROVE  FileExcused(g)'
      <3>1. g \in files
        BY <1>1
      <3>2. CASE g = f
        BY <1>1, <1>3, <3>1, <3>2 DEF FileExcused
      <3>3. CASE g # f
        <4>1. ~ Named(g)
          BY <1>3, <1>4, <2>1, <3>3 DEF Named
        <4>2. FileExcused(g)
          BY <1>2, <3>1, <4>1, Excuses
        <4>3. \A q \in ProductIds : products'[q] # None => products[q] # None \/ q = r
          BY DEF productVars
        <4> QED
          BY <1>1, <1>2, <1>6, <3>1, <4>2, <4>3, FileExcuseKept
      <3> QED
        BY <3>2, <3>3
    <2> QED
      BY <2>1 DEF FilesHaveRows, FileExcused, Named, UploadFor
  <1> QED
    BY <1>11, <1>12, <1>13 DEF ImagesAll

(* Flags set and cleared; images that stay as they are otherwise.          *)
LEMMA FlagsWritten ==
    ASSUME BaseOK, ImagesAll, NEW r \in Requests, promote(r) \/ setPrimary(r)
    PROVE  /\ images' \in [ImageIds -> Image \cup {None}]
           /\ \A i \in ImageIds : images[i] # None =>
                  /\ images'[i] # None
                  /\ images'[i].product = images[i].product /\ images'[i].file = images[i].file
           /\ \A i \in ImageIds : images'[i] # None => images[i] # None
           /\ promote(r) => /\ seen[r] \in ImageIds /\ images'[seen[r]].primary = TRUE
                            /\ \A i \in ImageIds : i # seen[r] => images'[i] = images[i]
           /\ setPrimary(r) => \A i \in ImageIds :
                  images'[i] = images[i] \/ i \in ImagesOf(call[r].product)
  <1> DEFINE flagged(i, b) == [images[i] EXCEPT !.primary = b]
  <1>1. \A i \in ImageIds, b \in BOOLEAN : images[i] # None =>
            /\ flagged(i, b) \in Image /\ flagged(i, b).product = images[i].product
            /\ flagged(i, b).file = images[i].file /\ flagged(i, b).primary = b
    BY DEF ImagesAll, ImagesInv, ImagesTypeOK, Image
  <1>2. images \in [ImageIds -> Image \cup {None}]
    BY DEF ImagesAll, ImagesInv, ImagesTypeOK
  <1>3. CASE promote(r)
    <2>0. PICK k : k = seen[r]
      OBVIOUS
    <2>1. /\ pc[r] = "promote" /\ images[k] # None
          /\ images' = [images EXCEPT ![k].primary = TRUE]
      BY <1>3, <2>0 DEF promote
    <2>2. k \in ImageIds
      BY <2>0, <2>1 DEF ImagesAll, ImagesInv, ImageReq, Found
    <2>3. images' = [images EXCEPT ![k] = flagged(k, TRUE)]
      BY <1>2, <2>1, <2>2
    <2>4. \A b \in BOOLEAN : flagged(k, b) # None
      BY <1>1, <2>1, <2>2, ImageAssumption
    <2>5. ~ setPrimary(r)
      BY <2>1 DEF setPrimary
    <2> HIDE DEF flagged
    <2>6. \A i \in ImageIds : images'[i] = IF i = k THEN flagged(k, TRUE) ELSE images[i]
      BY <1>2, <2>3
    <2>7. images' \in [ImageIds -> Image \cup {None}]
      BY <1>1, <1>2, <2>1, <2>2, <2>3
    <2>8. \A i \in ImageIds : images[i] # None =>
              /\ images'[i] # None
              /\ images'[i].product = images[i].product /\ images'[i].file = images[i].file
      <3>1. /\ flagged(k, TRUE).product = images[k].product /\ flagged(k, TRUE) # None
            /\ flagged(k, TRUE).file = images[k].file
        BY <1>1, <2>1, <2>2, <2>4
      <3> QED
        BY <2>6, <3>1
    <2>9. /\ images'[k].primary = TRUE /\ \A i \in ImageIds : images'[i] # None => images[i] # None
          /\ \A i \in ImageIds : i # k => images'[i] = images[i]
      BY <1>1, <2>1, <2>2, <2>6
    <2> QED
      BY <2>0, <2>2, <2>5, <2>7, <2>8, <2>9
  <1>4. CASE setPrimary(r)
    <2> DEFINE set(i) == IF i \in ImagesOf(call[r].product)
                         THEN flagged(i, i = call[r].image) ELSE images[i]
    <2>1. /\ pc[r] = "primary" /\ images' = [i \in ImageIds |-> set(i)]
      BY <1>4 DEF setPrimary
    <2>2. ~ promote(r)
      BY <2>1 DEF promote
    <2>3. \A i \in ImagesOf(call[r].product) : i \in ImageIds /\ images[i] # None
      BY DEF ImagesOf
    <2>4. \A i \in ImageIds, b \in BOOLEAN : images[i] # None => flagged(i, b) # None
      BY <1>1, ImageAssumption
    <2> HIDE DEF flagged
    <2>5. \A i \in ImageIds : /\ set(i) \in Image \cup {None}
                              /\ set(i) # None => images[i] # None
                              /\ images[i] # None => /\ set(i) # None
                                                     /\ set(i).product = images[i].product
                                                     /\ set(i).file = images[i].file
                              /\ set(i) = images[i] \/ i \in ImagesOf(call[r].product)
      <3>1. ASSUME NEW i \in ImageIds
            PROVE  /\ set(i) \in Image \cup {None}
                   /\ set(i) # None => images[i] # None
                   /\ images[i] # None => /\ set(i) # None
                                          /\ set(i).product = images[i].product
                                          /\ set(i).file = images[i].file
                   /\ set(i) = images[i] \/ i \in ImagesOf(call[r].product)
        <4>1. PICK b \in BOOLEAN : b = (i = call[r].image)
          OBVIOUS
        <4>2. set(i) = IF i \in ImagesOf(call[r].product) THEN flagged(i, b) ELSE images[i]
          BY <4>1
        <4> HIDE DEF set
        <4> QED
          BY <1>1, <1>2, <2>3, <2>4, <4>2
      <3> HIDE DEF set
      <3> QED
        BY <3>1
    <2> HIDE DEF set
    <2>6. images' \in [ImageIds -> Image \cup {None}]
      BY <2>1, <2>5
    <2> QED
      BY <2>1, <2>2, <2>5, <2>6
  <1> QED
    BY <1>3, <1>4

LEMMA FlagsOK ==
    ASSUME BaseOK, ImagesAll, NEW r \in Requests, promote(r) \/ setPrimary(r),
           UNCHANGED productVars
    PROVE  ImagesAll'
  <1>1. /\ pc[r] \in {"promote", "primary"} /\ pc[r] \notin Answers /\ End(r, "ok")
        /\ UNCHANGED <<files, kept, disturbed>>
    BY DEF promote, setPrimary, Answers
  <1>2. Moves(r, "ok") /\ call' = call /\ "ok" \notin ImagePoints
    BY <1>1, EndMoves DEF ImagePoints
  <1>3. GoesOn(r, "ok") /\ ImageReq(r)'
    BY <1>1, <1>2, NoImagePoint DEF GoesOn
  <1>4. disturbed' \subseteq ProductIds
    BY <1>1 DEF ImagesAll, ImagesInv, ImagesTypeOK
  <1> QED
    BY <1>1, <1>3, <1>4, FlagsWritten, ProductsSame, QuietOK

LEMMA ImageFailsOK ==
    ASSUME BaseOK, ImagesAll, NEW r \in Requests, imageRequestFails(r), UNCHANGED productVars
    PROVE  ImagesAll'
  <1>1. /\ pc[r] \notin Answers /\ pc[r] # "idle" /\ End(r, "failed")
        /\ UNCHANGED <<images, files, kept>>
    BY DEF imageRequestFails, Abort, Running
  <1>2. Moves(r, "failed") /\ call' = call /\ "failed" \notin ImagePoints
    BY <1>1, EndMoves DEF ImagePoints
  <1>3. GoesOn(r, "failed") /\ ImageReq(r)'
    BY <1>1, <1>2, NoImagePoint DEF GoesOn, Answers
  <1>4. disturbed' \subseteq ProductIds
    <2>1. pc[r] \in {"findNext", "promote"} => call[r].product \in ProductIds
      BY ImageCalls DEF ImagesAll, ImagesInv, ImageReq, ImageFits, ImagePoints
    <2> QED
      BY <2>1 DEF imageRequestFails, ImagesAll, ImagesInv, ImagesTypeOK
  <1> QED
    BY <1>1, <1>3, <1>4, ProductsSame, StillImages

(* A category takes its products along, and their images: their files stay.*)
LEMMA CascadeImages ==
    ASSUME BaseOK, TreeInv, ShelfInv, ImagesAll, NEW r \in Requests, removeWithProducts(r)
    PROVE  ImagesAll'
  <1> DEFINE gone == InCategory(call[r].id)
  <1>1. /\ pc[r] = "deleteCategory" /\ pc[r] \notin Answers /\ End(r, "ok")
        /\ products' = [p \in ProductIds |-> IF p \in gone THEN None ELSE products[p]]
        /\ images' = [i \in ImageIds |->
              IF images[i] # None /\ images[i].product \in gone THEN None ELSE images[i]]
        /\ UNCHANGED <<files, kept, disturbed>>
    BY DEF removeWithProducts, deleteCategory, Answers
  <1>2. ImagesInv /\ RowsHaveFiles /\ FilesHaveRows /\ ImagesTypeOK
    BY DEF ImagesAll, ImagesInv
  <1>3. Moves(r, "ok") /\ call' = call /\ "ok" \notin ImagePoints
    BY <1>1, EndMoves DEF ImagePoints
  <1>4. GoesOn(r, "ok") /\ ImageReq(r)'
    BY <1>1, <1>3, NoImagePoint DEF GoesOn
  <1> HIDE DEF gone
  <1>5. RowsStay
    BY <1>1 DEF RowsStay
  <1>6. FilesKeep(r)
    <2>1. files' = files /\ kept' = kept /\ files \subseteq ImageIds
      BY <1>1, <1>2 DEF ImagesTypeOK
    <2> QED
      BY <2>1 DEF FilesKeep
  <1>7. ImagesTypeOK'
    BY <1>1, <1>2 DEF ImagesTypeOK
  <1>8. \A i \in ImageIds : images[i] # None => images[i].product \in ProductIds
    BY <1>2 DEF ImagesTypeOK, Image
  <1>9. ProductsThere
    BY <1>1, <1>2, <1>8 DEF ProductsThere, ImagesInv, RowFits
  <1>10. ImagesInv'
    BY <1>2, <1>4, <1>5, <1>6, <1>7, <1>9, ImagesKept
  <1>11. RowsHaveFiles'
    <2>1. ASSUME NEW i \in ImageIds, images'[i] # None, images'[i].file \notin files'
          PROVE  RowExcused(i)'
      <3>1. images[i] # None /\ images[i].file \notin files
        BY <1>1, <2>1
      <3>2. RowExcused(i)
        BY <1>2, <3>1, Excuses
      <3> QED
        BY <1>1, <1>2, <1>4, <3>1, <3>2, RowExcuseKept
    <2> QED
      BY <2>1 DEF RowsHaveFiles, RowExcused
  <1>12. FilesHaveRows'
    <2>1. ASSUME NEW f \in files', ~ Named(f)'
          PROVE  FileExcused(f)'
      <3>1. f \in files
        BY <1>1
      <3>2. CASE Named(f)
        <4>1. PICK i \in ImageIds : images[i] # None /\ images[i].file = f
          BY <3>2 DEF Named
        <4>2. images[i].product \in gone
          BY <1>1, <2>1, <4>1 DEF Named
        <4>3. /\ Answered(i[1]) /\ images[i].product = UploadFor(i[1]) /\ f[1] = i[1]
              /\ i[1] \in ProductIds
          BY <1>2, <4>1, ImagePairs DEF ImagesInv, RowFits, FileFits
        <4>4. PICK x : x = f[1]
          OBVIOUS
        <4>5. UploadFor(x)' = images[i].product
          BY <1>3, <4>3, <4>4, AsAnswered
        <4>6. products'[UploadFor(x)'] = None
          BY <1>1, <1>8, <4>1, <4>2, <4>5
        <4> QED
          BY <4>4, <4>6 DEF FileExcused
      <3>3. CASE ~ Named(f)
        <4>1. FileExcused(f)
          BY <1>2, <3>1, <3>3, Excuses
        <4>2. \A q \in ProductIds : products'[q] # None => products[q] # None \/ q = r
          BY <1>1
        <4> QED
          BY <1>1, <1>2, <1>4, <3>1, <4>1, <4>2, FileExcuseKept
      <3> QED
        BY <3>2, <3>3
    <2> QED
      BY <2>1 DEF FilesHaveRows, FileExcused, Named, UploadFor
  <1> QED
    BY <1>10, <1>11, <1>12 DEF ImagesAll

LEMMA ImagesInitOK == Init => ImagesAll
  <1> SUFFICES ASSUME Init PROVE ImagesAll
    OBVIOUS
  <1> USE DEF Init
  <1>1. \A r \in Requests : pc[r] = "idle"
    BY DEF CallsInit
  <1>2. \A i \in ImageIds : images[i] # None =>
            /\ i[1] \in OldProducts /\ products[i[1]] # None
            /\ images[i].product = i[1] /\ images[i].file = i
    BY DEF ImagesInit
  <1>3. files = {i \in ImageIds : images[i] # None}
    BY DEF ImagesInit
  <1>4. ImagesTypeOK
    BY DEF ImagesInit, ImagesTypeOK
  <1>5. \A r \in Requests : ImageReq(r)
    BY <1>1 DEF ImageReq, ImageFits, Uploaded, Found, ImagePoints
  <1>6. \A i \in ImageIds : RowFits(i)
    BY <1>2, OldOrRequest DEF RowFits, FileFits, UploadFor
  <1>7. FilesFit
    <2>1. ASSUME NEW f \in files
          PROVE  Answered(f[1]) /\ UploadFor(f[1]) = f[1] /\ f[1] \in ProductIds
      BY <1>2, <1>3, OldOrRequest, ImagePairs DEF UploadFor
    <2> QED
      BY <2>1 DEF FilesFit
  <1>8. RowsHaveFiles
    BY <1>2, <1>3 DEF RowsHaveFiles
  <1>9. FilesHaveRows
    BY <1>2, <1>3 DEF FilesHaveRows
  <1> QED
    BY <1>4, <1>5, <1>6, <1>7, <1>8, <1>9 DEF ImagesAll, ImagesInv

LEMMA ImagesNext ==
    ASSUME CatalogueInv, ImagesAll, Next
    PROVE  ImagesAll'
  <1> USE DEF CatalogueInv
  <1>1. PICK r \in Requests :
           \/ CategoriesStep(r) /\ UNCHANGED <<productVars, imageVars>>
           \/ removeWithProducts(r)
           \/ ProductsStep(r) /\ UNCHANGED <<categoryVars, imageVars>>
           \/ ImagesStep(r) /\ UNCHANGED <<categoryVars, productVars>>
           \/ imageRequestFails(r) /\ UNCHANGED <<categoryVars, productVars>>
    BY DEF Next
  <1>2. CASE CategoriesStep(r) /\ UNCHANGED <<productVars, imageVars>>
    BY <1>2, OthersLeaveImages
  <1>3. CASE removeWithProducts(r)
    BY <1>3, CascadeImages
  <1>4. CASE ProductsStep(r) /\ UNCHANGED <<categoryVars, imageVars>>
    BY <1>4, OthersLeaveImages
  <1>5. CASE ImagesStep(r) /\ UNCHANGED productVars
    BY <1>5, ImagesStartOK, FindProductOfImageOK, UploadsOK, StoreImagesOK, FindImageOK,
       DeleteFileOK, DeleteRowOK, FindNextOK, FlagsOK DEF ImagesStep
  <1>6. CASE imageRequestFails(r) /\ UNCHANGED productVars
    BY <1>6, ImageFailsOK
  <1> QED
    BY <1>1, <1>2, <1>3, <1>4, <1>5, <1>6

LEMMA ImagesStutter ==
    ASSUME ImagesAll, UNCHANGED vars
    PROVE  ImagesAll'
  <1> USE DEF vars, callVars, imageVars, productVars
  <1>1. ImagesInv'
    <2>1. UNCHANGED <<call, pc, seen, images, files, kept, disturbed, products>> /\ ImagesInv
      BY DEF ImagesAll
    <2>2. \A s \in Requests : NewIds(s)' = NewIds(s) /\ Keys(s)' = Keys(s)
      BY <2>1 DEF NewIds, Keys
    <2>3. \A s \in Requests : ImageReq(s)'
      BY <2>1, <2>2 DEF ImagesInv, ImageReq, ImageFits, Uploaded, Found, FileFits, OfProduct,
                        Answered
    <2>4. \A i \in ImageIds : RowFits(i)'
      BY <2>1 DEF ImagesInv, RowFits, FileFits, UploadFor, Answered
    <2>5. FilesFit' /\ ImagesTypeOK'
      BY <2>1 DEF ImagesInv, ImagesTypeOK, FilesFit, UploadFor, Answered
    <2> QED
      BY <2>3, <2>4, <2>5 DEF ImagesInv
  <1>2. RowsHaveFiles' /\ FilesHaveRows'
    BY DEF ImagesAll, RowsHaveFiles, FilesHaveRows, Removing
  <1> QED
    BY <1>1, <1>2 DEF ImagesAll

THEOREM ImagesHold == Spec => [](CatalogueInv /\ ImagesAll)
  <1>1. Init => CatalogueInv /\ ImagesAll
    BY CatalogueInit, ImagesInitOK
  <1>2. (CatalogueInv /\ ImagesAll) /\ [Next]_vars => (CatalogueInv /\ ImagesAll)'
    BY CatalogueStep, CatalogueStutter, ImagesNext, ImagesStutter
  <1> QED
    BY <1>1, <1>2, PTL DEF Spec

(* Every table, and every observer, holds what it should; so does what     *)
(* the requests ask.                                                       *)
THEOREM CatalogueTypes == Spec => []TypeOK
  <1>1. CatalogueInv /\ ImagesAll => TypeOK
    BY DEF CatalogueInv, BaseOK, TreeInv, ShelfInv, ImagesAll, ImagesInv, TypeOK
  <1> QED
    BY ImagesHold, <1>1, PTL

(* An image that is listed has its file, whatever requests overlap or      *)
(* break off, but for one that a removal is at work on, or broke off at,   *)
(* and one whose key another image of its upload had too.                  *)
THEOREM ListedHaveFiles == Spec => []RowsHaveFiles
  <1>1. CatalogueInv /\ ImagesAll => RowsHaveFiles
    BY DEF ImagesAll
  <1> QED
    BY ImagesHold, <1>1, PTL

(* A file nobody lists is accounted for: its deletion failed, its upload   *)
(* is not finished or failed, or its product went with its category.       *)
THEOREM FilesAreListed == Spec => []FilesHaveRows
  <1>1. CatalogueInv /\ ImagesAll => FilesHaveRows
    BY DEF ImagesAll
  <1> QED
    BY ImagesHold, <1>1, PTL

-----------------------------------------------------------------------------
(* The images of a product.  While no request disturbs another, at most    *)
(* one is at work on them, and what it has counted or read still holds.    *)

WorkPoints == {"upload", "storeImages"} \cup RowPoints

(* The images a request has counted are all there are, with room for its.  *)
Room(r, q) ==
    /\ pc[r] = "upload" => /\ seen[r] = Cardinality(ImagesOf(q))
                           /\ seen[r] + call[r].files <= MaxImages
    /\ pc[r] = "storeImages" => /\ seen[r].count = Cardinality(ImagesOf(q))
                                /\ seen[r].count + call[r].files <= MaxImages

(* A removal knows whether its image is the primary one; once it is gone,  *)
(* there is none.                                                          *)
Flag(r, q) ==
    /\ pc[r] \in {"deleteFile", "deleteRow"} /\ call[r].image \in ImagesOf(q)
           => seen[r].primary = images[call[r].image].primary
    /\ pc[r] \in {"findNext", "promote"} => PrimariesOf(q) = {}

OnePrimary(q) == ImagesOf(q) # {} => \E i \in ImageIds : PrimariesOf(q) = {i}

Whole(q) ==
    /\ \A s, t \in AtWork(q) : s = t
    /\ Cardinality(ImagesOf(q)) <= MaxImages
    /\ products[q] # None => \A s \in AtWork(q) : Room(s, q) /\ Flag(s, q)
    /\ OnePrimary(q) \/ \E s \in AtWork(q) : pc[s] \in {"findNext", "promote"}

Tidy(q) == IsFiniteSet(ImagesOf(q)) /\ (q \notin disturbed => Whole(q))

WholeInv == \A q \in ProductIds : Tidy(q)

(* Who is at work on a product after a step of r.                          *)
LEMMA Workers ==
    ASSUME BaseOK, NEW r \in Requests, NEW p, Moves(r, p), NEW q
    PROVE  /\ \A s \in Requests : s # r =>
                  /\ s \in AtWork(q)' <=> s \in AtWork(q)
                  /\ pc'[s] = pc[s] /\ call'[s] = call[s] /\ seen'[s] = seen[s]
           /\ r \in AtWork(q) <=> pc[r] \in WorkPoints /\ call[r].product = q
           /\ r \in AtWork(q)' <=> p \in WorkPoints /\ call'[r].product = q
           /\ AtWork(q) \subseteq Requests /\ AtWork(q)' \subseteq Requests /\ pc'[r] = p
  <1>1. \A s \in Requests : s # r => pc'[s] = pc[s] /\ call'[s] = call[s] /\ seen'[s] = seen[s]
    BY DEF BaseOK, Moves
  <1>2. pc'[r] = p
    BY DEF BaseOK, Moves
  <1> QED
    BY <1>1, <1>2 DEF AtWork, WorkPoints, RowPoints

(* Images of a product that a step leaves as they are.                     *)
ImagesStay(q) == \A i \in ImageIds :
    \/ images'[i] = images[i]
    \/ /\ images[i] = None \/ images[i].product # q
       /\ images'[i] = None \/ images'[i].product # q

LEMMA SameImages ==
    ASSUME NEW q, ImagesStay(q)
    PROVE  /\ ImagesOf(q)' = ImagesOf(q) /\ PrimariesOf(q)' = PrimariesOf(q)
           /\ \A i \in ImagesOf(q) : images'[i] = images[i]
  BY DEF ImagesStay, ImagesOf, PrimariesOf

LEMMA TidyElsewhere ==
    ASSUME BaseOK, ImagesInv, NEW r \in Requests, NEW p, Moves(r, p),
           NEW q \in ProductIds, Tidy(q), ImagesStay(q), disturbed \subseteq disturbed',
           products'[q] # None => products[q] # None \/ q = r,
           r \notin AtWork(q), r \notin AtWork(q)'
    PROVE  Tidy(q)'
  <1>1. /\ ImagesOf(q)' = ImagesOf(q) /\ PrimariesOf(q)' = PrimariesOf(q)
        /\ \A i \in ImagesOf(q) : images'[i] = images[i]
    BY SameImages
  <1>2. SUFFICES ASSUME q \notin disturbed' PROVE Whole(q)'
    BY <1>1 DEF Tidy
  <1>3. Whole(q)
    BY <1>2 DEF Tidy
  <1>4. AtWork(q)' = AtWork(q)
    BY Workers
  <1>5. \A s \in AtWork(q) : /\ s \in Requests /\ pc'[s] = pc[s]
                             /\ call'[s] = call[s] /\ seen'[s] = seen[s]
    BY Workers
  <1>6. ASSUME products'[q] # None, NEW s \in AtWork(q)
        PROVE  Room(s, q)' /\ Flag(s, q)'
    <2>1. q # r
      <3>1. Answered(q)
        BY <1>5 DEF AtWork, ImagesInv, ImageReq, ImageFits, ImagePoints
      <3> QED
        BY <3>1 DEF Answered, Moves
    <2>2. Room(s, q) /\ Flag(s, q)
      BY <1>3, <1>6, <2>1 DEF Whole
    <2>3. Room(s, q)'
      BY <1>1, <1>5, <2>2 DEF Room
    <2>4. Flag(s, q)'
      BY <1>1, <1>5, <2>2 DEF Flag
    <2> QED
      BY <2>3, <2>4
  <1>7. OnePrimary(q)' \/ \E s \in AtWork(q)' : pc'[s] \in {"findNext", "promote"}
    BY <1>1, <1>3, <1>4, <1>5 DEF Whole, OnePrimary
  <1>8. Cardinality(ImagesOf(q)') <= MaxImages
    BY <1>1, <1>3 DEF Whole
  <1>9. \A s, t \in AtWork(q)' : s = t
    BY <1>3, <1>4 DEF Whole
  <1>10. \A s \in AtWork(q)' : products'[q] # None => Room(s, q)' /\ Flag(s, q)'
    BY <1>4, <1>6
  <1> QED
    BY <1>7, <1>8, <1>9, <1>10 DEF Whole

(* The product the request itself is at work on, alone.                    *)
LEMMA TidyHere ==
    ASSUME BaseOK, NEW r \in Requests, NEW p, Moves(r, p), call' = call,
           NEW q, q = call[r].product, AtWork(q) \subseteq {r},
           IsFiniteSet(ImagesOf(q)'), Cardinality(ImagesOf(q)') <= MaxImages,
           p \in WorkPoints /\ products'[q] # None => Room(r, q)' /\ Flag(r, q)',
           OnePrimary(q)' \/ p \in {"findNext", "promote"}
    PROVE  Tidy(q)'
  <1>1. AtWork(q)' \subseteq {r} /\ (r \in AtWork(q)' <=> p \in WorkPoints) /\ pc'[r] = p
    BY Workers
  <1>2. "findNext" \in WorkPoints /\ "promote" \in WorkPoints
    BY DEF WorkPoints, RowPoints
  <1>3. \A s, t \in AtWork(q)' : s = t
    BY <1>1
  <1>4. products'[q] # None => \A s \in AtWork(q)' : Room(s, q)' /\ Flag(s, q)'
    BY <1>1
  <1>5. OnePrimary(q)' \/ \E s \in AtWork(q)' : pc'[s] \in {"findNext", "promote"}
    BY <1>1, <1>2
  <1> QED
    BY <1>3, <1>4, <1>5 DEF Tidy, Whole

(* A request at work on a product that nothing disturbed is there alone.   *)
LEMMA Alone ==
    ASSUME BaseOK, ImagesInv, WholeInv, NEW r \in Requests, pc[r] \in WorkPoints,
           NEW q, q = call[r].product
    PROVE  /\ q \in ProductIds /\ call[r] \in ImageCall /\ IsFiniteSet(ImagesOf(q))
           /\ q \notin disturbed => /\ Whole(q) /\ AtWork(q) = {r}
                                    /\ products[q] # None => Room(r, q) /\ Flag(r, q)
                                    /\ OnePrimary(q) \/ pc[r] \in {"findNext", "promote"}
  <1>1. q \in ProductIds /\ call[r] \in ImageCall
    BY ImageCalls DEF ImagesInv, ImageReq, ImageFits, ImagePoints, WorkPoints, RowPoints
  <1>2. Tidy(q)
    BY <1>1 DEF WholeInv
  <1>3. r \in AtWork(q)
    BY DEF AtWork, WorkPoints, RowPoints
  <1>4. q \notin disturbed => AtWork(q) = {r}
    BY <1>2, <1>3 DEF Tidy, Whole
  <1> QED
    BY <1>1, <1>2, <1>3, <1>4 DEF Tidy, Whole

(* A statement of an image request at work on q.                           *)
LEMMA WorkTidy ==
    ASSUME BaseOK, ImagesInv, WholeInv, NEW r \in Requests, pc[r] \in WorkPoints,
           NEW p, Moves(r, p), call' = call, UNCHANGED productVars,
           disturbed \subseteq disturbed', NEW q, q = call[r].product,
           \A x \in ProductIds : x # q => ImagesStay(x),
           IsFiniteSet(ImagesOf(q)'),
           q \notin disturbed' =>
               /\ Cardinality(ImagesOf(q)') <= MaxImages
               /\ p \in WorkPoints /\ products[q] # None => Room(r, q)' /\ Flag(r, q)'
               /\ OnePrimary(q)' \/ p \in {"findNext", "promote"}
    PROVE  WholeInv'
  <1>1. q \in ProductIds /\ (q \notin disturbed => AtWork(q) = {r})
    BY Alone
  <1>2. products' = products
    BY DEF productVars
  <1>3. Tidy(q)'
    <2>1. CASE q \in disturbed'
      BY <2>1 DEF Tidy
    <2>2. CASE q \notin disturbed'
      <3>1. AtWork(q) \subseteq {r}
        BY <1>1, <2>2
      <3> QED
        BY <1>2, <2>2, <3>1, TidyHere
    <2> QED
      BY <2>1, <2>2
  <1>4. ASSUME NEW x \in ProductIds, x # q PROVE Tidy(x)'
    <2>1. r \notin AtWork(x) /\ r \notin AtWork(x)'
      BY <1>4, Workers
    <2>2. Tidy(x) /\ ImagesStay(x)
      BY <1>4 DEF WholeInv
    <2> QED
      BY <1>2, <2>1, <2>2, TidyElsewhere
  <1> QED
    BY <1>3, <1>4 DEF WholeInv

(* One that writes no row: what was true of the images still is.           *)
LEMMA ReadTidy ==
    ASSUME BaseOK, ImagesInv, WholeInv, NEW r \in Requests, pc[r] \in WorkPoints,
           NEW p, Moves(r, p), call' = call, UNCHANGED productVars, images' = images,
           disturbed \subseteq disturbed', NEW q, q = call[r].product,
           p \in WorkPoints /\ Room(r, q) /\ Flag(r, q) => Room(r, q)' /\ Flag(r, q)',
           q \notin disturbed' =>
               \/ pc[r] \notin {"findNext", "promote"}
               \/ p \in {"findNext", "promote"}
               \/ ImagesOf(q) = {}
    PROVE  WholeInv'
  <1>1. \A x \in ProductIds : ImagesStay(x)
    BY DEF ImagesStay
  <1>2. /\ ImagesOf(q)' = ImagesOf(q) /\ PrimariesOf(q)' = PrimariesOf(q)
    BY DEF ImagesOf, PrimariesOf
  <1>3. IsFiniteSet(ImagesOf(q)')
    BY <1>2, Alone
  <1>4. ASSUME q \notin disturbed'
        PROVE  /\ Cardinality(ImagesOf(q)') <= MaxImages
               /\ p \in WorkPoints /\ products[q] # None => Room(r, q)' /\ Flag(r, q)'
               /\ OnePrimary(q)' \/ p \in {"findNext", "promote"}
    <2>1. /\ Whole(q) /\ products[q] # None => Room(r, q) /\ Flag(r, q)
          /\ OnePrimary(q) \/ pc[r] \in {"findNext", "promote"}
      BY <1>4, Alone
    <2>2. Cardinality(ImagesOf(q)') <= MaxImages
      BY <1>2, <1>4, Alone DEF Whole
    <2>3. OnePrimary(q)' \/ p \in {"findNext", "promote"}
      BY <1>2, <1>4, Alone DEF OnePrimary
    <2>4. p \in WorkPoints /\ products[q] # None => Room(r, q)' /\ Flag(r, q)'
      BY <1>4, Alone
    <2> QED
      BY <2>2, <2>3, <2>4
  <1> QED
    BY <1>1, <1>3, <1>4, WorkTidy

(* Steps of requests that are, and stay, off the images.                   *)
LEMMA OffTidy ==
    ASSUME BaseOK, ImagesInv, WholeInv, NEW r \in Requests, NEW p, Moves(r, p),
           pc[r] \notin WorkPoints, p \notin WorkPoints, images' = images,
           disturbed \subseteq disturbed',
           \A q \in ProductIds : products'[q] # None => products[q] # None \/ q = r
    PROVE  WholeInv'
  <1>1. ASSUME NEW q \in ProductIds PROVE Tidy(q)'
    <2>1. r \notin AtWork(q) /\ r \notin AtWork(q)'
      BY Workers
    <2>2. Tidy(q) /\ ImagesStay(q)
      BY DEF WholeInv, ImagesStay
    <2> QED
      BY <2>1, <2>2, TidyElsewhere
  <1> QED
    BY <1>1 DEF WholeInv

LEMMA FindProductTidy ==
    ASSUME BaseOK, ImagesInv, WholeInv, NEW r \in Requests, findProductOfImage(r),
           UNCHANGED productVars
    PROVE  WholeInv'
  <1>0. PICK q : q = call[r].product
    OBVIOUS
  <1>1. /\ pc[r] = "findProductOfImage" /\ pc[r] \notin Answers
        /\ pc[r] \notin WorkPoints /\ pc[r] \in ImagePoints
        /\ images' = images /\ products' = products
    BY DEF findProductOfImage, Answers, WorkPoints, RowPoints, ImagePoints, productVars
  <1>2. q \in ProductIds
    BY <1>0, <1>1, ImageCalls DEF ImagesInv, ImageReq, ImageFits
  <1>3. CASE End(r, "refused") /\ disturbed' = disturbed
    <2>1. Moves(r, "refused") /\ "refused" \notin WorkPoints
      BY <1>1, <1>3, EndMoves DEF WorkPoints, RowPoints
    <2> QED
      BY <1>1, <1>3, <2>1, OffTidy
  <1>4. ASSUME NEW p \in {"upload", "findImage"}, NEW x, Goto(r, p, x),
               p = "upload" => /\ x = Cardinality(ImagesOf(q))
                               /\ x + call[r].files <= MaxImages,
               disturbed' = IF AtWork(q) = {} THEN disturbed ELSE disturbed \cup {q}
        PROVE  WholeInv'
    <2>1. Moves(r, p) /\ call' = call /\ pc'[r] = p /\ seen'[r] = x
      BY <1>1, <1>4, GotoMoves
    <2>2. \A y \in ProductIds : Tidy(y) /\ ImagesStay(y)
      BY <1>1 DEF WholeInv, ImagesStay
    <2>3. ASSUME NEW y \in ProductIds, y # q PROVE Tidy(y)'
      <3>1. r \notin AtWork(y) /\ r \notin AtWork(y)'
        BY <1>0, <2>1, <2>3, Workers
      <3> QED
        BY <1>1, <1>4, <2>1, <2>2, <3>1, TidyElsewhere
    <2>4. ImagesOf(q)' = ImagesOf(q) /\ PrimariesOf(q)' = PrimariesOf(q)
      BY <1>1 DEF ImagesOf, PrimariesOf
    <2>5. Tidy(q)'
      <3>1. CASE q \in disturbed'
        BY <1>2, <2>2, <2>4, <3>1 DEF Tidy
      <3>2. CASE q \notin disturbed'
        <4>1. AtWork(q) = {} /\ Whole(q) /\ IsFiniteSet(ImagesOf(q))
          BY <1>2, <1>4, <2>2, <3>2 DEF Tidy
        <4>2. Room(r, q)' /\ Flag(r, q)'
          BY <1>4, <2>1, <2>4 DEF Room, Flag
        <4>3. OnePrimary(q)' /\ Cardinality(ImagesOf(q)') <= MaxImages
          BY <2>4, <4>1 DEF Whole, OnePrimary
        <4> QED
          BY <1>0, <2>1, <2>4, <4>1, <4>2, <4>3, TidyHere
      <3> QED
        BY <3>1, <3>2
    <2> QED
      BY <2>3, <2>5 DEF WholeInv
  <1>5. \/ End(r, "refused") /\ disturbed' = disturbed
        \/ /\ \/ /\ Goto(r, "upload", Cardinality(ImagesOf(q)))
                 /\ Cardinality(ImagesOf(q)) + call[r].files <= MaxImages
              \/ Goto(r, "findImage", None)
           /\ disturbed' = IF AtWork(q) = {} THEN disturbed ELSE disturbed \cup {q}
    <2> DEFINE count == Cardinality(ImagesOf(q))
               after == IF AtWork(q) = {} THEN disturbed ELSE disturbed \cup {q}
               full == call[r].op = "addImages" /\ count + call[r].files > MaxImages
    <2>1. IF ~ OwnProduct(r) \/ full
          THEN End(r, "refused") /\ disturbed' = disturbed
          ELSE /\ IF call[r].op = "addImages" THEN Goto(r, "upload", count)
                  ELSE Goto(r, "findImage", None)
               /\ disturbed' = after
      BY <1>0 DEF findProductOfImage
    <2>2. call[r].op = "addImages" /\ ~ full => count + call[r].files <= MaxImages
      <3>1. IsFiniteSet(ImagesOf(q))
        BY <1>2 DEF WholeInv, Tidy
      <3>2. count \in Nat
        BY <3>1, FS_CardinalityType
      <3>3. call[r].op = "addImages" => call[r].files \in Nat
        BY <1>1, ImageCalls, ImageAssumption DEF ImagesInv, ImageReq, ImageFits
      <3> HIDE DEF count
      <3> QED
        BY <3>2, <3>3, ImageAssumption
    <2> HIDE DEF count, after, full
    <2>3. \/ End(r, "refused") /\ disturbed' = disturbed
          \/ /\ \/ Goto(r, "upload", count) /\ count + call[r].files <= MaxImages
                \/ Goto(r, "findImage", None)
             /\ disturbed' = after
      BY <2>1, <2>2
    <2> QED
      BY <2>3 DEF count, after
  <1> QED
    BY <1>3, <1>4, <1>5

LEMMA UploadsTidy ==
    ASSUME BaseOK, ImagesInv, WholeInv, NEW r \in Requests, upload(r) \/ uploadFails(r),
           UNCHANGED productVars
    PROVE  WholeInv'
  <1>0. PICK q : q = call[r].product
    OBVIOUS
  <1>1. /\ pc[r] = "upload" /\ pc[r] \notin Answers /\ pc[r] \in WorkPoints
        /\ images' = images /\ disturbed' = disturbed
    BY DEF upload, uploadFails, Answers, WorkPoints
  <1>2. ImagesOf(q)' = ImagesOf(q)
    BY <1>1 DEF ImagesOf
  <1>3. CASE upload(r)
    <2>1. PICK k : Goto(r, "storeImages", [count |-> seen[r], key |-> k])
      BY <1>3 DEF upload
    <2>2. /\ Moves(r, "storeImages") /\ call' = call /\ pc'[r] = "storeImages"
          /\ seen'[r].count = seen[r]
      BY <1>1, <2>1, GotoMoves
    <2>3. Room(r, q) => Room(r, q)' /\ Flag(r, q)'
      BY <1>1, <1>2, <2>2 DEF Room, Flag
    <2> QED
      BY <1>0, <1>1, <2>2, <2>3, ReadTidy
  <1>4. CASE uploadFails(r)
    <2>1. Moves(r, "failed") /\ call' = call /\ "failed" \notin WorkPoints
      BY <1>1, <1>4, EndMoves DEF uploadFails, WorkPoints, RowPoints
    <2> QED
      BY <1>0, <1>1, <2>1, ReadTidy
  <1> QED
    BY <1>3, <1>4

LEMMA FindImageTidy ==
    ASSUME BaseOK, ImagesInv, WholeInv, NEW r \in Requests, findImage(r),
           UNCHANGED productVars
    PROVE  WholeInv'
  <1>0. PICK q, i : q = call[r].product /\ i = call[r].image
    OBVIOUS
  <1>1. /\ pc[r] = "findImage" /\ pc[r] \notin Answers /\ pc[r] \in WorkPoints
        /\ images' = images /\ disturbed' = disturbed
    BY DEF findImage, Answers, WorkPoints, RowPoints, imageVars
  <1>2. CASE End(r, "refused")
    <2>1. Moves(r, "refused") /\ call' = call /\ "refused" \notin WorkPoints
      BY <1>1, <1>2, EndMoves DEF WorkPoints, RowPoints
    <2> QED
      BY <1>0, <1>1, <2>1, ReadTidy
  <1>3. ASSUME NEW p \in {"deleteFile", "primary"}, Goto(r, p, images[i])
        PROVE  WholeInv'
    <2>1. Moves(r, p) /\ call' = call /\ pc'[r] = p /\ seen'[r] = images[i]
      BY <1>1, <1>3, GotoMoves
    <2>2. Room(r, q)' /\ Flag(r, q)'
      BY <1>0, <1>1, <1>3, <2>1 DEF Room, Flag
    <2> QED
      BY <1>0, <1>1, <2>1, <2>2, ReadTidy
  <1> QED
    BY <1>0, <1>2, <1>3 DEF findImage

LEMMA DeleteFileTidy ==
    ASSUME BaseOK, ImagesInv, WholeInv, NEW r \in Requests, deleteFile(r),
           UNCHANGED productVars
    PROVE  WholeInv'
  <1>0. PICK q : q = call[r].product
    OBVIOUS
  <1>1. /\ pc[r] = "deleteFile" /\ pc[r] \notin Answers /\ pc[r] \in WorkPoints
        /\ images' = images /\ disturbed' = disturbed /\ Goto(r, "deleteRow", seen[r])
    BY DEF deleteFile, Answers, WorkPoints, RowPoints
  <1>2. /\ Moves(r, "deleteRow") /\ call' = call /\ pc'[r] = "deleteRow"
        /\ seen'[r] = seen[r]
    BY <1>1, GotoMoves
  <1>3. ImagesOf(q)' = ImagesOf(q)
    BY <1>1 DEF ImagesOf
  <1>4. Flag(r, q) => Room(r, q)' /\ Flag(r, q)'
    BY <1>1, <1>2, <1>3 DEF Room, Flag
  <1> QED
    BY <1>0, <1>1, <1>2, <1>4, ReadTidy

LEMMA FindNextTidy ==
    ASSUME BaseOK, ImagesInv, WholeInv, NEW r \in Requests, findNext(r),
           UNCHANGED productVars
    PROVE  WholeInv'
  <1>0. PICK q : q = call[r].product
    OBVIOUS
  <1>1. /\ pc[r] = "findNext" /\ pc[r] \notin Answers /\ pc[r] \in WorkPoints
        /\ images' = images /\ disturbed' = disturbed
    BY DEF findNext, Answers, WorkPoints, RowPoints, imageVars
  <1>2. CASE ImagesOf(q) = {} /\ End(r, "ok")
    <2>1. Moves(r, "ok") /\ call' = call /\ "ok" \notin WorkPoints
      BY <1>1, <1>2, EndMoves DEF WorkPoints, RowPoints
    <2> QED
      BY <1>0, <1>1, <1>2, <2>1, ReadTidy
  <1>3. ASSUME NEW i, Goto(r, "promote", i)
        PROVE  WholeInv'
    <2>1. Moves(r, "promote") /\ call' = call /\ pc'[r] = "promote"
      BY <1>1, <1>3, GotoMoves
    <2>2. PrimariesOf(q)' = PrimariesOf(q)
      BY <1>1 DEF ImagesOf, PrimariesOf
    <2>3. Flag(r, q) => Room(r, q)' /\ Flag(r, q)'
      BY <1>1, <2>1, <2>2 DEF Room, Flag
    <2> QED
      BY <1>0, <1>1, <2>1, <2>3, ReadTidy
  <1> QED
    BY <1>0, <1>2, <1>3 DEF findNext

(* The rows of an upload.                                                  *)
LEMMA StoredRows ==
    ASSUME BaseOK, ImagesInv, NEW r \in Requests, storeImages(r)
    PROVE  /\ NewIds(r) \subseteq ImageIds
           /\ \A i \in NewIds(r) :
                  /\ images[i] = None /\ images'[i] # None
                  /\ images'[i].product = call[r].product
                  /\ images'[i].primary <=> IsFirst(r, i)
           /\ \A i \in ImageIds : i \notin NewIds(r) => images'[i] = images[i]
  <1> DEFINE N == NewIds(r)
             k == seen[r].key
             row(i) == [product |-> call[r].product, primary |-> IsFirst(r, i), file |-> k[i]]
  <1>1. /\ pc[r] = "storeImages" /\ pc[r] \notin Answers
        /\ images' = [i \in ImageIds |-> IF i \in N THEN row(i) ELSE images[i]]
    BY DEF storeImages, Answers
  <1>2. /\ call[r] \in ImageCall /\ call[r].op = "addImages" /\ k \in Keys(r)
        /\ \A i \in N : k[i] \in files
    BY <1>1 DEF ImagesInv, ImageReq, ImageFits, ImagePoints, Uploaded
  <1>3. /\ N \subseteq ImageIds /\ \A i \in N : i[1] = r
        /\ call[r].product \in ProductIds
    BY <1>2, ImageCalls, NewIdsFit
  <1>4. ASSUME NEW i \in N
        PROVE  /\ row(i) # None /\ row(i).product = call[r].product
               /\ row(i).primary <=> IsFirst(r, i)
    <2>1. PICK b \in BOOLEAN : b = IsFirst(r, i)
      BY DEF IsFirst
    <2>2. k[i] \in ImageIds
      BY <1>2 DEF ImagesInv, ImagesTypeOK
    <2>3. row(i) = [product |-> call[r].product, primary |-> b, file |-> k[i]]
      BY <2>1
    <2> HIDE DEF row
    <2>4. row(i) \in Image
      BY <1>3, <2>2, <2>3 DEF Image
    <2>5. row(i).primary = b
      BY <2>3
    <2> QED
      BY <2>1, <2>3, <2>4, <2>5, ImageAssumption
  <1>5. \A i \in N : images[i] = None
    <2>1. \A i \in ImageIds : images[i] # None => Answered(i[1])
      BY DEF ImagesInv, RowFits
    <2> QED
      BY <1>1, <1>3, <2>1 DEF Answered
  <1> HIDE DEF row, N
  <1>6. \A i \in ImageIds : images'[i] = IF i \in N THEN row(i) ELSE images[i]
    BY <1>1
  <1>7. \A i \in N : /\ images'[i] # None /\ images'[i].product = call[r].product
                     /\ images'[i].primary <=> IsFirst(r, i)
    BY <1>3, <1>4, <1>6
  <1> QED
    BY <1>3, <1>5, <1>6, <1>7 DEF N

LEMMA StoreImagesTidy ==
    ASSUME BaseOK, ImagesInv, WholeInv, NEW r \in Requests, storeImages(r),
           UNCHANGED productVars
    PROVE  WholeInv'
  <1>0. PICK q, n : q = call[r].product /\ n = call[r].files
    OBVIOUS
  <1> DEFINE N == NewIds(r)
             S == ImagesOf(q)
  <1>1. /\ pc[r] = "storeImages" /\ pc[r] \notin Answers /\ pc[r] \in WorkPoints
        /\ products[q] # None /\ disturbed' = disturbed /\ End(r, "ok")
    BY <1>0 DEF storeImages, Answers, WorkPoints
  <1>2. Moves(r, "ok") /\ call' = call /\ "ok" \notin WorkPoints
    BY <1>1, EndMoves DEF WorkPoints, RowPoints
  <1>3. /\ q \in ProductIds /\ call[r] \in ImageCall /\ call[r].op = "addImages"
        /\ IsFiniteSet(S)
    BY <1>0, <1>1, Alone DEF ImagesInv, ImageReq, ImageFits, ImagePoints
  <1>4. n \in 1 .. MaxFiles /\ n \in Nat /\ MaxImages \in Nat
    BY <1>0, <1>3, ImageCalls, ImageAssumption
  <1>5. N = {r} \X (1 .. n)
    BY <1>0 DEF NewIds
  <1>6. IsFiniteSet(N) /\ Cardinality(N) = n
    <2>1. /\ IsFiniteSet({r} \X (1 .. n)) /\ Cardinality({r} \X (1 .. n)) = n
      BY <1>4, ColumnCount, Zenon
    <2> HIDE DEF N
    <2> QED
      BY <1>5, <2>1, Zenon
  <1>7. /\ N \subseteq ImageIds
        /\ \A i \in N : /\ images[i] = None /\ images'[i] # None
                        /\ images'[i].product = q
                        /\ images'[i].primary <=> IsFirst(r, i)
        /\ \A i \in ImageIds : i \notin N => images'[i] = images[i]
    BY <1>0, StoredRows
  <1>8. N \cap S = {}
    BY <1>7 DEF ImagesOf
  <1>9. ImagesOf(q)' = S \cup N
    BY <1>7 DEF ImagesOf
  <1>10. \A x \in ProductIds : x # q => ImagesStay(x)
    BY <1>7 DEF ImagesStay
  <1> HIDE DEF N, S
  <1>11. IsFiniteSet(S \cup N) /\ Cardinality(S \cup N) = Cardinality(S) + n
    <2>1. /\ IsFiniteSet(S \cup N)
          /\ Cardinality(S \cup N) = Cardinality(S) + Cardinality(N) - Cardinality(S \cap N)
      BY <1>3, <1>6, FS_Union
    <2>2. Cardinality(S \cap N) = 0
      <3>1. S \cap N = {}
        BY <1>8
      <3> QED
        BY <3>1, FS_EmptySet
    <2>3. Cardinality(S) \in Nat
      BY <1>3, FS_CardinalityType
    <2> QED
      BY <1>4, <1>6, <2>1, <2>2, <2>3
  <1>12. ASSUME q \notin disturbed
         PROVE  Cardinality(S) + n <= MaxImages /\ OnePrimary(q)'
    <2>1. Room(r, q) /\ OnePrimary(q)
      BY <1>0, <1>1, <1>12, Alone
    <2>2. seen[r].count = Cardinality(S) /\ seen[r].count + n <= MaxImages
      BY <1>0, <1>1, <2>1 DEF Room, S
    <2>3. \A i \in S : i \in ImageIds /\ images'[i] = images[i]
      BY <1>7, <1>8 DEF S, ImagesOf
    <2>4. CASE S = {}
      <3>1. seen[r].count = 0
        BY <2>2, <2>4, FS_EmptySet
      <3>2. \A i \in N : images'[i].primary <=> i = <<r, 1>>
        BY <1>5, <1>7, <3>1 DEF IsFirst
      <3>3. <<r, 1>> \in N
        BY <1>4, <1>5
      <3>4. ImagesOf(q)' = N
        BY <1>9, <2>4
      <3>5. PrimariesOf(q)' = {<<r, 1>>}
        BY <3>2, <3>3, <3>4 DEF PrimariesOf
      <3> QED
        BY <1>7, <2>2, <3>3, <3>5 DEF OnePrimary
    <2>5. CASE S # {}
      <3>1. seen[r].count # 0
        BY <1>3, <2>2, <2>5, FS_EmptySet
      <3>2. \A i \in N : ~ images'[i].primary
        BY <1>7, <3>1 DEF IsFirst
      <3>3. PrimariesOf(q)' = PrimariesOf(q)
        BY <1>9, <2>3, <3>2 DEF PrimariesOf, S
      <3> QED
        BY <2>1, <2>2, <2>5, <3>3 DEF OnePrimary, S
    <2> QED
      BY <2>4, <2>5
  <1> QED
    BY <1>0, <1>1, <1>2, <1>9, <1>10, <1>11, <1>12, WorkTidy

LEMMA DeleteRowTidy ==
    ASSUME BaseOK, ImagesInv, WholeInv, NEW r \in Requests, deleteRow(r),
           UNCHANGED productVars
    PROVE  WholeInv'
  <1>0. PICK q, k : q = call[r].product /\ k = call[r].image
    OBVIOUS
  <1> DEFINE S == ImagesOf(q)
  <1>1. /\ pc[r] = "deleteRow" /\ pc[r] \notin Answers /\ pc[r] \in WorkPoints
        /\ images[k] # None /\ images' = [images EXCEPT ![k] = None]
        /\ disturbed' = disturbed
        /\ seen[r].primary => Goto(r, "findNext", None)
        /\ ~ seen[r].primary => End(r, "ok")
    BY <1>0 DEF deleteRow, Answers, WorkPoints, RowPoints
  <1>2. /\ k \in ImageIds /\ images[k].product = q /\ products[q] # None
        /\ images[k] \in Image /\ seen[r] \in Image /\ q \in ProductIds
    <2>1. k \in ImageIds
      BY <1>0, <1>1, ImageCalls DEF ImagesInv, ImageReq, ImageFits, ImagePoints, RemovalPoints
    <2> QED
      BY <1>0, <1>1, <2>1, Alone
         DEF ImagesInv, ImagesTypeOK, ImageReq, Found, OfProduct, RowFits
  <1>3. k \in S /\ IsFiniteSet(S)
    BY <1>0, <1>1, <1>2, Alone DEF ImagesOf
  <1>4. \A i \in ImageIds : images'[i] = IF i = k THEN None ELSE images[i]
    BY <1>1 DEF ImagesInv, ImagesTypeOK
  <1>5. ImagesOf(q)' = S \ {k}
    BY <1>4 DEF ImagesOf
  <1>6. PrimariesOf(q)' = PrimariesOf(q) \ {k}
    BY <1>4 DEF ImagesOf, PrimariesOf
  <1>7. k \in PrimariesOf(q) <=> images[k].primary
    BY <1>3 DEF PrimariesOf
  <1>8. \A x \in ProductIds : x # q => ImagesStay(x)
    BY <1>2, <1>4 DEF ImagesStay
  <1>9. q \notin disturbed =>
           /\ images[k].primary <=> seen[r].primary
           /\ Cardinality(S) <= MaxImages /\ \E i \in ImageIds : PrimariesOf(q) = {i}
    <2>1. SUFFICES ASSUME q \notin disturbed
                   PROVE  /\ images[k].primary <=> seen[r].primary
                          /\ Cardinality(S) <= MaxImages
                          /\ \E i \in ImageIds : PrimariesOf(q) = {i}
      OBVIOUS
    <2>2. Whole(q) /\ Flag(r, q) /\ OnePrimary(q)
      BY <1>0, <1>1, <1>2, <2>1, Alone
    <2>3. images[k].primary = seen[r].primary
      BY <1>0, <1>1, <1>3, <2>2 DEF Flag
    <2> QED
      BY <1>3, <2>2, <2>3 DEF Whole, OnePrimary
  <1>10. IsFiniteSet(S \ {k}) /\ (Cardinality(S) <= MaxImages => Cardinality(S \ {k}) <= MaxImages)
    <2>1. S \ {k} \in SUBSET S
      OBVIOUS
    <2> HIDE DEF S
    <2>2. IsFiniteSet(S \ {k}) /\ Cardinality(S \ {k}) <= Cardinality(S)
      BY <1>3, <2>1, FS_Subset
    <2>3. Cardinality(S) \in Nat /\ Cardinality(S \ {k}) \in Nat
      BY <1>3, <2>2, FS_CardinalityType
    <2> QED
      BY <2>2, <2>3, ImageAssumption
  <1> HIDE DEF S
  <1>11. CASE seen[r].primary
    <2>1. Moves(r, "findNext") /\ call' = call /\ pc'[r] = "findNext"
      BY <1>1, <1>11, GotoMoves
    <2>2. q \notin disturbed => PrimariesOf(q)' = {}
      BY <1>6, <1>7, <1>9, <1>11
    <2>3. q \notin disturbed => Room(r, q)' /\ Flag(r, q)'
      BY <2>1, <2>2 DEF Room, Flag
    <2> QED
      BY <1>0, <1>1, <1>5, <1>8, <1>9, <1>10, <2>1, <2>3, WorkTidy
  <1>12. CASE ~ seen[r].primary
    <2>1. Moves(r, "ok") /\ call' = call /\ "ok" \notin WorkPoints
      BY <1>1, <1>12, EndMoves DEF WorkPoints, RowPoints
    <2>2. q \notin disturbed => OnePrimary(q)'
      BY <1>6, <1>7, <1>9, <1>12 DEF OnePrimary
    <2> QED
      BY <1>0, <1>1, <1>5, <1>8, <1>9, <1>10, <2>1, <2>2, WorkTidy
  <1> QED
    BY <1>11, <1>12

(* One image gets the flag, and no other has it.                           *)
LEMMA FlagsTidy ==
    ASSUME BaseOK, ImagesAll, WholeInv, NEW r \in Requests, promote(r) \/ setPrimary(r),
           UNCHANGED productVars
    PROVE  WholeInv'
  <1>0. PICK q : q = call[r].product
    OBVIOUS
  <1>1. /\ pc[r] \in {"promote", "primary"} /\ pc[r] \notin Answers /\ pc[r] \in WorkPoints
        /\ disturbed' = disturbed /\ End(r, "ok")
    BY DEF promote, setPrimary, Answers, WorkPoints, RowPoints
  <1>2. ImagesInv
    BY DEF ImagesAll
  <1>3. Moves(r, "ok") /\ call' = call /\ "ok" \notin WorkPoints
    BY <1>1, EndMoves DEF WorkPoints, RowPoints
  <1>4. \A i \in ImageIds : /\ images'[i] # None <=> images[i] # None
                            /\ images[i] # None => images'[i].product = images[i].product
    BY FlagsWritten
  <1>5. \A x : ImagesOf(x)' = ImagesOf(x)
    BY <1>4 DEF ImagesOf
  <1>6. q \in ProductIds /\ IsFiniteSet(ImagesOf(q))
        /\ (q \notin disturbed => Whole(q) /\ (products[q] # None => Flag(r, q)))
    BY <1>0, <1>1, <1>2, Alone
  <1>7. ASSUME NEW k \in ImagesOf(q), PrimariesOf(q)' = {k} \/ q \in disturbed,
               \A i \in ImageIds : images'[i] = images[i] \/ i \in ImagesOf(q)
        PROVE  WholeInv'
    <2>1. \A x \in ProductIds : x # q => ImagesStay(x)
      BY <1>4, <1>7 DEF ImagesStay, ImagesOf
    <2>2. q \notin disturbed => OnePrimary(q)' /\ Cardinality(ImagesOf(q)) <= MaxImages
      BY <1>6, <1>7 DEF OnePrimary, ImagesOf, Whole
    <2> QED
      BY <1>0, <1>1, <1>2, <1>3, <1>5, <1>6, <2>1, <2>2, WorkTidy
  <1>8. CASE promote(r)
    <2>0. PICK k : k = seen[r]
      OBVIOUS
    <2>1. /\ pc[r] = "promote" /\ images[k] # None /\ k \in ImageIds
          /\ images[k].product = q
      BY <1>0, <1>2, <1>8, <2>0 DEF promote, ImagesInv, ImageReq, Found, OfProduct
    <2>2. images'[k].primary = TRUE /\ \A i \in ImageIds : i # k => images'[i] = images[i]
      BY <1>8, <2>0, FlagsWritten
    <2>3. k \in ImagesOf(q) /\ products[q] # None
      BY <1>2, <2>1 DEF ImagesOf, ImagesInv, RowFits
    <2>4. q \notin disturbed => PrimariesOf(q) = {}
      BY <1>6, <2>1, <2>3 DEF Flag
    <2>5. q \notin disturbed => PrimariesOf(q)' = {k}
      BY <1>5, <2>2, <2>3, <2>4 DEF PrimariesOf, ImagesOf
    <2> QED
      BY <1>7, <2>2, <2>3, <2>5
  <1>9. CASE setPrimary(r)
    <2> DEFINE flagged(i, b) == [images[i] EXCEPT !.primary = b]
    <2>0. PICK k : k = call[r].image
      OBVIOUS
    <2>1. /\ pc[r] = "primary" /\ images[k] # None
          /\ images' = [i \in ImageIds |-> IF i \in ImagesOf(q) THEN flagged(i, i = k)
                                           ELSE images[i]]
      BY <1>0, <1>9, <2>0 DEF setPrimary
    <2>2. k \in ImageIds /\ images[k].product = q
      BY <1>0, <1>2, <2>0, <2>1, ImageCalls
         DEF ImagesInv, ImageReq, ImageFits, ImagePoints, RowPoints, Found, OfProduct
    <2>3. k \in ImagesOf(q)
      BY <2>1, <2>2 DEF ImagesOf
    <2>4. \A i \in ImagesOf(q) : i \in ImageIds /\ images[i] \in Image
      BY <1>2 DEF ImagesInv, ImagesTypeOK, ImagesOf
    <2>5. \A i \in ImagesOf(q), b \in BOOLEAN : flagged(i, b).primary = b
      BY <2>4 DEF Image
    <2> HIDE DEF flagged
    <2>6. ASSUME NEW i \in ImagesOf(q) PROVE images'[i].primary <=> i = k
      <3>1. PICK b \in BOOLEAN : b = (i = k)
        OBVIOUS
      <3>2. images'[i] = flagged(i, b)
        BY <2>1, <2>4, <3>1
      <3> QED
        BY <2>5, <3>1, <3>2
    <2>7. PrimariesOf(q)' = {k}
      BY <1>5, <2>3, <2>6 DEF PrimariesOf
    <2> QED
      BY <1>7, <2>1, <2>3, <2>7
  <1> QED
    BY <1>8, <1>9

LEMMA FailsTidy ==
    ASSUME BaseOK, ImagesInv, WholeInv, NEW r \in Requests, imageRequestFails(r),
           UNCHANGED productVars
    PROVE  WholeInv'
  <1>0. PICK q : q = call[r].product
    OBVIOUS
  <1>1. /\ pc[r] \notin Answers /\ End(r, "failed") /\ images' = images
        /\ disturbed \subseteq disturbed'
        /\ pc[r] \in {"findNext", "promote"} => q \in disturbed'
    BY <1>0 DEF imageRequestFails, Abort, Running
  <1>2. Moves(r, "failed") /\ call' = call /\ "failed" \notin WorkPoints
    BY <1>1, EndMoves DEF WorkPoints, RowPoints
  <1>3. CASE pc[r] \in WorkPoints
    BY <1>0, <1>1, <1>2, <1>3, ReadTidy
  <1>4. CASE pc[r] \notin WorkPoints
    BY <1>1, <1>2, <1>4, OffTidy DEF productVars
  <1> QED
    BY <1>3, <1>4

LEMMA StartTidy ==
    ASSUME BaseOK, ImagesInv, WholeInv, NEW r \in Requests, ImagesStart(r),
           UNCHANGED productVars
    PROVE  WholeInv'
  <1>1. PICK c \in Calls : Begin(r, c, "findProductOfImage") /\ UNCHANGED imageVars
    BY DEF ImagesStart
  <1>2. Moves(r, "findProductOfImage") /\ pc[r] = "idle"
    BY <1>1, BeginMoves
  <1>3. {"idle", "findProductOfImage"} \cap WorkPoints = {}
    BY DEF WorkPoints, RowPoints
  <1> QED
    BY <1>1, <1>2, <1>3, OffTidy DEF imageVars, productVars

LEMMA OthersTidy ==
    ASSUME BaseOK, TreeInv, ShelfInv, ImagesAll, WholeInv, NEW r \in Requests,
           UNCHANGED imageVars,
           \/ CategoriesStep(r) /\ UNCHANGED productVars
           \/ ProductsStep(r) /\ UNCHANGED categoryVars
    PROVE  WholeInv'
  <1>1. PICK p : Moves(r, p) /\ p \notin ImagePoints /\ pc[r] \notin ImagePoints
    BY OthersLeaveImages
  <1>2. ProductsKeep(r)
    BY OthersLeaveImages
  <1>3. WorkPoints \subseteq ImagePoints
    BY DEF WorkPoints, RowPoints, ImagePoints
  <1> QED
    BY <1>1, <1>2, <1>3, OffTidy DEF ImagesAll, ProductsKeep, imageVars

(* A category takes its products along, and all of their images.           *)
LEMMA CascadeTidy ==
    ASSUME BaseOK, ImagesInv, WholeInv, NEW r \in Requests, removeWithProducts(r)
    PROVE  WholeInv'
  <1> DEFINE gone == InCategory(call[r].id)
  <1>1. /\ pc[r] = "deleteCategory" /\ pc[r] \notin Answers /\ End(r, "ok")
        /\ products' = [p \in ProductIds |-> IF p \in gone THEN None ELSE products[p]]
        /\ images' = [i \in ImageIds |->
              IF images[i] # None /\ images[i].product \in gone THEN None ELSE images[i]]
        /\ disturbed' = disturbed
    BY DEF removeWithProducts, deleteCategory, Answers
  <1>2. /\ Moves(r, "ok")
        /\ {"ok", "deleteCategory"} \cap WorkPoints = {}
    BY <1>1, EndMoves DEF WorkPoints, RowPoints
  <1> HIDE DEF gone
  <1>3. ASSUME NEW q \in ProductIds PROVE Tidy(q)'
    <2>1. Tidy(q) /\ r \notin AtWork(q) /\ r \notin AtWork(q)'
      BY <1>1, <1>2, Workers DEF WholeInv
    <2>2. CASE q \in gone
      <3>1. ImagesOf(q)' = {} /\ products'[q] = None
        BY <1>1, <2>2 DEF ImagesOf
      <3>2. IsFiniteSet(ImagesOf(q)') /\ Cardinality(ImagesOf(q)') <= MaxImages
        BY <3>1, FS_EmptySet, ImageAssumption
      <3>3. OnePrimary(q)'
        BY <3>1 DEF OnePrimary
      <3>4. AtWork(q)' = AtWork(q)
        <4>1. /\ \A s \in Requests : s # r => (s \in AtWork(q)' <=> s \in AtWork(q))
              /\ AtWork(q) \subseteq Requests /\ AtWork(q)' \subseteq Requests
          BY <1>2, Workers
        <4> QED
          BY <2>1, <4>1
      <3>5. ASSUME q \notin disturbed' PROVE Whole(q)'
        <4>1. \A s, t \in AtWork(q)' : s = t
          BY <1>1, <2>1, <3>4, <3>5 DEF Tidy, Whole
        <4> QED
          BY <3>1, <3>2, <3>3, <4>1 DEF Whole
      <3> QED
        BY <3>2, <3>5 DEF Tidy
    <2>3. CASE q \notin gone
      <3>1. ImagesStay(q)
        BY <1>1, <2>3 DEF ImagesStay
      <3>2. products'[q] = products[q]
        BY <1>1, <2>3
      <3> QED
        BY <1>1, <1>2, <2>1, <3>1, <3>2, TidyElsewhere
    <2> QED
      BY <2>2, <2>3
  <1> QED
    BY <1>3 DEF WholeInv

LEMMA WholeInit == Init => WholeInv
  <1> SUFFICES ASSUME Init, NEW q \in ProductIds PROVE Tidy(q)
    BY DEF WholeInv
  <1> USE DEF Init
  <1>1. \A i \in ImageIds : images[i] # None => images[i].product = i[1]
    BY DEF ImagesInit
  <1>2. AtWork(q) = {}
    BY DEF CallsInit, AtWork
  <1> DEFINE Column == {q} \X (1 .. MaxImages)
  <1>3. ImagesOf(q) \in SUBSET Column
    BY <1>1 DEF ImagesOf, ImageIds
  <1>4. MaxImages \in Nat
    BY ImageAssumption
  <1>5. IsFiniteSet(Column) /\ Cardinality(Column) = MaxImages
    BY <1>4, ColumnCount, Zenon
  <1> HIDE DEF Column
  <1>6. IsFiniteSet(ImagesOf(q)) /\ Cardinality(ImagesOf(q)) <= MaxImages
    BY <1>3, <1>5, FS_Subset
  <1>7. OnePrimary(q)
    <2>1. SUFFICES ASSUME ImagesOf(q) # {} PROVE \E i \in ImageIds : PrimariesOf(q) = {i}
      BY DEF OnePrimary
    <2>2. Cardinality(PrimariesOf(q)) = 1
      BY <2>1 DEF ImagesInit
    <2>3. PrimariesOf(q) \in SUBSET ImagesOf(q) /\ ImagesOf(q) \subseteq ImageIds
      BY DEF PrimariesOf, ImagesOf
    <2>4. IsFiniteSet(PrimariesOf(q))
      BY <1>6, <2>3, FS_Subset
    <2>5. PICK i : PrimariesOf(q) = {i}
      BY <2>2, <2>4, FS_Singleton
    <2> QED
      BY <2>3, <2>5
  <1> QED
    BY <1>2, <1>6, <1>7 DEF Tidy, Whole

LEMMA WholeNext ==
    ASSUME CatalogueInv, ImagesAll, WholeInv, Next
    PROVE  WholeInv'
  <1> USE DEF CatalogueInv
  <1>1. PICK r \in Requests :
           \/ CategoriesStep(r) /\ UNCHANGED <<productVars, imageVars>>
           \/ removeWithProducts(r)
           \/ ProductsStep(r) /\ UNCHANGED <<categoryVars, imageVars>>
           \/ ImagesStep(r) /\ UNCHANGED <<categoryVars, productVars>>
           \/ imageRequestFails(r) /\ UNCHANGED <<categoryVars, productVars>>
    BY DEF Next
  <1>2. ImagesInv
    BY DEF ImagesAll
  <1>3. CASE CategoriesStep(r) /\ UNCHANGED <<productVars, imageVars>>
    BY <1>3, OthersTidy
  <1>4. CASE removeWithProducts(r)
    BY <1>2, <1>4, CascadeTidy
  <1>5. CASE ProductsStep(r) /\ UNCHANGED <<categoryVars, imageVars>>
    BY <1>5, OthersTidy
  <1>6. CASE ImagesStep(r) /\ UNCHANGED productVars
    BY <1>2, <1>6, StartTidy, FindProductTidy, UploadsTidy, StoreImagesTidy, FindImageTidy,
       DeleteFileTidy, DeleteRowTidy, FindNextTidy, FlagsTidy DEF ImagesStep
  <1>7. CASE imageRequestFails(r) /\ UNCHANGED productVars
    BY <1>2, <1>7, FailsTidy
  <1> QED
    BY <1>1, <1>3, <1>4, <1>5, <1>6, <1>7

LEMMA WholeStutter ==
    ASSUME WholeInv, UNCHANGED vars
    PROVE  WholeInv'
  <1>1. UNCHANGED <<call, pc, seen, images, disturbed, products>>
    BY DEF vars, callVars, imageVars, productVars
  <1>2. ASSUME NEW q \in ProductIds PROVE Tidy(q)'
    <2>1. /\ ImagesOf(q)' = ImagesOf(q) /\ PrimariesOf(q)' = PrimariesOf(q)
          /\ AtWork(q)' = AtWork(q) /\ Tidy(q)
      BY <1>1 DEF ImagesOf, PrimariesOf, AtWork, WholeInv
    <2>2. ASSUME Whole(q) PROVE Whole(q)'
      <3>1. \A s \in AtWork(q) : Room(s, q) /\ Flag(s, q) => Room(s, q)' /\ Flag(s, q)'
        BY <1>1, <2>1 DEF Room, Flag
      <3>2. OnePrimary(q) => OnePrimary(q)'
        BY <2>1 DEF OnePrimary
      <3> QED
        BY <1>1, <2>1, <2>2, <3>1, <3>2 DEF Whole
    <2> QED
      BY <1>1, <2>1, <2>2 DEF Tidy
  <1> QED
    BY <1>2 DEF WholeInv

(* Image requests of a product that do not overlap, and no removal of its  *)
(* primary image that breaks off, leave it with no more images than the    *)
(* limit, of which one is the primary one.                                 *)
THEOREM OnePrimaryImage == Spec => []ImagesSoundUnlessDisturbed
  <1>1. Init => CatalogueInv /\ ImagesAll /\ WholeInv
    BY CatalogueInit, ImagesInitOK, WholeInit
  <1>2. CatalogueInv /\ ImagesAll /\ WholeInv /\ [Next]_vars
           => (CatalogueInv /\ ImagesAll /\ WholeInv)'
    BY CatalogueStep, CatalogueStutter, ImagesNext, ImagesStutter, WholeNext, WholeStutter
  <1>3. WholeInv => ImagesSoundUnlessDisturbed
    <2>1. SUFFICES ASSUME WholeInv, NEW q \in ProductIds, q \notin disturbed
                   PROVE  /\ Cardinality(ImagesOf(q)) <= MaxImages
                          /\ AtWork(q) = {} /\ ImagesOf(q) # {}
                                => Cardinality(PrimariesOf(q)) = 1
      BY DEF ImagesSoundUnlessDisturbed
    <2>2. Whole(q)
      BY <2>1 DEF WholeInv, Tidy
    <2>3. ASSUME AtWork(q) = {}, ImagesOf(q) # {}
          PROVE  Cardinality(PrimariesOf(q)) = 1
      <3>1. PICK i : PrimariesOf(q) = {i}
        BY <2>2, <2>3 DEF Whole, OnePrimary
      <3> QED
        BY <3>1, FS_Singleton
    <2> QED
      BY <2>2, <2>3 DEF Whole
  <1> QED
    BY <1>1, <1>2, <1>3, PTL DEF Spec

=============================================================================
