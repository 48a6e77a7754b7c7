------------------------------ MODULE Products ------------------------------
(***************************************************************************)
(* ProductService: products and their variants, which belong to a seller   *)
(* and to a category.  Names other than slugs and SKUs, prices and texts   *)
(* are left out; so is the stock row, which every statement that inserts   *)
(* or deletes a variant inserts or deletes with it.                        *)
(***************************************************************************)
EXTENDS CategoryTree

CONSTANTS
    Sellers, ProductSlugs, Skus,
    OldProducts     \* ids of stored products

ProductIds == Requests \cup OldProducts
VariantIds == ProductIds \X Skus        \* who created the variant, under which SKU

Product == [seller : Sellers, category : CategoryIds, slug : ProductSlugs, deleted : BOOLEAN]
Variant == [product : ProductIds, sku : Skus, active : BOOLEAN]

ProductCall ==
    [op : {"createProduct"}, seller : Sellers, category : CategoryIds, slug : ProductSlugs,
     skus : SUBSET Skus]
    \cup [op : {"updateProduct"}, seller : Sellers, product : ProductIds,
          category : CategoryIds \cup {None}, slug : ProductSlugs \cup {None}]
    \cup [op : {"removeProduct"}, seller : Sellers, product : ProductIds]
    \cup [op : {"addVariant"}, seller : Sellers, product : ProductIds, sku : Skus]
    \cup [op : {"updateVariant"}, seller : Sellers, product : ProductIds, variant : VariantIds,
          sku : Skus \cup {None}, active : BOOLEAN \cup {None}]
    \cup [op : {"removeVariant"}, seller : Sellers, product : ProductIds, variant : VariantIds]

ASSUME ProductAssumption ==
    /\ Requests \cap OldProducts = {}
    /\ None \notin Product /\ None \notin Variant /\ None \notin ProductSlugs \cup Skus

VARIABLES
    products,   \* product: [ProductIds -> Product or None]
    variants    \* productVariant, with its inventory: [VariantIds -> Variant or None]

productVars == <<products, variants>>

InCategory(c)  == {p \in ProductIds : products[p] # None /\ products[p].category = c}
WithSlug(slug) == {p \in ProductIds : products[p] # None /\ products[p].slug = slug}
WithSku(sku)   == {v \in VariantIds : variants[v] # None /\ variants[v].sku = sku}

ProductsInit ==
    /\ products \in [ProductIds -> Product \cup {None}]
    /\ \A r \in Requests : products[r] = None
    /\ \A s \in ProductSlugs : Cardinality(WithSlug(s)) <= 1
    /\ \A p \in OldProducts : products[p] # None => categories[products[p].category] # None
    /\ variants \in [VariantIds -> Variant \cup {None}]
    /\ \A v \in VariantIds : variants[v] # None =>
        /\ v[1] \in OldProducts /\ products[v[1]] # None
        /\ variants[v].product = v[1] /\ variants[v].sku = v[2]
    /\ \A s \in Skus : Cardinality(WithSku(s)) <= 1

-----------------------------------------------------------------------------
(* create                                                                  *)

productBySlug(r) ==
    /\ pc[r] = "createProduct"
    /\ IF WithSlug(call[r].slug) # {} THEN End(r, "refused") ELSE Goto(r, "productCategory", None)
    /\ UNCHANGED productVars

productCategory(r) ==
    /\ pc[r] = "productCategory"
    /\ IF categories[call[r].category] = None THEN End(r, "refused")
       ELSE Goto(r, "insertProduct", None)
    /\ UNCHANGED productVars

ForgetsForeignKey(r) == WithSlug(call[r].slug) = {}     \* plausible bug: no FK

(* What the constraints of the tables ask of the row.                      *)
ProductFits(r) == WithSlug(call[r].slug) = {} /\ categories[call[r].category] # None

(* One transaction: the product, its variants, their inventory.            *)
insertProduct(r) ==
    LET c == call[r] IN
    /\ pc[r] = "insertProduct"
    /\ ProductFits(r) /\ \A s \in c.skus : WithSku(s) = {}
    /\ products' = [products EXCEPT ![r] = [seller |-> c.seller, category |-> c.category,
                                            slug |-> c.slug, deleted |-> FALSE]]
    /\ variants' = [v \in VariantIds |-> IF v \in {r} \X c.skus
                        THEN [product |-> r, sku |-> v[2], active |-> TRUE] ELSE variants[v]]
    /\ End(r, "ok")

-----------------------------------------------------------------------------
(* The other methods first look the product up and ask whose it is.        *)

OwnProduct(r) ==
    LET p == products[call[r].product] IN
    p # None /\ ~ p.deleted /\ p.seller = call[r].seller

AfterFind(c) ==
    CASE c.op = "updateProduct" -> IF c.slug = None THEN "writeProduct" ELSE "newSlug"
      [] c.op = "removeProduct" -> "softDelete"
      [] c.op = "addVariant"    -> "newSku"
      [] c.op \in {"updateVariant", "removeVariant"} -> "findVariant"

findProduct(r) ==
    /\ pc[r] = "findProduct"
    /\ IF OwnProduct(r) THEN Goto(r, AfterFind(call[r]), None) ELSE End(r, "refused")
    /\ UNCHANGED productVars

newSlug(r) ==
    /\ pc[r] = "newSlug"
    /\ IF WithSlug(call[r].slug) \ {call[r].product} # {} THEN End(r, "refused")
       ELSE Goto(r, "writeProduct", None)
    /\ UNCHANGED productVars

(* By id alone: a product removed in between is written all the same.      *)
writeProduct(r) ==
    LET c == call[r] IN
    /\ pc[r] = "writeProduct" /\ products[c.product] # None
    /\ c.slug # None => WithSlug(c.slug) \subseteq {c.product}
    /\ c.category # None => categories[c.category] # None
    /\ products' = [products EXCEPT ![c.product] =
            [seller |-> @.seller, category |-> Given(c.category, @.category),
             slug |-> Given(c.slug, @.slug), deleted |-> @.deleted]]
    /\ UNCHANGED variants
    /\ End(r, "ok")

softDelete(r) ==
    /\ pc[r] = "softDelete" /\ products[call[r].product] # None
    /\ products' = [products EXCEPT ![call[r].product].deleted = TRUE]
    /\ UNCHANGED variants
    /\ End(r, "ok")

-----------------------------------------------------------------------------
(* addVariant, updateVariant, removeVariant                                *)

PutVariant(v, row) ==
    /\ variants' = [variants EXCEPT ![v] = row]
    /\ UNCHANGED products

newSku(r) ==
    /\ pc[r] = "newSku"
    /\ IF WithSku(call[r].sku) # {} THEN End(r, "refused")
       ELSE Goto(r, IF call[r].op = "addVariant" THEN "insertVariant" ELSE "writeVariant", seen[r])
    /\ UNCHANGED productVars

insertVariant(r) ==
    LET c == call[r] IN
    /\ pc[r] = "insertVariant" /\ WithSku(c.sku) = {} /\ products[c.product] # None
    /\ PutVariant(<<r, c.sku>>, [product |-> c.product, sku |-> c.sku, active |-> TRUE])
    /\ End(r, "ok")

AnyVariant(r) == variants[call[r].variant] # None       \* plausible bug: by id alone

VariantFound(r) ==
    /\ variants[call[r].variant] # None
    /\ variants[call[r].variant].product = call[r].product

findVariant(r) ==
    LET c == call[r]  row == variants[c.variant] IN
    /\ pc[r] = "findVariant"
    /\ IF ~ VariantFound(r) THEN End(r, "refused")
       ELSE Goto(r, IF c.op = "removeVariant" THEN "disable"
                    ELSE IF c.sku \in {None, row.sku} THEN "writeVariant" ELSE "newSku", row)
    /\ UNCHANGED productVars

WholeRow(r) == seen[r]                        \* plausible bug: the row as it was read
CurrentRow(r) == variants[call[r].variant]

(* data names the fields of the dto only, and the SKU only when it differs *)
(* from the one read.                                                      *)
OtherSku(r) == IF call[r].sku = seen[r].sku THEN None ELSE call[r].sku

writeVariant(r) ==
    LET c == call[r]  row == CurrentRow(r)  sku == OtherSku(r) IN
    /\ pc[r] = "writeVariant" /\ variants[c.variant] # None
    /\ sku # None => WithSku(sku) \subseteq {c.variant}
    /\ PutVariant(c.variant, [product |-> row.product, sku |-> Given(sku, row.sku),
                              active |-> Given(c.active, row.active)])
    /\ End(r, "ok")

disableVariant(r) ==
    LET v == call[r].variant IN
    /\ pc[r] = "disable" /\ variants[v] # None
    /\ PutVariant(v, [variants[v] EXCEPT !.active = FALSE])
    /\ End(r, "ok")

(* Clients name products and variants they were shown.                     *)
ProductsStart(r) == \E c \in Calls \cap ProductCall :
    /\ c.op # "createProduct" => products[c.product] # None
    /\ c.op \in {"updateVariant", "removeVariant"} => variants[c.variant] # None
    /\ Begin(r, c, IF c.op = "createProduct" THEN c.op ELSE "findProduct")
    /\ UNCHANGED productVars

ProductsStep(r) ==
    \/ ProductsStart(r)
    \/ productBySlug(r) \/ productCategory(r) \/ insertProduct(r)
    \/ findProduct(r) \/ newSlug(r) \/ writeProduct(r) \/ softDelete(r)
    \/ newSku(r) \/ insertVariant(r) \/ findVariant(r) \/ writeVariant(r) \/ disableVariant(r)

-----------------------------------------------------------------------------
(* Type correctness. *)
ProductsTypeOK ==
    /\ products \in [ProductIds -> Product \cup {None}]
    /\ variants \in [VariantIds -> Variant \cup {None}]

(* However requests overlap, a product is in a category that exists and a  *)
(* variant belongs to a product that exists, the removal of a category     *)
(* with all its products included.                                         *)
NothingDangles ==
    /\ \A p \in ProductIds : products[p] # None => categories[products[p].category] # None
    /\ \A v \in VariantIds : variants[v] # None => products[variants[v].product] # None

(* What belongs to a product changes only by a request of its seller, or   *)
(* goes with its category.                                                 *)
OnlyOwnerChanges == [][
    /\ \A p \in ProductIds : products[p] # None /\ products'[p] # products[p] =>
        \/ \E r \in Requests : pc'[r] # pc[r] /\ call[r].op \in {"updateProduct", "removeProduct"}
                            /\ call[r].seller = products[p].seller
        \/ products'[p] = None /\ categories'[products[p].category] = None
    /\ \A v \in VariantIds : variants[v] # None /\ variants'[v] # variants[v] =>
        LET owner == products[variants[v].product].seller IN
        \/ \E r \in Requests : pc'[r] # pc[r] /\ call[r].op \in {"updateVariant", "removeVariant"}
                            /\ call[r].seller = owner
        \/ variants'[v] = None /\ products'[variants[v].product] = None
    ]_<<callVars, categoryVars, productVars>>

(* A variant that was disabled is on sale again only when a request asks   *)
(* for that: an update of its other fields, read before, does not do it.   *)
DisabledUntilAsked == [][\A v \in VariantIds :
    /\ variants[v] # None /\ ~ variants[v].active
    /\ variants'[v] # None /\ variants'[v].active
    => \E r \in Requests : pc[r] = "writeVariant" /\ pc'[r] = "ok"
                        /\ call[r].variant = v /\ call[r].active = TRUE
    ]_<<callVars, categoryVars, productVars>>
=============================================================================
