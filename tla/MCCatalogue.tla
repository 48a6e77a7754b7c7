---------------------------- MODULE MCCatalogue ----------------------------
(* Small instances of Catalogue.                                           *)
EXTENDS Catalogue, TLC

CONSTANTS top, sub, ann, ben, shoes, boots, hats, red, blue, green, k1, k2, p1, p2

(* An admin: a third category under either of two, one moved under the     *)
(* other or shut, one removed.                                             *)
AdminCalls ==
         [op : {"createCategory"}, slug : {hats}, parent : {sub}, active : {TRUE}]
    \cup {[op |-> "updateCategory", id |-> top, slug |-> None, parent |-> sub, active |-> None],
          [op |-> "updateCategory", id |-> top, slug |-> None, parent |-> "same", active |-> FALSE]}
    \cup [op : {"removeCategory"}, id : {sub}]

(* Two sellers: ann has p1, with a variant, on sale or not; ben has p2.    *)
ProductCalls ==
         {[op |-> "createProduct", seller |-> ann, category |-> sub, slug |-> green, skus |-> {k2}],
          [op |-> "updateProduct", seller |-> ann, product |-> p1, slug |-> green, category |-> sub],
          [op |-> "removeProduct", seller |-> ann, product |-> p1],
          [op |-> "addVariant", seller |-> ann, product |-> p1, sku |-> k2],
          [op |-> "removeVariant", seller |-> ann, product |-> p1, variant |-> <<p1, k1>>],
          [op |-> "updateVariant", seller |-> ann, product |-> p1, variant |-> <<p1, k1>>,
           sku |-> k2, active |-> None],
          [op |-> "updateVariant", seller |-> ben, product |-> p2, variant |-> <<p1, k1>>,
           sku |-> None, active |-> TRUE],
          [op |-> "updateVariant", seller |-> ann, product |-> p1, variant |-> <<p1, k1>>,
           sku |-> None, active |-> TRUE]}

ImageCalls ==
         {[op |-> "addImages", seller |-> ann, product |-> p1, files |-> 1, oneName |-> FALSE],
          [op |-> "addImages", seller |-> ann, product |-> p1, files |-> 2, oneName |-> TRUE]}
    \cup [op : {"removeImage"}, seller : {ann}, product : {p1}, image : {<<p1, 1>>, <<p1, 2>>}]
    \cup [op : {"setPrimary"}, seller : {ann}, product : {p1}, image : {<<p1, 2>>}]

AllCalls == AdminCalls \cup ProductCalls \cup ImageCalls

(* sub lies under top and holds both products; p1 has a variant on sale   *)
(* and two images or none.                                                 *)
Seed ==
    /\ categories = [c \in CategoryIds |->
          CASE c = top -> [slug |-> shoes, parent |-> None, active |-> TRUE]
            [] c = sub -> [slug |-> boots, parent |-> top, active |-> TRUE]
            [] OTHER   -> None]
    /\ products = [p \in ProductIds |->
          CASE p = p1 -> [seller |-> ann, category |-> sub, slug |-> red, deleted |-> FALSE]
            [] p = p2 -> [seller |-> ben, category |-> sub, slug |-> blue, deleted |-> FALSE]
            [] OTHER  -> None]
    /\ variants = [v \in VariantIds |->
          IF v = <<p1, k1>> THEN [product |-> p1, sku |-> k1, active |-> TRUE] ELSE None]
    /\ \E n \in {0, 2} : images = [i \in ImageIds |->
          IF i[1] = p1 /\ i[2] <= n
          THEN [product |-> p1, primary |-> i[2] = 1, file |-> i] ELSE None]

MCInit == Seed /\ Init

MCSpec == MCInit /\ [][Next]_vars

RequestSymmetry == Permutations(Requests)
=============================================================================
