----------------------------- MODULE Catalogue -----------------------------
(***************************************************************************)
(* The catalogue: categories, products with their variants, images, with   *)
(* requests of admins and sellers in flight together, and the foreign keys *)
(* that tie the tables: the removal of a category takes its products along,*)
(* and their variants and image rows with them.                            *)
(***************************************************************************)
EXTENDS ProductImages

vars == <<callVars, categoryVars, productVars, imageVars>>

Init == CallsInit /\ CategoriesInit /\ ProductsInit /\ ImagesInit

OnlyTheProducts(r) ==                         \* plausible bug: no further cascade
    /\ deleteCategory(r)
    /\ products' = [p \in ProductIds |->
                        IF p \in InCategory(call[r].id) THEN None ELSE products[p]]
    /\ UNCHANGED <<variants, imageVars>>

(* onDelete: Cascade                                                       *)
removeWithProducts(r) ==
    LET gone == InCategory(call[r].id) IN
    /\ deleteCategory(r)
    /\ products' = [p \in ProductIds |-> IF p \in gone THEN None ELSE products[p]]
    /\ variants' = [v \in VariantIds |->
          IF variants[v] # None /\ variants[v].product \in gone THEN None ELSE variants[v]]
    /\ images' = [i \in ImageIds |->
          IF images[i] # None /\ images[i].product \in gone THEN None ELSE images[i]]
    /\ UNCHANGED <<files, kept, disturbed>>

Next == \E r \in Requests :
    \/ CategoriesStep(r) /\ UNCHANGED <<productVars, imageVars>>
    \/ removeWithProducts(r)
    \/ ProductsStep(r) /\ UNCHANGED <<categoryVars, imageVars>>
    \/ ImagesStep(r) /\ UNCHANGED <<categoryVars, productVars>>
    \/ imageRequestFails(r) /\ UNCHANGED <<categoryVars, productVars>>

Spec == Init /\ [][Next]_vars

(* Type correctness. *)
TypeOK ==
    /\ call \in [Requests -> Calls \cup {None}]
    /\ CategoriesTypeOK /\ ProductsTypeOK /\ ImagesTypeOK
=============================================================================
