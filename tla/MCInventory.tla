---------------------------- MODULE MCInventory ----------------------------
(* Small instances of Inventory.                                           *)
EXTENDS Inventory

CONSTANTS a, b

It(v, q) == [variantId |-> v, quantity |-> q]

\* an empty cart, one of one and of two variants, and an item repeated in one request
MixedLists == {<<>>, <<It(a, 1)>>, <<It(a, 2), It(b, 1)>>, <<It(a, 1), It(a, 1)>>}
=============================================================================
