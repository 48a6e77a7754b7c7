---------------------------- MODULE StockLedger ----------------------------
(***************************************************************************)
(* What the inventory promises its callers, with no trace of how: every    *)
(* variant has a quantity on hand, part of which is reserved, and each     *)
(* reserve, release and deduct of one item takes effect at once or not at  *)
(* all.  There are no versions, no retries and no requests here; module    *)
(* Inventory has them and is checked and proved to implement this one.     *)
(***************************************************************************)
EXTENDS Integers

CONSTANTS
    Variants,       \* the product variants that have a stock row
    Quantities,     \* the quantities a caller may ask for
    InitialStocks,  \* the quantities a stock row may be created with
    NoRow           \* stands for the absence of a row

VARIABLE ledger     \* [Variants -> [quantity, reserved] or NoRow]

Free(l) == l.quantity - l.reserved

Init == ledger \in [Variants -> [quantity : InitialStocks, reserved : {0}]]

(* Set q units aside; only units nobody else has set aside.                *)
Reserve(v, q) ==
    /\ ledger[v] # NoRow
    /\ q <= Free(ledger[v])
    /\ ledger' = [ledger EXCEPT ![v] =
                    [quantity |-> @.quantity, reserved |-> @.reserved + q]]

(* Give q reserved units back.                                             *)
Release(v, q) ==
    /\ ledger[v] # NoRow
    /\ q <= ledger[v].reserved
    /\ ledger' = [ledger EXCEPT ![v] =
                    [quantity |-> @.quantity, reserved |-> @.reserved - q]]

(* q reserved units leave the warehouse.                                   *)
Deduct(v, q) ==
    /\ ledger[v] # NoRow
    /\ q <= ledger[v].reserved
    /\ ledger' = [ledger EXCEPT ![v] =
                    [quantity |-> @.quantity - q, reserved |-> @.reserved - q]]

(* The variant is deleted, and its row with it.                            *)
Drop(v) ==
    /\ ledger[v] # NoRow
    /\ ledger' = [ledger EXCEPT ![v] = NoRow]

Next ==
    \E v \in Variants :
        \/ \E q \in Quantities : Reserve(v, q) \/ Release(v, q) \/ Deduct(v, q)
        \/ Drop(v)

Spec == Init /\ [][Next]_ledger
=============================================================================
