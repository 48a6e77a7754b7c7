----------------------------- MODULE Inventory -----------------------------
(***************************************************************************)
(* InventoryService over the `inventory` table.                            *)
(*                                                                         *)
(* A call is one invocation of reserveStock, releaseStock or deductStock.  *)
(* Each `await` of the service is a point where other calls run, so a call *)
(* is a small process: one action per database statement, with the values  *)
(* it keeps in local variables across the await.                           *)
(*                                                                         *)
(* Data left out: timestamps, log wording, the back-off delay (a call may  *)
(* take its next step at any time anyway).  low_stock_threshold is written *)
(* by no code, so it is a constant.                                        *)
(***************************************************************************)
EXTENDS Integers, Sequences, FiniteSets, Totals

CONSTANTS
    Calls,              \* the service calls, each made at most once
    Variants,           \* the product variants
    ItemLists,          \* the item lists a call may be made with
    Ops,                \* the operations called, out of AllOps
    InitialStocks,      \* dto.initialStock of the variants
    LowStockThreshold,  \* inventory.low_stock_threshold
    MAX_RETRY,          \* inventory.service.ts:8
    NoRow               \* findFirst found no row

AllOps == {"reserve", "release", "deduct"}

Item == [variantId : Variants, quantity : Nat \ {0}]    \* @IsInt() @Min(1)
Row  == [quantity : Int, reserved : Int, version : Nat]

ASSUME InventoryAssumption ==
    /\ ItemLists \subseteq Seq(Item)
    /\ Ops \subseteq AllOps
    /\ InitialStocks \subseteq Nat
    /\ LowStockThreshold \in Nat
    /\ MAX_RETRY \in Nat \ {0}
    /\ NoRow \notin Row /\ NoRow \notin [quantity : Int, reserved : Int]

VARIABLES
    stock,      \* the table: [Variants -> Row or NoRow]
    pc,         \* where each call stands
    op,         \* the operation of each call
    items,      \* its argument
    idx,        \* the item its `for` loop is at
    attempt,    \* attempt parameter of reserveSingleItem
    current,    \* the row read by reserveSingleItem
    outcome,    \* how the call returned
    affected,   \* the items whose UPDATE affected a row
    alerts      \* [LOW STOCK] lines logged about each variant

callVars == <<pc, op, items, idx, attempt, current, outcome, affected>>
vars == <<stock, pc, op, items, idx, attempt, current, outcome, affected, alerts>>

-----------------------------------------------------------------------------
(* The SQL statements.                                                     *)

Available(r) == r.quantity - r.reserved

Low(r) == Available(r) <= LowStockThreshold

\* the check after reserveSingleItem's first read
Enough(r, q) == r # NoRow /\ q <= Available(r)

\* WHERE clause and SET clause of reserveSingleItem's UPDATE
CanReserve(r, seen, q) ==
    r # NoRow /\ r.version = seen.version /\ Available(r) >= q
SameVersionRow(r, q) ==     \* plausible bug: version not bumped
    [r EXCEPT !.reserved = @ + q]
ReservedRow(r, q) ==
    [quantity |-> r.quantity, reserved |-> r.reserved + q, version |-> r.version + 1]

\* releaseStock
ReleaseUnguarded(r, q) == r # NoRow     \* plausible bug: WHERE without reserved
CanRelease(r, q) == r # NoRow /\ r.reserved >= q
ReleasedRow(r, q) == [r EXCEPT !.reserved = @ - q]

\* deductStock
DeductUnguarded(r, q) == r # NoRow /\ r.quantity >= q   \* plausible bug, likewise
CanDeduct(r, q) == r # NoRow /\ r.reserved >= q /\ r.quantity >= q
DeductedOnHand(r, q) == [r EXCEPT !.quantity = @ - q]   \* plausible bug: still reserved
DeductedRow(r, q) ==
    [quantity |-> r.quantity - q, reserved |-> r.reserved - q, version |-> r.version]

-----------------------------------------------------------------------------
(* Initially the rows are as ProductService creates them.                  *)
Init ==
    /\ stock \in [Variants ->
                    [quantity : InitialStocks, reserved : {0}, version : {1}]]
    /\ pc = [c \in Calls |-> "idle"]
    /\ op = [c \in Calls |-> "none"]
    /\ items = [c \in Calls |-> <<>>]
    /\ idx = [c \in Calls |-> 1]
    /\ attempt = [c \in Calls |-> 0]
    /\ current = [c \in Calls |-> NoRow]
    /\ outcome = [c \in Calls |-> "none"]
    /\ affected = [c \in Calls |-> {}]
    /\ alerts = [v \in Variants |-> 0]

Qty(c) == items[c][idx[c]].quantity
Variant(c) == items[c][idx[c]].variantId

(* The first statement of the operation's loop body. *)
Entry(o) == IF o = "reserve" THEN "read" ELSE o

(* The `for` loop goes to the next item, or the call returns.              *)
NextItem(c) ==
    /\ idx' = [idx EXCEPT ![c] = @ + 1]
    /\ attempt' = [attempt EXCEPT ![c] = 0]
    /\ current' = [current EXCEPT ![c] = NoRow]
    /\ IF idx[c] < Len(items[c])
       THEN pc' = [pc EXCEPT ![c] = Entry(op[c])] /\ UNCHANGED outcome
       ELSE /\ pc' = [pc EXCEPT ![c] = "done"]
            /\ outcome' = [outcome EXCEPT ![c] = "ok"]

(* The call throws: the items already handled stay as they are.            *)
Throw(c, error) ==
    /\ pc' = [pc EXCEPT ![c] = "done"]
    /\ outcome' = [outcome EXCEPT ![c] = error]
    /\ UNCHANGED <<op, items, idx, attempt, current, affected>>

(***************************************************************************)
(* A caller (the admin controller, OrderService, OrderProcessor) calls an  *)
(* operation.                                                              *)
(***************************************************************************)
Call(c) ==
    /\ pc[c] = "idle"
    /\ \E o \in Ops, is \in ItemLists :
        /\ op' = [op EXCEPT ![c] = o]
        /\ items' = [items EXCEPT ![c] = is]
        /\ IF is = <<>>
           THEN /\ pc' = [pc EXCEPT ![c] = "done"]
                /\ outcome' = [outcome EXCEPT ![c] = "ok"]
           ELSE pc' = [pc EXCEPT ![c] = Entry(o)] /\ UNCHANGED outcome
    /\ UNCHANGED <<stock, idx, attempt, current, affected, alerts>>

(***************************************************************************)
(* reserveSingleItem: findFirst, and the check of what is available.       *)
(***************************************************************************)
ReadShort(c) ==
    /\ pc[c] = "read"
    /\ ~Enough(stock[Variant(c)], Qty(c))
    /\ Throw(c, "insufficient")
    /\ UNCHANGED <<stock, alerts>>

ReadEnough(c) ==
    /\ pc[c] = "read"
    /\ Enough(stock[Variant(c)], Qty(c))
    /\ current' = [current EXCEPT ![c] = stock[Variant(c)]]
    /\ pc' = [pc EXCEPT ![c] = "update"]
    /\ UNCHANGED <<stock, op, items, idx, attempt, outcome, affected, alerts>>

TriesOneMore(c) == attempt[c] >= MAX_RETRY      \* plausible bugs: off by one
TriesOneLess(c) == attempt[c] >= MAX_RETRY - 2

(* The check that ends the recursion.                                      *)
LastAttempt(c) == attempt[c] >= MAX_RETRY - 1

(***************************************************************************)
(* The compare-and-set UPDATE affects the row ...                          *)
(***************************************************************************)
UpdateTakes(c) ==
    /\ pc[c] = "update"
    /\ CanReserve(stock[Variant(c)], current[c], Qty(c))
    /\ stock' = [stock EXCEPT ![Variant(c)] = ReservedRow(@, Qty(c))]
    /\ affected' = [affected EXCEPT ![c] = @ \cup {idx[c]}]
    /\ pc' = [pc EXCEPT ![c] = "after"]
    /\ UNCHANGED <<op, items, idx, attempt, current, outcome, alerts>>

(* Plausible bug: the UPDATE is repeated with the version read at first.   *)
UpdateAgain(c) ==
    /\ pc[c] = "update"
    /\ ~CanReserve(stock[Variant(c)], current[c], Qty(c))
    /\ UNCHANGED vars

(* ... or not, and the call reads again ...                                *)
UpdateRetry(c) ==
    /\ pc[c] = "update"
    /\ ~CanReserve(stock[Variant(c)], current[c], Qty(c))
    /\ ~LastAttempt(c)
    /\ attempt' = [attempt EXCEPT ![c] = @ + 1]
    /\ pc' = [pc EXCEPT ![c] = "read"]
    /\ UNCHANGED <<stock, op, items, idx, current, outcome, affected, alerts>>

(* ... or gives up.                                                        *)
UpdateConflict(c) ==
    /\ pc[c] = "update"
    /\ ~CanReserve(stock[Variant(c)], current[c], Qty(c))
    /\ LastAttempt(c)
    /\ Throw(c, "conflict")
    /\ UNCHANGED <<stock, alerts>>

(***************************************************************************)
(* The second read, which decides about the low-stock alert.               *)
(***************************************************************************)
CrossedStrictly(before, after) ==       \* plausible bug: < for <=
    after # NoRow /\ ~Low(before) /\ Available(after) < LowStockThreshold
Crossed(before, after) ==
    after # NoRow /\ ~Low(before) /\ Low(after)

ReadAfter(c) ==
    /\ pc[c] = "after"
    /\ alerts' = IF Crossed(current[c], stock[Variant(c)])
                 THEN [alerts EXCEPT ![Variant(c)] = @ + 1]
                 ELSE alerts
    /\ NextItem(c)
    /\ UNCHANGED <<stock, op, items, affected>>

(***************************************************************************)
(* One item of releaseStock.                                               *)
(***************************************************************************)
ReleaseItem(c) ==
    /\ pc[c] = "release"
    /\ LET v == Variant(c) IN
        IF CanRelease(stock[v], Qty(c))
        THEN /\ stock' = [stock EXCEPT ![v] = ReleasedRow(@, Qty(c))]
             /\ affected' = [affected EXCEPT ![c] = @ \cup {idx[c]}]
        ELSE UNCHANGED <<stock, affected>>              \* only a warning
    /\ NextItem(c)
    /\ UNCHANGED <<op, items, alerts>>

(***************************************************************************)
(* One item of deductStock.                                                *)
(***************************************************************************)
DeductItem(c) ==
    /\ pc[c] = "deduct"
    /\ LET v == Variant(c) IN
        IF CanDeduct(stock[v], Qty(c))
        THEN /\ stock' = [stock EXCEPT ![v] = DeductedRow(@, Qty(c))]
             /\ affected' = [affected EXCEPT ![c] = @ \cup {idx[c]}]
        ELSE UNCHANGED <<stock, affected>>              \* only a warning
    /\ NextItem(c)
    /\ UNCHANGED <<op, items, alerts>>

(***************************************************************************)
(* The database refuses a statement of the call, which propagates.         *)
(***************************************************************************)
DbError(c) ==
    /\ pc[c] \in {"read", "update", "after", "release", "deduct"}
    /\ Throw(c, "error")
    /\ UNCHANGED <<stock, alerts>>

(***************************************************************************)
(* A category is removed, and by cascade its products, their variants and  *)
(* the rows of their stock.                                                *)
(***************************************************************************)
DropVariant(v) ==
    /\ stock[v] # NoRow
    /\ stock' = [stock EXCEPT ![v] = NoRow]
    /\ UNCHANGED <<callVars, alerts>>

Progress(c) ==
    \/ ReadShort(c) \/ ReadEnough(c)
    \/ UpdateTakes(c) \/ UpdateRetry(c) \/ UpdateConflict(c)
    \/ ReadAfter(c)
    \/ ReleaseItem(c) \/ DeductItem(c)

Step(c) == Progress(c) \/ DbError(c)

AllDone == (\A c \in Calls : pc[c] = "done") /\ UNCHANGED vars

Next ==
    \/ \E c \in Calls : Call(c) \/ Step(c)
    \/ \E v \in Variants : DropVariant(v)
    \/ AllDone

Spec == Init /\ [][Next]_vars

(* The event loop runs every call that is waiting for a statement; nothing *)
(* makes a statement fail.                                                 *)
FairSpec == Spec /\ \A c \in Calls : WF_vars(Progress(c))

-----------------------------------------------------------------------------
(* Properties                                                              *)

\* The rows are rows, and each call is at a point of its operation.
TypeOK ==
    /\ stock \in [Variants -> Row \cup {NoRow}]
    /\ pc \in [Calls -> {"idle", "read", "update", "after", "release", "deduct", "done"}]
    /\ op \in [Calls -> AllOps \cup {"none"}]
    /\ items \in [Calls -> ItemLists \cup {<<>>}]
    /\ idx \in [Calls -> Nat \ {0}]
    /\ attempt \in [Calls -> 0 .. MAX_RETRY - 1]
    /\ current \in [Calls -> Row \cup {NoRow}]
    /\ outcome \in [Calls -> {"none", "ok", "insufficient", "conflict", "error"}]
    /\ affected \in [Calls -> SUBSET (Nat \ {0})]
    /\ alerts \in [Variants -> Nat]

\* Inventory is never oversold: whatever the order of the calls, the reserved
\* units of a variant are units it has, and never negative.
NoOversell ==
    \A v \in Variants :
        stock[v] # NoRow => 0 <= stock[v].reserved /\ stock[v].reserved <= stock[v].quantity

\* Although only reserveStock bumps `version`, a version that has not moved
\* since the read means that what was read as available still is: release and
\* deduct never take available units away.  The third conjunct of the WHERE
\* clause is therefore never the one that fails.
VersionVouchesForRead ==
    \A c \in Calls :
        LET r == stock[Variant(c)] IN
        (pc[c] = "update" /\ r # NoRow /\ r.version = current[c].version)
            => Available(r) >= Qty(c)

\* A call answers 409 only after the row has been reserved MAX_RETRY times
\* (versions start at 1), or has been deleted: the retries are not spent on
\* releases, deductions or a shortage of stock.
ConflictMeansContention ==
    \A c \in Calls :
        outcome[c] = "conflict" =>
            LET r == stock[Variant(c)] IN r = NoRow \/ r.version > MAX_RETRY

(* Units of v in the items of a call whose UPDATE affected a row.          *)
Taken(c, v) ==
    [i \in DOMAIN items[c] |->
        IF i \in affected[c] /\ items[c][i].variantId = v THEN items[c][i].quantity ELSE 0]

(* Units of v that the calls of operation o have set aside, given back or   *)
(* taken away so far.                                                      *)
TakenByCall(o, v) == [c \in Calls |-> IF op[c] = o THEN Total(Taken(c, v)) ELSE 0]
Units(o, v) == Total(TakenByCall(o, v))

\* Every unit counted as reserved was reserved by the UPDATE of one item of
\* one call, exactly once, and has been neither released nor deducted since;
\* a retried item is not reserved twice.
ReservedUnitsAccounted ==
    \A v \in Variants :
        stock[v] # NoRow =>
            stock[v].reserved =
                Units("reserve", v) - Units("release", v) - Units("deduct", v)

\* Unless something is released, a crossing is never missed: a variant that
\* started above the threshold and is low has been announced, or a call that saw
\* it high is about to read it again (or died at that read).
LowStockAnnounced ==
    \A v \in Variants :
        ( /\ \A q \in InitialStocks : q > LowStockThreshold
          /\ Units("release", v) = 0
          /\ stock[v] # NoRow /\ Low(stock[v]) )
            => \/ alerts[v] > 0
               \/ \E c \in Calls : /\ pc[c] = "after" /\ Variant(c) = v
                                   /\ ~Low(current[c])
               \/ \E c \in Calls : /\ outcome[c] = "error" /\ idx[c] \in affected[c]
                                   /\ Variant(c) = v

\* Every call made returns or throws: the retry loop is bounded.
CallsReturn == \A c \in Calls : pc[c] # "idle" ~> pc[c] = "done"

-----------------------------------------------------------------------------
(* The service implements the ledger: a row without its version.           *)

LedgerRow(r) ==
    IF r = NoRow THEN NoRow ELSE [quantity |-> r.quantity, reserved |-> r.reserved]

Ledger == INSTANCE StockLedger WITH
    ledger <- [v \in Variants |-> LedgerRow(stock[v])],
    Quantities <- UNION {{is[i].quantity : i \in DOMAIN is} : is \in ItemLists}

\* Seen without versions, attempts and calls, every step of the service is one
\* atomic reserve, release or deduct of one item, or nothing.
ImplementsLedger == Ledger!Spec
=============================================================================
