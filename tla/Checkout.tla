------------------------------ MODULE Checkout ------------------------------
(***************************************************************************)
(* OrderService.checkout, with the tables and the services it touches: the *)
(* idempotency keys, the carts, the orders and their items, the stock (as  *)
(* the ledger that InventoryService implements), the payments and the      *)
(* payment intents that live at Stripe.                                    *)
(*                                                                         *)
(* A request is one HTTP call of POST /orders/checkout.  It is a process   *)
(* with one action per statement it awaits; each statement may also throw, *)
(* and pc then goes where the code's catch blocks send it.  A crash of the *)
(* server leaves a request where it is for good.                           *)
(*                                                                         *)
(* Data left out: prices, addresses' texts, order numbers (a collision is  *)
(* one more way for CreateOrder to throw).  An order has the identity of   *)
(* the request that creates it.                                            *)
(***************************************************************************)
EXTENDS Integers, FiniteSets, Totals, OrderStatus

CONSTANTS
    Requests,       \* the HTTP requests
    Params,         \* what they may ask: records [user, key, address]
    Variants,       \* the product variants
    InitialStocks,  \* quantities in stock at first
    MaxCartQty,     \* bound: units of one variant in one cart
    Shopping,       \* whether carts change while requests run
    KeysExpire,     \* whether the 24 h of a key may run out
    Faults,         \* whether statements may throw and servers crash
    AnswersLost,    \* whether, then, Stripe's answer may get lost on its way
    None            \* no row, no response

Users == {p.user : p \in Params}
Keys  == {p.key : p \in Params}
Addresses == {p.address : p \in Params}

KeyRow == [hash : [user : Users, address : Addresses],
           response : Requests \cup {None},
           expired : BOOLEAN]

ASSUME CheckoutAssumption ==
    /\ InitialStocks \subseteq Nat /\ MaxCartQty \in Nat \ {0}
    /\ Shopping \in BOOLEAN /\ KeysExpire \in BOOLEAN
    /\ Faults \in BOOLEAN /\ AnswersLost \in BOOLEAN
    /\ Params \subseteq [user : Users, key : Keys, address : Addresses]
    /\ None \notin Requests /\ None \notin Params /\ None \notin KeyRow
    /\ None \notin [quantity : Nat, reserved : Nat]

VARIABLES
    keyRow,     \* idempotencyKey: [Keys -> [hash, response, expired] or None]
    cart,       \* cartItem: [Users -> [Variants -> quantity]], 0 is no row
    stock,      \* inventory: [Variants -> [quantity, reserved]]
    status,     \* order: [Requests -> Status or None]
    ordered,    \* cartItems as read, and orderItem: [Requests -> [Variants -> Nat]]
    payments,   \* payment: the orders that have a row
    intents,    \* at Stripe: the orders a payment intent was created for
    pc,         \* the statement each request is about to run
    req,        \* its user and dto
    todo,       \* the items its loop has not handled
    outcome,    \* how it was answered
    result,     \* the order in the answer
    crashed,    \* the requests whose server died
    lapsed      \* observer: the keys some row of which has expired

dbVars  == <<keyRow, cart, stock, status, ordered, payments, intents>>
vars    == <<keyRow, cart, stock, status, ordered, payments, intents,
             pc, req, todo, outcome, result, crashed, lapsed>>

NoItems == [v \in Variants |-> 0]
InCart(items) == {v \in Variants : items[v] > 0}

Ledger == INSTANCE StockLedger WITH
    ledger <- stock, Quantities <- 1 .. MaxCartQty, NoRow <- None

UserHash(r) == [user |-> req[r].user]       \* plausible bug: without the dto

(* sha256 of { userId, dto }                                               *)
requestHash(r) == [user |-> req[r].user, address |-> req[r].address]

Init ==
    /\ keyRow = [k \in Keys |-> None]
    /\ cart \in [Users -> [Variants -> 0 .. MaxCartQty]]
    /\ Ledger!Init
    /\ status = [r \in Requests |-> None]
    /\ ordered = [r \in Requests |-> NoItems]
    /\ payments = {}
    /\ intents = {}
    /\ pc = [r \in Requests |-> "idle"]
    /\ req = [r \in Requests |-> None]
    /\ todo = [r \in Requests |-> {}]
    /\ outcome = [r \in Requests |-> "none"]
    /\ result = [r \in Requests |-> None]
    /\ crashed = {}
    /\ lapsed = {}

-----------------------------------------------------------------------------
(* Control.                                                                *)

At(r, p) == pc[r] = p /\ r \notin crashed

Goto(r, p) == pc' = [pc EXCEPT ![r] = p] /\ UNCHANGED <<req, outcome, result, crashed, lapsed>>

Answer(r, o, order) ==
    /\ pc' = [pc EXCEPT ![r] = "done"]
    /\ outcome' = [outcome EXCEPT ![r] = o]
    /\ result' = [result EXCEPT ![r] = order]
    /\ UNCHANGED <<req, crashed, lapsed>>

(* The statements outside the try that deletes the key, those inside the   *)
(* inner try once stockReserved is true, and those whose failure is logged *)
(* and no more.                                                            *)
Statements == {"purge", "claim", "lookup", "cart", "address", "order",
               "reserve", "toReserved", "clear", "intent", "payment",
               "release", "cancel", "dropKey", "store"}

(* Plausible bugs: the last statement is in no try, or in the large one.   *)
StorePropagates == {"purge", "claim", "lookup", "dropKey", "store"}
StoreInside == {}

OutsideTry == {"purge", "claim", "lookup", "dropKey"}
BestEffort == {"store"}

FlagTooEarly == {"reserve", "toReserved", "clear", "intent", "payment"}
StockReserved == {"toReserved", "clear", "intent", "payment"}

(* Where an exception thrown by a statement leads.                         *)
Catch == [p \in Statements |->
    CASE p \in OutsideTry             -> "done"        \* propagates
      [] p \in BestEffort             -> "created"     \* answered all the same
      [] p \in StockReserved          -> "release"     \* inner catch
      [] p \in {"reserve", "release"} -> "cancel"      \* inner catch, the rest of it
      [] OTHER                        -> "dropKey"]    \* outer catch

Throw(r, p) ==
    LET to == Catch[p] IN
    /\ IF to = "done" THEN Answer(r, "failed", None)
       ELSE IF to = "created" THEN Answer(r, "created", r)
       ELSE Goto(r, to)
    /\ todo' = [todo EXCEPT ![r] = IF to = "release" THEN InCart(ordered[r]) ELSE {}]

(* A statement of the request throws and changes nothing.                  *)
DbError(r) ==
    /\ Faults /\ r \notin crashed /\ pc[r] \in Statements
    /\ Throw(r, pc[r])
    /\ UNCHANGED dbVars

(* The server dies.                                                        *)
Crash(r) ==
    /\ Faults /\ r \notin crashed /\ pc[r] \in Statements
    /\ crashed' = crashed \cup {r}
    /\ UNCHANGED <<dbVars, pc, req, todo, outcome, result, lapsed>>

-----------------------------------------------------------------------------
(* Step 1: the idempotency key.                                            *)

Start(r) ==
    /\ At(r, "idle")
    /\ \E p \in Params : req' = [req EXCEPT ![r] = p]
    /\ pc' = [pc EXCEPT ![r] = "purge"]
    /\ UNCHANGED <<dbVars, todo, outcome, result, crashed, lapsed>>

(* deleteMany of the key if it has expired                                 *)
Purge(r) ==
    /\ At(r, "purge")
    /\ LET k == req[r].key IN
        keyRow' = [keyRow EXCEPT ![k] = IF @ # None /\ @.expired THEN None ELSE @]
    /\ Goto(r, "claim")
    /\ UNCHANGED <<cart, stock, status, ordered, payments, intents, todo>>

(* create, which the unique constraint lets one request do                 *)
Claim(r) ==
    /\ At(r, "claim")
    /\ LET k == req[r].key IN
        IF keyRow[k] = None
        THEN /\ keyRow' = [keyRow EXCEPT ![k] =
                  [hash |-> requestHash(r), response |-> None, expired |-> FALSE]]
             /\ Goto(r, "cart")
        ELSE Goto(r, "lookup") /\ UNCHANGED keyRow      \* P2002
    /\ UNCHANGED <<cart, stock, status, ordered, payments, intents, todo>>

(* Plausible bug: the duplicate waits for the first request to finish.     *)
LookUpWaits(r) ==
    /\ At(r, "lookup")
    /\ LET existing == keyRow[req[r].key] IN
        IF existing # None /\ existing.response # None
        THEN Answer(r, "replayed", existing.response) /\ UNCHANGED <<dbVars, todo>>
        ELSE UNCHANGED vars

(* findUnique of the key another request holds, or held a moment ago       *)
LookUp(r) ==
    /\ At(r, "lookup")
    /\ LET existing == keyRow[req[r].key] IN
        IF existing = None THEN Answer(r, "key_used", None)
        ELSE IF existing.hash # requestHash(r) THEN Answer(r, "key_used", None)
        ELSE IF existing.response # None THEN Answer(r, "replayed", existing.response)
        ELSE Answer(r, "in_progress", None)
    /\ UNCHANGED <<dbVars, todo>>

-----------------------------------------------------------------------------
(* Step 2: the order.                                                      *)

(* The cart is read once, with its items; an empty one is an exception.    *)
ReadCart(r) ==
    /\ At(r, "cart")
    /\ LET items == cart[req[r].user] IN
        IF InCart(items) = {}
        THEN Throw(r, "cart") /\ UNCHANGED ordered
        ELSE /\ ordered' = [ordered EXCEPT ![r] = items]
             /\ Goto(r, "address") /\ UNCHANGED todo
    /\ UNCHANGED <<keyRow, cart, stock, status, payments, intents>>

(* The address is the user's, or not (any more).                           *)
FindAddress(r) ==
    /\ At(r, "address")
    /\ \/ Goto(r, "order") /\ UNCHANGED todo
       \/ Throw(r, "address")
    /\ UNCHANGED dbVars

(* $transaction: the order and its items                                   *)
CreateOrder(r) ==
    /\ At(r, "order")
    /\ status' = [status EXCEPT ![r] = "pending"]
    /\ todo' = [todo EXCEPT ![r] = InCart(ordered[r])]
    /\ Goto(r, "reserve")
    /\ UNCHANGED <<keyRow, cart, stock, ordered, payments, intents>>

(* reserveStock, item by item.  The read after an item's UPDATE may throw, *)
(* with the item reserved.                                                 *)
ReserveItem(r) ==
    /\ At(r, "reserve")
    /\ \E v \in todo[r] :
        /\ Ledger!Reserve(v, ordered[r][v])
        /\ \/ /\ todo' = [todo EXCEPT ![r] = @ \ {v}]
              /\ Goto(r, IF todo[r] = {v} THEN "toReserved" ELSE "reserve")
           \/ Faults /\ Throw(r, "reserve")
    /\ UNCHANGED <<keyRow, cart, status, ordered, payments, intents>>

(* 422: one item is short; what the loop reserved before it stays so.      *)
ReserveShort(r) ==
    /\ At(r, "reserve")
    /\ \E v \in todo[r] : ordered[r][v] > Ledger!Free(stock[v])
    /\ Throw(r, "reserve")
    /\ UNCHANGED dbVars

(* transitionOrderStatus(stock_reserved): nobody else knows the order yet, *)
(* so its read and its write are one step, and its check never throws.     *)
ToStockReserved(r) ==
    /\ At(r, "toReserved")
    /\ MayBecome(status[r], "stock_reserved")
    /\ status' = [status EXCEPT ![r] = "stock_reserved"]
    /\ Goto(r, "clear")
    /\ UNCHANGED <<keyRow, cart, stock, ordered, payments, intents, todo>>

(* Plausible bug: the payment row is written before the intent exists.      *)
ClearCartThenRow(r) ==
    /\ At(r, "clear")
    /\ cart' = [cart EXCEPT ![req[r].user] = NoItems]
    /\ Goto(r, "payment")
    /\ UNCHANGED <<keyRow, stock, status, ordered, payments, intents, todo>>

(* cartItem.deleteMany: whatever is in the cart by now                     *)
ClearCart(r) ==
    /\ At(r, "clear")
    /\ cart' = [cart EXCEPT ![req[r].user] = NoItems]
    /\ Goto(r, "intent")
    /\ UNCHANGED <<keyRow, stock, status, ordered, payments, intents, todo>>

(* createPayment, at Stripe: an answer that is lost is an exception with   *)
(* the intent created.                                                     *)
CreateIntent(r) ==
    /\ At(r, "intent")
    /\ intents' = intents \cup {r}
    /\ \/ Goto(r, "payment") /\ UNCHANGED todo
       \/ Faults /\ AnswersLost /\ Throw(r, "intent")
    /\ UNCHANGED <<keyRow, cart, stock, status, ordered, payments>>

(* createPayment, the row                                                  *)
CreatePayment(r) ==
    /\ At(r, "payment")
    /\ payments' = payments \cup {r}
    /\ Goto(r, "store")
    /\ UNCHANGED <<keyRow, cart, stock, status, ordered, intents, todo>>

-----------------------------------------------------------------------------
(* The catch blocks.                                                       *)

(* releaseStock, item by item                                              *)
ReleaseItem(r) ==
    /\ At(r, "release")
    /\ \E v \in todo[r] :
        /\ IF stock[v].reserved >= ordered[r][v]
           THEN Ledger!Release(v, ordered[r][v])
           ELSE UNCHANGED stock                         \* only a warning
        /\ todo' = [todo EXCEPT ![r] = @ \ {v}]
        /\ Goto(r, IF todo[r] = {v} THEN "cancel" ELSE "release")
    /\ UNCHANGED <<keyRow, cart, status, ordered, payments, intents>>

(* transitionOrderStatus(cancelled)                                        *)
Cancel(r) ==
    /\ At(r, "cancel")
    /\ MayBecome(status[r], "cancelled")
    /\ status' = [status EXCEPT ![r] = "cancelled"]
    /\ Goto(r, "dropKey")
    /\ UNCHANGED <<keyRow, cart, stock, ordered, payments, intents, todo>>

(* delete, by the key alone                                                *)
DropKey(r) ==
    /\ At(r, "dropKey")
    /\ keyRow' = [keyRow EXCEPT ![req[r].key] = None]
    /\ Answer(r, "failed", None)
    /\ UNCHANGED <<cart, stock, status, ordered, payments, intents, todo>>

-----------------------------------------------------------------------------
(* Step 3: the cached response.                                            *)

StoreResponse(r) ==
    /\ At(r, "store")
    /\ LET k == req[r].key IN
        keyRow' = [keyRow EXCEPT ![k] = IF @ = None THEN @ ELSE [@ EXCEPT !.response = r]]
    /\ Answer(r, "created", r)
    /\ UNCHANGED <<cart, stock, status, ordered, payments, intents, todo>>

-----------------------------------------------------------------------------
(* The surroundings.                                                       *)

(* CartService, the statement that changes the cart                        *)
AddToCart(u, v, q) ==
    /\ cart[u][v] + q <= MaxCartQty
    /\ cart' = [cart EXCEPT ![u][v] = @ + q]

UpdateCartItem(u, v, q) ==
    /\ cart[u][v] > 0
    /\ cart' = [cart EXCEPT ![u][v] = q]

RemoveFromCart(u, v) ==
    /\ cart[u][v] > 0
    /\ cart' = [cart EXCEPT ![u][v] = 0]

EmptyCart(u) == cart' = [cart EXCEPT ![u] = NoItems]

Shop ==
    /\ Shopping
    /\ \E u \in Users, v \in Variants :
        \/ \E q \in 1 .. MaxCartQty : AddToCart(u, v, q) \/ UpdateCartItem(u, v, q)
        \/ RemoveFromCart(u, v)
        \/ EmptyCart(u)
    /\ UNCHANGED <<keyRow, stock, status, ordered, payments, intents,
                   pc, req, todo, outcome, result, crashed, lapsed>>

Ended(r) == pc[r] \in {"idle", "done"} \/ r \in crashed

(* Between the claim of the key and the end.                               *)
PastClaim == Statements \ {"purge", "claim", "lookup"}
HoldsKey(r) == pc[r] \in PastClaim /\ r \notin crashed

(* 24 hours have passed since the row was created.  The request that       *)
(* created it does not take that long; others may be anywhere.             *)
Expire(k) ==
    /\ KeysExpire
    /\ keyRow[k] # None /\ ~keyRow[k].expired
    /\ \A r \in Requests : HoldsKey(r) => req[r].key # k
    /\ keyRow' = [keyRow EXCEPT ![k].expired = TRUE]
    /\ lapsed' = lapsed \cup {k}
    /\ UNCHANGED <<cart, stock, status, ordered, payments, intents,
                   pc, req, todo, outcome, result, crashed>>

Progress(r) ==
    \/ Purge(r) \/ Claim(r) \/ LookUp(r)
    \/ ReadCart(r) \/ FindAddress(r) \/ CreateOrder(r)
    \/ ReserveItem(r) \/ ReserveShort(r) \/ ToStockReserved(r)
    \/ ClearCart(r) \/ CreateIntent(r) \/ CreatePayment(r)
    \/ ReleaseItem(r) \/ Cancel(r) \/ DropKey(r) \/ StoreResponse(r)

Step(r) == Progress(r) \/ DbError(r) \/ Crash(r)

(* Nobody asks any more.                                                   *)
AllEnded == (\A r \in Requests : Ended(r) /\ pc[r] # "idle") /\ UNCHANGED vars

Next ==
    \/ \E r \in Requests : Start(r) \/ Step(r)
    \/ \E k \in Keys : Expire(k)
    \/ Shop
    \/ AllEnded

Spec == Init /\ [][Next]_vars

(* The event loop runs every request that has a statement to run; nothing  *)
(* makes a statement fail or a server die.                                 *)
FairSpec == Spec /\ \A r \in Requests : WF_vars(Progress(r))

-----------------------------------------------------------------------------
(* Properties                                                              *)

\* The tables hold rows of their types, and each request is somewhere in
\* checkout.
TypeOK ==
    /\ keyRow \in [Keys -> KeyRow \cup {None}]
    /\ cart \in [Users -> [Variants -> 0 .. MaxCartQty]]
    /\ stock \in [Variants -> [quantity : Nat, reserved : Nat]]
    /\ status \in [Requests -> Status \cup {None}]
    /\ ordered \in [Requests -> [Variants -> 0 .. MaxCartQty]]
    /\ payments \subseteq intents /\ intents \subseteq Requests
    /\ pc \in [Requests -> Statements \cup {"idle", "done"}]
    /\ req \in [Requests -> Params \cup {None}]
    /\ todo \in [Requests -> SUBSET Variants]
    /\ outcome \in [Requests -> {"none", "created", "replayed", "key_used",
                                 "in_progress", "failed"}]
    /\ result \in [Requests -> Requests \cup {None}]
    /\ crashed \subseteq Requests /\ lapsed \subseteq Keys

\* The key is a lock: two requests with the same key are never both past the
\* claim, whoever fails, crashes or finds the key taken in between (only who
\* created the lock may delete it: docs/dev-logs/week6.md:92).  It is proved on
\* the way to ImplementsOrderOnce, which is the stronger of the two.
OneRunnerPerKey ==
    \A r, s \in Requests :
        HoldsKey(r) /\ HoldsKey(s) /\ req[r].key = req[s].key => r = s

\* As long as a key has not expired, one checkout at most completes under it:
\* no retry makes a second order with a second payment, even when the response
\* could not be stored or the server died (order.service.ts:247-252).
OneCheckoutPerKey ==
    \A r, s \in payments :
        req[r].key = req[s].key /\ req[r].key \notin lapsed => r = s

\* An answer taken from the key is the answer to the same request of the same
\* user under the same key, and its order was really placed.
ReplayIsFaithful ==
    \A r \in Requests :
        outcome[r] = "replayed" =>
            LET o == result[r] IN
            /\ req[o] = req[r]
            /\ o \in payments /\ status[o] = "stock_reserved"

(* Units of v a request holds, by where it is (or was when it crashed).    *)
Holds(r, v) ==
    IF \/ pc[r] = "reserve" /\ v \notin todo[r]
       \/ pc[r] \in {"toReserved", "clear", "intent", "payment", "store"}
       \/ pc[r] = "release" /\ v \in todo[r]
       \/ outcome[r] = "created"
    THEN ordered[r][v] ELSE 0

\* What a checkout has reserved stays reserved for it: no other checkout, and
\* no clean-up after another checkout's failure, gives its units away.
ReservationsBacked ==
    \A v \in Variants :
        Total([r \in Requests |-> Holds(r, v)]) <= stock[v].reserved

\* What customers see of the keys is module OrderOnce: a checkout that took its
\* key keeps it until it fails without an order or the key lapses, though its
\* server die; who is told of a failure has no order, who is told of an order
\* asked for it.  Each statement is one step of that, or none
\* (order.service.ts:124-130, :247-252).
Owners == {r \in Requests : pc[r] \in PastClaim \/ r \in payments}
Answered == {r \in Requests : pc[r] = "done"}

Promise == INSTANCE OrderOnce WITH
    Asks <- Params, asked <- req, owners <- Owners, placed <- payments,
    answered <- Answered, answer <- result, dead <- crashed

ImplementsOrderOnce == Promise!Spec

\* Every request is answered, unless its server dies.
RequestsEnd == \A r \in Requests : pc[r] # "idle" ~> Ended(r)

\* "Stock is RESERVED, not deducted. Released if cancelled."
\* (docs/event-flows.md): once nobody runs, only orders that stand hold stock.
ReleasedIfCancelled ==
    (\A r \in Requests : Ended(r)) =>
        \A v \in Variants :
            stock[v].reserved =
                Total([r \in Requests |->
                          IF status[r] = "stock_reserved" THEN ordered[r][v] ELSE 0])

\* Nothing after a successful external call may fall into the branch that
\* cancels (docs/adr/008:37): a cancelled order has no intent at Stripe, as long
\* as Stripe's answers arrive and a call that throws has created none
\* (AnswersLost is FALSE where this is checked, so that only a statement after
\* the call can be to blame: payment.service.ts:37).
NoIntentForCancelled ==
    \A r \in intents : status[r] # "cancelled"
=============================================================================
