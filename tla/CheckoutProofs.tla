--------------------------- MODULE CheckoutProofs ---------------------------
(***************************************************************************)
(* The idempotency key of a checkout is a lock, one checkout at most       *)
(* completes under it, and what it holds is reserved: proofs, for any      *)
(* requests, keys, carts and stocks, with errors, crashes and expiring     *)
(* keys.                                                                   *)
(***************************************************************************)
EXTENDS Checkout, TotalsProofs, TLAPS

(* What the types of the steps rest on.                                    *)
Located(r) ==
    /\ pc[r] # "idle" => req[r] \in Params
    /\ pc[r] = "payment" => r \in intents

TInv == TypeOK /\ \A r \in Requests : Located(r)

(* The row of a key is there as long as a request works under it ...       *)
HeldKeysStand ==
    \A r \in Requests :
        HoldsKey(r) => keyRow[req[r].key] # None /\ ~keyRow[req[r].key].expired

ExpiryIsSeen ==
    \A k \in Keys : keyRow[k] # None /\ keyRow[k].expired => k \in lapsed

(* ... and, once its order has a payment, until it expires: the request    *)
(* only has the response to store, and no other gets the key.              *)
PaidKeysStand ==
    \A r \in payments :
        /\ pc[r] \in {"store", "done"}
        /\ req[r].key \notin lapsed =>
              /\ keyRow[req[r].key] # None
              /\ \A s \in Requests :
                    HoldsKey(s) /\ req[s].key = req[r].key => s = r

(* The inductive invariant of the keys, beside TInv.                       *)
Locks ==
    /\ HeldKeysStand
    /\ ExpiryIsSeen
    /\ OneRunnerPerKey
    /\ PaidKeysStand
    /\ OneCheckoutPerKey

-----------------------------------------------------------------------------
(* What a request asks for is in the domain of the tables.                 *)
LEMMA ParamParts ==
    ASSUME NEW p \in Params
    PROVE  p.user \in Users /\ p.key \in Keys /\ p.address \in Addresses
  BY DEF Users, Keys, Addresses

LEMMA Destinations ==
    ASSUME NEW p \in Statements
    PROVE  /\ Catch[p] \in {"done", "created", "release", "cancel", "dropKey"}
           /\ Catch[p] = "created" => p = "store"
           /\ p = "store" => Catch[p] = "created"
           /\ p \in {"purge", "claim", "lookup"} => Catch[p] = "done"
  BY DEF Catch, Statements, OutsideTry, BestEffort, StockReserved

(* A request moves on: what it has asked, the crashes and the expiries     *)
(* are as they were.                                                       *)
Moved(r, P) ==
    /\ \E p \in P : pc' = [pc EXCEPT ![r] = p]
    /\ UNCHANGED <<req, crashed, lapsed>>
    /\ outcome' \in [Requests -> {"none", "created", "replayed", "key_used",
                                  "in_progress", "failed"}]
    /\ result' \in [Requests -> Requests \cup {None}]

LEMMA GotoMoves ==
    ASSUME TypeOK, NEW r \in Requests, NEW p, Goto(r, p)
    PROVE  Moved(r, {p})
  BY DEF TypeOK, Goto, Moved

LEMMA AnswerMoves ==
    ASSUME TypeOK, NEW r \in Requests, NEW order \in Requests \cup {None},
           NEW o \in {"created", "replayed", "key_used", "in_progress", "failed"},
           Answer(r, o, order)
    PROVE  Moved(r, {"done"})
  BY DEF TypeOK, Answer, Moved

(* Exceptions, from the statements of the try and from the others.         *)
Handlers == {"release", "cancel", "dropKey", "done"}

LEMMA ThrowMoves ==
    ASSUME TypeOK, NEW r \in Requests, NEW p \in Statements, Throw(r, p)
    PROVE  /\ Moved(r, Handlers)
           /\ p \in {"purge", "claim", "lookup", "store"} => Moved(r, {"done"})
           /\ todo' \in [Requests -> SUBSET Variants]
  <1>1. todo' \in [Requests -> SUBSET Variants]
    BY DEF Throw, TypeOK, InCart
  <1>2. Catch[p] = "done" => Moved(r, {"done"})
    BY AnswerMoves DEF Throw
  <1>3. Catch[p] = "created" => Moved(r, {"done"})
    <2> SUFFICES ASSUME Catch[p] = "created" PROVE Moved(r, {"done"})
      OBVIOUS
    <2>1. Answer(r, "created", r)
      BY DEF Throw
    <2> QED
      BY <2>1, AnswerMoves
  <1>4. Catch[p] \notin {"done", "created"} => Moved(r, {Catch[p]})
    BY GotoMoves DEF Throw
  <1> QED
    BY <1>1, <1>2, <1>3, <1>4, Destinations DEF Moved, Handlers

-----------------------------------------------------------------------------
(* Type correctness.                                                       *)

DataOK ==
    /\ keyRow \in [Keys -> KeyRow \cup {None}]
    /\ cart \in [Users -> [Variants -> 0 .. MaxCartQty]]
    /\ stock \in [Variants -> [quantity : Nat, reserved : Nat]]
    /\ status \in [Requests -> Status \cup {None}]
    /\ ordered \in [Requests -> [Variants -> 0 .. MaxCartQty]]
    /\ payments \subseteq intents /\ intents \subseteq Requests

LEMMA RequestMoves ==
    ASSUME TInv, NEW r \in Requests, NEW P \in SUBSET (Statements \cup {"done"}),
           req[r] \in Params, Moved(r, P),
           todo' \in [Requests -> SUBSET Variants],
           DataOK', intents \subseteq intents', "payment" \in P => r \in intents'
    PROVE  TInv'
  <1>1. PICK p \in P : pc' = [pc EXCEPT ![r] = p]
    BY DEF Moved
  <1>2. pc' \in [Requests -> Statements \cup {"idle", "done"}]
    BY <1>1 DEF TInv, TypeOK
  <1>3. TypeOK'
    BY <1>2 DEF TInv, TypeOK, DataOK, Moved
  <1>4. ASSUME NEW s \in Requests PROVE Located(s)'
    <2>1. CASE s = r
      BY <2>1, <1>1 DEF TInv, TypeOK, Located, Moved
    <2>2. CASE s # r
      BY <2>2, <1>1 DEF TInv, TypeOK, Located, Moved
    <2> QED
      BY <2>1, <2>2
  <1> QED
    BY <1>3, <1>4 DEF TInv

LEMMA StocksStayNatural ==
    ASSUME TInv, NEW v \in Variants, NEW r \in Requests,
           \/ Ledger!Reserve(v, ordered[r][v])
           \/ stock[v].reserved >= ordered[r][v] /\ Ledger!Release(v, ordered[r][v])
    PROVE  stock' \in [Variants -> [quantity : Nat, reserved : Nat]]
  <1> DEFINE q == ordered[r][v]
  <1>1. q \in Nat /\ stock[v] \in [quantity : Nat, reserved : Nat]
    BY CheckoutAssumption DEF TInv, TypeOK
  <1>2. stock[v].quantity \in Nat /\ stock[v].reserved \in Nat
    BY <1>1
  <1>3. CASE Ledger!Reserve(v, q)
    <2>1. [quantity |-> stock[v].quantity, reserved |-> stock[v].reserved + q]
             \in [quantity : Nat, reserved : Nat]
      BY <1>1, <1>2
    <2> HIDE DEF q
    <2>2. stock' = [stock EXCEPT ![v] =
              [quantity |-> stock[v].quantity, reserved |-> stock[v].reserved + q]]
      BY <1>3 DEF Ledger!Reserve, TInv, TypeOK
    <2> QED
      BY <2>1, <2>2 DEF TInv, TypeOK
  <1>4. CASE stock[v].reserved >= q /\ Ledger!Release(v, q)
    <2>1. [quantity |-> stock[v].quantity, reserved |-> stock[v].reserved - q]
             \in [quantity : Nat, reserved : Nat]
      BY <1>1, <1>2, <1>4
    <2> HIDE DEF q
    <2>2. stock' = [stock EXCEPT ![v] =
              [quantity |-> stock[v].quantity, reserved |-> stock[v].reserved - q]]
      BY <1>4 DEF Ledger!Release, TInv, TypeOK
    <2> QED
      BY <2>1, <2>2 DEF TInv, TypeOK
  <1> QED
    BY <1>3, <1>4

LEMMA InitTyped == Init => TInv
  <1> SUFFICES ASSUME Init PROVE TInv
    OBVIOUS
  <1>1. stock \in [Variants -> [quantity : Nat, reserved : Nat]]
    <2> SUFFICES ASSUME NEW v \in Variants
                 PROVE  stock[v] \in [quantity : Nat, reserved : Nat]
      BY DEF Init, Ledger!Init
    <2>1. stock[v] \in [quantity : InitialStocks, reserved : {0}]
      BY DEF Init, Ledger!Init
    <2>2. stock[v].quantity \in Nat /\ stock[v].reserved \in Nat
      BY <2>1, CheckoutAssumption
    <2> QED
      BY <2>1, <2>2
  <1>2. NoItems \in [Variants -> 0 .. MaxCartQty]
    BY CheckoutAssumption DEF NoItems
  <1>3. TypeOK
    BY <1>1, <1>2 DEF Init, TypeOK
  <1> QED
    BY <1>3 DEF Init, TInv, Located

LEMMA RowsStayTyped ==
    ASSUME TInv, NEW r \in Requests, req[r] \in Params,
           Purge(r) \/ Claim(r) \/ DropKey(r) \/ StoreResponse(r)
    PROVE  keyRow' \in [Keys -> KeyRow \cup {None}]
  <1>1. req[r].key \in Keys /\ keyRow \in [Keys -> KeyRow \cup {None}]
    BY ParamParts DEF TInv, TypeOK
  <1>2. CASE Purge(r) \/ DropKey(r)
    BY <1>1, <1>2 DEF Purge, DropKey
  <1>3. CASE Claim(r)
    <2>1. [hash |-> requestHash(r), response |-> None, expired |-> FALSE] \in KeyRow
      BY ParamParts DEF KeyRow, requestHash
    <2> QED
      BY <1>1, <1>3, <2>1 DEF Claim
  <1>4. CASE StoreResponse(r)
    <2>1. ASSUME keyRow[req[r].key] # None
          PROVE  [keyRow[req[r].key] EXCEPT !.response = r] \in KeyRow
      BY <1>1, <2>1 DEF KeyRow
    <2> QED
      BY <1>1, <1>4, <2>1 DEF StoreResponse
  <1> QED
    BY <1>2, <1>3, <1>4

(* Steps that end the request or move it on, by what they change.          *)
LEMMA ProgressTyped ==
    ASSUME TInv, NEW r \in Requests, Progress(r)
    PROVE  TInv'
  <1> USE DEF At
  <1>0. req[r] \in Params /\ req[r].user \in Users
    BY ParamParts DEF Progress, Purge, Claim, LookUp, ReadCart, FindAddress, CreateOrder,
        ReserveItem, ReserveShort, ToStockReserved, ClearCart, CreateIntent, CreatePayment,
        ReleaseItem, Cancel, DropKey, StoreResponse, TInv, Located
  <1>1. CASE Purge(r)
    <2>1. Moved(r, {"claim"})
      BY <1>1, GotoMoves DEF Purge, TInv
    <2> QED
      BY <1>0, <1>1, <2>1, RequestMoves, RowsStayTyped
      DEF Purge, TInv, TypeOK, DataOK, Statements
  <1>2. CASE Claim(r)
    <2>1. Moved(r, {"cart", "lookup"})
      <3>1. Goto(r, "cart") \/ Goto(r, "lookup")
        BY <1>2 DEF Claim
      <3>2. Moved(r, {"cart"}) \/ Moved(r, {"lookup"})
        BY <3>1, GotoMoves DEF TInv
      <3> QED
        BY <3>2 DEF Moved
    <2> QED
      BY <1>0, <1>2, <2>1, RequestMoves, RowsStayTyped
      DEF Claim, TInv, TypeOK, DataOK, Statements
  <1>3. CASE LookUp(r)
    <2>1. ASSUME keyRow[req[r].key] # None
          PROVE  keyRow[req[r].key].response \in Requests \cup {None}
      BY <1>0, <2>1, ParamParts DEF TInv, TypeOK, KeyRow
    <2>2. Moved(r, {"done"})
      BY <1>3, <2>1, AnswerMoves DEF LookUp, TInv
    <2> QED
      BY <1>0, <1>3, <2>2, RequestMoves
      DEF LookUp, TInv, TypeOK, DataOK, dbVars, Statements
  <1>4. CASE ReadCart(r)
    <2>1. Moved(r, Handlers \cup {"address"}) /\ todo' \in [Requests -> SUBSET Variants]
      <3>1. CASE Throw(r, "cart")
        BY <3>1, ThrowMoves DEF TInv, Statements, Moved
      <3>2. CASE Goto(r, "address") /\ UNCHANGED todo
        BY <3>2, GotoMoves DEF TInv, TypeOK, Moved
      <3> QED
        BY <1>4, <3>1, <3>2 DEF ReadCart
    <2>2. ordered' \in [Requests -> [Variants -> 0 .. MaxCartQty]]
      <3>1. cart[req[r].user] \in [Variants -> 0 .. MaxCartQty]
        BY <1>0 DEF TInv, TypeOK
      <3> QED
        BY <1>4, <3>1 DEF ReadCart, TInv, TypeOK
    <2>3. DataOK'
      BY <1>4, <2>2 DEF ReadCart, TInv, TypeOK, DataOK
    <2> QED
      BY <1>0, <1>4, <2>1, <2>3, RequestMoves DEF ReadCart, Statements, Handlers
  <1>5. CASE FindAddress(r)
    <2>1. Moved(r, Handlers \cup {"order"}) /\ todo' \in [Requests -> SUBSET Variants]
      <3>1. CASE Throw(r, "address")
        BY <3>1, ThrowMoves DEF TInv, Statements, Moved
      <3>2. CASE Goto(r, "order") /\ UNCHANGED todo
        BY <3>2, GotoMoves DEF TInv, TypeOK, Moved
      <3> QED
        BY <1>5, <3>1, <3>2 DEF FindAddress
    <2> QED
      BY <1>0, <1>5, <2>1, RequestMoves
      DEF FindAddress, Statements, Handlers, TInv, TypeOK, DataOK, dbVars
  <1>6. CASE CreateOrder(r)
    <2>1. Moved(r, {"reserve"})
      BY <1>6, GotoMoves DEF CreateOrder, TInv
    <2>2. InCart(ordered[r]) \in SUBSET Variants
      BY DEF InCart
    <2>3. todo' \in [Requests -> SUBSET Variants]
      BY <1>6, <2>2 DEF CreateOrder, TInv, TypeOK
    <2> QED
      BY <1>0, <1>6, <2>1, <2>3, RequestMoves
      DEF CreateOrder, Statements, TInv, TypeOK, DataOK, Status
  <1>7. CASE ReserveItem(r)
    <2>1. PICK v \in todo[r] :
              /\ Ledger!Reserve(v, ordered[r][v])
              /\ \/ /\ todo' = [todo EXCEPT ![r] = @ \ {v}]
                    /\ Goto(r, IF todo[r] = {v} THEN "toReserved" ELSE "reserve")
                 \/ Throw(r, "reserve")
      BY <1>7 DEF ReserveItem
    <2>2. /\ Moved(r, Handlers \cup {"toReserved", "reserve"})
          /\ todo' \in [Requests -> SUBSET Variants]
      <3>1. CASE Throw(r, "reserve")
        BY <3>1, ThrowMoves DEF TInv, Statements, Moved
      <3>2. CASE /\ todo' = [todo EXCEPT ![r] = @ \ {v}]
                 /\ Goto(r, IF todo[r] = {v} THEN "toReserved" ELSE "reserve")
        <4>1. Moved(r, {IF todo[r] = {v} THEN "toReserved" ELSE "reserve"})
          BY <3>2, GotoMoves DEF TInv
        <4> QED
          BY <3>2, <4>1 DEF TInv, TypeOK, Moved
      <3> QED
        BY <2>1, <3>1, <3>2
    <2>3. v \in Variants
      BY DEF TInv, TypeOK
    <2>4. DataOK'
      BY <1>7, <2>1, <2>3, StocksStayNatural DEF ReserveItem, TInv, TypeOK, DataOK
    <2> QED
      BY <1>0, <1>7, <2>2, <2>4, RequestMoves DEF ReserveItem, Statements, Handlers
  <1>8. CASE ReserveShort(r)
    <2>1. Moved(r, Handlers) /\ todo' \in [Requests -> SUBSET Variants]
      BY <1>8, ThrowMoves DEF ReserveShort, TInv, Statements
    <2> QED
      BY <1>0, <1>8, <2>1, RequestMoves
      DEF ReserveShort, Statements, Handlers, TInv, TypeOK, DataOK, dbVars
  <1>9. CASE ToStockReserved(r)
    <2>1. Moved(r, {"clear"})
      BY <1>9, GotoMoves DEF ToStockReserved, TInv
    <2> QED
      BY <1>0, <1>9, <2>1, RequestMoves
      DEF ToStockReserved, Statements, TInv, TypeOK, DataOK, Status
  <1>10. CASE ClearCart(r)
    <2>1. Moved(r, {"intent"})
      BY <1>10, GotoMoves DEF ClearCart, TInv
    <2>2. NoItems \in [Variants -> 0 .. MaxCartQty]
      BY CheckoutAssumption DEF NoItems
    <2> QED
      BY <1>0, <1>10, <2>1, <2>2, RequestMoves
      DEF ClearCart, Statements, TInv, TypeOK, DataOK
  <1>11. CASE CreateIntent(r)
    <2>1. Moved(r, Handlers \cup {"payment"}) /\ todo' \in [Requests -> SUBSET Variants]
      <3>1. CASE Throw(r, "intent")
        BY <3>1, ThrowMoves DEF TInv, Statements, Moved
      <3>2. CASE Goto(r, "payment") /\ UNCHANGED todo
        BY <3>2, GotoMoves DEF TInv, TypeOK, Moved
      <3> QED
        BY <1>11, <3>1, <3>2 DEF CreateIntent
    <2>2. DataOK' /\ intents \subseteq intents' /\ r \in intents'
      BY <1>11 DEF CreateIntent, TInv, TypeOK, DataOK
    <2> QED
      BY <1>0, <2>1, <2>2, RequestMoves DEF Statements, Handlers
  <1>12. CASE CreatePayment(r)
    <2>1. Moved(r, {"store"})
      BY <1>12, GotoMoves DEF CreatePayment, TInv
    <2> QED
      BY <1>0, <1>12, <2>1, RequestMoves
      DEF CreatePayment, Statements, TInv, TypeOK, DataOK, Located
  <1>13. CASE ReleaseItem(r)
    <2>1. PICK v \in todo[r] :
              /\ IF stock[v].reserved >= ordered[r][v]
                 THEN Ledger!Release(v, ordered[r][v]) ELSE UNCHANGED stock
              /\ todo' = [todo EXCEPT ![r] = @ \ {v}]
              /\ Goto(r, IF todo[r] = {v} THEN "cancel" ELSE "release")
      BY <1>13 DEF ReleaseItem
    <2>2. /\ Moved(r, {"cancel", "release"})
          /\ todo' \in [Requests -> SUBSET Variants]
      <3>1. Moved(r, {IF todo[r] = {v} THEN "cancel" ELSE "release"})
        BY <2>1, GotoMoves DEF TInv
      <3> QED
        BY <2>1, <3>1 DEF TInv, TypeOK, Moved
    <2>3. v \in Variants
      BY DEF TInv, TypeOK
    <2>4. stock' \in [Variants -> [quantity : Nat, reserved : Nat]]
      BY <2>1, <2>3, StocksStayNatural DEF TInv, TypeOK
    <2>5. DataOK'
      BY <1>13, <2>4 DEF ReleaseItem, TInv, TypeOK, DataOK
    <2> QED
      BY <1>0, <1>13, <2>2, <2>5, RequestMoves DEF ReleaseItem, Statements
  <1>14. CASE Cancel(r)
    <2>1. Moved(r, {"dropKey"})
      BY <1>14, GotoMoves DEF Cancel, TInv
    <2> QED
      BY <1>0, <1>14, <2>1, RequestMoves
      DEF Cancel, Statements, TInv, TypeOK, DataOK, Status
  <1>15. CASE DropKey(r)
    <2>1. Moved(r, {"done"})
      BY <1>15, AnswerMoves DEF DropKey, TInv
    <2> QED
      BY <1>0, <1>15, <2>1, RequestMoves, RowsStayTyped
      DEF DropKey, TInv, TypeOK, DataOK, Statements
  <1>16. CASE StoreResponse(r)
    <2>1. Moved(r, {"done"})
      BY <1>16, AnswerMoves DEF StoreResponse, TInv
    <2> QED
      BY <1>0, <1>16, <2>1, RequestMoves, RowsStayTyped
      DEF StoreResponse, TInv, TypeOK, DataOK, Statements
  <1> QED
    BY <1>1, <1>2, <1>3, <1>4, <1>5, <1>6, <1>7, <1>8, <1>9, <1>10, <1>11, <1>12,
       <1>13, <1>14, <1>15, <1>16 DEF Progress

(* Exceptions and crashes.                                                 *)
LEMMA FaultsTyped ==
    ASSUME TInv, NEW r \in Requests, DbError(r) \/ Crash(r)
    PROVE  TInv'
  <1>1. CASE DbError(r)
    <2>1. pc[r] \in Statements /\ req[r] \in Params
      BY <1>1 DEF DbError, TInv, Located, Statements
    <2>2. Moved(r, Handlers) /\ todo' \in [Requests -> SUBSET Variants]
      BY <1>1, <2>1, ThrowMoves DEF DbError, TInv
    <2> QED
      BY <1>1, <2>1, <2>2, RequestMoves
      DEF DbError, dbVars, TInv, TypeOK, DataOK, Statements, Handlers
  <1>2. CASE Crash(r)
    BY <1>2 DEF Crash, dbVars, TInv, TypeOK, Located
  <1> QED
    BY <1>1, <1>2

LEMMA StartTyped ==
    ASSUME TInv, NEW r \in Requests, Start(r)
    PROVE  TInv'
  <1>1. PICK p \in Params : req' = [req EXCEPT ![r] = p]
    BY DEF Start
  <1>2. pc' = [pc EXCEPT ![r] = "purge"]
    BY DEF Start
  <1>3. TypeOK'
    BY <1>1, <1>2 DEF Start, dbVars, TInv, TypeOK, Statements
  <1>4. \A s \in Requests : Located(s)'
    BY <1>1, <1>2 DEF Start, dbVars, TInv, TypeOK, Located
  <1> QED
    BY <1>3, <1>4 DEF TInv

(* The carts, the clock.                                                   *)
LEMMA OutsideTyped ==
    ASSUME TInv, Shop \/ \E k \in Keys : Expire(k)
    PROVE  TInv'
  <1>1. CASE Shop
    <2>1. cart' \in [Users -> [Variants -> 0 .. MaxCartQty]]
      <3>1. PICK u \in Users, v \in Variants :
                \/ \E q \in 1 .. MaxCartQty : AddToCart(u, v, q) \/ UpdateCartItem(u, v, q)
                \/ RemoveFromCart(u, v)
                \/ EmptyCart(u)
        BY <1>1 DEF Shop
      <3>2. MaxCartQty \in Nat /\ cart \in [Users -> [Variants -> 0 .. MaxCartQty]]
        BY CheckoutAssumption DEF TInv, TypeOK
      <3>3. CASE EmptyCart(u)
        BY <3>2, <3>3 DEF EmptyCart, NoItems
      <3>4. CASE RemoveFromCart(u, v)
        BY <3>2, <3>4 DEF RemoveFromCart
      <3>5. ASSUME NEW q \in 1 .. MaxCartQty, AddToCart(u, v, q)
            PROVE  cart' \in [Users -> [Variants -> 0 .. MaxCartQty]]
        <4>1. cart[u][v] + q \in 0 .. MaxCartQty
          BY <3>2, <3>5 DEF AddToCart
        <4> QED
          BY <3>2, <3>5, <4>1 DEF AddToCart
      <3>6. ASSUME NEW q \in 1 .. MaxCartQty, UpdateCartItem(u, v, q)
            PROVE  cart' \in [Users -> [Variants -> 0 .. MaxCartQty]]
        BY <3>2, <3>6 DEF UpdateCartItem
      <3> QED
        BY <3>1, <3>3, <3>4, <3>5, <3>6
    <2> QED
      BY <1>1, <2>1 DEF Shop, TInv, TypeOK, Located
  <1>2. ASSUME NEW k \in Keys, Expire(k)
        PROVE  TInv'
    <2>1. [keyRow[k] EXCEPT !.expired = TRUE] \in KeyRow
      <3>1. keyRow[k] \in KeyRow
        BY <1>2 DEF Expire, TInv, TypeOK
      <3> QED
        BY <3>1 DEF KeyRow
    <2> QED
      BY <1>2, <2>1 DEF Expire, TInv, TypeOK, Located
  <1> QED
    BY <1>1, <1>2

LEMMA TypeStep == TInv /\ [Next]_vars => TInv'
  <1> SUFFICES ASSUME TInv, [Next]_vars PROVE TInv'
    OBVIOUS
  <1>1. CASE UNCHANGED vars
    BY <1>1 DEF vars, TInv, TypeOK, Located
  <1> QED
    BY <1>1, StartTyped, ProgressTyped, FaultsTyped, OutsideTyped
    DEF Next, Step, AllEnded

\* Type correctness, for every set of requests and what they ask.
THEOREM CheckoutTyped == Spec => []TypeOK
  <1>1. TInv => TypeOK
    BY DEF TInv
  <1> QED
    BY <1>1, InitTyped, TypeStep, PTL DEF Spec

-----------------------------------------------------------------------------
(* The key.                                                                *)

LEMMA Holders ==
    ASSUME TInv, NEW r \in Requests, HoldsKey(r)
    PROVE  req[r] \in Params /\ req[r] # None /\ req[r].key \in Keys
  <1>1. pc[r] # "idle"
    BY DEF HoldsKey, PastClaim, Statements
  <1> QED
    BY <1>1, ParamParts, CheckoutAssumption DEF TInv, Located

(* Steps that leave the keys and the payments alone, and in which no       *)
(* request comes to hold a key.                                            *)
LEMMA QuietSteps ==
    ASSUME TInv, Locks,
           UNCHANGED <<keyRow, payments, req, crashed, lapsed>>,
           NEW r \in Requests, NEW p, pc' = [pc EXCEPT ![r] = p],
           p \in {"idle", "purge", "claim", "lookup", "done"} \/ HoldsKey(r),
           pc[r] \in {"store", "done"} => p = "done"
    PROVE  Locks'
  <1>1. \A s \in Requests : HoldsKey(s)' => HoldsKey(s)
    BY DEF HoldsKey, PastClaim, Statements, TInv, TypeOK
  <1>2. \A s \in payments : pc'[s] \in {"store", "done"}
    BY DEF Locks, PaidKeysStand, TInv, TypeOK
  <1> QED
    BY <1>1, <1>2 DEF Locks, HeldKeysStand, ExpiryIsSeen, OneRunnerPerKey,
                      PaidKeysStand, OneCheckoutPerKey

(* An expired row is nobody's, and its key has lapsed.                     *)
LEMMA PurgeKeepsLocks ==
    ASSUME TInv, Locks, NEW r \in Requests, Purge(r)
    PROVE  Locks'
  <1> DEFINE k == req[r].key
  <1>1. /\ pc' = [pc EXCEPT ![r] = "claim"] /\ pc[r] = "purge"
        /\ UNCHANGED <<payments, req, crashed, lapsed>>
        /\ keyRow' = [keyRow EXCEPT ![k] = IF @ # None /\ @.expired THEN None ELSE @]
    BY DEF Purge, At, Goto
  <1>2. k \in Keys
    BY <1>1, ParamParts DEF TInv, Located
  <1>3. \A s \in Requests : HoldsKey(s)' => HoldsKey(s)
    BY <1>1 DEF HoldsKey, PastClaim, Statements, TInv, TypeOK
  <1> HIDE DEF k
  <1>4. \A j \in Keys : keyRow'[j] = keyRow[j]
                        \/ (keyRow'[j] = None /\ keyRow[j] # None /\ keyRow[j].expired)
    BY <1>1, <1>2 DEF TInv, TypeOK
  <1>5. \A s \in payments : s \in Requests /\ pc[s] \in {"store", "done"}
                            /\ pc'[s] = pc[s] /\ req[s].key \in Keys
    BY <1>1, ParamParts DEF Locks, PaidKeysStand, TInv, TypeOK, Located
  <1>6. HeldKeysStand'
    BY <1>1, <1>3, <1>4, Holders DEF Locks, HeldKeysStand
  <1>7. ExpiryIsSeen'
    BY <1>1, <1>4 DEF Locks, ExpiryIsSeen
  <1>8. OneRunnerPerKey' /\ OneCheckoutPerKey'
    BY <1>1, <1>3 DEF Locks, OneRunnerPerKey, OneCheckoutPerKey
  <1>9. PaidKeysStand'
    BY <1>1, <1>3, <1>4, <1>5 DEF Locks, PaidKeysStand, ExpiryIsSeen
  <1> QED
    BY <1>6, <1>7, <1>8, <1>9 DEF Locks

(* The claim finds no row: nobody holds the key, and what has been paid    *)
(* under it was paid before it lapsed.                                     *)
LEMMA ClaimKeepsLocks ==
    ASSUME TInv, Locks, NEW r \in Requests, Claim(r)
    PROVE  Locks'
  <1> DEFINE k == req[r].key
  <1>1. CASE keyRow[k] # None
    BY <1>1, QuietSteps DEF Claim, At, Goto
  <1>2. CASE keyRow[k] = None
    <2> DEFINE row == [hash |-> requestHash(r), response |-> None, expired |-> FALSE]
    <2>1. /\ pc' = [pc EXCEPT ![r] = "cart"] /\ pc[r] = "claim"
          /\ UNCHANGED <<payments, req, crashed, lapsed>>
          /\ keyRow' = [keyRow EXCEPT ![k] = row]
      BY <1>2 DEF Claim, At, Goto
    <2>2. k \in Keys
      BY <2>1, ParamParts DEF TInv, Located
    <2>3. row # None /\ ~row.expired
      <3>1. row \in KeyRow
        BY <2>1, ParamParts DEF TInv, Located, KeyRow, requestHash
      <3> QED
        BY <3>1, CheckoutAssumption
    <2>4. \A s \in Requests : HoldsKey(s) => req[s].key # k
      BY <1>2 DEF Locks, HeldKeysStand
    <2>5. \A s \in Requests : HoldsKey(s)' => HoldsKey(s) \/ s = r
      BY <2>1 DEF HoldsKey, PastClaim, Statements, TInv, TypeOK
    <2>6. \A s \in payments : /\ s \in Requests /\ pc[s] \in {"store", "done"}
                              /\ pc'[s] = pc[s] /\ req[s].key \in Keys
                              /\ req[s].key \notin lapsed => req[s].key # k
      BY <1>2, <2>1, ParamParts DEF Locks, PaidKeysStand, TInv, TypeOK, Located
    <2> HIDE DEF row
    <2>7. \A j \in Keys : keyRow'[j] = IF j = k THEN row ELSE keyRow[j]
      BY <2>1, <2>2 DEF TInv, TypeOK
    <2> HIDE DEF k
    <2>8. HeldKeysStand'
      <3>1. ASSUME NEW s \in Requests, HoldsKey(s)'
            PROVE  (keyRow[req[s].key] # None /\ ~keyRow[req[s].key].expired)'
        BY <2>1, <2>2, <2>3, <2>5, <2>7, <3>1, Holders DEF Locks, HeldKeysStand, k
      <3> QED
        BY <3>1 DEF HeldKeysStand
    <2>9. ExpiryIsSeen'
      BY <2>1, <2>3, <2>7 DEF Locks, ExpiryIsSeen
    <2>10. OneRunnerPerKey'
      BY <2>1, <2>4, <2>5 DEF Locks, OneRunnerPerKey, k
    <2>11. PaidKeysStand'
      BY <2>1, <2>5, <2>6, <2>7 DEF Locks, PaidKeysStand, k
    <2>12. OneCheckoutPerKey'
      BY <2>1 DEF Locks, OneCheckoutPerKey
    <2> QED
      BY <2>8, <2>9, <2>10, <2>11, <2>12 DEF Locks
  <1> QED
    BY <1>1, <1>2

(* A failed checkout gives the key up.  It held it alone, and nothing has  *)
(* been paid under it.                                                     *)
LEMMA DropKeepsLocks ==
    ASSUME TInv, Locks, NEW r \in Requests, DropKey(r)
    PROVE  Locks'
  <1> DEFINE k == req[r].key
  <1>1. /\ pc' = [pc EXCEPT ![r] = "done"] /\ pc[r] = "dropKey" /\ HoldsKey(r)
        /\ UNCHANGED <<payments, req, crashed, lapsed>>
        /\ keyRow' = [keyRow EXCEPT ![k] = None]
    BY DEF DropKey, At, Answer, HoldsKey, PastClaim, Statements
  <1>2. \A s \in Requests : HoldsKey(s)' => HoldsKey(s) /\ s # r
    BY <1>1 DEF HoldsKey, PastClaim, Statements, TInv, TypeOK
  <1>3. \A s \in Requests : HoldsKey(s)' => req[s].key # k
    BY <1>1, <1>2 DEF Locks, OneRunnerPerKey
  <1>4. \A s \in payments : /\ s \in Requests /\ pc[s] \in {"store", "done"}
                            /\ pc'[s] = pc[s] /\ req[s].key \in Keys
                            /\ req[s].key \notin lapsed => req[s].key # k
    BY <1>1, ParamParts DEF Locks, PaidKeysStand, TInv, TypeOK, Located
  <1> HIDE DEF k
  <1>5. \A j \in Keys : keyRow'[j] = IF j = k THEN None ELSE keyRow[j]
    BY <1>1 DEF TInv, TypeOK
  <1>6. HeldKeysStand'
    BY <1>1, <1>2, <1>3, <1>5, Holders DEF Locks, HeldKeysStand
  <1>7. ExpiryIsSeen'
    BY <1>1, <1>5 DEF Locks, ExpiryIsSeen
  <1>8. OneRunnerPerKey' /\ OneCheckoutPerKey'
    BY <1>1, <1>2 DEF Locks, OneRunnerPerKey, OneCheckoutPerKey
  <1>9. PaidKeysStand'
    BY <1>1, <1>2, <1>4, <1>5 DEF Locks, PaidKeysStand
  <1> QED
    BY <1>6, <1>7, <1>8, <1>9 DEF Locks

(* The response goes into the row, if there still is one.                  *)
LEMMA StoreKeepsLocks ==
    ASSUME TInv, Locks, NEW r \in Requests, StoreResponse(r)
    PROVE  Locks'
  <1> DEFINE k == req[r].key
  <1>1. /\ pc' = [pc EXCEPT ![r] = "done"] /\ pc[r] = "store"
        /\ UNCHANGED <<payments, req, crashed, lapsed>>
        /\ keyRow' = [keyRow EXCEPT ![k] =
                        IF @ = None THEN @ ELSE [@ EXCEPT !.response = r]]
    BY DEF StoreResponse, At, Answer
  <1>2. \A s \in Requests : HoldsKey(s)' => HoldsKey(s)
    BY <1>1 DEF HoldsKey, PastClaim, Statements, TInv, TypeOK
  <1>3. k \in Keys
    BY <1>1, ParamParts DEF TInv, Located
  <1>4. ASSUME keyRow[k] # None
        PROVE  /\ [keyRow[k] EXCEPT !.response = r] # None
               /\ [keyRow[k] EXCEPT !.response = r].expired = keyRow[k].expired
    <2>1. keyRow[k] \in KeyRow
      BY <1>3, <1>4 DEF TInv, TypeOK
    <2>2. [keyRow[k] EXCEPT !.response = r] \in KeyRow
      BY <2>1 DEF KeyRow
    <2> QED
      BY <2>1, <2>2, CheckoutAssumption DEF KeyRow
  <1> HIDE DEF k
  <1>5. \A j \in Keys : /\ keyRow'[j] = None <=> keyRow[j] = None
                        /\ keyRow[j] # None => keyRow'[j].expired = keyRow[j].expired
    BY <1>1, <1>3, <1>4 DEF TInv, TypeOK
  <1>6. \A s \in payments : /\ s \in Requests /\ pc'[s] \in {"store", "done"}
                            /\ req[s].key \in Keys
    BY <1>1, ParamParts DEF Locks, PaidKeysStand, TInv, TypeOK, Located
  <1>7. HeldKeysStand'
    BY <1>1, <1>2, <1>5, Holders DEF Locks, HeldKeysStand
  <1>8. ExpiryIsSeen'
    BY <1>1, <1>5 DEF Locks, ExpiryIsSeen
  <1>9. OneRunnerPerKey' /\ OneCheckoutPerKey'
    BY <1>1, <1>2 DEF Locks, OneRunnerPerKey, OneCheckoutPerKey
  <1>10. PaidKeysStand'
    BY <1>1, <1>2, <1>5, <1>6 DEF Locks, PaidKeysStand
  <1> QED
    BY <1>7, <1>8, <1>9, <1>10 DEF Locks

(* A payment is made by the one request that holds the key; had another    *)
(* been made under it before, this one would not hold it.                  *)
LEMMA PaymentKeepsLocks ==
    ASSUME TInv, Locks, NEW r \in Requests, CreatePayment(r)
    PROVE  Locks'
  <1>1. /\ pc' = [pc EXCEPT ![r] = "store"] /\ pc[r] = "payment" /\ HoldsKey(r)
        /\ payments' = payments \cup {r}
        /\ UNCHANGED <<keyRow, req, crashed, lapsed>>
    BY DEF CreatePayment, At, Goto, HoldsKey, PastClaim, Statements
  <1>2. \A s \in Requests : HoldsKey(s)' => HoldsKey(s)
    BY <1>1 DEF HoldsKey, PastClaim, Statements, TInv, TypeOK
  <1>3. /\ keyRow[req[r].key] # None
        /\ \A s \in Requests : HoldsKey(s) /\ req[s].key = req[r].key => s = r
    BY <1>1 DEF Locks, HeldKeysStand, OneRunnerPerKey
  <1>4. \A s \in payments : /\ s \in Requests /\ s # r
                            /\ pc'[s] \in {"store", "done"}
                            /\ req[s].key \notin lapsed => req[s].key # req[r].key
    BY <1>1 DEF Locks, PaidKeysStand, TInv, TypeOK
  <1>5. HeldKeysStand' /\ ExpiryIsSeen' /\ OneRunnerPerKey'
    BY <1>1, <1>2 DEF Locks, HeldKeysStand, ExpiryIsSeen, OneRunnerPerKey
  <1>6. PaidKeysStand'
    <2>1. pc'[r] = "store"
      BY <1>1 DEF TInv, TypeOK
    <2> QED
      BY <1>1, <1>2, <1>3, <1>4, <2>1 DEF Locks, PaidKeysStand
  <1>7. OneCheckoutPerKey'
    BY <1>1, <1>4 DEF Locks, OneCheckoutPerKey
  <1> QED
    BY <1>5, <1>6, <1>7 DEF Locks

(* The 24 hours of a key are over when no request works under it.          *)
LEMMA ExpiryKeepsLocks ==
    ASSUME TInv, Locks, NEW k \in Keys, Expire(k)
    PROVE  Locks'
  <1>1. /\ keyRow' = [keyRow EXCEPT ![k].expired = TRUE]
        /\ keyRow[k] # None /\ lapsed' = lapsed \cup {k}
        /\ UNCHANGED <<payments, pc, req, crashed>>
    BY DEF Expire
  <1>2. \A s \in Requests : HoldsKey(s)' <=> HoldsKey(s)
    BY <1>1 DEF HoldsKey, PastClaim
  <1>3. \A s \in Requests : HoldsKey(s) => req[s].key # k
    BY DEF Expire
  <1>4. [keyRow[k] EXCEPT !.expired = TRUE] # None
    <2>1. keyRow[k] \in KeyRow
      BY <1>1 DEF TInv, TypeOK
    <2>2. [keyRow[k] EXCEPT !.expired = TRUE] \in KeyRow
      BY <2>1 DEF KeyRow
    <2> QED
      BY <2>2, CheckoutAssumption
  <1>5. /\ keyRow'[k] # None
        /\ \A j \in Keys : j # k => keyRow'[j] = keyRow[j]
    BY <1>1, <1>4 DEF TInv, TypeOK
  <1>6. \A s \in payments : /\ s \in Requests /\ pc'[s] \in {"store", "done"}
                            /\ req[s].key \in Keys
    BY <1>1, ParamParts DEF Locks, PaidKeysStand, TInv, TypeOK, Located
  <1>7. HeldKeysStand'
    BY <1>1, <1>2, <1>3, <1>5, Holders DEF Locks, HeldKeysStand
  <1>8. ExpiryIsSeen' /\ OneRunnerPerKey' /\ OneCheckoutPerKey'
    BY <1>1, <1>2, <1>5 DEF Locks, ExpiryIsSeen, OneRunnerPerKey, OneCheckoutPerKey
  <1>9. PaidKeysStand'
    BY <1>1, <1>2, <1>5, <1>6 DEF Locks, PaidKeysStand
  <1> QED
    BY <1>7, <1>8, <1>9 DEF Locks

(* The other statements of a request: each is reached with the key held,   *)
(* or leads to the end of the request.                                     *)
LEMMA OtherSteps ==
    ASSUME TInv, Locks, NEW r \in Requests,
           \/ LookUp(r) \/ ReadCart(r) \/ FindAddress(r) \/ CreateOrder(r)
           \/ ReserveItem(r) \/ ReserveShort(r) \/ ToStockReserved(r)
           \/ ClearCart(r) \/ CreateIntent(r) \/ ReleaseItem(r) \/ Cancel(r)
           \/ DbError(r)
    PROVE  Locks'
  <1>1. PICK p : /\ pc' = [pc EXCEPT ![r] = p]
                 /\ UNCHANGED <<keyRow, payments, req, crashed, lapsed>>
                 /\ p \in {"idle", "purge", "claim", "lookup", "done"} \/ HoldsKey(r)
                 /\ pc[r] \in {"store", "done"} => p = "done"
    <2>1. CASE DbError(r)
      <3>1. pc[r] \in Statements /\ UNCHANGED dbVars /\ r \notin crashed
        BY <2>1 DEF DbError
      <3>2. PICK p : /\ pc' = [pc EXCEPT ![r] = p]
                     /\ UNCHANGED <<req, crashed, lapsed>>
                     /\ p = "done" \/ pc[r] \notin {"purge", "claim", "lookup", "store"}
        BY <2>1, <3>1, ThrowMoves DEF DbError, TInv, Moved
      <3> QED
        BY <3>1, <3>2 DEF HoldsKey, PastClaim, dbVars, Statements
    <2>2. CASE LookUp(r)
      <3>1. pc' = [pc EXCEPT ![r] = "done"] /\ pc[r] = "lookup"
            /\ UNCHANGED <<keyRow, payments, req, crashed, lapsed>>
        BY <2>2 DEF LookUp, At, Answer, dbVars
      <3> QED
        BY <3>1
    <2>3. CASE ReadCart(r) \/ FindAddress(r) \/ CreateOrder(r)
               \/ ReserveItem(r) \/ ReserveShort(r) \/ ToStockReserved(r)
               \/ ClearCart(r) \/ CreateIntent(r) \/ ReleaseItem(r) \/ Cancel(r)
      <3>1. /\ pc[r] \in Statements \ {"purge", "claim", "lookup", "store"}
            /\ r \notin crashed /\ UNCHANGED <<keyRow, payments>>
        BY <2>3 DEF ReadCart, FindAddress, CreateOrder, ReserveItem, ReserveShort,
            ToStockReserved, ClearCart, CreateIntent, ReleaseItem, Cancel, At, Statements,
            dbVars
      <3>2. PICK p : /\ pc' = [pc EXCEPT ![r] = p]
                     /\ UNCHANGED <<req, crashed, lapsed>>
        BY <2>3, <3>1 DEF ReadCart, FindAddress, CreateOrder, ReserveItem, ReserveShort,
            ToStockReserved, ClearCart, CreateIntent, ReleaseItem, Cancel, Goto, Throw, Answer
      <3> QED
        BY <3>1, <3>2 DEF HoldsKey, PastClaim, Statements
    <2> QED
      BY <2>1, <2>2, <2>3
  <1> QED
    BY <1>1, QuietSteps

(* Steps that are not statements of a checkout.                            *)
LEMMA SurroundingSteps ==
    ASSUME TInv, Locks, UNCHANGED <<keyRow, payments, lapsed>>,
           \/ \E r \in Requests : Start(r) \/ Crash(r)
           \/ UNCHANGED <<pc, req, crashed>>
    PROVE  Locks'
  <1>1. /\ \A s \in Requests : HoldsKey(s)' => HoldsKey(s) /\ req'[s] = req[s]
        /\ \A s \in payments : pc'[s] = pc[s] /\ req'[s] = req[s]
    BY DEF Start, Crash, At, HoldsKey, PastClaim, Statements, Locks, PaidKeysStand, TInv, TypeOK
  <1> QED
    BY <1>1 DEF Locks, HeldKeysStand, ExpiryIsSeen, OneRunnerPerKey,
                PaidKeysStand, OneCheckoutPerKey, TInv, TypeOK

LEMMA LocksStep == TInv /\ Locks /\ [Next]_vars => Locks'
  <1> SUFFICES ASSUME TInv, Locks, [Next]_vars PROVE Locks'
    OBVIOUS
  <1>1. ASSUME NEW r \in Requests, Progress(r) PROVE Locks'
    BY <1>1, PurgeKeepsLocks, ClaimKeepsLocks, DropKeepsLocks, StoreKeepsLocks,
       PaymentKeepsLocks, OtherSteps DEF Progress
  <1>2. ASSUME NEW r \in Requests, DbError(r) PROVE Locks'
    BY <1>2, OtherSteps
  <1>3. ASSUME NEW r \in Requests, Start(r) \/ Crash(r) PROVE Locks'
    BY <1>3, SurroundingSteps DEF Start, Crash, dbVars
  <1>4. CASE Shop \/ UNCHANGED vars
    BY <1>4, SurroundingSteps DEF Shop, vars
  <1> QED
    BY <1>1, <1>2, <1>3, <1>4, ExpiryKeepsLocks DEF Next, Step, AllEnded

LEMMA InitLocks == Init => Locks
  BY DEF Init, Locks, HeldKeysStand, ExpiryIsSeen, OneRunnerPerKey, PaidKeysStand,
         OneCheckoutPerKey, HoldsKey, PastClaim, Statements

LEMMA Invariance == Spec => [](TInv /\ Locks)
  <1>1. Init => TInv /\ Locks
    BY InitTyped, InitLocks
  <1>2. TInv /\ Locks /\ [Next]_vars => (TInv /\ Locks)'
    BY TypeStep, LocksStep
  <1> QED
    BY <1>1, <1>2, PTL DEF Spec

\* The key is a lock: two requests that carry the same key are never both past
\* the claim, whatever fails, crashes or expires, and however many there are.
THEOREM KeyIsLock == Spec => []OneRunnerPerKey
  <1>1. Locks => OneRunnerPerKey
    BY DEF Locks
  <1> QED
    BY <1>1, Invariance, PTL

\* As long as a key has not expired, one checkout at most completes under it:
\* no sequence of retries, failures and crashes makes a second payment.
THEOREM KeyPaysOnce == Spec => []OneCheckoutPerKey
  <1>1. Locks => OneCheckoutPerKey
    BY DEF Locks
  <1> QED
    BY <1>1, Invariance, PTL

-----------------------------------------------------------------------------
(* What a checkout has reserved stays reserved for it.                     *)

UnitsHeld(v) == [r \in Requests |-> Holds(r, v)]

(* The inductive invariant of the reservations, beside TInv: only finitely *)
(* many requests hold units, and the stock has them reserved.              *)
Unanswered(r) == pc[r] # "done" => outcome[r] = "none"

Backing ==
    /\ \A r \in Requests : Unanswered(r)
    /\ \A v \in Variants : /\ Countable(UnitsHeld(v))
                           /\ Total(UnitsHeld(v)) <= stock[v].reserved

LEMMA HoldsNat ==
    ASSUME TInv, NEW v \in Variants
    PROVE  /\ UnitsHeld(v) \in [Requests -> Nat]
           /\ stock[v].reserved \in Nat
           /\ \A r \in Requests : Holds(r, v) \in Nat /\ ordered[r][v] \in Nat
  <1>1. \A r \in Requests : ordered[r][v] \in Nat
    BY CheckoutAssumption DEF TInv, TypeOK
  <1>2. \A r \in Requests : Holds(r, v) \in Nat
    BY <1>1 DEF Holds
  <1>3. stock[v].reserved \in Nat
    BY DEF TInv, TypeOK
  <1> QED
    BY <1>1, <1>2, <1>3 DEF UnitsHeld

(* Another request's place, list, order and answer stay as they are.       *)
OthersRest(r) ==
    \A s \in Requests \ {r} :
        /\ pc'[s] = pc[s] /\ todo'[s] = todo[s]
        /\ ordered'[s] = ordered[s] /\ outcome'[s] = outcome[s]

(* A request that takes no more than the stock sets aside, or gives back   *)
(* as much as the stock frees, leaves the others' units alone.             *)
LEMMA BackingMoves ==
    ASSUME TInv, TInv', Backing, NEW r \in Requests,
           OthersRest(r), Unanswered(r)',
           \A v \in Variants :
               Holds(r, v)' - Holds(r, v) <= stock'[v].reserved - stock[v].reserved
    PROVE  Backing'
  <1>1. ASSUME NEW s \in Requests PROVE Unanswered(s)'
    BY DEF Backing, Unanswered, OthersRest
  <1>2. ASSUME NEW v \in Variants
        PROVE  /\ Countable(UnitsHeld(v)')
               /\ Total(UnitsHeld(v)') <= stock'[v].reserved
    <2> DEFINE f == UnitsHeld(v)
               g == UnitsHeld(v)'
    <2>1. /\ f \in [Requests -> Nat]
          /\ stock[v].reserved \in Nat /\ Holds(r, v) \in Nat
      BY HoldsNat
    <2>2. /\ g \in [Requests -> Nat]
          /\ stock'[v].reserved \in Nat /\ Holds(r, v)' \in Nat
      <3>1. \A s \in Requests : ordered'[s][v] \in Nat
        BY CheckoutAssumption DEF TInv, TypeOK
      <3>2. \A s \in Requests : Holds(s, v)' \in Nat
        BY <3>1 DEF Holds
      <3>3. stock'[v].reserved \in Nat
        BY DEF TInv, TypeOK
      <3> QED
        BY <3>2, <3>3 DEF UnitsHeld
    <2>3. f[r] = Holds(r, v) /\ g[r] = Holds(r, v)'
      BY DEF UnitsHeld
    <2>4. \A s \in Requests \ {r} : g[s] = f[s]
      BY DEF UnitsHeld, OthersRest, Holds
    <2>5. Countable(f) /\ Total(f) <= stock[v].reserved
      BY DEF Backing
    <2>6. Holds(r, v)' - Holds(r, v) <= stock'[v].reserved - stock[v].reserved
      OBVIOUS
    <2> HIDE DEF f, g
    <2>7. Countable(g) /\ Total(g) = Total(f) - f[r] + g[r]
      BY <2>1, <2>2, <2>4, <2>5, TotalChange
    <2>8. Total(f) \in Nat
      BY <2>5, TotalNat
    <2>9. Total(g) <= stock'[v].reserved
      BY <2>1, <2>2, <2>3, <2>5, <2>6, <2>7, <2>8
    <2> QED
      BY <2>7, <2>9 DEF g
  <1> QED
    BY <1>1, <1>2 DEF Backing

LEMMA BackingRests ==
    ASSUME Backing, UNCHANGED <<pc, todo, ordered, outcome, stock>>
    PROVE  Backing'
  <1>1. \A v \in Variants : UnitsHeld(v)' = UnitsHeld(v)
    BY DEF UnitsHeld, Holds
  <1> QED
    BY <1>1 DEF Backing, Unanswered

(* An exception lets go of units or of none, and takes no more.            *)
LEMMA ThrowLetsGo ==
    ASSUME TInv, Backing, NEW r \in Requests, NEW p \in Statements, pc[r] = p,
           Throw(r, p), UNCHANGED ordered
    PROVE  /\ OthersRest(r)
           /\ Unanswered(r)'
           /\ \A v \in Variants : Holds(r, v)' <= Holds(r, v)
           /\ p = "reserve" => \A v \in Variants : Holds(r, v)' = 0
  <1>1. outcome[r] = "none"
    BY DEF Backing, Unanswered, Statements
  <1>2. \A v \in Variants : ordered[r][v] \in Nat
    BY HoldsNat
  <1>3. \A v \in Variants \ InCart(ordered[r]) : ordered[r][v] = 0
    BY <1>2 DEF InCart
  <1>4. CASE Catch[p] = "done"
    <2>1. p \in {"purge", "claim", "lookup", "dropKey"}
      BY <1>4 DEF Catch, OutsideTry, BestEffort, StockReserved, Statements
    <2>2. Answer(r, "failed", None) /\ todo' = [todo EXCEPT ![r] = {}]
      BY <1>4 DEF Throw
    <2> QED
      BY <1>1, <1>2, <2>1, <2>2
      DEF Answer, OthersRest, Unanswered, Holds, TInv, TypeOK
  <1>5. CASE Catch[p] = "created"
    <2>1. p = "store"
      BY <1>5, Destinations
    <2>2. Answer(r, "created", r) /\ todo' = [todo EXCEPT ![r] = {}]
      BY <1>5 DEF Throw
    <2> QED
      BY <1>1, <1>2, <2>1, <2>2
      DEF Answer, OthersRest, Unanswered, Holds, TInv, TypeOK
  <1>6. CASE Catch[p] = "release"
    <2>1. p \in {"toReserved", "clear", "intent", "payment"}
      BY <1>6 DEF Catch, OutsideTry, BestEffort, StockReserved, Statements
    <2>2. Goto(r, "release") /\ todo' = [todo EXCEPT ![r] = InCart(ordered[r])]
      BY <1>6 DEF Throw
    <2> QED
      BY <1>1, <1>2, <1>3, <2>1, <2>2
      DEF Goto, OthersRest, Unanswered, Holds, TInv, TypeOK
  <1>7. CASE Catch[p] \in {"cancel", "dropKey"}
    <2>1. Goto(r, Catch[p]) /\ todo' = [todo EXCEPT ![r] = {}]
      BY <1>7 DEF Throw
    <2> QED
      BY <1>1, <1>2, <1>7, <2>1
      DEF Goto, OthersRest, Unanswered, Holds, TInv, TypeOK
  <1> QED
    BY <1>4, <1>5, <1>6, <1>7, Destinations

(* A request that goes on, with its units or without any.                  *)
LEMMA GoesOnHolding ==
    ASSUME TInv, Backing, NEW r \in Requests, NEW p \in Statements, Goto(r, p),
           pc[r] # "done", \A s \in Requests \ {r} : todo'[s] = todo[s],
           \A s \in Requests \ {r} : ordered'[s] = ordered[s]
    PROVE  OthersRest(r) /\ Unanswered(r)' /\ outcome'[r] = "none" /\ pc'[r] = p
  BY DEF Goto, OthersRest, Unanswered, Backing, TInv, TypeOK

LEMMA AnswersLettingGo ==
    ASSUME TInv, NEW r \in Requests, NEW o, NEW order, Answer(r, o, order),
           UNCHANGED <<todo, ordered>>
    PROVE  OthersRest(r) /\ Unanswered(r)' /\ outcome'[r] = o /\ pc'[r] = "done"
  BY DEF Answer, OthersRest, Unanswered, TInv, TypeOK

\* The statements that leave the stock alone take no units.
LEMMA StockAloneKeepsBacking ==
    ASSUME TInv, TInv', Backing, NEW r \in Requests,
           \/ Purge(r) \/ Claim(r) \/ LookUp(r) \/ ReadCart(r) \/ FindAddress(r)
           \/ CreateOrder(r) \/ ReserveShort(r) \/ ToStockReserved(r) \/ ClearCart(r)
           \/ CreateIntent(r) \/ CreatePayment(r) \/ Cancel(r) \/ DropKey(r)
           \/ StoreResponse(r) \/ DbError(r) \/ Start(r)
    PROVE  Backing'
  <1> USE DEF At
  <1>1. \A v \in Variants : ordered[r][v] \in Nat /\ Holds(r, v) \in Nat
                            /\ stock[v].reserved \in Nat
    BY HoldsNat
  <1>2. pc[r] # "done" => outcome[r] = "none"
    BY DEF Backing, Unanswered
  <1>3. ASSUME OthersRest(r), Unanswered(r)', UNCHANGED stock,
               \A v \in Variants : Holds(r, v)' \in Nat /\ Holds(r, v)' <= Holds(r, v)
        PROVE  Backing'
    <2>1. \A v \in Variants :
              Holds(r, v)' - Holds(r, v) <= stock'[v].reserved - stock[v].reserved
      BY <1>1, <1>3
    <2> QED
      BY <1>3, <2>1, BackingMoves
  <1>4. \A v \in Variants : ordered'[r][v] \in Nat /\ Holds(r, v)' \in Nat
    <2>1. \A v \in Variants : ordered'[r][v] \in Nat
      BY CheckoutAssumption DEF TInv, TypeOK
    <2> QED
      BY <2>1 DEF Holds
  <1>5. ASSUME NEW p \in Statements, pc[r] = p, Throw(r, p), UNCHANGED <<ordered, stock>>
        PROVE  Backing'
    BY <1>3, <1>4, <1>5, ThrowLetsGo
  <1>6. CASE Purge(r) \/ Claim(r)
    <2>1. Goto(r, "claim") \/ Goto(r, "cart") \/ Goto(r, "lookup")
      BY <1>6 DEF Purge, Claim
    <2>2. /\ OthersRest(r) /\ Unanswered(r)' /\ outcome'[r] = "none"
          /\ pc'[r] \in {"claim", "cart", "lookup"}
      BY <1>6, <2>1, GoesOnHolding DEF Purge, Claim, Statements
    <2> QED
      BY <1>1, <1>3, <1>4, <1>6, <2>2 DEF Purge, Claim, Holds
  <1>7. CASE LookUp(r)
    <2>1. PICK o \in {"replayed", "key_used", "in_progress"} :
              \E order : Answer(r, o, order)
      BY <1>7 DEF LookUp
    <2>2. OthersRest(r) /\ Unanswered(r)' /\ outcome'[r] = o /\ pc'[r] = "done"
      BY <1>7, <2>1, AnswersLettingGo DEF LookUp, dbVars
    <2> QED
      BY <1>1, <1>3, <1>4, <1>7, <2>2 DEF LookUp, dbVars, Holds
  <1>8. CASE ReadCart(r)
    <2>1. CASE Throw(r, "cart") /\ UNCHANGED ordered
      BY <1>5, <1>8, <2>1 DEF ReadCart, Statements
    <2>2. CASE /\ Goto(r, "address") /\ UNCHANGED todo
               /\ ordered' = [ordered EXCEPT ![r] = cart[req[r].user]]
      <3>1. \A s \in Requests \ {r} : ordered'[s] = ordered[s]
        BY <2>2 DEF TInv, TypeOK
      <3>2. OthersRest(r) /\ Unanswered(r)' /\ outcome'[r] = "none" /\ pc'[r] = "address"
        BY <1>8, <2>2, <3>1, GoesOnHolding DEF ReadCart, Statements
      <3> QED
        BY <1>1, <1>3, <1>4, <1>8, <3>2 DEF ReadCart, Holds
    <2> QED
      BY <1>8, <2>1, <2>2 DEF ReadCart
  <1>9. CASE FindAddress(r)
    <2>1. CASE Throw(r, "address")
      BY <1>5, <1>9, <2>1 DEF FindAddress, Statements, dbVars
    <2>2. CASE Goto(r, "order") /\ UNCHANGED todo
      <3>1. OthersRest(r) /\ Unanswered(r)' /\ outcome'[r] = "none" /\ pc'[r] = "order"
        BY <1>9, <2>2, GoesOnHolding DEF FindAddress, Statements, dbVars
      <3> QED
        BY <1>1, <1>3, <1>4, <1>9, <3>1 DEF FindAddress, Holds, dbVars
    <2> QED
      BY <1>9, <2>1, <2>2 DEF FindAddress
  <1>10. CASE CreateOrder(r)
    <2>1. OthersRest(r) /\ Unanswered(r)' /\ outcome'[r] = "none" /\ pc'[r] = "reserve"
      BY <1>10, GoesOnHolding DEF CreateOrder, Statements, TInv, TypeOK
    <2>2. todo'[r] = InCart(ordered[r]) /\ ordered'[r] = ordered[r]
      BY <1>10 DEF CreateOrder, TInv, TypeOK
    <2>3. \A v \in Variants : Holds(r, v)' = 0
      BY <1>1, <2>1, <2>2 DEF Holds, InCart
    <2> QED
      BY <1>1, <1>3, <1>4, <1>10, <2>1, <2>3 DEF CreateOrder
  <1>11. CASE ReserveShort(r)
    BY <1>5, <1>11 DEF ReserveShort, Statements, dbVars
  <1>12. CASE CreateIntent(r)
    <2>1. CASE Throw(r, "intent")
      BY <1>5, <1>12, <2>1 DEF CreateIntent, Statements
    <2>2. CASE Goto(r, "payment") /\ UNCHANGED todo
      <3>1. OthersRest(r) /\ Unanswered(r)' /\ outcome'[r] = "none" /\ pc'[r] = "payment"
        BY <1>12, <2>2, GoesOnHolding DEF CreateIntent, Statements
      <3> QED
        BY <1>1, <1>3, <1>4, <1>12, <3>1 DEF CreateIntent, Holds
    <2> QED
      BY <1>12, <2>1, <2>2 DEF CreateIntent
  <1>13. CASE ToStockReserved(r) \/ ClearCart(r) \/ CreatePayment(r) \/ Cancel(r)
    <2>1. PICK p \in {"clear", "intent", "store", "dropKey"} : Goto(r, p)
      BY <1>13 DEF ToStockReserved, ClearCart, CreatePayment, Cancel
    <2>2. OthersRest(r) /\ Unanswered(r)' /\ outcome'[r] = "none" /\ pc'[r] = p
      BY <1>13, <2>1, GoesOnHolding
      DEF ToStockReserved, ClearCart, CreatePayment, Cancel, Statements
    <2>3. p = "dropKey" \/ pc[r] \in {"toReserved", "clear", "payment"}
      BY <1>13, <2>1, <2>2
      DEF ToStockReserved, ClearCart, CreatePayment, Cancel, Goto, TInv, TypeOK
    <2>4. UNCHANGED <<stock, ordered>>
      BY <1>13 DEF ToStockReserved, ClearCart, CreatePayment, Cancel
    <2> QED
      BY <1>1, <1>2, <1>3, <1>4, <2>2, <2>3, <2>4 DEF Holds
  <1>14. CASE DropKey(r)
    <2>1. OthersRest(r) /\ Unanswered(r)' /\ outcome'[r] = "failed" /\ pc'[r] = "done"
      BY <1>14, AnswersLettingGo DEF DropKey
    <2> QED
      BY <1>1, <1>3, <1>4, <1>14, <2>1 DEF DropKey, Holds
  <1>15. CASE StoreResponse(r)
    <2>1. OthersRest(r) /\ Unanswered(r)' /\ outcome'[r] = "created" /\ pc'[r] = "done"
      BY <1>15, AnswersLettingGo DEF StoreResponse
    <2> QED
      BY <1>1, <1>3, <1>4, <1>15, <2>1 DEF StoreResponse, Holds
  <1>16. CASE DbError(r)
    BY <1>5, <1>16 DEF DbError, dbVars
  <1>17. CASE Start(r)
    <2>1. OthersRest(r) /\ Unanswered(r)' /\ outcome'[r] = "none" /\ pc'[r] = "purge"
      BY <1>2, <1>17 DEF Start, dbVars, OthersRest, Unanswered, TInv, TypeOK
    <2> QED
      BY <1>1, <1>3, <1>4, <1>17, <2>1 DEF Start, dbVars, Holds
  <1> QED
    BY <1>6, <1>7, <1>8, <1>9, <1>10, <1>11, <1>12, <1>13, <1>14, <1>15, <1>16, <1>17

(* The stock of one variant changes by what one request asks of it.        *)
LEMMA StockFollows ==
    ASSUME TInv, NEW v \in Variants, NEW q \in Nat
    PROVE  /\ Ledger!Reserve(v, q) =>
                \A w \in Variants : stock'[w].reserved - stock[w].reserved =
                                       IF w = v THEN q ELSE 0
           /\ Ledger!Release(v, q) =>
                \A w \in Variants : stock'[w].reserved - stock[w].reserved =
                                       IF w = v THEN 0 - q ELSE 0
  <1>1. \A w \in Variants : stock[w].reserved \in Nat
    BY HoldsNat
  <1>2. ASSUME Ledger!Reserve(v, q), NEW w \in Variants
        PROVE  stock'[w].reserved = IF w = v THEN stock[v].reserved + q ELSE stock[w].reserved
    BY <1>2 DEF Ledger!Reserve, TInv, TypeOK
  <1>3. ASSUME Ledger!Release(v, q), NEW w \in Variants
        PROVE  stock'[w].reserved = IF w = v THEN stock[v].reserved - q ELSE stock[w].reserved
    BY <1>3 DEF Ledger!Release, TInv, TypeOK
  <1> QED
    BY <1>1, <1>2, <1>3

\* An item that is reserved is held, unless the request fails then and there.
LEMMA ReserveKeepsBacking ==
    ASSUME TInv, TInv', Backing, NEW r \in Requests, ReserveItem(r)
    PROVE  Backing'
  <1> USE DEF At
  <1>1. \A v \in Variants : ordered[r][v] \in Nat /\ Holds(r, v) \in Nat
                            /\ stock[v].reserved \in Nat
    BY HoldsNat
  <1>2. outcome[r] = "none" /\ pc[r] = "reserve" /\ UNCHANGED ordered
    BY DEF Backing, Unanswered, ReserveItem
  <1>3. PICK v \in todo[r] :
            /\ Ledger!Reserve(v, ordered[r][v])
            /\ \/ /\ todo' = [todo EXCEPT ![r] = @ \ {v}]
                  /\ Goto(r, IF todo[r] = {v} THEN "toReserved" ELSE "reserve")
               \/ Throw(r, "reserve")
    BY DEF ReserveItem
  <1>4. v \in Variants
    BY DEF TInv, TypeOK
  <1>5. \A w \in Variants : stock'[w].reserved - stock[w].reserved =
                               IF w = v THEN ordered[r][v] ELSE 0
    BY <1>1, <1>3, <1>4, StockFollows
  <1>6. CASE Throw(r, "reserve")
    <2>1. /\ OthersRest(r) /\ Unanswered(r)'
          /\ \A w \in Variants : Holds(r, w)' = 0
      BY <1>2, <1>6, ThrowLetsGo DEF Statements
    <2>2. \A w \in Variants :
              Holds(r, w)' - Holds(r, w) <= stock'[w].reserved - stock[w].reserved
      BY <1>1, <1>4, <1>5, <2>1
    <2> QED
      BY <2>1, <2>2, BackingMoves
  <1>7. CASE /\ todo' = [todo EXCEPT ![r] = @ \ {v}]
             /\ Goto(r, IF todo[r] = {v} THEN "toReserved" ELSE "reserve")
    <2> DEFINE p == IF todo[r] = {v} THEN "toReserved" ELSE "reserve"
    <2>1. p \in Statements /\ Goto(r, p)
      BY <1>7 DEF Statements
    <2>2. todo'[r] = todo[r] \ {v} /\ \A s \in Requests \ {r} : todo'[s] = todo[s]
      BY <1>7 DEF TInv, TypeOK
    <2>3. OthersRest(r) /\ Unanswered(r)' /\ outcome'[r] = "none" /\ pc'[r] = p
      BY <1>2, <2>1, <2>2, GoesOnHolding
    <2>4. \A w \in Variants : Holds(r, w)' = Holds(r, w) + IF w = v THEN ordered[r][v] ELSE 0
      BY <1>1, <1>2, <2>2, <2>3 DEF Holds
    <2>5. \A w \in Variants :
              Holds(r, w)' - Holds(r, w) <= stock'[w].reserved - stock[w].reserved
      BY <1>1, <1>4, <1>5, <2>4
    <2> QED
      BY <2>3, <2>5, BackingMoves
  <1> QED
    BY <1>3, <1>6, <1>7

\* An item that is released was held by the request that releases it.
LEMMA ReleaseKeepsBacking ==
    ASSUME TInv, TInv', Backing, NEW r \in Requests, ReleaseItem(r)
    PROVE  Backing'
  <1> USE DEF At
  <1>1. \A v \in Variants : ordered[r][v] \in Nat /\ Holds(r, v) \in Nat
                            /\ stock[v].reserved \in Nat
    BY HoldsNat
  <1>2. outcome[r] = "none" /\ pc[r] = "release" /\ UNCHANGED ordered
    BY DEF Backing, Unanswered, ReleaseItem
  <1>3. PICK v \in todo[r] :
            /\ IF stock[v].reserved >= ordered[r][v]
               THEN Ledger!Release(v, ordered[r][v]) ELSE UNCHANGED stock
            /\ todo' = [todo EXCEPT ![r] = @ \ {v}]
            /\ Goto(r, IF todo[r] = {v} THEN "cancel" ELSE "release")
    BY DEF ReleaseItem
  <1>4. v \in Variants
    BY DEF TInv, TypeOK
  <1> DEFINE p == IF todo[r] = {v} THEN "cancel" ELSE "release"
  <1>5. p \in Statements /\ Goto(r, p)
    BY <1>3 DEF Statements
  <1>6. todo'[r] = todo[r] \ {v} /\ \A s \in Requests \ {r} : todo'[s] = todo[s]
    BY <1>3 DEF TInv, TypeOK
  <1>7. OthersRest(r) /\ Unanswered(r)' /\ outcome'[r] = "none" /\ pc'[r] = p
    BY <1>2, <1>5, <1>6, GoesOnHolding
  <1>8. \A w \in Variants : Holds(r, w)' = Holds(r, w) - IF w = v THEN ordered[r][v] ELSE 0
    BY <1>1, <1>2, <1>6, <1>7 DEF Holds
  <1>9. \A w \in Variants :
            Holds(r, w)' - Holds(r, w) <= stock'[w].reserved - stock[w].reserved
    <2>1. CASE Ledger!Release(v, ordered[r][v])
      <3>1. \A w \in Variants : stock'[w].reserved - stock[w].reserved =
                                   IF w = v THEN 0 - ordered[r][v] ELSE 0
        BY <1>1, <1>4, <2>1, StockFollows
      <3> QED
        BY <1>1, <1>4, <1>8, <3>1
    <2>2. CASE UNCHANGED stock
      BY <1>1, <1>4, <1>8, <2>2
    <2> QED
      BY <1>3, <2>1, <2>2
  <1> QED
    BY <1>7, <1>9, BackingMoves

LEMMA BackingStep == TInv /\ Backing /\ [Next]_vars => Backing'
  <1> SUFFICES ASSUME TInv, Backing, [Next]_vars PROVE Backing'
    OBVIOUS
  <1>1. TInv'
    BY TypeStep
  <1>2. ASSUME NEW r \in Requests, Start(r) \/ Step(r) PROVE Backing'
    <2>1. CASE Crash(r)
      BY <2>1, BackingRests DEF Crash, dbVars
    <2> QED
      BY <1>1, <1>2, <2>1, StockAloneKeepsBacking, ReserveKeepsBacking, ReleaseKeepsBacking
      DEF Step, Progress
  <1>3. CASE Shop \/ (\E k \in Keys : Expire(k)) \/ UNCHANGED vars
    BY <1>3, BackingRests DEF Shop, Expire, vars
  <1> QED
    BY <1>2, <1>3 DEF Next, AllEnded

LEMMA InitBacking == Init => Backing
  <1> SUFFICES ASSUME Init PROVE Backing
    OBVIOUS
  <1>1. TInv
    BY InitTyped
  <1>2. ASSUME NEW v \in Variants
        PROVE  Countable(UnitsHeld(v)) /\ Total(UnitsHeld(v)) <= stock[v].reserved
    <2>1. UnitsHeld(v) \in [Requests -> Nat] /\ stock[v].reserved \in Nat
      BY <1>1, HoldsNat
    <2>2. \A r \in Requests : UnitsHeld(v)[r] = 0
      BY DEF Init, UnitsHeld, Holds
    <2>3. Countable(UnitsHeld(v)) /\ Total(UnitsHeld(v)) = 0
      BY <2>1, <2>2, TotalZero
    <2> QED
      BY <2>1, <2>3
  <1> QED
    BY <1>2 DEF Init, Backing, Unanswered

\* What a checkout has reserved stays reserved for it, however many checkouts
\* run, fail, crash and clean up after themselves at the same time.
THEOREM HeldUnitsBacked == Spec => []ReservationsBacked
  <1>1. Init => TInv /\ Backing
    BY InitTyped, InitBacking
  <1>2. TInv /\ Backing /\ [Next]_vars => (TInv /\ Backing)'
    BY TypeStep, BackingStep
  <1>3. Backing => ReservationsBacked
    BY DEF Backing, ReservationsBacked, UnitsHeld
  <1> QED
    BY <1>1, <1>2, <1>3, PTL DEF Spec

=============================================================================
