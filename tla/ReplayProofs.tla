---------------------------- MODULE ReplayProofs ----------------------------
(***************************************************************************)
(* The answer replayed from an idempotency key is the answer to the same   *)
(* request, and its order was placed; checkout keeps what OrderOnce        *)
(* promises: proofs, for any requests, keys, carts and stocks, with        *)
(* errors, crashes and expiring keys.                                      *)
(***************************************************************************)
EXTENDS CheckoutProofs

Placed == {"clear", "intent", "payment", "store"}

(* An order with its stock is in stock_reserved until it fails, and one    *)
(* with a payment does not fail any more; an answer is final.              *)
OrderStands(r) ==
    /\ pc[r] \in Placed \/ r \in payments => status[r] = "stock_reserved"
    /\ pc[r] = "store" => r \in payments
    /\ outcome[r] = "replayed" => pc[r] = "done"

(* The response under a key is a paid order's, and the row still has the   *)
(* hash of the request that placed it.                                     *)
RowTells(k) ==
    keyRow[k] # None /\ keyRow[k].response # None =>
        /\ keyRow[k].response \in payments
        /\ req[keyRow[k].response].key = k
        /\ keyRow[k].hash = requestHash(keyRow[k].response)

(* A request at work under a key finds its own hash there: the row was not *)
(* replaced by another request's after it was claimed.                     *)
HashIsHolders(r) == HoldsKey(r) => keyRow[req[r].key].hash = requestHash(r)

RInv ==
    /\ \A r \in Requests : OrderStands(r) /\ HashIsHolders(r)
    /\ \A k \in Keys : RowTells(k)
    /\ ReplayIsFaithful

-----------------------------------------------------------------------------
(* What a step leaves of the past: paid requests keep what they asked, and *)
(* no request gets a key.                                                  *)
PastStays ==
    /\ payments \subseteq payments'
    /\ \A s \in payments : req'[s] = req[s]
    /\ \A s \in Requests : HoldsKey(s)' => HoldsKey(s) /\ req'[s] = req[s]

SameRows ==
    \A k \in Keys : keyRow'[k] # None =>
        /\ keyRow[k] # None
        /\ keyRow'[k].hash = keyRow[k].hash
        /\ keyRow'[k].response = keyRow[k].response

LEMMA HolderKey ==
    ASSUME TInv, NEW s \in Requests, HoldsKey(s)
    PROVE  req[s].key \in Keys
  BY ParamParts DEF HoldsKey, PastClaim, Statements, TInv, Located

LEMMA RowsKeep ==
    ASSUME TInv, RInv, Locks', PastStays, SameRows
    PROVE  /\ \A k \in Keys : RowTells(k)'
           /\ \A s \in Requests : HashIsHolders(s)'
  <1>1. ASSUME NEW k \in Keys PROVE RowTells(k)'
    <2>1. CASE keyRow'[k] = None \/ keyRow'[k].response = None
      BY <2>1 DEF RowTells
    <2>2. CASE keyRow'[k] # None /\ keyRow'[k].response # None
      <3> DEFINE o == keyRow[k].response
      <3>1. /\ keyRow[k] # None /\ o # None
            /\ keyRow'[k].response = o /\ keyRow'[k].hash = keyRow[k].hash
        BY <2>2 DEF SameRows
      <3>2. o \in payments /\ req[o].key = k /\ keyRow[k].hash = requestHash(o)
        BY <3>1 DEF RInv, RowTells
      <3>3. o \in payments' /\ req'[o] = req[o]
        BY <3>2 DEF PastStays
      <3> QED
        BY <3>1, <3>2, <3>3 DEF RowTells, requestHash
    <2> QED
      BY <2>1, <2>2
  <1>2. ASSUME NEW s \in Requests, HoldsKey(s)'
        PROVE  keyRow'[req'[s].key].hash = requestHash(s)'
    <2>1. /\ HoldsKey(s) /\ req'[s] = req[s] /\ req[s].key \in Keys
          /\ keyRow'[req'[s].key] # None
      BY <1>2, HolderKey DEF PastStays, Locks, HeldKeysStand
    <2> QED
      BY <2>1 DEF RInv, HashIsHolders, SameRows, requestHash
  <1> QED
    BY <1>1, <1>2 DEF HashIsHolders

(* No request is answered from a key in this step.                         *)
NoReplay ==
    \A s \in Requests : outcome'[s] = "replayed" =>
        outcome[s] = "replayed" /\ result'[s] = result[s] /\ req'[s] = req[s]

LEMMA ReplaysKeep ==
    ASSUME TInv, RInv, PastStays, NoReplay,
           \A s \in Requests : OrderStands(s)'
    PROVE  ReplayIsFaithful'
  <1>1. ASSUME NEW s \in Requests, outcome'[s] = "replayed"
        PROVE  /\ req'[result'[s]] = req'[s]
               /\ result'[s] \in payments' /\ status'[result'[s]] = "stock_reserved"
    <2>1. /\ req[result[s]] = req[s] /\ result[s] \in payments
          /\ result'[s] = result[s] /\ req'[s] = req[s]
      BY <1>1 DEF RInv, NoReplay, ReplayIsFaithful
    <2>2. result[s] \in Requests
      BY <2>1 DEF TInv, TypeOK
    <2> QED
      BY <2>1, <2>2 DEF PastStays, OrderStands
  <1> QED
    BY <1>1 DEF ReplayIsFaithful

LEMMA QuietStep ==
    ASSUME TInv, RInv, Locks', PastStays, SameRows, NoReplay,
           \A s \in Requests : OrderStands(s)'
    PROVE  RInv'
  BY RowsKeep, ReplaysKeep DEF RInv

-----------------------------------------------------------------------------
(* Request r runs a statement; the others are where they were.             *)
Acts(r) ==
    /\ pc[r] \in Statements /\ r \notin crashed
    /\ req' = req /\ crashed' = crashed
    /\ payments \subseteq payments' /\ payments' \subseteq payments \cup {r}
    /\ \A s \in Requests : s # r =>
        /\ pc'[s] = pc[s] /\ status'[s] = status[s]
        /\ outcome'[s] = outcome[s] /\ result'[s] = result[s]

LEMMA StatementActs ==
    ASSUME TInv, NEW r \in Requests, Progress(r) \/ DbError(r)
    PROVE  Acts(r)
  <1>1. CASE DbError(r)
    BY <1>1 DEF DbError, Throw, Answer, Goto, dbVars, Acts, TInv, TypeOK
  <1>2. CASE Purge(r) \/ Claim(r) \/ LookUp(r) \/ DropKey(r) \/ StoreResponse(r)
    BY <1>2 DEF Purge, Claim, LookUp, DropKey, StoreResponse, At, Answer, Goto, dbVars, Acts,
                TInv, TypeOK, Statements
  <1>3. CASE ReadCart(r) \/ FindAddress(r) \/ CreateOrder(r) \/ ToStockReserved(r)
    BY <1>3 DEF ReadCart, FindAddress, CreateOrder, ToStockReserved, At, Throw, Answer, Goto,
                dbVars, Acts, TInv, TypeOK, Statements
  <1>4. CASE ReserveItem(r) \/ ReserveShort(r) \/ ReleaseItem(r)
    BY <1>4 DEF ReserveItem, ReserveShort, ReleaseItem, At, Throw, Answer, Goto,
                dbVars, Acts, TInv, TypeOK, Statements
  <1>5. CASE ClearCart(r) \/ CreateIntent(r) \/ CreatePayment(r) \/ Cancel(r)
    BY <1>5 DEF ClearCart, CreateIntent, CreatePayment, Cancel, At, Throw, Answer, Goto,
                dbVars, Acts, TInv, TypeOK, Statements
  <1> QED
    BY <1>1, <1>2, <1>3, <1>4, <1>5 DEF Progress

(* A paid request has the response to store, or is done.                   *)
LEMMA PaidIsPast ==
    ASSUME TInv, Locks, NEW s \in payments
    PROVE  s \in Requests /\ pc[s] \in {"store", "done"}
  BY DEF TInv, TypeOK, Locks, PaidKeysStand

LEMMA OthersStand ==
    ASSUME RInv, NEW r \in Requests, Acts(r), OrderStands(r)'
    PROVE  \A s \in Requests : OrderStands(s)'
  BY DEF RInv, OrderStands, Acts

(* Where an exception leads, no order is placed, and none is answered from *)
(* a key.                                                                  *)
LEMMA ThrowStands ==
    ASSUME TInv, Locks, RInv, NEW r \in Requests, Acts(r), Throw(r, pc[r]),
           status' = status, payments' = payments
    PROVE  OrderStands(r)' /\ outcome'[r] # "replayed"
  <1>1. /\ pc'[r] \in Handlers \cup {"done"}
        /\ outcome'[r] # outcome[r] => outcome'[r] \in {"failed", "created"}
        /\ outcome'[r] # outcome[r] => pc'[r] = "done"
    <2>1. pc[r] \in Statements
      BY DEF Acts
    <2> QED
      BY <2>1, Destinations DEF Throw, Answer, Goto, Handlers, TInv, TypeOK
  <1>2. outcome[r] # "replayed"
    BY DEF RInv, OrderStands, Acts, Statements
  <1> QED
    BY <1>1, <1>2 DEF RInv, OrderStands, Placed, Handlers

-----------------------------------------------------------------------------
(* Statements that touch no key.                                           *)

LEMMA QuietStatement ==
    ASSUME TInv, Locks, RInv, Locks', NEW r \in Requests, Acts(r), SameRows,
           pc'[r] \in {"lookup", "claim", "done"} \/ HoldsKey(r),
           OrderStands(r)', outcome'[r] # "replayed"
    PROVE  RInv'
  <1>1. PastStays
    BY PaidIsPast DEF Acts, PastStays, HoldsKey, PastClaim, Statements
  <1>2. NoReplay
    BY DEF Acts, NoReplay
  <1> QED
    BY <1>1, <1>2, OthersStand, QuietStep

(* Before its payment, a request that moves on to p without an answer.     *)
LEMMA MovedOnStands ==
    ASSUME TInv, Locks, RInv, NEW r \in Requests, Acts(r), NEW p, Goto(r, p),
           pc[r] # "store", p # "store", payments' = payments,
           p \in Placed => status'[r] = "stock_reserved"
    PROVE  OrderStands(r)' /\ outcome'[r] # "replayed"
  <1>1. pc'[r] = p /\ outcome'[r] = outcome[r]
    BY DEF Goto, TInv, TypeOK
  <1>2. r \notin payments /\ outcome[r] # "replayed"
    BY PaidIsPast DEF Acts, Statements, RInv, OrderStands
  <1> QED
    BY <1>1, <1>2 DEF OrderStands

LEMMA BeforeStock ==
    ASSUME TInv, Locks, RInv, Locks', NEW r \in Requests, Acts(r),
           ReadCart(r) \/ FindAddress(r) \/ CreateOrder(r) \/ ReserveItem(r) \/ ReserveShort(r)
    PROVE  RInv'
  <1>1. /\ pc[r] \in {"cart", "address", "order", "reserve"} /\ HoldsKey(r)
        /\ keyRow' = keyRow /\ payments' = payments
    BY DEF ReadCart, FindAddress, CreateOrder, ReserveItem, ReserveShort, At, HoldsKey, PastClaim,
           Statements, dbVars
  <1>2. \/ Throw(r, pc[r]) /\ status' = status
        \/ \E p \in {"address", "order", "reserve", "toReserved"} : Goto(r, p)
    BY DEF ReadCart, FindAddress, CreateOrder, ReserveItem, ReserveShort, At, dbVars
  <1>3. OrderStands(r)' /\ outcome'[r] # "replayed"
    BY <1>1, <1>2, ThrowStands, MovedOnStands DEF Placed
  <1> QED
    BY <1>1, <1>3, QuietStatement DEF SameRows

LEMMA WithStock ==
    ASSUME TInv, Locks, RInv, Locks', NEW r \in Requests, Acts(r),
           ToStockReserved(r) \/ ClearCart(r) \/ CreateIntent(r)
    PROVE  RInv'
  <1>1. /\ pc[r] \in {"toReserved", "clear", "intent"} /\ HoldsKey(r)
        /\ keyRow' = keyRow /\ payments' = payments
    BY DEF ToStockReserved, ClearCart, CreateIntent, At, HoldsKey, PastClaim, Statements
  <1>2. CASE ToStockReserved(r)
    <2>1. Goto(r, "clear") /\ status'[r] = "stock_reserved"
      BY <1>2 DEF ToStockReserved, TInv, TypeOK
    <2>2. OrderStands(r)' /\ outcome'[r] # "replayed"
      BY <1>1, <2>1, MovedOnStands
    <2> QED
      BY <1>1, <2>2, QuietStatement DEF SameRows
  <1>3. CASE ClearCart(r) \/ CreateIntent(r)
    <2>1. /\ status' = status /\ status[r] = "stock_reserved"
          /\ Throw(r, pc[r]) \/ \E p \in {"intent", "payment"} : Goto(r, p)
      BY <1>3 DEF ClearCart, CreateIntent, At, RInv, OrderStands, Placed
    <2>2. OrderStands(r)' /\ outcome'[r] # "replayed"
      BY <1>1, <2>1, ThrowStands, MovedOnStands
    <2> QED
      BY <1>1, <2>2, QuietStatement DEF SameRows
  <1> QED
    BY <1>2, <1>3

LEMMA Payment ==
    ASSUME TInv, Locks, RInv, Locks', NEW r \in Requests, Acts(r), CreatePayment(r)
    PROVE  RInv'
  <1>1. /\ pc[r] = "payment" /\ HoldsKey(r) /\ keyRow' = keyRow
        /\ r \in payments' /\ pc'[r] = "store" /\ outcome'[r] = outcome[r]
        /\ status'[r] = status[r] /\ status[r] = "stock_reserved"
    BY DEF CreatePayment, Goto, At, HoldsKey, PastClaim, Statements, TInv, TypeOK,
           RInv, OrderStands, Placed
  <1>2. outcome[r] # "replayed"
    BY <1>1 DEF RInv, OrderStands
  <1>3. OrderStands(r)'
    BY <1>1, <1>2 DEF OrderStands
  <1> QED
    BY <1>1, <1>2, <1>3, QuietStatement DEF SameRows

LEMMA CleanUp ==
    ASSUME TInv, Locks, RInv, Locks', NEW r \in Requests, Acts(r),
           ReleaseItem(r) \/ Cancel(r)
    PROVE  RInv'
  <1>1. /\ pc[r] \in {"release", "cancel"} /\ HoldsKey(r)
        /\ keyRow' = keyRow /\ payments' = payments
        /\ \E p \in {"release", "cancel", "dropKey"} : Goto(r, p)
    BY DEF ReleaseItem, Cancel, At, HoldsKey, PastClaim, Statements
  <1>2. OrderStands(r)' /\ outcome'[r] # "replayed"
    BY <1>1, MovedOnStands DEF Placed
  <1> QED
    BY <1>1, <1>2, QuietStatement DEF SameRows

LEMMA Failure ==
    ASSUME TInv, Locks, RInv, Locks', NEW r \in Requests, Acts(r), DbError(r)
    PROVE  RInv'
  <1>1. /\ pc[r] \in Statements /\ r \notin crashed /\ Throw(r, pc[r])
        /\ keyRow' = keyRow /\ status' = status /\ payments' = payments
    BY DEF DbError, dbVars
  <1>2. OrderStands(r)' /\ outcome'[r] # "replayed"
    BY <1>1, ThrowStands
  <1>3. pc'[r] = "done" \/ HoldsKey(r)
    BY <1>1, Destinations DEF Throw, Answer, HoldsKey, PastClaim, TInv, TypeOK
  <1> QED
    BY <1>1, <1>2, <1>3, QuietStatement DEF SameRows

-----------------------------------------------------------------------------
(* Statements on the key.                                                  *)

LEMMA Purging ==
    ASSUME TInv, Locks, RInv, Locks', NEW r \in Requests, Acts(r), Purge(r)
    PROVE  RInv'
  <1> DEFINE k == req[r].key
             row == IF keyRow[k] # None /\ keyRow[k].expired THEN None ELSE keyRow[k]
  <1>1. /\ pc[r] = "purge" /\ Goto(r, "claim") /\ payments' = payments
        /\ keyRow' = [keyRow EXCEPT ![k] = row]
    BY DEF Purge, At
  <1>2. row \in {None, keyRow[k]}
    OBVIOUS
  <1>3. SameRows
    <2> HIDE DEF row, k
    <2> QED
      BY <1>1, <1>2 DEF SameRows, TInv, TypeOK
  <1>4. OrderStands(r)' /\ outcome'[r] # "replayed" /\ pc'[r] = "claim"
    BY <1>1, MovedOnStands DEF Placed, Goto, TInv, TypeOK
  <1> QED
    BY <1>3, <1>4, QuietStatement

LEMMA Dropping ==
    ASSUME TInv, Locks, RInv, Locks', NEW r \in Requests, Acts(r), DropKey(r)
    PROVE  RInv'
  <1>1. /\ pc[r] = "dropKey" /\ Answer(r, "failed", None) /\ payments' = payments
        /\ keyRow' = [keyRow EXCEPT ![req[r].key] = None]
    BY DEF DropKey, At
  <1>2. SameRows
    BY <1>1 DEF SameRows, TInv, TypeOK
  <1>3. pc'[r] = "done" /\ outcome'[r] = "failed" /\ r \notin payments'
    BY <1>1, PaidIsPast DEF Answer, TInv, TypeOK
  <1>4. OrderStands(r)'
    BY <1>3 DEF OrderStands, Placed
  <1> QED
    BY <1>2, <1>3, <1>4, QuietStatement

(* A new row has the hash of the request that claims it, and no response;  *)
(* nobody else works under the key.                                        *)
LEMMA Claiming ==
    ASSUME TInv, Locks, RInv, Locks', NEW r \in Requests, Acts(r), Claim(r)
    PROVE  RInv'
  <1> DEFINE k == req[r].key
  <1>1. pc[r] = "claim" /\ r \notin crashed /\ payments' = payments /\ status' = status
    BY DEF Claim, At
  <1>2. CASE keyRow[k] # None
    <2>1. Goto(r, "lookup") /\ keyRow' = keyRow
      BY <1>2 DEF Claim
    <2>2. OrderStands(r)' /\ outcome'[r] # "replayed" /\ pc'[r] = "lookup"
      BY <1>1, <2>1, MovedOnStands DEF Placed, Goto, TInv, TypeOK
    <2> QED
      BY <2>1, <2>2, QuietStatement DEF SameRows
  <1>3. CASE keyRow[k] = None
    <2> DEFINE row == [hash |-> requestHash(r), response |-> None, expired |-> FALSE]
    <2>1. Goto(r, "cart") /\ keyRow' = [keyRow EXCEPT ![k] = row]
      BY <1>3 DEF Claim
    <2>2. OrderStands(r)' /\ outcome'[r] # "replayed" /\ pc'[r] = "cart"
      BY <1>1, <2>1, MovedOnStands DEF Placed, Goto, TInv, TypeOK
    <2>3. \A s \in Requests : HoldsKey(s) => req[s].key # k
      BY <1>3 DEF Locks, HeldKeysStand
    <2>4. \A s \in Requests : s # r /\ HoldsKey(s)' => HoldsKey(s)
      BY DEF Acts, HoldsKey, PastClaim
    <2>5. k \in Keys /\ requestHash(r)' = requestHash(r) /\ req' = req
      BY <1>1, ParamParts DEF Acts, TInv, Located, requestHash
    <2>6. row.hash = requestHash(r) /\ row.response = None
      OBVIOUS
    <2> HIDE DEF row
    <2>7. \A j \in Keys : keyRow'[j] = IF j = k THEN row ELSE keyRow[j]
      BY <2>1 DEF TInv, TypeOK
    <2>8. \A j \in Keys : RowTells(j)'
      BY <1>1, <2>5, <2>6, <2>7 DEF RInv, RowTells, requestHash
    <2> HIDE DEF k
    <2>9. ASSUME NEW s \in Requests PROVE HashIsHolders(s)'
      <3>1. CASE s = r
        BY <2>5, <2>6, <2>7, <3>1 DEF HashIsHolders, k
      <3>2. CASE s # r
        BY <2>3, <2>4, <2>5, <2>7, <3>2, HolderKey DEF RInv, HashIsHolders, requestHash
      <3> QED
        BY <3>1, <3>2
    <2>10. ReplayIsFaithful'
      BY <1>1, <2>2 DEF RInv, ReplayIsFaithful, Acts
    <2> QED
      BY <2>2, <2>8, <2>9, <2>10, OthersStand DEF RInv
  <1> QED
    BY <1>2, <1>3

(* The response of a paid order goes into the row, whose hash is its own.  *)
LEMMA Storing ==
    ASSUME TInv, Locks, RInv, Locks', NEW r \in Requests, Acts(r), StoreResponse(r)
    PROVE  RInv'
  <1> DEFINE k == req[r].key
  <1>1. /\ pc[r] = "store" /\ r \notin crashed /\ HoldsKey(r) /\ r \in payments
        /\ payments' = payments /\ status' = status
        /\ keyRow' = [keyRow EXCEPT ![k] =
                        IF @ = None THEN @ ELSE [@ EXCEPT !.response = r]]
        /\ Answer(r, "created", r)
    BY DEF StoreResponse, At, RInv, OrderStands, HoldsKey, PastClaim, Statements
  <1>2. pc'[r] = "done" /\ outcome'[r] = "created" /\ status'[r] = "stock_reserved"
    BY <1>1 DEF Answer, TInv, TypeOK, RInv, OrderStands
  <1>3. \A s \in Requests : OrderStands(s)'
    BY <1>2, OthersStand DEF OrderStands, Placed
  <1>4. /\ keyRow[k] # None /\ keyRow[k].hash = requestHash(r)
        /\ k \in Keys /\ keyRow[k] \in KeyRow
    BY <1>1, HolderKey DEF Locks, HeldKeysStand, RInv, HashIsHolders, TInv, TypeOK
  <1>5. /\ keyRow'[k].response = r /\ keyRow'[k].hash = keyRow[k].hash
        /\ \A j \in Keys : j # k => keyRow'[j] = keyRow[j]
    BY <1>1, <1>4 DEF KeyRow, TInv, TypeOK
  <1>6. PastStays
    BY <1>1, <1>2 DEF PastStays, Acts, HoldsKey, PastClaim, Statements
  <1>7. NoReplay
    BY <1>2 DEF Acts, NoReplay
  <1>8. req' = req
    BY DEF Acts
  <1>9. ASSUME NEW j \in Keys PROVE RowTells(j)'
    <2>1. CASE j = k
      BY <1>1, <1>4, <1>5, <1>8, <2>1 DEF RowTells, requestHash
    <2>2. CASE j # k
      BY <1>1, <1>5, <1>8, <2>2 DEF RInv, RowTells, requestHash
    <2> QED
      BY <2>1, <2>2
  <1>10. ASSUME NEW s \in Requests PROVE HashIsHolders(s)'
    <2>1. HoldsKey(s)' => HoldsKey(s)
      BY <1>6 DEF PastStays
    <2>2. HoldsKey(s) => keyRow'[req[s].key].hash = keyRow[req[s].key].hash
      BY <1>5, HolderKey
    <2> QED
      BY <1>8, <2>1, <2>2 DEF RInv, HashIsHolders, requestHash
  <1> QED
    BY <1>3, <1>6, <1>7, <1>9, <1>10, ReplaysKeep DEF RInv

(* Who is answered from the key asks for the same, under the same key.     *)
LEMMA LookingUp ==
    ASSUME TInv, Locks, RInv, Locks', NEW r \in Requests, Acts(r), LookUp(r)
    PROVE  RInv'
  <1> DEFINE k == req[r].key
  <1>1. /\ pc[r] = "lookup" /\ r \notin payments /\ req[r] \in Params /\ k \in Keys
        /\ keyRow' = keyRow /\ payments' = payments /\ status' = status /\ req' = req
    BY PaidIsPast, ParamParts DEF LookUp, At, dbVars, Acts, TInv, Located
  <1>2. pc'[r] = "done"
    BY DEF LookUp, Answer, TInv, TypeOK
  <1>3. OrderStands(r)'
    BY <1>1, <1>2 DEF OrderStands, Placed
  <1>4. CASE outcome'[r] # "replayed"
    BY <1>1, <1>2, <1>3, <1>4, QuietStatement DEF SameRows
  <1>5. CASE outcome'[r] = "replayed"
    <2> DEFINE o == keyRow[k].response
    <2>1. /\ keyRow[k] # None /\ keyRow[k].hash = requestHash(r) /\ o # None
          /\ result'[r] = o
      BY <1>5 DEF LookUp, Answer, TInv, TypeOK
    <2>2. o \in payments /\ req[o].key = k /\ requestHash(o) = requestHash(r)
      BY <1>1, <2>1 DEF RInv, RowTells
    <2>3. req[o] \in Params /\ o \in Requests /\ status[o] = "stock_reserved"
      BY <2>2, PaidIsPast DEF TInv, Located, RInv, OrderStands
    <2>4. req[o].user = req[r].user /\ req[o].address = req[r].address
      BY <2>2 DEF requestHash
    <2>5. req[o] = req[r]
      BY <1>1, <2>2, <2>3, <2>4, CheckoutAssumption
    <2>6. ReplayIsFaithful'
      BY <1>1, <2>1, <2>2, <2>3, <2>5 DEF RInv, ReplayIsFaithful, Acts
    <2>7. PastStays /\ SameRows
      BY <1>1, <1>2 DEF PastStays, SameRows, Acts, HoldsKey, PastClaim, Statements
    <2> QED
      BY <1>3, <2>6, <2>7, RowsKeep, OthersStand DEF RInv
  <1> QED
    BY <1>4, <1>5

-----------------------------------------------------------------------------
(* The surroundings.                                                       *)

LEMMA SurroundingKeeps ==
    ASSUME TInv, Locks, RInv, Locks',
           \/ \E r \in Requests : Start(r) \/ Crash(r)
           \/ \E k \in Keys : Expire(k)
           \/ Shop
           \/ UNCHANGED vars
    PROVE  RInv'
  <1>1. UNCHANGED <<payments, status, outcome, result>>
    BY DEF Start, Crash, Expire, Shop, vars, dbVars
  <1>2. ASSUME NEW s \in Requests
        PROVE  /\ \/ pc'[s] = pc[s] /\ req'[s] = req[s]
                  \/ pc[s] = "idle" /\ pc'[s] = "purge"
               /\ s \in crashed => s \in crashed'
    <2>1. ASSUME NEW r \in Requests, Start(r)
          PROVE  /\ crashed' = crashed /\ pc[r] = "idle" /\ pc'[r] = "purge"
                 /\ s # r => pc'[s] = pc[s] /\ req'[s] = req[s]
      BY <2>1 DEF Start, At, TInv, TypeOK
    <2>2. ASSUME ~ \E r \in Requests : Start(r)
          PROVE  pc' = pc /\ req' = req /\ crashed \subseteq crashed'
      BY <2>2 DEF Crash, Expire, Shop, vars
    <2> QED
      BY <2>1, <2>2
  <1>3. \A s \in Requests : OrderStands(s)'
    BY <1>1, <1>2 DEF RInv, OrderStands, Placed
  <1>4. PastStays
    BY <1>1, <1>2, PaidIsPast DEF PastStays, HoldsKey, PastClaim, Statements
  <1>5. NoReplay
    BY <1>1, <1>2 DEF NoReplay, RInv, OrderStands
  <1>6. SameRows
    <2>1. CASE keyRow' = keyRow
      BY <2>1 DEF SameRows
    <2>2. ASSUME NEW k \in Keys, Expire(k) PROVE SameRows
      <3>1. keyRow' = [keyRow EXCEPT ![k].expired = TRUE] /\ keyRow[k] # None
        BY <2>2 DEF Expire
      <3>2. keyRow[k] \in KeyRow
        BY <3>1 DEF TInv, TypeOK
      <3>3. /\ keyRow'[k].hash = keyRow[k].hash /\ keyRow'[k].response = keyRow[k].response
            /\ \A j \in Keys : j # k => keyRow'[j] = keyRow[j]
        BY <3>1, <3>2 DEF KeyRow, TInv, TypeOK
      <3> QED
        BY <3>1, <3>3 DEF SameRows
    <2> QED
      BY <2>1, <2>2 DEF Start, Crash, Shop, vars, dbVars
  <1> QED
    BY <1>3, <1>4, <1>5, <1>6, QuietStep

LEMMA ReplayStep == TInv /\ Locks /\ RInv /\ [Next]_vars => RInv'
  <1> SUFFICES ASSUME TInv, Locks, RInv, [Next]_vars PROVE RInv'
    OBVIOUS
  <1>1. Locks'
    BY LocksStep
  <1>2. ASSUME NEW r \in Requests, Progress(r) \/ DbError(r) PROVE RInv'
    <2>1. Acts(r)
      BY <1>2, StatementActs
    <2> QED
      BY <1>1, <1>2, <2>1, BeforeStock, WithStock, Payment, CleanUp, Failure, Purging,
         Dropping, Claiming, Storing, LookingUp DEF Progress
  <1>3. CASE \/ \E r \in Requests : Start(r) \/ Crash(r)
             \/ \E k \in Keys : Expire(k)
             \/ Shop
             \/ UNCHANGED vars
    BY <1>1, <1>3, SurroundingKeeps
  <1> QED
    BY <1>2, <1>3 DEF Next, Step, AllEnded

LEMMA ReplayInit == Init => RInv
  BY DEF Init, RInv, OrderStands, Placed, RowTells, HashIsHolders, HoldsKey, PastClaim, Statements,
         ReplayIsFaithful

(* OrderService.checkout, the answer from an idempotency key: it is the    *)
(* answer to the same request of the same user under the same key, and its *)
(* order was placed, whatever failed, crashed or expired in between.       *)
THEOREM ReplaysAreFaithful == Spec => []ReplayIsFaithful
  <1>1. TInv /\ Locks /\ RInv /\ [Next]_vars => (TInv /\ Locks /\ RInv)'
    BY TypeStep, LocksStep, ReplayStep
  <1>2. Init => TInv /\ Locks /\ RInv
    BY InitTyped, InitLocks, ReplayInit
  <1>3. TInv /\ Locks /\ RInv => ReplayIsFaithful
    BY DEF RInv
  <1> QED
    BY <1>1, <1>2, <1>3, PTL DEF Spec

-----------------------------------------------------------------------------
(* Checkout implements OrderOnce.  The key of a request whose server died  *)
(* stays, and is nobody's, until it lapses.                                *)
DeadKeysStand ==
    \A r \in crashed : pc[r] \in PastClaim /\ req[r].key \notin lapsed =>
        /\ keyRow[req[r].key] # None
        /\ \A s \in Requests : HoldsKey(s) => req[s].key # req[r].key

Unasked(r) == pc[r] = "idle" => req[r] = None

MInv == DeadKeysStand /\ \A r \in Requests : Unasked(r)

LEMMA DeadKey ==
    ASSUME TInv, NEW r \in crashed, pc[r] \in PastClaim
    PROVE  r \in Requests /\ req[r].key \in Keys
  BY ParamParts DEF PastClaim, Statements, TInv, TypeOK, Located

(* Steps after which no more requests have keys, and rows are where they   *)
(* were, if their keys have not lapsed.                                    *)
LEMMA DeadKeysKeep ==
    ASSUME TInv, DeadKeysStand, crashed' = crashed, lapsed' = lapsed, req' = req,
           \A s \in crashed : pc'[s] = pc[s],
           \A s \in Requests : HoldsKey(s)' => HoldsKey(s),
           \A k \in Keys : keyRow'[k] = None =>
               \/ keyRow[k] = None \/ k \in lapsed
               \/ \E s \in Requests : HoldsKey(s) /\ req[s].key = k
    PROVE  DeadKeysStand'
  BY DeadKey DEF DeadKeysStand

LEMMA StatementKeepsRows ==
    ASSUME TInv, Locks, NEW r \in Requests, Progress(r) \/ DbError(r), ~Claim(r)
    PROVE  \A k \in Keys : keyRow'[k] = None =>
               \/ keyRow[k] = None \/ k \in lapsed
               \/ \E s \in Requests : HoldsKey(s) /\ req[s].key = k
  <1>1. CASE Purge(r)
    <2>1. \A k \in Keys : keyRow'[k] = keyRow[k]
                           \/ (keyRow[k] # None /\ keyRow[k].expired)
      BY <1>1 DEF Purge, TInv, TypeOK
    <2> QED
      BY <2>1 DEF Locks, ExpiryIsSeen
  <1>2. CASE DropKey(r)
    <2>1. HoldsKey(r) /\ \A k \in Keys : k # req[r].key => keyRow'[k] = keyRow[k]
      BY <1>2 DEF DropKey, At, HoldsKey, PastClaim, Statements, TInv, TypeOK
    <2> QED
      BY <2>1
  <1>3. CASE StoreResponse(r)
    <2>1. HoldsKey(r) /\ \A k \in Keys : k # req[r].key => keyRow'[k] = keyRow[k]
      BY <1>3 DEF StoreResponse, At, HoldsKey, PastClaim, Statements, TInv, TypeOK
    <2> QED
      BY <2>1
  <1>4. CASE keyRow' = keyRow
    BY <1>4
  <1> QED
    BY <1>1, <1>2, <1>3, <1>4
       DEF Progress, DbError, LookUp, ReadCart, FindAddress, CreateOrder, ReserveItem,
           ReserveShort, ToStockReserved, ClearCart, CreateIntent, CreatePayment,
           ReleaseItem, Cancel, dbVars

LEMMA StatementKeepsHolders ==
    ASSUME TInv, NEW r \in Requests, Progress(r) \/ DbError(r)
    PROVE  /\ lapsed' = lapsed
           /\ pc'[r] # "idle"
           /\ \A s \in Requests : HoldsKey(s)' => HoldsKey(s) \/ s = r
           /\ ~Claim(r) => \A s \in Requests : HoldsKey(s)' => HoldsKey(s)
  <1>1. Acts(r)
    BY StatementActs
  <1>2. \A s \in Requests : s # r /\ HoldsKey(s)' => HoldsKey(s)
    BY <1>1 DEF Acts, HoldsKey
  <1>3. lapsed' = lapsed /\ pc'[r] # "idle" /\ (~Claim(r) /\ HoldsKey(r)' => HoldsKey(r))
    <2>1. CASE DbError(r)
      BY <2>1, <1>1, Destinations
         DEF DbError, Throw, Answer, Goto, Acts, HoldsKey, PastClaim, Statements, TInv, TypeOK
    <2>2. CASE \/ Purge(r) \/ Claim(r) \/ LookUp(r)
      BY <2>2 DEF Purge, Claim, LookUp, Answer, Goto, HoldsKey, PastClaim, Statements,
                  TInv, TypeOK
    <2>3. CASE \/ ReadCart(r) \/ FindAddress(r) \/ ReserveItem(r) \/ ReserveShort(r)
               \/ CreateIntent(r)
      <3>1. pc[r] \in PastClaim /\ r \notin crashed
        BY <2>3 DEF ReadCart, FindAddress, ReserveItem, ReserveShort, CreateIntent, At,
                    PastClaim, Statements
      <3>2. lapsed' = lapsed /\ \E p \in Handlers \cup Statements : pc' = [pc EXCEPT ![r] = p]
        BY <2>3, Destinations DEF ReadCart, FindAddress, ReserveItem, ReserveShort,
           CreateIntent, Throw, Answer, Goto, Handlers, Statements
      <3> QED
        BY <3>1, <3>2 DEF HoldsKey, Handlers, Statements, TInv, TypeOK
    <2>4. CASE \/ CreateOrder(r) \/ ToStockReserved(r) \/ ClearCart(r) \/ CreatePayment(r)
               \/ ReleaseItem(r) \/ Cancel(r) \/ DropKey(r) \/ StoreResponse(r)
      BY <2>4 DEF CreateOrder, ToStockReserved, ClearCart, CreatePayment, ReleaseItem,
                  Cancel, DropKey, StoreResponse, At, Answer, Goto, HoldsKey, PastClaim,
                  Statements, TInv, TypeOK
    <2> QED
      BY <2>1, <2>2, <2>3, <2>4 DEF Progress
  <1> QED
    BY <1>2, <1>3

(* A request that takes the key finds no row, so that the key of a dead    *)
(* one has lapsed.                                                         *)
LEMMA ClaimKeepsDead ==
    ASSUME TInv, Locks, DeadKeysStand, NEW r \in Requests, Claim(r)
    PROVE  DeadKeysStand'
  <1>1. /\ crashed' = crashed /\ lapsed' = lapsed /\ req' = req /\ r \notin crashed
        /\ \A s \in Requests : s # r => pc'[s] = pc[s]
        /\ \A s \in Requests : HoldsKey(s)' => HoldsKey(s) \/ s = r
    BY StatementKeepsHolders, StatementActs DEF Progress, Acts
  <1>2. req[r].key \in Keys
    BY ParamParts DEF Claim, At, TInv, Located
  <1>3. CASE keyRow[req[r].key] # None
    <2>1. keyRow' = keyRow /\ ~HoldsKey(r)'
      BY <1>3 DEF Claim, Goto, HoldsKey, PastClaim, TInv, TypeOK
    <2>2. \A s \in Requests : HoldsKey(s)' => HoldsKey(s)
      BY <1>1, <2>1
    <2>3. \A s \in crashed : pc'[s] = pc[s]
      BY <1>1 DEF TInv, TypeOK
    <2> QED
      BY <1>1, <2>1, <2>2, <2>3, DeadKeysKeep
  <1>4. CASE keyRow[req[r].key] = None
    <2>1. \A k \in Keys : k # req[r].key => keyRow'[k] = keyRow[k]
      BY <1>4 DEF Claim, TInv, TypeOK
    <2>2. ASSUME NEW s \in crashed', (pc[s] \in PastClaim)', (req[s].key \notin lapsed)'
          PROVE  /\ keyRow'[req[s].key] # None
                 /\ \A t \in Requests : HoldsKey(t)' => req[t].key # req[s].key
      <3>1. s \in crashed /\ s # r /\ s \in Requests /\ pc[s] \in PastClaim /\ req[s].key \in Keys
            /\ req[s].key \notin lapsed
        BY <1>1, <2>2, DeadKey DEF TInv, TypeOK
      <3>2. /\ keyRow[req[s].key] # None
            /\ \A t \in Requests : HoldsKey(t) => req[t].key # req[s].key
        BY <3>1 DEF DeadKeysStand
      <3> QED
        BY <1>1, <1>4, <2>1, <3>1, <3>2
    <2> QED
      BY <1>1, <2>2 DEF DeadKeysStand
  <1> QED
    BY <1>3, <1>4

LEMMA StatementKeepsDead ==
    ASSUME TInv, Locks, MInv, NEW r \in Requests, Progress(r) \/ DbError(r)
    PROVE  MInv'
  <1>1. Acts(r)
    BY StatementActs
  <1>2. DeadKeysStand'
    <2>1. CASE Claim(r)
      BY <2>1, ClaimKeepsDead DEF MInv
    <2>2. CASE ~Claim(r)
      <3>1. \A s \in crashed : pc'[s] = pc[s]
        BY <1>1 DEF Acts, TInv, TypeOK
      <3> QED
        BY <1>1, <2>2, <3>1, StatementKeepsHolders, StatementKeepsRows, DeadKeysKeep
           DEF MInv, Acts
    <2> QED
      BY <2>1, <2>2
  <1>3. \A s \in Requests : Unasked(s)'
    BY <1>1, StatementKeepsHolders DEF MInv, Unasked, Acts
  <1> QED
    BY <1>2, <1>3 DEF MInv

(* Who dies past the claim leaves a row behind, alone with its key.        *)
LEMMA CrashKeepsDead ==
    ASSUME TInv, Locks, MInv, NEW r \in Requests, Crash(r)
    PROVE  MInv'
  <1>1. /\ crashed' = crashed \cup {r} /\ r \notin crashed
        /\ UNCHANGED <<keyRow, pc, req, lapsed>>
    BY DEF Crash, dbVars
  <1>2. \A s \in Requests : HoldsKey(s)' <=> HoldsKey(s) /\ s # r
    BY <1>1 DEF HoldsKey
  <1>3. pc[r] \in PastClaim => /\ keyRow[req[r].key] # None
                              /\ \A s \in Requests : HoldsKey(s) /\ s # r => req[s].key # req[r].key
    BY <1>1 DEF HoldsKey, Locks, HeldKeysStand, OneRunnerPerKey
  <1>4. DeadKeysStand'
    BY <1>1, <1>2, <1>3 DEF MInv, DeadKeysStand
  <1> QED
    BY <1>1, <1>4 DEF MInv, Unasked

LEMMA SurroundingKeepsDead ==
    ASSUME TInv, Locks, MInv,
           \/ \E r \in Requests : Start(r)
           \/ \E k \in Keys : Expire(k)
           \/ Shop
           \/ UNCHANGED vars
    PROVE  MInv'
  <1>1. CASE Shop \/ UNCHANGED vars
    BY <1>1 DEF Shop, vars, MInv, DeadKeysStand, HoldsKey, Unasked
  <1>2. ASSUME NEW r \in Requests, Start(r) PROVE MInv'
    <2>1. /\ UNCHANGED <<keyRow, crashed, lapsed>> /\ r \notin crashed
          /\ pc[r] = "idle" /\ pc'[r] = "purge"
          /\ \A s \in Requests : s # r => pc'[s] = pc[s] /\ req'[s] = req[s]
      BY <1>2 DEF Start, At, dbVars, TInv, TypeOK
    <2>2. \A s \in Requests : HoldsKey(s)' => HoldsKey(s) /\ s # r
      BY <2>1 DEF HoldsKey, PastClaim
    <2>3. \A s \in crashed : s \in Requests /\ pc'[s] = pc[s] /\ req'[s] = req[s]
      BY <2>1 DEF TInv, TypeOK
    <2>4. \A s \in Requests : HoldsKey(s)' => HoldsKey(s) /\ req'[s] = req[s]
      BY <2>1, <2>2
    <2>5. DeadKeysStand'
      BY <2>1, <2>3, <2>4 DEF MInv, DeadKeysStand
    <2> QED
      BY <2>1, <2>5 DEF MInv, Unasked
  <1>3. ASSUME NEW k \in Keys, Expire(k) PROVE MInv'
    <2>1. /\ UNCHANGED <<pc, req, crashed>> /\ lapsed' = lapsed \cup {k}
          /\ \A j \in Keys : j # k => keyRow'[j] = keyRow[j]
      BY <1>3 DEF Expire, TInv, TypeOK
    <2>2. \A s \in Requests : HoldsKey(s)' <=> HoldsKey(s)
      BY <2>1 DEF HoldsKey
    <2>3. DeadKeysStand'
      BY <2>1, <2>2, DeadKey DEF MInv, DeadKeysStand
    <2> QED
      BY <2>1, <2>3 DEF MInv, Unasked
  <1> QED
    BY <1>1, <1>2, <1>3

LEMMA DeadStep == TInv /\ Locks /\ MInv /\ [Next]_vars => MInv'
  BY StatementKeepsDead, CrashKeepsDead, SurroundingKeepsDead DEF Next, Step, AllEnded

LEMMA DeadInit == Init => MInv
  BY DEF Init, MInv, DeadKeysStand, Unasked

-----------------------------------------------------------------------------
(* Each step of Checkout is one of OrderOnce, or none.                     *)

Maps == Promise!Next \/ UNCHANGED Promise!vars

(* A request is an owner by where it is or by its payment; only the step   *)
(* of a request changes that.                                              *)
LEMMA OwnersFollow ==
    ASSUME TInv, NEW r \in Requests, Acts(r)
    PROVE  /\ Owners' \subseteq Owners \cup {r} /\ Owners \ {r} \subseteq Owners'
           /\ Answered' \subseteq Answered \cup {r} /\ Answered \ {r} \subseteq Answered'
           /\ r \notin Answered
           /\ r \in Owners' <=> pc'[r] \in PastClaim \/ r \in payments'
           /\ r \in Owners <=> pc[r] \in PastClaim \/ r \in payments
           /\ r \in Answered' <=> pc'[r] = "done"
  <1>1. /\ payments \subseteq payments' /\ payments' \subseteq payments \cup {r}
        /\ \A s \in Requests : s # r => pc'[s] = pc[s]
        /\ pc[r] # "done"
    BY DEF Acts, Statements
  <1> QED
    BY <1>1 DEF Owners, Answered

LEMMA IsActive ==
    ASSUME TInv, NEW r \in Requests, pc[r] \in Statements, r \notin crashed
    PROVE  Promise!Active(r) /\ req[r] \in Params /\ req[r].key \in Keys
  <1>1. req[r] \in Params /\ req[r].key \in Keys
    BY ParamParts DEF TInv, Located, Statements
  <1>2. req[r] # None /\ r \notin Answered
    BY <1>1, CheckoutAssumption DEF Answered, Statements
  <1> QED
    BY <1>1, <1>2 DEF Promise!Active, Promise!Over

(* The statements between two others, before the claim or past it.         *)
LEMMA GoesOn ==
    ASSUME TInv, NEW r \in Requests, Acts(r), NEW p, Goto(r, p), p # "done",
           payments' = payments,
           pc[r] \in PastClaim <=> p \in PastClaim
    PROVE  Maps
  <1>1. pc'[r] = p /\ UNCHANGED <<req, result, crashed, lapsed>>
    BY DEF Goto, TInv, TypeOK
  <1>2. Owners' = Owners /\ Answered' = Answered
    BY <1>1, OwnersFollow
  <1> QED
    BY <1>1, <1>2 DEF Maps, Promise!vars

(* The answers: with an order that the request has placed, with none, or   *)
(* with another's.                                                         *)
LEMMA AnswerMaps ==
    ASSUME TInv, Locks, RInv, RInv', NEW r \in Requests, Acts(r), NEW o, NEW order,
           Answer(r, o, order), payments' = payments,
           \/ pc[r] = "store" /\ order = r
           \/ pc[r] # "store" /\ order = None
           \/ pc[r] = "lookup" /\ o = "replayed"
    PROVE  Maps
  <1>1. /\ pc[r] \in Statements /\ r \notin crashed /\ pc'[r] = "done"
        /\ UNCHANGED <<req, crashed, lapsed>> /\ result' = [result EXCEPT ![r] = order]
        /\ outcome'[r] = o /\ result'[r] = order
    BY DEF Acts, Answer, TInv, TypeOK
  <1>2. r \in payments <=> pc[r] = "store"
    BY <1>1, PaidIsPast DEF RInv, OrderStands, Statements
  <1>3. Answered' = Answered \cup {r} /\ Promise!Answer(r, order)
    BY <1>1, OwnersFollow DEF Promise!Answer
  <1>4. CASE pc[r] = "store" /\ order = r
    <2>1. Owners' = Owners /\ r \in Owners
      BY <1>1, <1>2, <1>4, OwnersFollow
    <2> QED
      BY <1>1, <1>2, <1>3, <1>4, <2>1, IsActive DEF Maps, Promise!Next, Promise!Confirm
  <1>5. CASE pc[r] # "store" /\ order = None /\ pc[r] \in PastClaim
    <2>1. Owners' = Owners \ {r} /\ r \in Owners
      BY <1>1, <1>2, <1>5, OwnersFollow DEF PastClaim, Statements
    <2> QED
      BY <1>1, <1>2, <1>3, <1>5, <2>1, IsActive DEF Maps, Promise!Next, Promise!GiveUp
  <1>6. CASE pc[r] \notin PastClaim
    <2>1. Owners' = Owners /\ r \notin Owners
      BY <1>1, <1>2, <1>6, OwnersFollow DEF PastClaim, Statements
    <2>2. CASE order = None
      BY <1>1, <1>3, <2>1, <2>2, IsActive DEF Maps, Promise!Next, Promise!Refuse
    <2>3. CASE o = "replayed"
      <3>1. order \in payments /\ req[order] = req[r]
        BY <1>1, <2>3 DEF RInv, ReplayIsFaithful
      <3> QED
        BY <1>1, <1>3, <2>1, <3>1, IsActive DEF Maps, Promise!Next, Promise!Replay
    <2>4. pc[r] # "store"
      BY <1>1, <1>6 DEF PastClaim
    <2> QED
      BY <2>2, <2>3, <2>4
  <1> QED
    BY <1>4, <1>5, <1>6 DEF PastClaim, Statements

LEMMA ThrowMaps ==
    ASSUME TInv, Locks, RInv, RInv', NEW r \in Requests, Acts(r), Throw(r, pc[r]),
           payments' = payments
    PROVE  Maps
  <1>1. pc[r] \in Statements
    BY DEF Acts
  <1>2. CASE Catch[pc[r]] = "done"
    <2>1. Answer(r, "failed", None) /\ pc[r] # "store"
      BY <1>1, <1>2, Destinations DEF Throw
    <2> QED
      BY <2>1, AnswerMaps
  <1>3. CASE Catch[pc[r]] = "created"
    <2>1. Answer(r, "created", r) /\ pc[r] = "store"
      BY <1>1, <1>3, Destinations DEF Throw
    <2> QED
      BY <2>1, AnswerMaps
  <1>4. CASE Catch[pc[r]] \notin {"done", "created"}
    <2>1. Goto(r, Catch[pc[r]]) /\ Catch[pc[r]] \in {"release", "cancel", "dropKey"}
      BY <1>1, <1>4, Destinations DEF Throw
    <2>2. pc[r] \in PastClaim /\ Catch[pc[r]] \in PastClaim
      BY <1>1, <1>4, <2>1, Destinations DEF PastClaim, Statements
    <2> QED
      BY <2>1, <2>2, GoesOn
  <1> QED
    BY <1>2, <1>3, <1>4

(* The claim finds no row: those who owned the key have ended, and it has  *)
(* lapsed.                                                                 *)
LEMMA ClaimMaps ==
    ASSUME TInv, Locks, MInv, NEW r \in Requests, Acts(r), Claim(r)
    PROVE  Maps
  <1>1. pc[r] = "claim" /\ r \notin crashed /\ payments' = payments
    BY DEF Claim, At
  <1>2. Promise!Active(r) /\ req[r].key \in Keys /\ r \notin Owners
    BY <1>1, IsActive, OwnersFollow, PaidIsPast DEF PastClaim, Statements
  <1>3. CASE keyRow[req[r].key] # None
    <2>1. Goto(r, "lookup")
      BY <1>3 DEF Claim
    <2> QED
      BY <1>1, <2>1, GoesOn DEF PastClaim
  <1>4. CASE keyRow[req[r].key] = None
    <2>1. UNCHANGED <<req, result, crashed, lapsed>> /\ pc'[r] = "cart"
      BY <1>4 DEF Claim, Goto, TInv, TypeOK
    <2>2. Owners' = Owners \cup {r} /\ Answered' = Answered
      BY <2>1, OwnersFollow DEF PastClaim, Statements
    <2>3. ASSUME NEW s \in Owners, req[s].key = req[r].key
          PROVE  Promise!Over(s) /\ req[r].key \in lapsed
      <3>1. s \in Requests /\ ~HoldsKey(s) /\ (pc[s] \in PastClaim \/ s \in payments)
        BY <1>4, <2>3 DEF Locks, HeldKeysStand, Owners
      <3>2. CASE pc[s] \in PastClaim
        <4>1. s \in crashed
          BY <3>1, <3>2 DEF HoldsKey
        <4> QED
          BY <1>4, <2>3, <3>2, <4>1 DEF MInv, DeadKeysStand, Promise!Over
      <3>3. CASE s \in payments /\ pc[s] \notin PastClaim
        <4>1. pc[s] = "done"
          BY <3>3, PaidIsPast DEF PastClaim, Statements
        <4> QED
          BY <1>4, <2>3, <3>1, <3>3, <4>1
             DEF Locks, PaidKeysStand, Promise!Over, Answered
      <3> QED
        BY <3>1, <3>2, <3>3
    <2>4. Promise!Take(r)
      BY <1>1, <1>2, <2>1, <2>2, <2>3 DEF Promise!Take, Promise!OwnersOf
    <2> QED
      BY <2>4 DEF Maps, Promise!Next
  <1> QED
    BY <1>3, <1>4

LEMMA PaymentMaps ==
    ASSUME TInv, NEW r \in Requests, Acts(r), CreatePayment(r)
    PROVE  Maps
  <1>1. /\ pc[r] = "payment" /\ r \notin crashed /\ pc'[r] = "store"
        /\ payments' = payments \cup {r} /\ UNCHANGED <<req, result, crashed, lapsed>>
    BY DEF CreatePayment, At, Goto, TInv, TypeOK
  <1>2. Owners' = Owners /\ Answered' = Answered /\ r \in Owners
    BY <1>1, OwnersFollow DEF PastClaim, Statements
  <1>3. Promise!Place(r)
    BY <1>1, <1>2, IsActive DEF Promise!Place, Statements
  <1> QED
    BY <1>3 DEF Maps, Promise!Next

LEMMA StatementMaps ==
    ASSUME TInv, Locks, RInv, MInv, RInv', NEW r \in Requests, Progress(r) \/ DbError(r)
    PROVE  Maps
  <1>1. Acts(r)
    BY StatementActs
  <1>2. CASE DbError(r)
    BY <1>1, <1>2, ThrowMaps DEF DbError, dbVars
  <1>3. CASE Purge(r)
    BY <1>1, <1>3, GoesOn DEF Purge, At, PastClaim
  <1>4. CASE Claim(r)
    BY <1>1, <1>4, ClaimMaps
  <1>5. CASE LookUp(r)
    <2>1. pc[r] = "lookup" /\ payments' = payments
      BY <1>5 DEF LookUp, At, dbVars
    <2>2. \/ \E o : Answer(r, o, None)
          \/ Answer(r, "replayed", keyRow[req[r].key].response)
      BY <1>5 DEF LookUp
    <2> QED
      BY <1>1, <2>1, <2>2, AnswerMaps
  <1>6. CASE ReadCart(r) \/ FindAddress(r) \/ ReserveItem(r) \/ ReserveShort(r)
             \/ CreateIntent(r)
    <2>1. pc[r] \in PastClaim /\ payments' = payments
      BY <1>6 DEF ReadCart, FindAddress, ReserveItem, ReserveShort, CreateIntent, At,
                  PastClaim, Statements, dbVars
    <2>2. \/ Throw(r, pc[r])
          \/ \E p \in {"address", "order", "reserve", "toReserved", "payment"} : Goto(r, p)
      BY <1>6 DEF ReadCart, FindAddress, ReserveItem, ReserveShort, CreateIntent, At
    <2> QED
      BY <1>1, <2>1, <2>2, ThrowMaps, GoesOn DEF PastClaim, Statements
  <1>7. CASE CreateOrder(r) \/ ToStockReserved(r) \/ ClearCart(r) \/ ReleaseItem(r)
             \/ Cancel(r)
    <2>1. pc[r] \in PastClaim /\ payments' = payments
      BY <1>7 DEF CreateOrder, ToStockReserved, ClearCart, ReleaseItem, Cancel, At,
                  PastClaim, Statements
    <2>2. \E p \in {"reserve", "clear", "intent", "cancel", "release", "dropKey"} : Goto(r, p)
      BY <1>7 DEF CreateOrder, ToStockReserved, ClearCart, ReleaseItem, Cancel
    <2> QED
      BY <1>1, <2>1, <2>2, GoesOn DEF PastClaim, Statements
  <1>8. CASE CreatePayment(r)
    BY <1>1, <1>8, PaymentMaps
  <1>9. CASE DropKey(r)
    BY <1>1, <1>9, AnswerMaps DEF DropKey, At
  <1>10. CASE StoreResponse(r)
    BY <1>1, <1>10, AnswerMaps DEF StoreResponse, At
  <1> QED
    BY <1>2, <1>3, <1>4, <1>5, <1>6, <1>7, <1>8, <1>9, <1>10 DEF Progress

LEMMA SurroundingMaps ==
    ASSUME TInv, Locks, MInv,
           \/ \E r \in Requests : Start(r) \/ Crash(r)
           \/ \E k \in Keys : Expire(k)
           \/ Shop
           \/ UNCHANGED vars
    PROVE  Maps
  <1>1. CASE Shop \/ UNCHANGED vars
    BY <1>1 DEF Shop, vars, Maps, Promise!vars, Owners, Answered
  <1>2. ASSUME NEW r \in Requests, Start(r) PROVE Maps
    <2>1. /\ pc[r] = "idle" /\ pc' = [pc EXCEPT ![r] = "purge"]
          /\ UNCHANGED <<payments, result, crashed, lapsed>>
          /\ \E p \in Params : req' = [req EXCEPT ![r] = p]
      BY <1>2 DEF Start, At, dbVars
    <2>2. Owners' = Owners /\ Answered' = Answered
      BY <2>1 DEF Owners, Answered, PastClaim, Statements, TInv, TypeOK
    <2>3. Promise!Ask(r)
      BY <2>1, <2>2 DEF Promise!Ask, MInv, Unasked
    <2> QED
      BY <2>3 DEF Maps, Promise!Next
  <1>3. ASSUME NEW r \in Requests, Crash(r) PROVE Maps
    <2>1. /\ pc[r] \in Statements /\ r \notin crashed /\ crashed' = crashed \cup {r}
          /\ UNCHANGED <<payments, pc, req, result, lapsed>>
      BY <1>3 DEF Crash, dbVars
    <2>2. Promise!Die(r)
      BY <2>1, IsActive DEF Promise!Die, Owners, Answered
    <2> QED
      BY <2>2 DEF Maps, Promise!Next
  <1>4. ASSUME NEW k \in Keys, Expire(k) PROVE Maps
    <2>1. /\ UNCHANGED <<payments, pc, req, result, crashed>> /\ lapsed' = lapsed \cup {k}
          /\ \A s \in Requests : HoldsKey(s) => req[s].key # k
      BY <1>4 DEF Expire
    <2>2. ASSUME NEW s \in Owners, req[s].key = k PROVE Promise!Over(s)
      <3>1. s \in Requests /\ ~HoldsKey(s)
        BY <2>1, <2>2 DEF Owners, TInv, TypeOK
      <3>2. pc[s] = "done" \/ s \in crashed
        BY <3>1, PaidIsPast DEF Owners, HoldsKey, PastClaim, Statements
      <3> QED
        BY <3>1, <3>2 DEF Promise!Over, Answered
    <2>3. Promise!Lapse(k)
      BY <2>1, <2>2 DEF Promise!Lapse, Promise!OwnersOf, Owners, Answered
    <2> QED
      BY <2>3 DEF Maps, Promise!Next, Keys
  <1> QED
    BY <1>1, <1>2, <1>3, <1>4

\* OrderService.checkout keeps the promise of an idempotency key, for any number
\* of requests, whatever fails, crashes or expires: each of its statements is
\* one step of OrderOnce, or none.
THEOREM CheckoutKeepsPromise == Spec => ImplementsOrderOnce
  <1> DEFINE Inv == TInv /\ Locks /\ RInv /\ MInv
  <1>1. Init => Inv
    BY InitTyped, InitLocks, ReplayInit, DeadInit
  <1>2. Inv /\ [Next]_vars => Inv'
    BY TypeStep, LocksStep, ReplayStep, DeadStep
  <1>3. Init => Promise!Init
    BY DEF Init, Promise!Init, Owners, Answered, PastClaim, Statements
  <1>4. Inv /\ Inv' /\ [Next]_vars => [Promise!Next]_(Promise!vars)
    <2> SUFFICES ASSUME Inv, Inv', [Next]_vars PROVE Maps
      BY DEF Maps
    <2> QED
      BY StatementMaps, SurroundingMaps DEF Next, Step, AllEnded
  <1> QED
    BY <1>1, <1>2, <1>3, <1>4, PTL DEF Spec, ImplementsOrderOnce, Promise!Spec
=============================================================================
