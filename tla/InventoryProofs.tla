-------------------------- MODULE InventoryProofs --------------------------
(***************************************************************************)
(* What module Inventory promises for any number of calls, variants and    *)
(* retries, and for any stock: proofs.                                     *)
(***************************************************************************)
EXTENDS Inventory, TotalsProofs, TLAPS

Running == {"read", "update", "after", "release", "deduct"}

(* A running call is at an item of its list; so is one that gave up.  A    *)
(* call not yet made will start with the first item and the first attempt. *)
Located(c) ==
    /\ (pc[c] \in Running \/ outcome[c] = "conflict") =>
            /\ op[c] \in AllOps
            /\ items[c] \in Seq(Item)
            /\ idx[c] \in 1 .. Len(items[c])
    /\ pc[c] = "idle" => idx[c] = 1 /\ attempt[c] = 0

(* What a call has read is in the past of the row: the version can only    *)
(* have grown, and as long as it has not, no available unit has gone.      *)
ReadInPast(c) ==
    pc[c] = "update" =>
        /\ current[c] \in Row
        /\ Available(current[c]) >= Qty(c)
        /\ stock[Variant(c)] # NoRow =>
              /\ current[c].version <= stock[Variant(c)].version
              /\ current[c].version = stock[Variant(c)].version =>
                    Available(stock[Variant(c)]) >= Available(current[c])

(* Every failed attempt has cost the row a version.                        *)
AttemptsCostVersions(c) ==
    /\ pc[c] = "update" => attempt[c] < current[c].version
    /\ (pc[c] = "read" /\ stock[Variant(c)] # NoRow) =>
          attempt[c] < stock[Variant(c)].version

(* Only a finished call has given up, and only on a row that was contended. *)
GaveUp(c) ==
    outcome[c] = "conflict" =>
        /\ pc[c] = "done"
        /\ stock[Variant(c)] = NoRow \/ stock[Variant(c)].version > MAX_RETRY

CallOK(c) == Located(c) /\ ReadInPast(c) /\ AttemptsCostVersions(c) /\ GaveUp(c)

RowOK(r) == r # NoRow => 0 <= r.reserved /\ r.reserved <= r.quantity /\ r.version >= 1

IInv ==
    /\ TypeOK
    /\ \A v \in Variants : RowOK(stock[v])
    /\ \A c \in Calls : CallOK(c)

-----------------------------------------------------------------------------
(* How one statement may change a row, seen by everybody else.             *)
Evolves(r, s) ==
    \/ s = NoRow
    \/ /\ r \in Row /\ s \in Row
       /\ r.version <= s.version
       /\ r.version = s.version => Available(r) <= Available(s)

(* The item a running call is at.                                          *)
LEMMA ItemOfCall ==
  ASSUME NEW c \in Calls, Located(c), pc[c] \in Running \/ outcome[c] = "conflict"
  PROVE  Variant(c) \in Variants /\ Qty(c) \in Nat /\ Qty(c) > 0
  <1>1. items[c][idx[c]] \in Item
    BY DEF Located
  <1> QED
    BY <1>1 DEF Item, Variant, Qty

(* What the three UPDATEs write.                                           *)
Updated(r, q) ==
    /\ ReservedRow(r, q) \in Row
    /\ ReservedRow(r, q).quantity = r.quantity
    /\ ReservedRow(r, q).reserved = r.reserved + q
    /\ ReservedRow(r, q).version = r.version + 1
    /\ ReleasedRow(r, q) \in Row
    /\ ReleasedRow(r, q).quantity = r.quantity
    /\ ReleasedRow(r, q).reserved = r.reserved - q
    /\ ReleasedRow(r, q).version = r.version
    /\ DeductedRow(r, q) \in Row
    /\ DeductedRow(r, q).quantity = r.quantity - q
    /\ DeductedRow(r, q).reserved = r.reserved - q
    /\ DeductedRow(r, q).version = r.version

LEMMA UpdatedRows ==
  ASSUME NEW r \in Row, NEW q \in Nat
  PROVE  Updated(r, q)
  <1>1. r.quantity \in Int /\ r.reserved \in Int /\ r.version \in Nat
    BY DEF Row
  <1>2. /\ ReservedRow(r, q) \in Row
        /\ ReservedRow(r, q).quantity = r.quantity
        /\ ReservedRow(r, q).reserved = r.reserved + q
        /\ ReservedRow(r, q).version = r.version + 1
    BY <1>1 DEF Row, ReservedRow
  <1>3. /\ ReleasedRow(r, q) \in Row
        /\ ReleasedRow(r, q).quantity = r.quantity
        /\ ReleasedRow(r, q).reserved = r.reserved - q
        /\ ReleasedRow(r, q).version = r.version
    BY <1>1 DEF Row, ReleasedRow
  <1>4. /\ DeductedRow(r, q) \in Row
        /\ DeductedRow(r, q).quantity = r.quantity - q
        /\ DeductedRow(r, q).reserved = r.reserved - q
        /\ DeductedRow(r, q).version = r.version
    BY <1>1 DEF Row, DeductedRow
  <1> QED
    BY <1>2, <1>3, <1>4 DEF Updated

(* The three UPDATEs keep a row a row, keep it from being oversold and move *)
(* it as Evolves says.                                                     *)
LEMMA UpdatesOfRow ==
  ASSUME NEW r \in Row, NEW q \in Nat, q > 0, RowOK(r)
  PROVE  /\ Available(r) >= q =>
              /\ ReservedRow(r, q) \in Row /\ RowOK(ReservedRow(r, q))
              /\ Evolves(r, ReservedRow(r, q))
         /\ r.reserved >= q =>
              /\ ReleasedRow(r, q) \in Row /\ RowOK(ReleasedRow(r, q))
              /\ Evolves(r, ReleasedRow(r, q))
         /\ r.reserved >= q =>
              /\ DeductedRow(r, q) \in Row /\ RowOK(DeductedRow(r, q))
              /\ Evolves(r, DeductedRow(r, q))
  <1>1. r.quantity \in Int /\ r.reserved \in Int /\ r.version \in Nat /\ r # NoRow
    BY InventoryAssumption DEF Row
  <1>2. Updated(r, q)
    BY UpdatedRows
  <1> QED
    BY <1>1, <1>2 DEF Updated, Available, Evolves, RowOK

(* Every statement of every call moves every row as Evolves says, and      *)
(* leaves it typed and not oversold.                                       *)
RowsStep ==
    /\ stock' \in [Variants -> Row \cup {NoRow}]
    /\ \A v \in Variants : Evolves(stock[v], stock'[v]) /\ RowOK(stock'[v])

LEMMA RowsStepLemma == IInv /\ [Next]_vars => RowsStep
  <1> SUFFICES ASSUME IInv, [Next]_vars PROVE RowsStep
    OBVIOUS
  <1>0. stock \in [Variants -> Row \cup {NoRow}] /\ \A v \in Variants : RowOK(stock[v])
    BY DEF IInv, TypeOK
  <1>a. \A v \in Variants : Evolves(stock[v], stock[v])
    BY <1>0 DEF Evolves, Row, Available
  <1>b. ASSUME stock' = stock PROVE RowsStep
    BY <1>0, <1>a, <1>b DEF RowsStep
  <1>c. ASSUME NEW v \in Variants, NEW r \in Row \cup {NoRow},
               stock' = [stock EXCEPT ![v] = r], Evolves(stock[v], r), RowOK(r)
        PROVE  RowsStep
    BY <1>0, <1>a, <1>c DEF RowsStep
  <1>d. ASSUME NEW c \in Calls, pc[c] \in Running
        PROVE  Variant(c) \in Variants /\ Qty(c) \in Nat /\ Qty(c) > 0
    BY <1>d, ItemOfCall DEF IInv, CallOK
  <1>1. ASSUME NEW c \in Calls, UpdateTakes(c) PROVE RowsStep
    <2> DEFINE v == Variant(c)
    <2>1. v \in Variants /\ Qty(c) \in Nat /\ Qty(c) > 0
      BY <1>1, <1>d DEF UpdateTakes, Running
    <2>2. stock[v] \in Row /\ Available(stock[v]) >= Qty(c) /\ RowOK(stock[v])
      BY <1>0, <1>1, <2>1 DEF UpdateTakes, CanReserve
    <2>3. stock' = [stock EXCEPT ![v] = ReservedRow(stock[v], Qty(c))]
      BY <1>1 DEF UpdateTakes
    <2> QED
      BY <1>c, <2>1, <2>2, <2>3, UpdatesOfRow
  <1>2. ASSUME NEW c \in Calls, ReleaseItem(c) PROVE RowsStep
    <2> DEFINE v == Variant(c)
    <2>1. v \in Variants /\ Qty(c) \in Nat /\ Qty(c) > 0
      BY <1>2, <1>d DEF ReleaseItem, Running
    <2>2. CASE CanRelease(stock[v], Qty(c))
      <3>1. stock[v] \in Row /\ stock[v].reserved >= Qty(c) /\ RowOK(stock[v])
        BY <1>0, <2>1, <2>2 DEF CanRelease
      <3>2. stock' = [stock EXCEPT ![v] = ReleasedRow(stock[v], Qty(c))]
        BY <1>2, <2>2 DEF ReleaseItem
      <3> QED
        BY <1>c, <2>1, <3>1, <3>2, UpdatesOfRow
    <2>3. CASE ~CanRelease(stock[v], Qty(c))
      BY <1>2, <1>b, <2>3 DEF ReleaseItem
    <2> QED
      BY <2>2, <2>3
  <1>3. ASSUME NEW c \in Calls, DeductItem(c) PROVE RowsStep
    <2> DEFINE v == Variant(c)
    <2>1. v \in Variants /\ Qty(c) \in Nat /\ Qty(c) > 0
      BY <1>3, <1>d DEF DeductItem, Running
    <2>2. CASE CanDeduct(stock[v], Qty(c))
      <3>1. stock[v] \in Row /\ stock[v].reserved >= Qty(c) /\ RowOK(stock[v])
        BY <1>0, <2>1, <2>2 DEF CanDeduct
      <3>2. stock' = [stock EXCEPT ![v] = DeductedRow(stock[v], Qty(c))]
        BY <1>3, <2>2 DEF DeductItem
      <3> QED
        BY <1>c, <2>1, <3>1, <3>2, UpdatesOfRow
    <2>3. CASE ~CanDeduct(stock[v], Qty(c))
      BY <1>3, <1>b, <2>3 DEF DeductItem
    <2> QED
      BY <2>2, <2>3
  <1>4. ASSUME NEW v \in Variants, DropVariant(v) PROVE RowsStep
    BY <1>4, <1>c DEF DropVariant, Evolves, RowOK
  <1>5. ASSUME NEW c \in Calls,
               Call(c) \/ ReadShort(c) \/ ReadEnough(c) \/ UpdateRetry(c)
                 \/ UpdateConflict(c) \/ ReadAfter(c) \/ DbError(c)
        PROVE  RowsStep
    BY <1>5, <1>b DEF Call, ReadShort, ReadEnough, UpdateRetry, UpdateConflict,
                      ReadAfter, DbError
  <1>6. CASE UNCHANGED vars \/ AllDone
    BY <1>6, <1>b DEF vars, AllDone
  <1> QED
    BY <1>1, <1>2, <1>3, <1>4, <1>5, <1>6 DEF Next, Step, Progress

-----------------------------------------------------------------------------
(* A call that does not move stays as good as it was: what it knows about  *)
(* the row only recedes into the past.                                     *)
LEMMA CallKept ==
  ASSUME NEW c \in Calls, IInv, RowsStep,
         pc'[c] = pc[c], op'[c] = op[c], items'[c] = items[c], idx'[c] = idx[c],
         attempt'[c] = attempt[c], current'[c] = current[c], outcome'[c] = outcome[c]
  PROVE  CallOK(c)'
  <1> USE DEF Running
  <1>1. CallOK(c)
    BY DEF IInv
  <1>2. Located(c)'
    BY <1>1 DEF CallOK, Located
  <1>3. Variant(c)' = Variant(c) /\ Qty(c)' = Qty(c)
    BY DEF Variant, Qty
  <1>4. attempt[c] \in Int /\ MAX_RETRY \in Int
    BY InventoryAssumption DEF IInv, TypeOK
  <1>5. CASE pc[c] \in Running \/ outcome[c] = "conflict"
    <2> DEFINE v == Variant(c)
    <2>1. v \in Variants /\ Qty(c) \in Nat
      BY <1>1, <1>5, ItemOfCall DEF CallOK
    <2>2. /\ Evolves(stock[v], stock'[v])
          /\ stock'[v] # NoRow => stock[v] # NoRow
      BY <2>1, InventoryAssumption DEF RowsStep, Evolves
    <2>3. ReadInPast(c)'
      BY <1>1, <1>3, <2>1, <2>2 DEF CallOK, ReadInPast, Evolves, Row, Available
    <2>4. AttemptsCostVersions(c)'
      BY <1>1, <1>3, <1>4, <2>2 DEF CallOK, AttemptsCostVersions, Evolves, Row
    <2>5. GaveUp(c)'
      BY <1>1, <1>3, <1>4, <2>2 DEF CallOK, GaveUp, Evolves, Row
    <2> QED
      BY <1>2, <2>3, <2>4, <2>5 DEF CallOK
  <1>6. CASE ~(pc[c] \in Running \/ outcome[c] = "conflict")
    BY <1>2, <1>6 DEF CallOK, ReadInPast, AttemptsCostVersions, GaveUp
  <1> QED
    BY <1>5, <1>6

(* One call moves: the others stay good.                                   *)
LocalStep(c) ==
    \A d \in Calls \ {c} :
        /\ pc'[d] = pc[d] /\ op'[d] = op[d] /\ items'[d] = items[d]
        /\ idx'[d] = idx[d] /\ attempt'[d] = attempt[d]
        /\ current'[d] = current[d] /\ outcome'[d] = outcome[d]

LEMMA OneCallMoves ==
  ASSUME NEW c \in Calls, IInv, RowsStep, LocalStep(c), CallOK(c)'
  PROVE  \A d \in Calls : CallOK(d)'
  BY CallKept DEF LocalStep

(* NextItem leads to the first statement of an item, or to the end.        *)
LEMMA NextItemOK ==
  ASSUME NEW c \in Calls, IInv, RowsStep, pc[c] \in Running, outcome[c] # "conflict",
         NextItem(c), UNCHANGED <<op, items>>
  PROVE  /\ LocalStep(c) /\ CallOK(c)'
         /\ pc' \in [Calls -> Running \cup {"idle", "done"}]
         /\ idx' \in [Calls -> Nat \ {0}]
         /\ attempt' \in [Calls -> 0 .. MAX_RETRY - 1]
         /\ current' \in [Calls -> Row \cup {NoRow}]
         /\ outcome' \in [Calls -> {"none", "ok", "insufficient", "conflict", "error"}]
  <1> USE DEF Running
  <1>1. TypeOK /\ Located(c)
    BY DEF IInv, CallOK
  <1>2. idx[c] \in 1 .. Len(items[c]) /\ op[c] \in AllOps /\ items[c] \in Seq(Item)
    BY <1>1 DEF Located
  <1>3. /\ LocalStep(c)
        /\ idx' \in [Calls -> Nat \ {0}] /\ idx'[c] = idx[c] + 1
        /\ attempt' \in [Calls -> 0 .. MAX_RETRY - 1] /\ attempt'[c] = 0
        /\ current' \in [Calls -> Row \cup {NoRow}]
    BY <1>1, <1>2, InventoryAssumption DEF NextItem, TypeOK, LocalStep
  <1>4. CASE idx[c] < Len(items[c])
    <2>1. pc' = [pc EXCEPT ![c] = Entry(op[c])] /\ outcome' = outcome
      BY <1>4 DEF NextItem
    <2>2. Entry(op[c]) \in {"read", "release", "deduct"}
      BY <1>2 DEF Entry, AllOps
    <2>3. Located(c)'
      BY <1>1, <1>2, <1>3, <1>4, <2>1, <2>2 DEF Located, TypeOK
    <2>4. pc'[c] = Entry(op[c])
      BY <1>1, <2>1 DEF TypeOK
    <2>5. AttemptsCostVersions(c)'
      <3>0. items'[c] \in Seq(Item) /\ idx'[c] \in 1 .. Len(items'[c])
        BY <2>2, <2>3, <2>4 DEF Located
      <3>0a. items'[c][idx'[c]] \in Item
        BY <3>0
      <3>1. Variant(c)' \in Variants
        BY <3>0a DEF Variant, Item
      <3>2. stock'[Variant(c)'] # NoRow => stock'[Variant(c)'].version >= 1
        BY <3>1 DEF RowsStep, RowOK
      <3>3. stock'[Variant(c)'] # NoRow => stock'[Variant(c)'] \in Row
        BY <3>1 DEF RowsStep
      <3> QED
        BY <1>3, <2>2, <2>4, <3>2, <3>3 DEF AttemptsCostVersions, Row
    <2>6. ReadInPast(c)' /\ GaveUp(c)'
      BY <2>1, <2>2, <2>4 DEF ReadInPast, GaveUp
    <2> QED
      BY <1>1, <1>3, <2>1, <2>2, <2>3, <2>5, <2>6 DEF CallOK, TypeOK
  <1>5. CASE ~(idx[c] < Len(items[c]))
    <2>1. /\ pc' = [pc EXCEPT ![c] = "done"] /\ outcome' = [outcome EXCEPT ![c] = "ok"]
          /\ pc'[c] = "done" /\ outcome'[c] = "ok"
      BY <1>1, <1>5 DEF NextItem, TypeOK
    <2>2. CallOK(c)'
      BY <2>1 DEF CallOK, Located, ReadInPast, AttemptsCostVersions, GaveUp
    <2> QED
      BY <1>1, <1>3, <2>1, <2>2 DEF TypeOK
  <1> QED
    BY <1>4, <1>5

(* An UPDATE that affects no row has lost to a newer version: nothing else *)
(* can make it fail, because the same version vouches for what was read.   *)
LEMMA UpdateLost ==
  ASSUME NEW c \in Calls, IInv, pc[c] = "update",
         Variant(c) \in Variants, Qty(c) \in Nat,
         ~CanReserve(stock[Variant(c)], current[c], Qty(c)),
         stock[Variant(c)] # NoRow
  PROVE  attempt[c] + 1 < stock[Variant(c)].version
  <1>1. stock[Variant(c)] \in Row /\ attempt[c] \in Int
    BY InventoryAssumption DEF IInv, TypeOK
  <1>2. ReadInPast(c) /\ AttemptsCostVersions(c)
    BY DEF IInv, CallOK
  <1>3. current[c].version < stock[Variant(c)].version
    BY <1>1, <1>2 DEF ReadInPast, CanReserve, Available, Row
  <1> QED
    BY <1>1, <1>2, <1>3 DEF AttemptsCostVersions, ReadInPast, Row

-----------------------------------------------------------------------------
(* The inductive invariant.                                                *)

LEMMA InitOK == Init => IInv
  <1> SUFFICES ASSUME Init PROVE IInv
    OBVIOUS
  <1>0. ASSUME NEW v \in Variants PROVE stock[v] \in Row /\ RowOK(stock[v])
    <2>1. stock[v] \in [quantity : InitialStocks, reserved : {0}, version : {1}]
      BY DEF Init
    <2>2. /\ stock[v] = [quantity |-> stock[v].quantity, reserved |-> 0, version |-> 1]
          /\ stock[v].quantity \in Nat
      BY <2>1, InventoryAssumption
    <2> QED
      BY <2>2 DEF Row, RowOK
  <1>1. TypeOK
    <2>1. stock \in [Variants -> Row \cup {NoRow}]
      BY <1>0 DEF Init
    <2> QED
      BY <2>1, InventoryAssumption DEF Init, TypeOK
  <1>2. \A v \in Variants : RowOK(stock[v])
    BY <1>0
  <1>3. \A c \in Calls : CallOK(c)
    BY DEF Init, CallOK, Located, Running, ReadInPast, AttemptsCostVersions, GaveUp
  <1> QED
    BY <1>1, <1>2, <1>3 DEF IInv

LEMMA NextOK == IInv /\ [Next]_vars => IInv'
  <1> SUFFICES ASSUME IInv, [Next]_vars PROVE IInv'
    OBVIOUS
  <1> USE DEF Running
  <1>0. RowsStep
    BY RowsStepLemma
  <1>1. TypeOK /\ \A c \in Calls : CallOK(c)
    BY DEF IInv
  <1>a. ASSUME TypeOK', \A c \in Calls : CallOK(c)' PROVE IInv'
    BY <1>0, <1>a DEF IInv, RowsStep
  <1>b. ASSUME NEW c \in Calls, TypeOK', LocalStep(c), CallOK(c)' PROVE IInv'
    BY <1>0, <1>a, <1>b, OneCallMoves
  <1>c. ASSUME NEW c \in Calls, pc[c] \in Running
        PROVE  /\ Variant(c) \in Variants /\ Qty(c) \in Nat
               /\ outcome[c] # "conflict" /\ idx[c] \in Nat \ {0}
               /\ op[c] \in AllOps
    BY <1>1, <1>c, ItemOfCall DEF CallOK, Located, GaveUp
  <1>d. ASSUME NEW c \in Calls, NEW error \in {"insufficient", "error"},
               pc[c] \in Running, Throw(c, error), UNCHANGED <<stock, alerts>>
        PROVE  IInv'
    <2>1. LocalStep(c) /\ TypeOK'
      BY <1>d, <1>1 DEF Throw, LocalStep, TypeOK
    <2>2. pc'[c] = "done" /\ outcome'[c] # "conflict"
      BY <1>d, <1>1 DEF Throw, TypeOK
    <2>3. CallOK(c)'
      BY <2>2 DEF CallOK, Located, ReadInPast, AttemptsCostVersions, GaveUp
    <2> QED
      BY <2>1, <2>3, <1>b
  <1>2. ASSUME NEW c \in Calls, Call(c) PROVE IInv'
    <2> PICK o \in Ops, is \in ItemLists :
            /\ op' = [op EXCEPT ![c] = o]
            /\ items' = [items EXCEPT ![c] = is]
            /\ IF is = <<>>
               THEN /\ pc' = [pc EXCEPT ![c] = "done"]
                    /\ outcome' = [outcome EXCEPT ![c] = "ok"]
               ELSE pc' = [pc EXCEPT ![c] = Entry(o)] /\ UNCHANGED outcome
      BY <1>2 DEF Call
    <2>1. o \in AllOps /\ is \in Seq(Item)
      BY InventoryAssumption
    <2>2. Entry(o) \in {"read", "release", "deduct"}
      BY <2>1 DEF Entry, AllOps
    <2>3. LocalStep(c)
      BY <1>2, <1>1 DEF Call, LocalStep, TypeOK
    <2>4. TypeOK'
      <3>1. pc' \in [Calls -> {"idle", "read", "update", "after", "release", "deduct", "done"}]
        BY <1>1, <2>2 DEF TypeOK
      <3>2. outcome' \in [Calls -> {"none", "ok", "insufficient", "conflict", "error"}]
        BY <1>1 DEF TypeOK
      <3> QED
        BY <1>2, <1>1, <2>1, <3>1, <3>2 DEF Call, TypeOK
    <2>5. CallOK(c)'
      <3>1. outcome'[c] # "conflict" /\ idx'[c] = 1 /\ attempt'[c] = 0
        BY <1>2, <1>1 DEF Call, TypeOK, CallOK, Located, GaveUp
      <3>2. pc'[c] = IF is = <<>> THEN "done" ELSE Entry(o)
        BY <1>1 DEF TypeOK
      <3>3. items'[c] = is /\ op'[c] = o
        BY <1>1 DEF TypeOK
      <3>4. is # <<>> => 1 \in 1 .. Len(is)
        BY <2>1
      <3>5. Located(c)'
        BY <2>1, <2>2, <3>1, <3>2, <3>3, <3>4 DEF Located
      <3>6. AttemptsCostVersions(c)'
        <4>1. CASE pc'[c] = "read"
          <5>1. items'[c][idx'[c]] \in Item
            BY <4>1, <3>5 DEF Located
          <5>2. Variant(c)' \in Variants
            BY <5>1 DEF Variant, Item
          <5> QED
            BY <1>0, <3>1, <4>1, <5>2 DEF AttemptsCostVersions, RowsStep, RowOK, Row
        <4> QED
          BY <4>1, <2>2, <3>2 DEF AttemptsCostVersions
      <3> QED
        BY <2>2, <3>1, <3>2, <3>5, <3>6 DEF CallOK, ReadInPast, GaveUp
    <2> QED
      BY <2>3, <2>4, <2>5, <1>b
  <1>3. ASSUME NEW c \in Calls, ReadShort(c) PROVE IInv'
    BY <1>3, <1>d DEF ReadShort
  <1>4. ASSUME NEW c \in Calls, DbError(c) PROVE IInv'
    BY <1>4, <1>d DEF DbError
  <1>5. ASSUME NEW c \in Calls, ReadEnough(c) PROVE IInv'
    <2>1. Variant(c) \in Variants /\ Qty(c) \in Nat /\ outcome[c] # "conflict"
      BY <1>5, <1>c DEF ReadEnough
    <2>2. stock[Variant(c)] \in Row /\ Available(stock[Variant(c)]) >= Qty(c)
      BY <1>1, <1>5, <2>1 DEF ReadEnough, Enough, TypeOK, Row, Available
    <2>3. LocalStep(c) /\ TypeOK'
      BY <1>1, <1>5, <2>2 DEF ReadEnough, LocalStep, TypeOK
    <2>4. /\ pc'[c] = "update" /\ current'[c] = stock[Variant(c)]
          /\ stock' = stock /\ outcome'[c] # "conflict" /\ attempt' = attempt
          /\ Variant(c)' = Variant(c) /\ Qty(c)' = Qty(c)
      BY <1>1, <1>5, <2>1 DEF ReadEnough, TypeOK, Variant, Qty
    <2>5. Located(c)'
      BY <1>1, <1>5, <2>4 DEF ReadEnough, CallOK, Located
    <2>6. ReadInPast(c)'
      BY <2>2, <2>4 DEF ReadInPast, Row, Available
    <2>7. AttemptsCostVersions(c)'
      BY <1>1, <1>5, <2>2, <2>4, InventoryAssumption DEF ReadEnough, CallOK, AttemptsCostVersions
    <2>8. CallOK(c)'
      BY <2>4, <2>5, <2>6, <2>7 DEF CallOK, GaveUp
    <2> QED
      BY <2>3, <2>8, <1>b
  <1>6. ASSUME NEW c \in Calls, UpdateTakes(c) PROVE IInv'
    <2>1. LocalStep(c) /\ TypeOK'
      BY <1>0, <1>1, <1>6, <1>c DEF UpdateTakes, LocalStep, TypeOK, RowsStep
    <2>2. pc'[c] = "after" /\ outcome'[c] # "conflict"
      BY <1>1, <1>6, <1>c DEF UpdateTakes, TypeOK
    <2>3. Located(c)'
      BY <1>1, <1>6 DEF UpdateTakes, CallOK, Located
    <2>4. CallOK(c)'
      BY <2>2, <2>3 DEF CallOK, ReadInPast, AttemptsCostVersions, GaveUp
    <2> QED
      BY <2>1, <2>4, <1>b
  <1>7. ASSUME NEW c \in Calls, UpdateRetry(c) PROVE IInv'
    <2> DEFINE v == Variant(c)
    <2>1. v \in Variants /\ Qty(c) \in Nat /\ outcome[c] # "conflict"
      BY <1>7, <1>c DEF UpdateRetry
    <2>2. LocalStep(c) /\ TypeOK'
      BY <1>1, <1>7, InventoryAssumption DEF UpdateRetry, LastAttempt, LocalStep, TypeOK
    <2>3. /\ pc'[c] = "read" /\ attempt'[c] = attempt[c] + 1
          /\ stock' = stock /\ outcome'[c] # "conflict"
          /\ Variant(c)' = v
      BY <1>1, <1>7, <2>1 DEF UpdateRetry, TypeOK, Variant
    <2>4. stock[v] # NoRow => attempt[c] + 1 < stock[v].version
      BY <1>7, <2>1, UpdateLost DEF UpdateRetry
    <2>5. Located(c)'
      BY <1>1, <1>7, <2>3 DEF UpdateRetry, CallOK, Located
    <2>6. CallOK(c)'
      BY <2>3, <2>4, <2>5 DEF CallOK, ReadInPast, AttemptsCostVersions, GaveUp
    <2> QED
      BY <2>2, <2>6, <1>b
  <1>8. ASSUME NEW c \in Calls, UpdateConflict(c) PROVE IInv'
    <2> DEFINE v == Variant(c)
    <2>1. v \in Variants /\ Qty(c) \in Nat /\ pc[c] = "update"
      BY <1>8, <1>c DEF UpdateConflict
    <2>2. LocalStep(c) /\ TypeOK'
      BY <1>1, <1>8 DEF UpdateConflict, Throw, LocalStep, TypeOK
    <2>3. pc'[c] = "done" /\ stock' = stock /\ Variant(c)' = v
      BY <1>1, <1>8 DEF UpdateConflict, Throw, TypeOK, Variant
    <2>4. stock[v] # NoRow => attempt[c] + 1 < stock[v].version /\ stock[v] \in Row
      BY <1>1, <1>8, <2>1, UpdateLost DEF UpdateConflict, TypeOK
    <2>5. stock[v] # NoRow => stock[v].version > MAX_RETRY
      BY <1>1, <1>8, <2>4, InventoryAssumption DEF UpdateConflict, LastAttempt, TypeOK, Row
    <2>6. Located(c)'
      BY <1>1, <1>8, <2>3 DEF UpdateConflict, Throw, CallOK, Located
    <2>7. CallOK(c)'
      BY <2>3, <2>5, <2>6 DEF CallOK, ReadInPast, AttemptsCostVersions, GaveUp
    <2> QED
      BY <2>2, <2>7, <1>b
  <1>9. ASSUME NEW c \in Calls, ReadAfter(c) PROVE IInv'
    <2>1. /\ pc[c] \in Running /\ outcome[c] # "conflict"
          /\ NextItem(c) /\ UNCHANGED <<op, items>>
      BY <1>9, <1>c DEF ReadAfter
    <2>2. affected' \in [Calls -> SUBSET (Nat \ {0})] /\ alerts' \in [Variants -> Nat]
      <3>1. affected \in [Calls -> SUBSET (Nat \ {0})] /\ alerts \in [Variants -> Nat]
        BY <1>1 DEF TypeOK
      <3>2. \/ alerts' = alerts
            \/ alerts' = [alerts EXCEPT ![Variant(c)] = alerts[Variant(c)] + 1]
        BY <1>9 DEF ReadAfter
      <3>3. affected' = affected /\ Variant(c) \in Variants
        BY <1>9, <1>c DEF ReadAfter
      <3> QED
        BY <3>1, <3>2, <3>3
    <2>3. TypeOK'
      BY <1>0, <1>1, <2>1, <2>2, NextItemOK DEF TypeOK, RowsStep
    <2> QED
      BY <1>0, <1>b, <2>1, <2>3, NextItemOK
  <1>10. ASSUME NEW c \in Calls, ReleaseItem(c) PROVE IInv'
    <2>1. /\ pc[c] \in Running /\ outcome[c] # "conflict"
          /\ NextItem(c) /\ UNCHANGED <<op, items>>
      BY <1>10, <1>c DEF ReleaseItem
    <2>2. affected' \in [Calls -> SUBSET (Nat \ {0})] /\ alerts' \in [Variants -> Nat]
      <3>1. affected \in [Calls -> SUBSET (Nat \ {0})] /\ alerts \in [Variants -> Nat]
        BY <1>1 DEF TypeOK
      <3>2. \/ alerts' = alerts
            \/ alerts' = [alerts EXCEPT ![Variant(c)] = 0]
            \/ alerts' = [alerts EXCEPT ![Variant(c)] = alerts[Variant(c)]]
        BY <1>10 DEF ReleaseItem
      <3>3. affected' = affected \/ affected' = [affected EXCEPT ![c] = affected[c] \cup {idx[c]}]
        BY <1>10 DEF ReleaseItem
      <3>4. Variant(c) \in Variants /\ idx[c] \in Nat \ {0}
        BY <1>10, <1>c DEF ReleaseItem
      <3>5. affected' \in [Calls -> SUBSET (Nat \ {0})]
        BY <3>1, <3>3, <3>4
      <3>6. alerts' \in [Variants -> Nat]
        BY <3>1, <3>2, <3>4
      <3> QED
        BY <3>5, <3>6
    <2>3. TypeOK'
      BY <1>0, <1>1, <2>1, <2>2, NextItemOK DEF TypeOK, RowsStep
    <2> QED
      BY <1>0, <1>b, <2>1, <2>3, NextItemOK
  <1>11. ASSUME NEW c \in Calls, DeductItem(c) PROVE IInv'
    <2>1. /\ pc[c] \in Running /\ outcome[c] # "conflict"
          /\ NextItem(c) /\ UNCHANGED <<op, items>>
      BY <1>11, <1>c DEF DeductItem
    <2>2. affected' \in [Calls -> SUBSET (Nat \ {0})] /\ alerts' \in [Variants -> Nat]
      <3>1. affected \in [Calls -> SUBSET (Nat \ {0})] /\ alerts \in [Variants -> Nat]
        BY <1>1 DEF TypeOK
      <3>2. affected' = affected \/ affected' = [affected EXCEPT ![c] = affected[c] \cup {idx[c]}]
        BY <1>11 DEF DeductItem
      <3>3. alerts' = alerts /\ idx[c] \in Nat \ {0}
        BY <1>11, <1>c DEF DeductItem
      <3>4. affected' \in [Calls -> SUBSET (Nat \ {0})]
        BY <3>1, <3>2, <3>3
      <3> QED
        BY <3>1, <3>3, <3>4
    <2>3. TypeOK'
      BY <1>0, <1>1, <2>1, <2>2, NextItemOK DEF TypeOK, RowsStep
    <2> QED
      BY <1>0, <1>b, <2>1, <2>3, NextItemOK
  <1>12. ASSUME NEW v \in Variants, DropVariant(v) PROVE IInv'
    <2>1. TypeOK'
      BY <1>0, <1>1, <1>12 DEF DropVariant, callVars, TypeOK, RowsStep
    <2>2. \A c \in Calls : CallOK(c)'
      BY <1>0, <1>12, CallKept DEF DropVariant, callVars
    <2> QED
      BY <2>1, <2>2, <1>a
  <1>13. CASE UNCHANGED vars \/ AllDone
    <2>1. UNCHANGED vars
      BY <1>13 DEF AllDone
    <2>2. TypeOK'
      BY <1>1, <2>1 DEF TypeOK, vars
    <2>3. \A c \in Calls : CallOK(c)'
      BY <1>0, <2>1, CallKept DEF vars
    <2> QED
      BY <2>2, <2>3, <1>a
  <1> QED
    BY <1>2, <1>3, <1>4, <1>5, <1>6, <1>7, <1>8, <1>9, <1>10, <1>11, <1>12, <1>13
       DEF Next, Step, Progress

-----------------------------------------------------------------------------
(* The theorems.                                                           *)

LEMMA Invariance == Spec => []IInv
  BY InitOK, NextOK, PTL DEF Spec

\* The rows stay rows and the calls stay at points of their operations
\* (inventory.service.ts), however many calls there are.
THEOREM InventoryTyped == Spec => []TypeOK
  <1>1. IInv => TypeOK
    BY DEF IInv
  <1> QED
    BY <1>1, Invariance, PTL

\* No interleaving of any number of reserveStock, releaseStock and deductStock
\* calls reserves a unit twice or takes back a unit that is not reserved.
THEOREM NeverOversold == Spec => []NoOversell
  <1>1. IInv => NoOversell
    BY DEF IInv, RowOK, NoOversell
  <1> QED
    BY <1>1, Invariance, PTL

\* The version column alone tells a stale read: a row whose version has not
\* moved still has the units reserveSingleItem saw available, although
\* releaseStock and deductStock do not touch the version.
THEOREM VersionSuffices == Spec => []VersionVouchesForRead
  <1>1. ASSUME IInv, NEW c \in Calls, pc[c] = "update",
               stock[Variant(c)] # NoRow,
               stock[Variant(c)].version = current[c].version
        PROVE  Available(stock[Variant(c)]) >= Qty(c)
    <2>1. ReadInPast(c) /\ Variant(c) \in Variants /\ Qty(c) \in Nat
      BY <1>1, ItemOfCall DEF IInv, CallOK, Running
    <2>2. stock[Variant(c)] \in Row
      BY <1>1, <2>1 DEF IInv, TypeOK
    <2> QED
      BY <1>1, <2>1, <2>2 DEF ReadInPast, Available, Row
  <1>2. IInv => VersionVouchesForRead
    BY <1>1 DEF VersionVouchesForRead
  <1> QED
    BY <1>2, Invariance, PTL

\* A 409 is never answered for want of stock, nor because of releases: the
\* row has been reserved by others MAX_RETRY times, or is gone (docs/adr/004).
THEOREM ConflictsAreContention == Spec => []ConflictMeansContention
  <1>1. IInv => ConflictMeansContention
    BY DEF IInv, CallOK, GaveUp, ConflictMeansContention
  <1> QED
    BY <1>1, Invariance, PTL

-----------------------------------------------------------------------------
(* The service implements the ledger.                                      *)

Asked == UNION {{is[i].quantity : i \in DOMAIN is} : is \in ItemLists}
Mapped == [v \in Variants |-> LedgerRow(stock[v])]

LEMMA QtyIsAsked ==
  ASSUME IInv, NEW c \in Calls, pc[c] \in Running
  PROVE  Variant(c) \in Variants /\ Qty(c) \in Asked /\ Qty(c) \in Nat /\ Qty(c) > 0
  <1>1. Located(c) /\ items[c] \in ItemLists \cup {<<>>}
    BY DEF IInv, CallOK, TypeOK
  <1>2. items[c] \in Seq(Item) /\ idx[c] \in 1 .. Len(items[c])
    BY <1>1 DEF Located
  <1>3. idx[c] \in DOMAIN items[c]
    BY <1>2
  <1>4. items[c] \in ItemLists
    BY <1>1, <1>3
  <1>5. Qty(c) \in Asked
    BY <1>3, <1>4 DEF Asked, Qty
  <1> QED
    BY <1>1, <1>5, ItemOfCall

LEMMA MappedExcept ==
  ASSUME NEW v \in Variants, NEW r, stock \in [Variants -> Row \cup {NoRow}],
         stock' = [stock EXCEPT ![v] = r]
  PROVE  Mapped' = [Mapped EXCEPT ![v] = LedgerRow(r)]
  BY DEF Mapped, LedgerRow

LEMMA InitMaps == Init => Ledger!Init
  <1> SUFFICES ASSUME Init, NEW v \in Variants
               PROVE  LedgerRow(stock[v]) \in [quantity : InitialStocks, reserved : {0}]
    BY DEF Ledger!Init, Mapped
  <1>1. stock[v] \in [quantity : InitialStocks, reserved : {0}, version : {1}]
    BY DEF Init
  <1>2. /\ stock[v] = [quantity |-> stock[v].quantity, reserved |-> 0, version |-> 1]
        /\ stock[v].quantity \in InitialStocks
        /\ stock[v].quantity \in Nat
    BY <1>1, InventoryAssumption
  <1>3. stock[v] \in Row
    BY <1>2, InventoryAssumption DEF Row
  <1>4. stock[v] # NoRow /\ stock[v].reserved = 0
    BY <1>2, <1>3, InventoryAssumption
  <1>5. LedgerRow(stock[v]) = [quantity |-> stock[v].quantity, reserved |-> 0]
    BY <1>4 DEF LedgerRow
  <1> QED
    BY <1>2, <1>5

LEMMA NextMaps == IInv /\ [Next]_vars => [Ledger!Next]_Mapped
  <1> SUFFICES ASSUME IInv, [Next]_vars PROVE Ledger!Next \/ UNCHANGED Mapped
    OBVIOUS
  <1> USE DEF Running
  <1>0. stock \in [Variants -> Row \cup {NoRow}] /\ \A v \in Variants : RowOK(stock[v])
    BY DEF IInv, TypeOK
  <1>a. ASSUME stock' = stock PROVE UNCHANGED Mapped
    BY <1>a DEF Mapped
  <1>b. ASSUME NEW v \in Variants, stock[v] # NoRow
        PROVE  /\ Mapped[v] = [quantity |-> stock[v].quantity, reserved |-> stock[v].reserved]
               /\ stock[v].quantity \in Int /\ stock[v].reserved \in Int
               /\ stock[v].version \in Nat
               /\ Mapped[v] \in [quantity : Int, reserved : Int]
               /\ Mapped[v].quantity = stock[v].quantity
               /\ Mapped[v].reserved = stock[v].reserved
               /\ stock[v] \in Row
    BY <1>0, <1>b DEF Mapped, LedgerRow, Row
  <1>c. \A r \in Row : r # NoRow
    BY InventoryAssumption
  <1>d. \A v \in Variants : stock[v] # NoRow => Mapped[v] # NoRow
    BY <1>b, InventoryAssumption
  <1>e. ASSUME NEW c \in Calls, pc[c] \in Running, stock[Variant(c)] # NoRow,
               NEW r \in Row, stock' = [stock EXCEPT ![Variant(c)] = r]
        PROVE  Mapped' = [Mapped EXCEPT ![Variant(c)] =
                             [quantity |-> r.quantity, reserved |-> r.reserved]]
    <2>1. Mapped' = [Mapped EXCEPT ![Variant(c)] = LedgerRow(r)]
      BY <1>0, <1>e, QtyIsAsked, MappedExcept
    <2> QED
      BY <2>1, <1>c DEF LedgerRow
  <1>1. ASSUME NEW c \in Calls, UpdateTakes(c) PROVE Ledger!Next
    <2> DEFINE v == Variant(c)
               q == Qty(c)
    <2>1. v \in Variants /\ q \in Asked /\ q \in Nat /\ q > 0 /\ stock[v] # NoRow
      BY <1>1, QtyIsAsked DEF UpdateTakes, CanReserve
    <2>2. q <= Mapped[v].quantity - Mapped[v].reserved
      BY <1>1, <1>b, <2>1 DEF UpdateTakes, CanReserve, Available
    <2>3a. Updated(stock[v], q)
      BY <1>b, <2>1, UpdatedRows
    <2>3. /\ ReservedRow(stock[v], q) \in Row
          /\ ReservedRow(stock[v], q).quantity = Mapped[v].quantity
          /\ ReservedRow(stock[v], q).reserved = Mapped[v].reserved + q
      BY <1>b, <2>1, <2>3a DEF Updated
    <2>4. Mapped' = [Mapped EXCEPT ![v] =
                        [quantity |-> Mapped[v].quantity, reserved |-> Mapped[v].reserved + q]]
      BY <1>1, <1>e, <2>1, <2>3 DEF UpdateTakes
    <2>5. Ledger!Reserve(v, q)
      BY <1>d, <2>1, <2>2, <2>4 DEF Ledger!Reserve, Ledger!Free, Mapped
    <2> QED
      BY <2>1, <2>5 DEF Ledger!Next, Asked
  <1>2. ASSUME NEW c \in Calls, ReleaseItem(c) PROVE Ledger!Next \/ UNCHANGED Mapped
    <2> DEFINE v == Variant(c)
               q == Qty(c)
    <2>1. pc[c] \in Running /\ v \in Variants /\ q \in Asked /\ q \in Nat /\ q > 0
      BY <1>2, QtyIsAsked DEF ReleaseItem
    <2>2. CASE CanRelease(stock[v], q)
      <3>1. stock[v] # NoRow /\ q <= Mapped[v].reserved
        BY <1>b, <2>1, <2>2 DEF CanRelease
      <3>2a. Updated(stock[v], q)
        BY <1>b, <2>1, <3>1, UpdatedRows
      <3>2. /\ ReleasedRow(stock[v], q) \in Row
            /\ ReleasedRow(stock[v], q).quantity = Mapped[v].quantity
            /\ ReleasedRow(stock[v], q).reserved = Mapped[v].reserved - q
        BY <1>b, <2>1, <3>1, <3>2a DEF Updated
      <3>3. stock' = [stock EXCEPT ![v] = ReleasedRow(stock[v], q)]
        BY <1>2, <2>2 DEF ReleaseItem
      <3>4. Mapped' = [Mapped EXCEPT ![v] =
                [quantity |-> Mapped[v].quantity, reserved |-> Mapped[v].reserved - q]]
        BY <1>e, <2>1, <3>1, <3>2, <3>3
      <3>5. Ledger!Release(v, q)
        BY <1>d, <2>1, <3>1, <3>4 DEF Ledger!Release, Mapped
      <3> QED
        BY <2>1, <3>5 DEF Ledger!Next, Asked
    <2>3. CASE ~CanRelease(stock[v], q)
      BY <1>2, <1>a, <2>3 DEF ReleaseItem
    <2> QED
      BY <2>2, <2>3
  <1>3. ASSUME NEW c \in Calls, DeductItem(c) PROVE Ledger!Next \/ UNCHANGED Mapped
    <2> DEFINE v == Variant(c)
               q == Qty(c)
    <2>1. pc[c] \in Running /\ v \in Variants /\ q \in Asked /\ q \in Nat /\ q > 0
      BY <1>3, QtyIsAsked DEF DeductItem
    <2>2. CASE CanDeduct(stock[v], q)
      <3>1. stock[v] # NoRow /\ q <= Mapped[v].reserved
        BY <1>b, <2>1, <2>2 DEF CanDeduct
      <3>2a. Updated(stock[v], q)
        BY <1>b, <2>1, <3>1, UpdatedRows
      <3>2. /\ DeductedRow(stock[v], q) \in Row
            /\ DeductedRow(stock[v], q).quantity = Mapped[v].quantity - q
            /\ DeductedRow(stock[v], q).reserved = Mapped[v].reserved - q
        BY <1>b, <2>1, <3>1, <3>2a DEF Updated
      <3>3. stock' = [stock EXCEPT ![v] = DeductedRow(stock[v], q)]
        BY <1>3, <2>2 DEF DeductItem
      <3>4. Mapped' = [Mapped EXCEPT ![v] =
                [quantity |-> Mapped[v].quantity - q, reserved |-> Mapped[v].reserved - q]]
        BY <1>e, <2>1, <3>1, <3>2, <3>3
      <3>5. Ledger!Deduct(v, q)
        BY <1>d, <2>1, <3>1, <3>4 DEF Ledger!Deduct, Mapped
      <3> QED
        BY <2>1, <3>5 DEF Ledger!Next, Asked
    <2>3. CASE ~CanDeduct(stock[v], q)
      BY <1>3, <1>a, <2>3 DEF DeductItem
    <2> QED
      BY <2>2, <2>3
  <1>4. ASSUME NEW v \in Variants, DropVariant(v) PROVE Ledger!Next
    <2>1. stock[v] # NoRow /\ stock' = [stock EXCEPT ![v] = NoRow]
      BY <1>4 DEF DropVariant
    <2>2. Mapped' = [Mapped EXCEPT ![v] = NoRow]
      BY <1>0, <2>1, MappedExcept DEF LedgerRow
    <2>3. Ledger!Drop(v)
      BY <1>d, <2>1, <2>2 DEF Ledger!Drop, Mapped
    <2> QED
      BY <2>3 DEF Ledger!Next
  <1>5. ASSUME NEW c \in Calls,
               Call(c) \/ ReadShort(c) \/ ReadEnough(c) \/ UpdateRetry(c)
                 \/ UpdateConflict(c) \/ ReadAfter(c) \/ DbError(c)
        PROVE  UNCHANGED Mapped
    BY <1>5, <1>a DEF Call, ReadShort, ReadEnough, UpdateRetry, UpdateConflict,
                      ReadAfter, DbError
  <1>6. CASE UNCHANGED vars \/ AllDone
    BY <1>6, <1>a DEF vars, AllDone
  <1> QED
    BY <1>1, <1>2, <1>3, <1>4, <1>5, <1>6 DEF Next, Step, Progress

\* Seen from outside, InventoryService is the ledger: each statement of each
\* call is one atomic reserve, release or deduct of one item, or nothing.
THEOREM ServiceImplementsLedger == Spec => ImplementsLedger
  <1>1. Init => Ledger!Init
    BY InitMaps
  <1>2. IInv /\ [Next]_vars => [Ledger!Next]_Mapped
    BY NextMaps
  <1>3. Spec => Ledger!Init /\ [][Ledger!Next]_Mapped
    BY <1>1, <1>2, Invariance, PTL DEF Spec
  <1> QED
    BY <1>3, PTL DEF ImplementsLedger, Ledger!Spec, Mapped

-----------------------------------------------------------------------------
(* Every reserved unit is accounted for by the items of the calls.         *)

(* A call handles its items in order, and each at most once.               *)
Account(c) ==
    /\ pc[c] \in {"read", "update", "after"} => op[c] = "reserve"
    /\ pc[c] \in {"release", "deduct"} => op[c] = pc[c]
    /\ pc[c] \in {"idle", "read", "update", "release", "deduct"} =>
          \A i \in affected[c] : i < idx[c]
    /\ pc[c] = "after" => idx[c] \in affected[c] /\ \A i \in affected[c] : i <= idx[c]
    /\ pc[c] # "done" => outcome[c] = "none"

(* Only finitely many items have been handled.                             *)
Counting ==
    /\ \A c \in Calls, v \in Variants : Countable(Taken(c, v))
    /\ \A o \in AllOps, v \in Variants : Countable(TakenByCall(o, v))

LEMMA UnitsTyped ==
    ASSUME TypeOK, Counting
    PROVE  /\ \A c \in Calls, v \in Variants :
                  /\ Taken(c, v) \in [DOMAIN items[c] -> Nat]
                  /\ Total(Taken(c, v)) \in Nat
           /\ \A o \in AllOps, v \in Variants :
                  /\ TakenByCall(o, v) \in [Calls -> Nat]
                  /\ Units(o, v) \in Nat
  <1>1. ASSUME NEW c \in Calls, NEW v \in Variants
        PROVE  /\ Taken(c, v) \in [DOMAIN items[c] -> Nat]
               /\ Total(Taken(c, v)) \in Nat
    <2>1. ASSUME NEW i \in DOMAIN items[c] PROVE items[c][i].quantity \in Nat
      <3>1. items[c] \in ItemLists \cup {<<>>}
        BY DEF TypeOK
      <3>2. items[c] # <<>>
        BY <2>1
      <3>3. items[c] \in Seq(Item)
        BY <3>1, <3>2, InventoryAssumption
      <3> DEFINE list == items[c]
      <3>4. DOMAIN list = 1 .. Len(list) /\ \A j \in 1 .. Len(list) : list[j] \in Item
        <4> HIDE DEF list
        <4> QED
          BY <3>3 DEF list
      <3>5. items[c][i] \in Item
        BY <2>1, <3>4
      <3> QED
        BY <3>5 DEF Item
    <2>2. \A i \in DOMAIN items[c] : items[c][i].quantity \in Nat
      BY <2>1
    <2>3. Taken(c, v) \in [DOMAIN items[c] -> Nat]
      BY <2>2 DEF Taken
    <2> QED
      BY <2>3, TotalNat DEF Counting
  <1>2. ASSUME NEW o \in AllOps, NEW v \in Variants
        PROVE  /\ TakenByCall(o, v) \in [Calls -> Nat]
               /\ Units(o, v) \in Nat
    BY <1>1, TotalNat DEF Counting, TakenByCall, Units
  <1> QED
    BY <1>1, <1>2

LEMMA UnitsRest ==
    ASSUME Counting, UNCHANGED <<op, items, affected>>
    PROVE  /\ Counting'
           /\ \A o \in AllOps, v \in Variants : Units(o, v)' = Units(o, v)
  BY DEF Counting, Taken, TakenByCall, Units

(* A call that begins has handled nothing.                                 *)
LEMMA UnitsOfNewCall ==
    ASSUME TypeOK, TypeOK', Counting, NEW c \in Calls, affected[c] = {}, UNCHANGED affected,
           \A d \in Calls \ {c} : op'[d] = op[d] /\ items'[d] = items[d]
    PROVE  /\ Counting'
           /\ \A o \in AllOps, v \in Variants : Units(o, v)' = Units(o, v)
  <1>1. ASSUME NEW v \in Variants
        PROVE  /\ Countable(Taken(c, v)') /\ Total(Taken(c, v)') = 0
               /\ Total(Taken(c, v)) = 0
    <2> DEFINE f == Taken(c, v)
               g == Taken(c, v)'
               S == DOMAIN items[c]
               T == DOMAIN items'[c]
    <2>1. f \in [S -> Nat] /\ g \in [T -> Nat]
      BY DEF Taken
    <2>2. (\A i \in S : f[i] = 0) /\ (\A i \in T : g[i] = 0)
      BY DEF Taken
    <2> HIDE DEF f, g, S, T
    <2>3. Total(f) = 0 /\ Countable(g) /\ Total(g) = 0
      BY <2>1, <2>2, TotalZero
    <2> QED
      BY <2>3 DEF f, g
  <1>2. \A d \in Calls \ {c}, v \in Variants : Taken(d, v)' = Taken(d, v)
    BY DEF Taken
  <1>3. ASSUME NEW o \in AllOps, NEW v \in Variants
        PROVE  TakenByCall(o, v)' = TakenByCall(o, v)
    <2>1. ASSUME NEW d \in Calls
          PROVE  (IF op'[d] = o THEN Total(Taken(d, v)') ELSE 0) =
                 (IF op[d] = o THEN Total(Taken(d, v)) ELSE 0)
      BY <1>1, <1>2
    <2> QED
      BY <2>1 DEF TakenByCall
  <1>4. \A d \in Calls, v \in Variants : Countable(Taken(d, v)')
    BY <1>1, <1>2 DEF Counting
  <1> QED
    BY <1>3, <1>4 DEF Counting, Units

(* An UPDATE counts the item its call is at, once.                         *)
LEMMA UnitsFollow ==
    ASSUME TypeOK, TypeOK', Counting, NEW c \in Calls, NEW q \in Nat,
           idx[c] \in DOMAIN items[c], idx[c] \notin affected[c], q = Qty(c),
           UNCHANGED <<op, items>>,
           affected' = [affected EXCEPT ![c] = @ \cup {idx[c]}]
    PROVE  /\ Counting'
           /\ \A o \in AllOps, v \in Variants :
                 Units(o, v)' = Units(o, v) + IF o = op[c] /\ v = Variant(c) THEN q ELSE 0
  <1>0. /\ \A d \in Calls \ {c} : affected'[d] = affected[d]
        /\ affected'[c] = affected[c] \cup {idx[c]}
    BY DEF TypeOK
  <1>1. \A d \in Calls \ {c}, v \in Variants : Taken(d, v)' = Taken(d, v)
    BY <1>0 DEF Taken
  <1>2. ASSUME NEW v \in Variants
        PROVE  /\ Countable(Taken(c, v)')
               /\ Taken(c, v)' \in [DOMAIN items[c] -> Nat]
               /\ Total(Taken(c, v)') =
                     Total(Taken(c, v)) + IF v = Variant(c) THEN q ELSE 0
    <2> DEFINE f == Taken(c, v)
               g == Taken(c, v)'
               S == DOMAIN items[c]
               i == idx[c]
               n == IF v = Variant(c) THEN q ELSE 0
    <2>1. f \in [S -> Nat]
      BY UnitsTyped
    <2>2. /\ \A j \in S \ {i} : g[j] = f[j]
          /\ f[i] = 0 /\ g[i] = n
          /\ DOMAIN g = S /\ g = [j \in S |-> g[j]]
      BY <1>0 DEF Taken, Variant, Qty
    <2>3. g \in [S -> Nat]
      <3>1. \A j \in S : g[j] \in Nat
        BY <2>1, <2>2
      <3> HIDE DEF g, S
      <3> QED
        BY <2>2, <3>1
    <2>4. i \in S /\ Countable(f) /\ n \in Nat
      BY DEF Counting
    <2> HIDE DEF f, g, S, i, n
    <2>5. Countable(g) /\ Total(g) = Total(f) - f[i] + g[i]
      BY <2>1, <2>2, <2>3, <2>4, TotalChange
    <2>6. Total(f) \in Nat
      BY <2>4, TotalNat
    <2>7. Total(g) = Total(f) + n
      BY <2>2, <2>4, <2>5, <2>6
    <2> QED
      BY <2>3, <2>5, <2>7 DEF f, g, S, n
  <1>3. ASSUME NEW o \in AllOps, NEW v \in Variants
        PROVE  /\ Countable(TakenByCall(o, v)')
               /\ Units(o, v)' = Units(o, v) + IF o = op[c] /\ v = Variant(c) THEN q ELSE 0
    <2> DEFINE f == TakenByCall(o, v)
               g == TakenByCall(o, v)'
               n == IF o = op[c] /\ v = Variant(c) THEN q ELSE 0
    <2>1. f \in [Calls -> Nat] /\ Total(Taken(c, v)) \in Nat
      BY UnitsTyped
    <2>2. /\ \A d \in Calls \ {c} : g[d] = f[d]
          /\ f[c] = IF op[c] = o THEN Total(Taken(c, v)) ELSE 0
          /\ g[c] = IF op[c] = o THEN Total(Taken(c, v)') ELSE 0
          /\ DOMAIN g = Calls /\ g = [d \in Calls |-> g[d]]
      BY <1>1 DEF TakenByCall
    <2>3. Total(Taken(c, v)') = Total(Taken(c, v)) + IF v = Variant(c) THEN q ELSE 0
      BY <1>2
    <2>4. g[c] = f[c] + n /\ g[c] \in Nat /\ n \in Nat /\ f[c] \in Nat
      <3> HIDE DEF f, g
      <3> QED
        BY <2>1, <2>2, <2>3
    <2>5. g \in [Calls -> Nat]
      <3>1. \A d \in Calls : g[d] \in Nat
        <4> HIDE DEF f, g
        <4> QED
          BY <2>1, <2>2, <2>4
      <3> HIDE DEF g
      <3> QED
        BY <2>2, <3>1
    <2>6. Countable(f)
      BY DEF Counting
    <2> HIDE DEF f, g, n
    <2>7. Countable(g) /\ Total(g) = Total(f) - f[c] + g[c]
      BY <2>1, <2>2, <2>5, <2>6, TotalChange
    <2>8. Total(f) \in Nat
      BY <2>6, TotalNat
    <2>9. Total(g) = Total(f) + n
      BY <2>4, <2>7, <2>8
    <2> QED
      BY <2>7, <2>9 DEF f, g, n, Units
  <1>4. \A d \in Calls, v \in Variants : Countable(Taken(d, v)')
    BY <1>1, <1>2 DEF Counting
  <1> QED
    BY <1>3, <1>4 DEF Counting

-----------------------------------------------------------------------------
(* The places of the calls.                                                *)

Quiet(c) ==
    /\ pc'[c] = pc[c] /\ op'[c] = op[c] /\ idx'[c] = idx[c]
    /\ items'[c] = items[c] /\ current'[c] = current[c]
    /\ affected'[c] = affected[c] /\ outcome'[c] = outcome[c]

LEMMA OthersQuiet ==
    ASSUME TypeOK, NEW c \in Calls, Call(c) \/ Step(c)
    PROVE  \A d \in Calls \ {c} : Quiet(d)
  BY DEF TypeOK, Step, Progress, Call, ReadShort, ReadEnough, UpdateTakes, UpdateRetry,
         UpdateConflict, ReadAfter, ReleaseItem, DeductItem, DbError, Throw, NextItem, Quiet

(* The UPDATE of a call affects a row, or does not.                        *)
Takes(c) ==
    \/ UpdateTakes(c)
    \/ ReleaseItem(c) /\ CanRelease(stock[Variant(c)], Qty(c))
    \/ DeductItem(c) /\ CanDeduct(stock[Variant(c)], Qty(c))

LEMMA StepsOfCalls ==
    ASSUME NEW c \in Calls, Step(c), ~Takes(c)
    PROVE  UNCHANGED <<stock, op, items, affected>>
  BY DEF Step, Progress, ReadShort, ReadEnough, UpdateTakes, UpdateRetry, UpdateConflict,
         ReadAfter, ReleaseItem, DeductItem, DbError, Throw, Takes

LEMMA NextItemPlace ==
    ASSUME TypeOK, NEW c \in Calls, op[c] \in AllOps, NextItem(c)
    PROVE  /\ idx'[c] = idx[c] + 1
           /\ \/ pc'[c] = Entry(op[c]) /\ outcome'[c] = outcome[c]
              \/ pc'[c] = "done"
           /\ Entry(op[c]) \in {"read", "release", "deduct"}
  BY DEF TypeOK, NextItem, Entry, AllOps

LEMMA AccountOfMover ==
    ASSUME IInv, NEW c \in Calls, Account(c), Call(c) \/ Step(c)
    PROVE  Account(c)'
  <1>0. /\ TypeOK /\ idx[c] \in Nat /\ affected[c] \in SUBSET Nat
        /\ pc[c] \in Running => op[c] \in AllOps
    BY DEF IInv, TypeOK, CallOK, Located
  <1>1. CASE Call(c)
    <2>1. PICK o \in AllOps :
              /\ op'[c] = o
              /\ \/ pc'[c] = "done"
                 \/ pc'[c] = Entry(o) /\ outcome'[c] = outcome[c]
      BY <1>0, <1>1, InventoryAssumption DEF Call, TypeOK
    <2>2. pc[c] = "idle" /\ UNCHANGED <<idx, affected>>
      BY <1>1 DEF Call
    <2>3. Entry(o) \in {"read", "release", "deduct"}
      BY DEF Entry, AllOps
    <2> QED
      BY <2>1, <2>2, <2>3 DEF Account, Entry, AllOps
  <1>2. CASE ReadShort(c) \/ UpdateConflict(c) \/ DbError(c)
    <2>1. pc'[c] = "done"
      BY <1>0, <1>2 DEF ReadShort, UpdateConflict, DbError, Throw, TypeOK
    <2> QED
      BY <2>1 DEF Account
  <1>3. CASE ReadEnough(c) \/ UpdateRetry(c)
    BY <1>0, <1>3 DEF ReadEnough, UpdateRetry, Account, TypeOK
  <1>4. CASE UpdateTakes(c)
    BY <1>0, <1>4 DEF UpdateTakes, Account, TypeOK
  <1>5. CASE ReadAfter(c) \/ ReleaseItem(c) \/ DeductItem(c)
    <2>1. /\ pc[c] \in {"after", "release", "deduct"} /\ op[c] \in AllOps
          /\ NextItem(c) /\ op' = op
      BY <1>0, <1>5 DEF ReadAfter, ReleaseItem, DeductItem, Running
    <2>2. \A i \in affected'[c] : i \in Nat /\ i <= idx[c]
      BY <1>0, <1>5, <2>1 DEF ReadAfter, ReleaseItem, DeductItem, Account, TypeOK
    <2>3. \A i \in affected'[c] : i < idx[c] + 1
      BY <1>0, <2>2
    <2>4. outcome[c] = "none"
      BY <2>1 DEF Account
    <2>5. Entry(op[c]) = IF op[c] = "reserve" THEN "read" ELSE op[c]
      BY DEF Entry
    <2> QED
      BY <1>0, <2>1, <2>3, <2>4, <2>5, NextItemPlace DEF Account, AllOps
  <1> QED
    BY <1>1, <1>2, <1>3, <1>4, <1>5 DEF Step, Progress

LEMMA AccountStep ==
    ASSUME IInv, \A c \in Calls : Account(c), [Next]_vars
    PROVE  \A c \in Calls : Account(c)'
  <1>1. ASSUME NEW c \in Calls, Call(c) \/ Step(c), NEW d \in Calls PROVE Account(d)'
    <2>1. CASE d = c
      BY <1>1, <2>1, AccountOfMover
    <2>2. CASE d # c
      <3>1. Quiet(d)
        BY <1>1, <2>2, OthersQuiet DEF IInv
      <3> QED
        BY <3>1 DEF Quiet, Account
    <2> QED
      BY <2>1, <2>2
  <1>2. ASSUME NEW v \in Variants, DropVariant(v) PROVE \A c \in Calls : Account(c)'
    BY <1>2 DEF DropVariant, callVars, Account
  <1>3. CASE UNCHANGED vars
    BY <1>3 DEF vars, Account
  <1> QED
    BY <1>1, <1>2, <1>3 DEF Next, AllDone

(* What an UPDATE that affects a row does to it, and to no other.          *)
LEMMA TakenRow ==
    ASSUME IInv, NEW c \in Calls, Account(c), Takes(c)
    PROVE  /\ Variant(c) \in Variants /\ Qty(c) \in Nat /\ Qty(c) > 0
           /\ idx[c] \in DOMAIN items[c] /\ idx[c] \notin affected[c]
           /\ UNCHANGED <<op, items, alerts>>
           /\ affected' = [affected EXCEPT ![c] = @ \cup {idx[c]}]
           /\ \A w \in Variants \ {Variant(c)} : stock'[w] = stock[w]
           /\ stock[Variant(c)] \in Row /\ stock'[Variant(c)] \in Row
           /\ \/ /\ op[c] = "reserve" /\ UpdateTakes(c)
                 /\ stock'[Variant(c)].quantity = stock[Variant(c)].quantity
                 /\ stock'[Variant(c)].reserved = stock[Variant(c)].reserved + Qty(c)
                 /\ stock'[Variant(c)].version = stock[Variant(c)].version + 1
              \/ /\ op[c] = "release"
                 /\ stock'[Variant(c)].quantity = stock[Variant(c)].quantity
                 /\ stock'[Variant(c)].reserved = stock[Variant(c)].reserved - Qty(c)
                 /\ stock'[Variant(c)].version = stock[Variant(c)].version
              \/ /\ op[c] = "deduct"
                 /\ stock'[Variant(c)].quantity = stock[Variant(c)].quantity - Qty(c)
                 /\ stock'[Variant(c)].reserved = stock[Variant(c)].reserved - Qty(c)
                 /\ stock'[Variant(c)].version = stock[Variant(c)].version
  <1> DEFINE v == Variant(c)
             q == Qty(c)
  <1>1. /\ pc[c] \in {"update", "release", "deduct"}
        /\ UNCHANGED <<op, items, alerts>>
        /\ affected' = [affected EXCEPT ![c] = @ \cup {idx[c]}]
    BY DEF Takes, UpdateTakes, ReleaseItem, DeductItem
  <1>2. Located(c) /\ pc[c] \in Running
    BY <1>1 DEF IInv, CallOK, Running
  <1>3. v \in Variants /\ q \in Nat /\ q > 0 /\ idx[c] \in 1 .. Len(items[c])
    BY <1>2, ItemOfCall DEF Located
  <1>4. items[c] \in Seq(Item) /\ idx[c] \in Nat
    BY <1>2, <1>3 DEF Located
  <1>5. idx[c] \in DOMAIN items[c]
    BY <1>3, <1>4
  <1>6. idx[c] \notin affected[c]
    BY <1>1, <1>4 DEF Account
  <1>7. stock[v] \in Row
    BY <1>3 DEF Takes, UpdateTakes, CanReserve, CanRelease, CanDeduct, IInv, TypeOK
  <1>8. Updated(stock[v], q)
    BY <1>3, <1>7, UpdatedRows
  <1>9. stock \in [Variants -> Row \cup {NoRow}]
    BY DEF IInv, TypeOK
  <1>10. CASE UpdateTakes(c)
    <2>1. stock' = [stock EXCEPT ![v] = ReservedRow(stock[v], q)] /\ op[c] = "reserve"
      BY <1>10 DEF UpdateTakes, Account
    <2>2. stock'[v] = ReservedRow(stock[v], q) /\ \A w \in Variants \ {v} : stock'[w] = stock[w]
      BY <1>3, <1>9, <2>1
    <2> QED
      BY <1>1, <1>3, <1>5, <1>6, <1>7, <1>8, <1>10, <2>1, <2>2 DEF Updated
  <1>11. CASE ReleaseItem(c) /\ CanRelease(stock[v], q)
    <2>1. stock' = [stock EXCEPT ![v] = ReleasedRow(stock[v], q)] /\ op[c] = "release"
      BY <1>11 DEF ReleaseItem, Account
    <2>2. stock'[v] = ReleasedRow(stock[v], q) /\ \A w \in Variants \ {v} : stock'[w] = stock[w]
      BY <1>3, <1>9, <2>1
    <2> QED
      BY <1>1, <1>3, <1>5, <1>6, <1>7, <1>8, <2>1, <2>2 DEF Updated
  <1>12. CASE DeductItem(c) /\ CanDeduct(stock[v], q)
    <2>1. stock' = [stock EXCEPT ![v] = DeductedRow(stock[v], q)] /\ op[c] = "deduct"
      BY <1>12 DEF DeductItem, Account
    <2>2. stock'[v] = DeductedRow(stock[v], q) /\ \A w \in Variants \ {v} : stock'[w] = stock[w]
      BY <1>3, <1>9, <2>1
    <2> QED
      BY <1>1, <1>3, <1>5, <1>6, <1>7, <1>8, <2>1, <2>2 DEF Updated
  <1> QED
    BY <1>10, <1>11, <1>12 DEF Takes

-----------------------------------------------------------------------------
(* The units of the calls and the reserved units of the rows.              *)

Accounts == (\A c \in Calls : Account(c)) /\ Counting /\ ReservedUnitsAccounted

(* How the units of the calls move in a step.                              *)
LEMMA UnitsStep ==
    ASSUME IInv, IInv', Accounts, [Next]_vars
    PROVE  /\ Counting'
           /\ \/ \E c \in Calls :
                    /\ Takes(c)
                    /\ \A o \in AllOps, v \in Variants :
                          Units(o, v)' = Units(o, v)
                                + IF o = op[c] /\ v = Variant(c) THEN Qty(c) ELSE 0
              \/ /\ \A o \in AllOps, v \in Variants : Units(o, v)' = Units(o, v)
                 /\ \A v \in Variants : stock'[v] # NoRow => stock'[v] = stock[v]
                 /\ \A c \in Calls : ~Takes(c)
  <1>0. TypeOK /\ TypeOK' /\ Counting
    BY DEF IInv, Accounts
  <1>1. ASSUME NEW c \in Calls, Takes(c)
        PROVE  /\ Counting'
               /\ \A o \in AllOps, v \in Variants :
                     Units(o, v)' = Units(o, v)
                           + IF o = op[c] /\ v = Variant(c) THEN Qty(c) ELSE 0
    <2>1. Account(c)
      BY DEF Accounts
    <2> DEFINE q == Qty(c)
    <2>2. /\ q \in Nat /\ q = Qty(c)
          /\ idx[c] \in DOMAIN items[c] /\ idx[c] \notin affected[c]
          /\ UNCHANGED <<op, items>>
          /\ affected' = [affected EXCEPT ![c] = @ \cup {idx[c]}]
      BY <1>1, <2>1, TakenRow
    <2> HIDE DEF q
    <2>3. /\ Counting'
          /\ \A o \in AllOps, v \in Variants :
                Units(o, v)' = Units(o, v)
                      + IF o = op[c] /\ v = Variant(c) THEN q ELSE 0
      BY <1>0, <2>2, UnitsFollow
    <2> QED
      BY <2>3 DEF q
  <1>2. ASSUME NEW c \in Calls, Call(c)
        PROVE  /\ Counting'
               /\ \A o \in AllOps, v \in Variants : Units(o, v)' = Units(o, v)
    <2>1. affected[c] = {}
      <3>1. pc[c] = "idle" /\ idx[c] = 1
        BY <1>2 DEF Call, IInv, CallOK, Located
      <3>2. \A i \in affected[c] : i < 1 /\ i \in Nat \ {0}
        BY <1>0, <3>1 DEF Accounts, Account, TypeOK
      <3> QED
        BY <3>2
    <2>2. UNCHANGED affected /\ \A d \in Calls \ {c} : op'[d] = op[d] /\ items'[d] = items[d]
      BY <1>0, <1>2 DEF Call, TypeOK
    <2> QED
      BY <1>0, <2>1, <2>2, UnitsOfNewCall
  <1>3. CASE \A c \in Calls : ~Takes(c)
    <2>1. CASE \E c \in Calls : Call(c)
      BY <1>2, <1>3, <2>1 DEF Call
    <2>2. CASE ~\E c \in Calls : Call(c)
      <3>1. UNCHANGED <<op, items, affected>>
        BY <1>3, <2>2, StepsOfCalls DEF Next, DropVariant, callVars, AllDone, vars
      <3>2. \A v \in Variants : stock'[v] # NoRow => stock'[v] = stock[v]
        BY <1>0, <1>3, <2>2, StepsOfCalls DEF Next, DropVariant, AllDone, vars, TypeOK
      <3> QED
        BY <1>0, <1>3, <3>1, <3>2, UnitsRest
    <2> QED
      BY <2>1, <2>2
  <1> QED
    BY <1>1, <1>3

LEMMA AccountsStep == IInv /\ Accounts /\ [Next]_vars => Accounts'
  <1> SUFFICES ASSUME IInv, Accounts, [Next]_vars PROVE Accounts'
    OBVIOUS
  <1>1. IInv'
    BY NextOK
  <1>2. \A c \in Calls : Account(c)'
    BY AccountStep DEF Accounts
  <1>3. Counting'
    BY <1>1, UnitsStep
  <1>4. ASSUME NEW v \in Variants, stock'[v] # NoRow
        PROVE  stock'[v].reserved =
                  Units("reserve", v)' - Units("release", v)' - Units("deduct", v)'
    <2>0. \A o \in AllOps : Units(o, v) \in Nat
      BY UnitsTyped DEF IInv, Accounts
    <2>1. ASSUME NEW c \in Calls, Takes(c),
                 \A o \in AllOps, w \in Variants :
                     Units(o, w)' = Units(o, w)
                           + IF o = op[c] /\ w = Variant(c) THEN Qty(c) ELSE 0
          PROVE  stock'[v].reserved =
                    Units("reserve", v)' - Units("release", v)' - Units("deduct", v)'
      <3>1. Account(c)
        BY DEF Accounts
      <3>2. CASE v # Variant(c)
        <4>1. stock'[v] = stock[v]
          BY <2>1, <3>1, <3>2, TakenRow
        <4>2. \A o \in AllOps : Units(o, v)' = Units(o, v)
          BY <2>0, <2>1, <3>2
        <4> QED
          BY <1>4, <4>1, <4>2 DEF Accounts, ReservedUnitsAccounted, AllOps
      <3>3. CASE v = Variant(c)
        <4>1. /\ stock[v] \in Row /\ Qty(c) \in Nat
              /\ \/ op[c] = "reserve" /\ stock'[v].reserved = stock[v].reserved + Qty(c)
                 \/ op[c] = "release" /\ stock'[v].reserved = stock[v].reserved - Qty(c)
                 \/ op[c] = "deduct" /\ stock'[v].reserved = stock[v].reserved - Qty(c)
          BY <2>1, <3>1, <3>3, TakenRow
        <4>2. stock[v].reserved =
                  Units("reserve", v) - Units("release", v) - Units("deduct", v)
          BY <4>1, InventoryAssumption DEF Accounts, ReservedUnitsAccounted
        <4>3. \A o \in AllOps :
                  Units(o, v)' = Units(o, v) + IF o = op[c] THEN Qty(c) ELSE 0
          BY <2>1, <3>3
        <4> QED
          BY <2>0, <4>1, <4>2, <4>3 DEF AllOps
      <3> QED
        BY <3>2, <3>3
    <2>2. CASE /\ \A o \in AllOps, w \in Variants : Units(o, w)' = Units(o, w)
               /\ \A w \in Variants : stock'[w] # NoRow => stock'[w] = stock[w]
      BY <1>4, <2>2 DEF Accounts, ReservedUnitsAccounted, AllOps
    <2> QED
      BY <1>1, <2>1, <2>2, UnitsStep
  <1> QED
    BY <1>2, <1>3, <1>4 DEF Accounts, ReservedUnitsAccounted

LEMMA InitAccounts == Init => Accounts
  <1> SUFFICES ASSUME Init PROVE Accounts
    OBVIOUS
  <1>0. TypeOK
    BY InitOK DEF IInv
  <1>1. ASSUME NEW c \in Calls, NEW v \in Variants
        PROVE  Countable(Taken(c, v)) /\ Total(Taken(c, v)) = 0
    <2> DEFINE S == DOMAIN items[c]
               f == Taken(c, v)
    <2>1. f \in [S -> Nat] /\ \A i \in S : f[i] = 0
      BY DEF Init, Taken
    <2> HIDE DEF S, f
    <2>2. Countable(f) /\ Total(f) = 0
      BY <2>1, TotalZero
    <2> QED
      BY <2>2 DEF f
  <1>2. ASSUME NEW o \in AllOps, NEW v \in Variants
        PROVE  Countable(TakenByCall(o, v)) /\ Units(o, v) = 0
    <2> DEFINE f == TakenByCall(o, v)
    <2>1. f \in [Calls -> Nat] /\ \A c \in Calls : f[c] = 0
      BY <1>1 DEF Init, TakenByCall
    <2> HIDE DEF f
    <2>2. Countable(f) /\ Total(f) = 0
      BY <2>1, TotalZero
    <2> QED
      BY <2>2 DEF f, Units
  <1>3. \A c \in Calls : Account(c)
    BY DEF Init, Account
  <1>4. ReservedUnitsAccounted
    BY <1>2 DEF Init, ReservedUnitsAccounted, AllOps
  <1> QED
    BY <1>1, <1>2, <1>3, <1>4 DEF Accounts, Counting

\* Every reserved unit belongs to one item of one call, however many calls run,
\* retry, fail and give back what they or others took.
THEOREM EveryUnitAccounted == Spec => []ReservedUnitsAccounted
  <1>1. Init => IInv /\ Accounts
    BY InitOK, InitAccounts
  <1>2. IInv /\ Accounts /\ [Next]_vars => (IInv /\ Accounts)'
    BY NextOK, AccountsStep
  <1>3. Accounts => ReservedUnitsAccounted
    BY DEF Accounts
  <1> QED
    BY <1>1, <1>2, <1>3, PTL DEF Spec

-----------------------------------------------------------------------------
(* A crossing of the threshold is announced.                               *)

(* Where nothing is released, a version that has not moved vouches for the *)
(* exact number of units that were read as available.                      *)
ReadIsCurrent(c) ==
    \A v \in Variants :
        ( /\ pc[c] = "update" /\ Variant(c) = v
          /\ stock[v] # NoRow /\ stock[v].version = current[c].version
          /\ Units("release", v) = 0 )
            => Available(stock[v]) = Available(current[c])

Watching == (\A c \in Calls : ReadIsCurrent(c)) /\ LowStockAnnounced

(* Somebody has announced it, is about to, or died at it.                  *)
Noticed(v) ==
    \/ alerts[v] > 0
    \/ \E c \in Calls : /\ pc[c] = "after" /\ Variant(c) = v
                        /\ ~Low(current[c])
    \/ \E c \in Calls : /\ outcome[c] = "error" /\ idx[c] \in affected[c]
                        /\ Variant(c) = v

(* A row without releases only gets lower.                                 *)
LEMMA RowsWithoutRelease ==
    ASSUME IInv, IInv', Accounts, [Next]_vars, NEW v \in Variants,
           Units("release", v)' = 0, stock'[v] # NoRow
    PROVE  /\ Units("release", v) = 0
           /\ stock[v] # NoRow
           /\ \/ Available(stock'[v]) = Available(stock[v])
                 /\ stock'[v].version = stock[v].version
              \/ \E c \in Calls :
                    /\ UpdateTakes(c) /\ Variant(c) = v
                    /\ Available(stock'[v]) <= Available(stock[v])
                    /\ stock'[v].version = stock[v].version + 1
  <1>0. Units("release", v) \in Nat /\ "release" \in AllOps
    BY UnitsTyped DEF IInv, Accounts, AllOps
  <1>1. ASSUME NEW c \in Calls, Takes(c),
               \A o \in AllOps, w \in Variants :
                   Units(o, w)' = Units(o, w)
                         + IF o = op[c] /\ w = Variant(c) THEN Qty(c) ELSE 0
        PROVE  /\ Units("release", v) = 0
               /\ stock[v] # NoRow
               /\ \/ Available(stock'[v]) = Available(stock[v])
                     /\ stock'[v].version = stock[v].version
                  \/ /\ UpdateTakes(c) /\ Variant(c) = v
                     /\ Available(stock'[v]) <= Available(stock[v])
                     /\ stock'[v].version = stock[v].version + 1
    <2>1. Account(c)
      BY DEF Accounts
    <2>2. CASE v # Variant(c)
      <3>1. stock'[v] = stock[v]
        BY <1>1, <2>1, <2>2, TakenRow
      <3>2. Units("release", v) = 0
        BY <1>0, <1>1, <2>2
      <3> QED
        BY <3>1, <3>2
    <2>3. CASE v = Variant(c)
      <3>1. /\ stock[v] \in Row /\ stock'[v] \in Row /\ Qty(c) \in Nat /\ Qty(c) > 0
            /\ \/ /\ op[c] = "reserve" /\ UpdateTakes(c)
                  /\ stock'[v].quantity = stock[v].quantity
                  /\ stock'[v].reserved = stock[v].reserved + Qty(c)
                  /\ stock'[v].version = stock[v].version + 1
               \/ op[c] = "release"
               \/ /\ op[c] = "deduct"
                  /\ stock'[v].quantity = stock[v].quantity - Qty(c)
                  /\ stock'[v].reserved = stock[v].reserved - Qty(c)
                  /\ stock'[v].version = stock[v].version
        BY <1>1, <2>1, <2>3, TakenRow
      <3>2. Units("release", v)' = Units("release", v) + IF op[c] = "release" THEN Qty(c) ELSE 0
        BY <1>0, <1>1, <2>3
      <3>3. op[c] # "release" /\ Units("release", v) = 0
        BY <1>0, <3>1, <3>2
      <3>4. stock[v].quantity \in Int /\ stock[v].reserved \in Int /\ stock[v] # NoRow
        BY <3>1, InventoryAssumption DEF Row
      <3> QED
        BY <2>3, <3>1, <3>3, <3>4 DEF Available
    <2> QED
      BY <2>2, <2>3
  <1>2. CASE /\ \A o \in AllOps, w \in Variants : Units(o, w)' = Units(o, w)
             /\ \A w \in Variants : stock'[w] # NoRow => stock'[w] = stock[w]
    BY <1>0, <1>2
  <1> QED
    BY <1>1, <1>2, UnitsStep

LEMMA ReadIsCurrentStep ==
    ASSUME IInv, IInv', Accounts, Watching, [Next]_vars, NEW c \in Calls
    PROVE  ReadIsCurrent(c)'
  <1> SUFFICES ASSUME NEW v \in Variants, pc'[c] = "update", Variant(c)' = v,
                      stock'[v] # NoRow, stock'[v].version = current'[c].version,
                      Units("release", v)' = 0
               PROVE  Available(stock'[v]) = Available(current'[c])
    BY DEF ReadIsCurrent
  <1>0. TypeOK /\ ReadIsCurrent(c) /\ Account(c)
    BY DEF IInv, Watching, Accounts
  <1>1. CASE ReadEnough(c)
    <2>1. stock' = stock /\ current'[c] = stock[Variant(c)] /\ Variant(c)' = Variant(c)
      BY <1>0, <1>1 DEF ReadEnough, TypeOK, Variant
    <2> QED
      BY <2>1
  <1>2. CASE Quiet(c)
    <2>1. v = Variant(c) /\ pc[c] = "update" /\ current'[c] = current[c]
      BY <1>2 DEF Quiet, Variant
    <2>2. v \in Variants /\ Located(c) /\ ReadInPast(c)
      <3>1. CallOK(c) /\ pc[c] \in Running
        BY <2>1 DEF IInv, Running
      <3> QED
        BY <3>1, ItemOfCall DEF CallOK
    <2>3. /\ Units("release", v) = 0
          /\ stock[v] # NoRow
          /\ \/ Available(stock'[v]) = Available(stock[v])
                /\ stock'[v].version = stock[v].version
             \/ stock'[v].version = stock[v].version + 1
      BY <2>1, <2>2, RowsWithoutRelease
    <2>4. /\ current[c].version <= stock[v].version
          /\ current[c].version \in Nat /\ stock[v].version \in Nat
      BY <2>1, <2>2, <2>3, <1>0 DEF ReadInPast, Row, TypeOK
    <2>5. Available(stock'[v]) = Available(stock[v]) /\ stock'[v].version = stock[v].version
      BY <2>1, <2>3, <2>4
    <2>6. Available(stock[v]) = Available(current[c])
      BY <1>0, <2>1, <2>3, <2>5 DEF ReadIsCurrent
    <2> QED
      BY <2>1, <2>5, <2>6
  <1>3. CASE (Call(c) \/ Step(c)) /\ ~ReadEnough(c)
    <2>1. CASE Call(c)
      <3>1. PICK o \in AllOps : pc'[c] \in {"done", Entry(o)}
        BY <1>0, <2>1, InventoryAssumption DEF Call, TypeOK
      <3> QED
        BY <3>1 DEF Entry, AllOps
    <2>2. CASE ReadShort(c) \/ UpdateTakes(c) \/ UpdateRetry(c) \/ UpdateConflict(c) \/ DbError(c)
      BY <1>0, <2>2 DEF ReadShort, UpdateTakes, UpdateRetry, UpdateConflict, DbError,
                        Throw, TypeOK
    <2>3. CASE ReadAfter(c) \/ ReleaseItem(c) \/ DeductItem(c)
      <3>1. op[c] \in AllOps /\ NextItem(c)
        BY <2>3 DEF ReadAfter, ReleaseItem, DeductItem, IInv, CallOK, Located, Running
      <3> QED
        BY <1>0, <3>1, NextItemPlace
    <2> QED
      BY <1>3, <2>1, <2>2, <2>3 DEF Step, Progress
  <1>4. ASSUME NEW d \in Calls, d # c, Call(d) \/ Step(d) PROVE Quiet(c)
    BY <1>0, <1>4, OthersQuiet
  <1>5. CASE UNCHANGED vars \/ \E w \in Variants : DropVariant(w)
    BY <1>2, <1>5 DEF vars, DropVariant, callVars, Quiet
  <1> QED
    BY <1>1, <1>2, <1>3, <1>4, <1>5 DEF Next, AllDone

(* Who has noticed remains, or announces it.                               *)
LEMMA NoticedStays ==
    ASSUME IInv, Accounts, [Next]_vars, NEW v \in Variants, Noticed(v),
           stock'[v] # NoRow, Low(stock'[v])
    PROVE  Noticed(v)'
  <1>0. TypeOK /\ alerts[v] \in Nat
    BY DEF IInv, TypeOK
  <1>1. alerts'[v] \in Nat /\ alerts'[v] >= alerts[v]
    <2>1. ASSUME NEW c \in Calls, ReadAfter(c) PROVE alerts'[v] \in {alerts[v], alerts[v] + 1}
      BY <1>0, <2>1 DEF ReadAfter, TypeOK
    <2>2. (\A c \in Calls : ~ReadAfter(c)) => alerts' = alerts
      BY DEF Next, Step, Progress, Call, ReadShort, ReadEnough, UpdateTakes, UpdateRetry,
             UpdateConflict, ReleaseItem, DeductItem, DbError, DropVariant, AllDone, vars
    <2> QED
      BY <1>0, <2>1, <2>2
  <1>2. ASSUME NEW c \in Calls, ~Call(c), ~Step(c) PROVE Quiet(c)
    BY <1>0, <1>2, OthersQuiet DEF Next, AllDone, vars, DropVariant, callVars, Quiet
  <1>3. CASE alerts[v] > 0
    BY <1>0, <1>1, <1>3 DEF Noticed
  <1>4. ASSUME NEW c \in Calls, pc[c] = "after", Variant(c) = v, ~Low(current[c])
        PROVE  Noticed(v)'
    <2>1. CASE Quiet(c)
      BY <1>4, <2>1 DEF Quiet, Noticed, Variant
    <2>2. CASE ReadAfter(c)
      <3>1. stock' = stock
        BY <2>2 DEF ReadAfter
      <3>2. Crossed(current[c], stock[Variant(c)])
        BY <1>4, <3>1 DEF Crossed
      <3>3. alerts'[v] = alerts[v] + 1
        BY <1>0, <1>4, <2>2, <3>2 DEF ReadAfter, TypeOK
      <3> QED
        BY <1>0, <3>3 DEF Noticed
    <2>3. CASE DbError(c)
      <3>1. idx[c] \in affected[c]
        BY <1>4 DEF Accounts, Account
      <3>2. outcome'[c] = "error" /\ idx'[c] \in affected'[c] /\ Variant(c)' = v
        BY <1>0, <1>4, <2>3, <3>1 DEF DbError, Throw, TypeOK, Variant
      <3> QED
        BY <3>2 DEF Noticed
    <2> QED
      BY <1>2, <1>4, <2>1, <2>2, <2>3
      DEF Call, Step, Progress, ReadShort, ReadEnough, UpdateTakes, UpdateRetry,
          UpdateConflict, ReleaseItem, DeductItem
  <1>5. ASSUME NEW c \in Calls, outcome[c] = "error", idx[c] \in affected[c], Variant(c) = v
        PROVE  Noticed(v)'
    <2>1. pc[c] = "done"
      BY <1>5 DEF Accounts, Account
    <2>2. Quiet(c)
      BY <1>2, <2>1
      DEF Call, Step, Progress, ReadShort, ReadEnough, UpdateTakes, UpdateRetry,
          UpdateConflict, ReadAfter, ReleaseItem, DeductItem, DbError
    <2> QED
      BY <1>5, <2>2 DEF Quiet, Noticed, Variant
  <1> QED
    BY <1>3, <1>4, <1>5 DEF Noticed

LEMMA WatchingStep == IInv /\ Accounts /\ Watching /\ [Next]_vars => Watching'
  <1> SUFFICES ASSUME IInv, Accounts, Watching, [Next]_vars PROVE Watching'
    OBVIOUS
  <1>1. IInv'
    BY NextOK
  <1>2. ASSUME NEW v \in Variants, \A q \in InitialStocks : q > LowStockThreshold,
               Units("release", v)' = 0, stock'[v] # NoRow, Low(stock'[v])
        PROVE  Noticed(v)'
    <2>1. /\ Units("release", v) = 0
          /\ stock[v] # NoRow
          /\ \/ Available(stock'[v]) = Available(stock[v])
             \/ \E c \in Calls : UpdateTakes(c) /\ Variant(c) = v
      BY <1>1, <1>2, RowsWithoutRelease
    <2>2. CASE Low(stock[v])
      <3>1. Noticed(v)
        BY <1>2, <2>1, <2>2 DEF Watching, LowStockAnnounced, Noticed
      <3> QED
        BY <1>2, <3>1, NoticedStays
    <2>3. CASE ~Low(stock[v])
      <3>1. PICK c \in Calls : UpdateTakes(c) /\ Variant(c) = v
        BY <1>2, <2>1, <2>3 DEF Low
      <3>2. Available(stock[v]) = Available(current[c])
        BY <2>1, <3>1 DEF UpdateTakes, CanReserve, Watching, ReadIsCurrent
      <3>3. ~Low(current[c])
        BY <2>3, <3>2 DEF Low
      <3>4. pc'[c] = "after" /\ current'[c] = current[c] /\ Variant(c)' = v
        BY <3>1 DEF UpdateTakes, Variant, IInv, TypeOK
      <3> QED
        BY <3>3, <3>4 DEF Noticed
    <2> QED
      BY <2>2, <2>3
  <1>3. LowStockAnnounced'
    BY <1>2 DEF LowStockAnnounced, Noticed
  <1>4. \A c \in Calls : ReadIsCurrent(c)'
    BY <1>1, ReadIsCurrentStep
  <1> QED
    BY <1>3, <1>4 DEF Watching

LEMMA InitWatching == Init => Watching
  <1> SUFFICES ASSUME Init PROVE Watching
    OBVIOUS
  <1>1. ASSUME NEW v \in Variants, \A q \in InitialStocks : q > LowStockThreshold
        PROVE  ~Low(stock[v])
    <2>1. stock[v] \in [quantity : InitialStocks, reserved : {0}, version : {1}]
      BY DEF Init
    <2>2. stock[v].quantity \in Nat /\ stock[v].quantity > LowStockThreshold
          /\ stock[v].reserved = 0
      BY <1>1, <2>1, InventoryAssumption
    <2> QED
      BY <2>2, InventoryAssumption DEF Low, Available
  <1> QED
    BY <1>1 DEF Init, Watching, ReadIsCurrent, LowStockAnnounced

\* As long as nothing of a variant is released, its fall to the threshold is
\* announced, or will be by a call that is still to read the row again (or died
\* there), whatever other calls do between that call's UPDATE and its read.
THEOREM CrossingsNoticed == Spec => []LowStockAnnounced
  <1>1. Init => IInv /\ Accounts /\ Watching
    BY InitOK, InitAccounts, InitWatching
  <1>2. IInv /\ Accounts /\ Watching /\ [Next]_vars => (IInv /\ Accounts /\ Watching)'
    BY NextOK, AccountsStep, WatchingStep
  <1>3. Watching => LowStockAnnounced
    BY DEF Watching
  <1> QED
    BY <1>1, <1>2, <1>3, PTL DEF Spec

=============================================================================
