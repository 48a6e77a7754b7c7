--------------------------- MODULE OrderPipeline ---------------------------
(***************************************************************************)
(* What happens to an order once it is placed: Stripe's events, the        *)
(* webhook that receives them (PaymentService.handleStripeWebhook), the    *)
(* BullMQ queue `order-queue` and the workers that run its jobs            *)
(* (OrderProcessor.process, OrderService.transitionOrderStatus).           *)
(*                                                                         *)
(* Stripe delivers an event any number of times, in any order with others, *)
(* to any of the handlers, and may stop only once one has answered 200.    *)
(* BullMQ hands a waiting job to a worker, retries a job that threw up to  *)
(* attempts times, and gives a job whose lock was not renewed (stalled) to *)
(* a worker again, while the first one may be dead or still working.       *)
(*                                                                         *)
(* Data left out: amounts, back-off delays, signatures, the cached         *)
(* response.  An event is the intent's order and its type: an intent       *)
(* succeeds once, and of its failures one stands for all.                  *)
(***************************************************************************)
EXTENDS Integers, Sequences, FiniteSets, Totals, OrderStatus

CONSTANTS
    Orders,         \* the orders placed
    Handlers,       \* webhook requests served at the same time
    Workers,        \* job processors at work at the same time
    Variants,       \* the product variants
    Bought,         \* orderItem: [Orders -> [Variants -> quantity]], 0 is no row
    Spare,          \* units of each variant that no order holds
    Attempts,       \* job option attempts: 3
    MaxStalls,      \* BullMQ's maxStalledCount
    Faults,         \* whether statements may throw and servers die
    NoRow, NoJob, NoEvent

ASSUME PipelineAssumption ==
    /\ IsFiniteSet(Orders)
    /\ Bought \in [Orders -> [Variants -> Nat]]
    /\ Spare \in Nat /\ Attempts \in Nat \ {0} /\ MaxStalls \in Nat
    /\ Faults \in BOOLEAN
    /\ NoEvent \notin Orders \X {"succeeded", "payment_failed"}
    /\ NoJob \notin Orders \X {"succeeded", "payment_failed"}
    /\ NoRow \notin {"pending", "succeeded", "failed"}

Events == Orders \X {"succeeded", "payment_failed"}
OrderOf(e) == e[1]
TypeOf(e) == e[2]
ItemsOf(o) == {v \in Variants : Bought[o][v] > 0}       \* getItemsFromOrder

VARIABLES
    stock,      \* inventory: [Variants -> [quantity, reserved]]
    status,     \* order: [Orders -> Status]
    history,    \* orderStatusHistory: [Orders -> Seq([from, to])]
    payment,    \* payment: [Orders -> status or NoRow]
    seen,       \* idempotencyKey with resource_type stripe_webhook: event ids
    emitted,    \* the events Stripe has to deliver
    acked,      \* the events some delivery of which was answered 200
    hpc,        \* the statement each handler is about to run
    event,      \* the event it handles
    job,        \* the state of the job of each event
    added,      \* how often queue.add was called for each event
    attempt,    \* attemptsMade of each job
    stalls,     \* how often each job stalled
    wpc,        \* the statement each worker is about to run
    wjob,       \* the job (event) it works on
    owns,       \* whether it still has the lock of its job
    read,       \* the status of the order it has read
    todo        \* the items its loop has not handled

orderVars   == <<stock, status, history>>
stripeVars  == <<payment, seen, emitted, acked, hpc, event>>
queueVars   == <<job, added, attempt, stalls>>
workerVars  == <<wpc, wjob, owns, read, todo>>
vars == <<stock, status, history, payment, seen, emitted, acked, hpc, event,
          job, added, attempt, stalls, wpc, wjob, owns, read, todo>>

Ledger == INSTANCE StockLedger WITH
    ledger <- stock, Quantities <- Nat, InitialStocks <- Nat

(* Units of v that the orders of S have bought.                            *)
Held(v, S) == Total([o \in Orders |-> IF o \in S THEN Bought[o][v] ELSE 0])

(***************************************************************************)
(* checkout has placed the orders: their stock is reserved and a payment   *)
(* row waits; or it has cancelled one after creating its intent, and there *)
(* is no row.                                                              *)
(***************************************************************************)
Init ==
    /\ payment \in [Orders -> {"pending", NoRow}]
    /\ status = [o \in Orders |->
                    IF payment[o] = NoRow THEN "cancelled" ELSE "stock_reserved"]
    /\ stock = [v \in Variants |->
                    LET held == Held(v, {o \in Orders : payment[o] # NoRow})
                    IN  [quantity |-> held + Spare, reserved |-> held]]
    /\ history = [o \in Orders |-> <<>>]
    /\ seen = {} /\ emitted = {} /\ acked = {}
    /\ hpc = [h \in Handlers |-> "idle"]
    /\ event = [h \in Handlers |-> NoEvent]
    /\ job = [e \in Events |-> "none"]
    /\ added = [e \in Events |-> 0]
    /\ attempt = [e \in Events |-> 0]
    /\ stalls = [e \in Events |-> 0]
    /\ wpc = [w \in Workers |-> "idle"]
    /\ wjob = [w \in Workers |-> NoJob]
    /\ owns = [w \in Workers |-> FALSE]
    /\ read = [w \in Workers |-> "none"]
    /\ todo = [w \in Workers |-> {}]

-----------------------------------------------------------------------------
(* Stripe.                                                                 *)

(* The customer pays, or the card is refused; a refused card may be        *)
(* followed by a success, never the other way round.                       *)
Emit(e) ==
    /\ e \notin emitted
    /\ TypeOf(e) = "payment_failed" => <<OrderOf(e), "succeeded">> \notin emitted
    /\ emitted' = emitted \cup {e}
    /\ UNCHANGED <<orderVars, payment, seen, acked, hpc, event, queueVars, workerVars>>

(* A delivery, the first or one more.                                      *)
Deliver(h) ==
    /\ hpc[h] = "idle"
    /\ \E e \in emitted : event' = [event EXCEPT ![h] = e]
    /\ hpc' = [hpc EXCEPT ![h] = "find"]
    /\ UNCHANGED <<orderVars, payment, seen, emitted, acked, queueVars, workerVars>>

-----------------------------------------------------------------------------
(* handleStripeWebhook.                                                    *)

HGoto(h, p) == hpc' = [hpc EXCEPT ![h] = p] /\ UNCHANGED <<event, acked>>

Ack(h) ==
    /\ acked' = acked \cup {event[h]}
    /\ event' = [event EXCEPT ![h] = NoEvent]
    /\ hpc' = [hpc EXCEPT ![h] = "idle"]

(* The exception filter answers 500; Stripe will deliver again.            *)
HThrow(h) ==
    /\ event' = [event EXCEPT ![h] = NoEvent]
    /\ hpc' = [hpc EXCEPT ![h] = "idle"]
    /\ UNCHANGED acked

(* findFirst of the key: an event seen before is answered at once          *)
FindKey(h) ==
    /\ hpc[h] = "find"
    /\ IF event[h] \in seen THEN Ack(h) ELSE HGoto(h, "create")
    /\ UNCHANGED <<orderVars, payment, seen, emitted, queueVars, workerVars>>

(* Plausible bug: an upsert, so that two deliveries both go on.            *)
UpsertKey(h) ==
    /\ hpc[h] = "create"
    /\ HGoto(h, "payment")
    /\ seen' = seen \cup {event[h]}
    /\ UNCHANGED <<orderVars, payment, emitted, queueVars, workerVars>>

(* create of the key: the unique constraint refuses a second one           *)
CreateKey(h) ==
    /\ hpc[h] = "create"
    /\ IF event[h] \in seen
       THEN HThrow(h) /\ UNCHANGED seen
       ELSE HGoto(h, "payment") /\ seen' = seen \cup {event[h]}
    /\ UNCHANGED <<orderVars, payment, emitted, queueVars, workerVars>>

(* findFirst of the payment: an intent without a row is answered 200       *)
FindPayment(h) ==
    /\ hpc[h] = "payment"
    /\ IF payment[OrderOf(event[h])] = NoRow THEN Ack(h) ELSE HGoto(h, "update")
    /\ UNCHANGED <<orderVars, payment, seen, emitted, queueVars, workerVars>>

(* payment.update, whatever the status was                                 *)
UpdatePayment(h) ==
    /\ hpc[h] = "update"
    /\ payment' = [payment EXCEPT ![OrderOf(event[h])] =
                      IF TypeOf(event[h]) = "succeeded" THEN "succeeded" ELSE "failed"]
    /\ HGoto(h, "enqueue")
    /\ UNCHANGED <<orderVars, seen, emitted, queueVars, workerVars>>

(* orderQueue.add of ConfirmOrder or HandlePaymentFailure                  *)
Enqueue(h) ==
    /\ hpc[h] = "enqueue"
    /\ job' = [job EXCEPT ![event[h]] = "waiting"]
    /\ added' = [added EXCEPT ![event[h]] = @ + 1]
    /\ HGoto(h, "store")
    /\ UNCHANGED <<orderVars, payment, seen, emitted, attempt, stalls, workerVars>>

(* update of the key with the response                                     *)
StoreKey(h) ==
    /\ hpc[h] = "store"
    /\ Ack(h)
    /\ UNCHANGED <<orderVars, payment, seen, emitted, queueVars, workerVars>>

(* A statement throws, or the server dies.                                 *)
WebhookFails(h) ==
    /\ Faults /\ hpc[h] # "idle"
    /\ HThrow(h)
    /\ UNCHANGED <<orderVars, payment, seen, emitted, queueVars, workerVars>>

-----------------------------------------------------------------------------
(* OrderProcessor.process.                                                 *)

WGoto(w, p) == wpc' = [wpc EXCEPT ![w] = p] /\ UNCHANGED <<wjob, owns>>

Free(w) ==
    /\ wpc' = [wpc EXCEPT ![w] = "idle"]
    /\ wjob' = [wjob EXCEPT ![w] = NoJob]
    /\ owns' = [owns EXCEPT ![w] = FALSE]
    /\ read' = [read EXCEPT ![w] = "none"]
    /\ todo' = [todo EXCEPT ![w] = {}]

(* BullMQ hands a waiting job to an idle worker.                           *)
Take(w) ==
    /\ wpc[w] = "idle"
    /\ \E e \in Events :
        /\ job[e] = "waiting"
        /\ job' = [job EXCEPT ![e] = "active"]
        /\ wjob' = [wjob EXCEPT ![w] = e]
    /\ owns' = [owns EXCEPT ![w] = TRUE]
    /\ wpc' = [wpc EXCEPT ![w] = "items"]
    /\ UNCHANGED <<orderVars, stripeVars, added, attempt, stalls, read, todo>>

(* getItemsFromOrder                                                       *)
GetItems(w) ==
    /\ wpc[w] = "items"
    /\ todo' = [todo EXCEPT ![w] = ItemsOf(OrderOf(wjob[w]))]
    /\ WGoto(w, "stock")
    /\ UNCHANGED <<orderVars, stripeVars, queueVars, read>>

(* deductStock or releaseStock, item by item; a row that cannot give is    *)
(* only warned about.                                                      *)
CanMoveStrictly(e, row, q) == row.reserved > q      \* plausible bug: off by one
CanMove(e, row, q) ==
    row.reserved >= q /\ (TypeOf(e) = "succeeded" => row.quantity >= q)

MoveItem(w) ==
    /\ wpc[w] = "stock"
    /\ \E v \in todo[w] :
        /\ LET q == Bought[OrderOf(wjob[w])][v] IN
            IF ~CanMove(wjob[w], stock[v], q) THEN UNCHANGED stock
            ELSE IF TypeOf(wjob[w]) = "succeeded" THEN Ledger!Deduct(v, q)
            ELSE Ledger!Release(v, q)
        /\ todo' = [todo EXCEPT ![w] = @ \ {v}]
        /\ WGoto(w, IF todo[w] = {v} THEN "check" ELSE "stock")
    /\ UNCHANGED <<status, history, stripeVars, queueVars, read>>

AlwaysPaid(e) == "paid"                 \* plausible bug: a copied line
Target(e) == IF TypeOf(e) = "succeeded" THEN "paid" ELSE "payment_failed"

OnceMore(e) == attempt[e] + 1 <= Attempts       \* plausible bug: off by one
MayRetry(e) == attempt[e] + 1 < Attempts

(* Plausible bug: a job that threw is put back by hand, uncounted.         *)
JobPutBack(w) ==
    /\ job' = [job EXCEPT ![wjob[w]] = IF owns[w] THEN "waiting" ELSE @]
    /\ Free(w)
    /\ UNCHANGED <<attempt, added, stalls>>

(* The job threw: it waits for another attempt, or has failed for good.    *)
(* A worker that lost the lock changes nothing.                            *)
JobThrows(w) ==
    LET e == wjob[w] IN
    /\ IF owns[w]
       THEN /\ attempt' = [attempt EXCEPT ![e] = @ + 1]
            /\ job' = [job EXCEPT ![e] =
                          IF MayRetry(e) THEN "waiting" ELSE "failed"]
       ELSE UNCHANGED <<attempt, job>>
    /\ Free(w)
    /\ UNCHANGED <<added, stalls>>

(* transitionOrderStatus reads the order and checks the transition ...     *)
CheckStatus(w) ==
    /\ wpc[w] = "check"
    /\ IF MayBecome(status[OrderOf(wjob[w])], Target(wjob[w]))
       THEN /\ read' = [read EXCEPT ![w] = status[OrderOf(wjob[w])]]
            /\ WGoto(w, "write") /\ UNCHANGED <<queueVars, todo>>
       ELSE JobThrows(w)
    /\ UNCHANGED <<orderVars, stripeVars>>

(* ... and in a transaction writes the status and the history; the status  *)
(* it read is the history's from_status.                                   *)
WriteStatus(w) ==
    /\ wpc[w] = "write"
    /\ LET o == OrderOf(wjob[w]) IN
        /\ status' = [status EXCEPT ![o] = Target(wjob[w])]
        /\ history' = [history EXCEPT ![o] =
                          Append(@, [from |-> read[w], to |-> Target(wjob[w])])]
    /\ job' = IF owns[w] THEN [job EXCEPT ![wjob[w]] = "completed"] ELSE job
    /\ Free(w)
    /\ UNCHANGED <<stock, stripeVars, added, attempt, stalls>>

(* A statement of the job throws.                                          *)
WorkerDbError(w) ==
    /\ Faults /\ wpc[w] # "idle"
    /\ JobThrows(w)
    /\ UNCHANGED <<orderVars, stripeVars>>

(* The lock of a job is not renewed in time: the job goes back to the      *)
(* queue, once; its worker is dead, or works on.                           *)
Stall(w) ==
    /\ Faults /\ wpc[w] # "idle" /\ owns[w]
    /\ LET e == wjob[w] IN
        /\ stalls' = [stalls EXCEPT ![e] = IF @ < MaxStalls THEN @ + 1 ELSE @]
        /\ job' = [job EXCEPT ![e] = IF stalls[e] < MaxStalls THEN "waiting" ELSE "failed"]
    /\ \/ Free(w)
       \/ owns' = [owns EXCEPT ![w] = FALSE] /\ UNCHANGED <<wpc, wjob, read, todo>>
    /\ UNCHANGED <<orderVars, stripeVars, added, attempt>>

-----------------------------------------------------------------------------
WebhookRuns(h) ==
    \/ FindKey(h) \/ CreateKey(h) \/ FindPayment(h) \/ UpdatePayment(h)
    \/ Enqueue(h) \/ StoreKey(h)

WorkerRuns(w) ==
    \/ GetItems(w) \/ MoveItem(w) \/ CheckStatus(w) \/ WriteStatus(w)

Next ==
    \/ \E e \in Events : Emit(e)
    \/ \E h \in Handlers : Deliver(h) \/ WebhookRuns(h) \/ WebhookFails(h)
    \/ \E w \in Workers : Take(w) \/ WorkerRuns(w) \/ WorkerDbError(w) \/ Stall(w)

Spec == Init /\ [][Next]_vars

(* The event loop runs handlers and workers, and an idle worker polls;     *)
(* nothing makes a statement fail, a server die or Stripe deliver.         *)
FairSpec ==
    /\ Spec
    /\ \A h \in Handlers : WF_vars(WebhookRuns(h))
    /\ \A w \in Workers : WF_vars(WorkerRuns(w)) /\ WF_vars(Take(w))

-----------------------------------------------------------------------------
(* Properties                                                              *)

\* The tables and the queue hold what they may, and handlers and workers are
\* at a point of their code.
TypeOK ==
    /\ stock \in [Variants -> [quantity : Nat, reserved : Nat]]
    /\ status \in [Orders -> Status]
    /\ history \in [Orders -> Seq([from : Status, to : Status])]
    /\ payment \in [Orders -> {"pending", "succeeded", "failed", NoRow}]
    /\ acked \subseteq seen /\ seen \subseteq emitted /\ emitted \subseteq Events
    /\ hpc \in [Handlers -> {"idle", "find", "create", "payment", "update",
                              "enqueue", "store"}]
    /\ event \in [Handlers -> Events \cup {NoEvent}]
    /\ job \in [Events -> {"none", "waiting", "active", "completed", "failed"}]
    /\ added \in [Events -> Nat]
    /\ attempt \in [Events -> 0 .. Attempts]
    /\ stalls \in [Events -> 0 .. MaxStalls]
    /\ wpc \in [Workers -> {"idle", "items", "stock", "check", "write"}]
    /\ wjob \in [Workers -> Events \cup {NoJob}]
    /\ owns \in [Workers -> BOOLEAN]
    /\ read \in [Workers -> Status \cup {"none"}]
    /\ todo \in [Workers -> SUBSET Variants]

\* However often and however concurrently Stripe delivers an event, and
\* whatever fails, it is put on the queue at most once.
OneJobPerEvent == \A e \in Events : added[e] <= 1

\* No order is paid whose intent did not succeed.
PaidWasCharged ==
    \A o \in Orders : status[o] = "paid" => <<o, "succeeded">> \in seen

\* A paid order stays paid: neither a late payment_failed event, nor a retried
\* or stalled job that read the order before it was paid, takes that back.
PaidIsFinal ==
    [][\A o \in Orders : status[o] = "paid" => status'[o] = "paid"]_vars

(* Units of v that left the warehouse since the orders were placed.        *)
Sold(v) ==
    Held(v, {o \in Orders : payment[o] # NoRow}) + Spare - stock[v].quantity

\* Unless jobs are cut short, the stock of an order leaves the warehouse at
\* most once, and only when the intent has succeeded.
SoldOnce ==
    \A v \in Variants :
        ~Faults => Sold(v) <= Held(v, {o \in Orders : <<o, "succeeded">> \in seen})

\* Every job ends, completed or failed for good: no endless retries.
JobsEnd == \A e \in Events : job[e] = "waiting" ~> job[e] \in {"completed", "failed"}

(* No job waits or runs.                                                   *)
Drained ==
    /\ \A h \in Handlers : hpc[h] = "idle"
    /\ \A w \in Workers : wpc[w] = "idle"
    /\ \A e \in Events : job[e] \notin {"waiting", "active"}

\* "Stock is RESERVED" of an order in stock_reserved (docs/event-flows.md:30):
\* orders about which Stripe has said nothing yet still have their units.
StandingOrdersHold ==
    \A v \in Variants :
        Held(v, {o \in Orders : status[o] = "stock_reserved"
                                  /\ \A e \in emitted : OrderOf(e) # o})
            <= stock[v].reserved

\* "Stock is DEDUCTED permanently" of paid orders (docs/event-flows.md:35): so
\* it is, unless a job is cut short, or a card was refused for an order of the
\* variant, whose units are released although they may still be paid.
DeductedUnlessRefused ==
    ~Faults /\ Drained => \A v \in Variants :
        (\A o \in Orders : Bought[o][v] > 0 => <<o, "payment_failed">> \notin emitted)
            => Sold(v) = Held(v, {o \in Orders : status[o] = "paid"})

\* Dispatch, then store the key, then return 200 (docs/event-flows.md:222-224):
\* an event that Stripe need not deliver any more has had its job queued.
AckedIsDispatched ==
    (\A h \in Handlers : hpc[h] = "idle") =>
        \A e \in acked : payment[OrderOf(e)] # NoRow => added[e] > 0
=============================================================================
