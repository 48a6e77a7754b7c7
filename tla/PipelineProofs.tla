--------------------------- MODULE PipelineProofs ---------------------------
(***************************************************************************)
(* One event of Stripe means one job, only an order that was charged is    *)
(* paid, it stays so, and its units leave the warehouse once: proofs, for  *)
(* any orders, handlers and workers, any number of attempts, with          *)
(* statements failing, servers dying and jobs stalling.                    *)
(***************************************************************************)
EXTENDS OrderPipeline, TotalsProofs, TLAPS

(* The statuses an order has here: no arrow leads to payment_failed.       *)
Reached == {"stock_reserved", "cancelled", "paid"}

FlowTyped ==
    /\ status \in [Orders -> Reached]
    /\ seen \subseteq Events /\ emitted \subseteq Events
    /\ hpc \in [Handlers -> {"idle", "find", "create", "payment", "update",
                              "enqueue", "store"}]
    /\ event \in [Handlers -> Events \cup {NoEvent}]
    /\ job \in [Events -> {"none", "waiting", "active", "completed", "failed"}]
    /\ added \in [Events -> Nat]
    /\ wpc \in [Workers -> {"idle", "items", "stock", "check", "write"}]
    /\ wjob \in [Workers -> Events \cup {NoJob}]

(* Where a handler is about to put a job on the queue.                     *)
Dispatching == {"payment", "update", "enqueue"}

(* A handler at work has an event; past the create it has stored the key   *)
(* of an event that has had no job yet, and no other handler has it.       *)
Handling ==
    /\ \A h \in Handlers : hpc[h] # "idle" => event[h] \in Events
    /\ \A h \in Handlers : hpc[h] \in Dispatching =>
            event[h] \in seen /\ added[event[h]] = 0
    /\ \A g, h \in Handlers :
            hpc[g] \in Dispatching /\ hpc[h] \in Dispatching /\ event[g] = event[h] => g = h

(* Jobs are of events whose keys are stored, and once each.                *)
Queueing ==
    \A e \in Events :
        /\ added[e] <= 1
        /\ added[e] > 0 => e \in seen
        /\ job[e] # "none" => added[e] > 0

(* A worker works on a job that was queued, and writes "paid" only: the    *)
(* table has let no other target pass.                                     *)
Working ==
    \A w \in Workers : wpc[w] # "idle" =>
        /\ wjob[w] \in Events /\ job[wjob[w]] # "none"
        /\ wpc[w] = "write" => TypeOf(wjob[w]) = "succeeded"

PInv == FlowTyped /\ Handling /\ Queueing /\ Working /\ PaidWasCharged

LEMMA EventParts ==
    ASSUME NEW e \in Events
    PROVE  /\ OrderOf(e) \in Orders /\ TypeOf(e) \in {"succeeded", "payment_failed"}
           /\ e = <<OrderOf(e), TypeOf(e)>>
  BY DEF Events, OrderOf, TypeOf

(* VALID_ORDER_TRANSITIONS leads none of these statuses to payment_failed. *)
LEMMA NoArrow ==
    ASSUME NEW s \in Reached
    PROVE  ~MayBecome(s, "payment_failed")
  BY DEF Reached, MayBecome, VALID_ORDER_TRANSITIONS

LEMMA InitOK == Init => PInv
  <1> SUFFICES ASSUME Init PROVE PInv
    OBVIOUS
  <1>1. FlowTyped
    BY DEF Init, FlowTyped, Reached
  <1> QED
    BY <1>1 DEF Init, PInv, Handling, Queueing, Working, PaidWasCharged, Dispatching, FlowTyped

-----------------------------------------------------------------------------
(* Stripe and the webhook.                                                 *)

(* Steps that leave orders, queue and workers alone.                       *)
LEMMA WorkersUntouched ==
    ASSUME PInv, UNCHANGED <<orderVars, workerVars>>, seen \subseteq seen',
           \A e \in Events : job'[e] = job[e] \/ job'[e] = "waiting"
    PROVE  Working' /\ PaidWasCharged'
  BY DEF PInv, FlowTyped, Working, PaidWasCharged, orderVars, workerVars

LEMMA StripeStep ==
    ASSUME PInv,
           \/ \E e \in Events : Emit(e)
           \/ \E h \in Handlers : Deliver(h)
    PROVE  PInv'
  <1>1. FlowTyped'
    BY DEF PInv, FlowTyped, Emit, Deliver, orderVars, queueVars, workerVars
  <1>2. Working' /\ PaidWasCharged'
    BY WorkersUntouched DEF Emit, Deliver, queueVars
  <1>3. Queueing'
    BY DEF PInv, Queueing, Emit, Deliver, queueVars
  <1>4. Handling'
    <2>1. CASE \E e \in Events : Emit(e)
      BY <2>1 DEF PInv, Handling, Emit, queueVars
    <2>2. ASSUME NEW h \in Handlers, Deliver(h) PROVE Handling'
      BY <2>2 DEF PInv, FlowTyped, Handling, Deliver, queueVars, Dispatching
    <2> QED
      BY <2>1, <2>2
  <1> QED
    BY <1>1, <1>2, <1>3, <1>4 DEF PInv

(* A handler answers, throws or goes on without a new key or job.          *)
LEMMA HandlerMovesOn ==
    ASSUME PInv, NEW h \in Handlers,
           UNCHANGED <<orderVars, seen, emitted, queueVars, workerVars>>,
           \/ /\ hpc' = [hpc EXCEPT ![h] = "idle"]
              /\ event' = [event EXCEPT ![h] = NoEvent]
           \/ /\ event' = event
              /\ \/ hpc[h] \in {"find", "create"} /\ hpc' = [hpc EXCEPT ![h] = "create"]
                 \/ hpc[h] = "payment" /\ hpc' = [hpc EXCEPT ![h] = "update"]
                 \/ hpc[h] = "update" /\ hpc' = [hpc EXCEPT ![h] = "enqueue"]
    PROVE  PInv'
  <1>1. FlowTyped'
    BY DEF PInv, FlowTyped, orderVars, queueVars, workerVars
  <1>2. Working' /\ PaidWasCharged'
    BY WorkersUntouched DEF queueVars
  <1>3. Queueing'
    BY DEF PInv, Queueing, queueVars
  <1>4. \A g \in Handlers : hpc'[g] # "idle" => hpc[g] # "idle" /\ event'[g] = event[g]
    BY DEF PInv, FlowTyped
  <1>5. \A g \in Handlers : hpc'[g] \in Dispatching => hpc[g] \in Dispatching
    BY DEF PInv, FlowTyped, Dispatching
  <1>6. Handling'
    BY <1>4, <1>5 DEF PInv, Handling, queueVars, Dispatching
  <1> QED
    BY <1>1, <1>2, <1>3, <1>6 DEF PInv

(* The unique constraint lets one delivery of an event past the key.       *)
LEMMA CreateKeyOK ==
    ASSUME PInv, NEW h \in Handlers, CreateKey(h)
    PROVE  PInv'
  <1>1. CASE event[h] \in seen
    BY <1>1, HandlerMovesOn DEF CreateKey, HThrow
  <1>2. CASE event[h] \notin seen
    <2>1. /\ hpc[h] = "create" /\ hpc' = [hpc EXCEPT ![h] = "payment"]
          /\ event' = event /\ seen' = seen \cup {event[h]} /\ event[h] \in Events
          /\ UNCHANGED <<orderVars, emitted, queueVars, workerVars>>
      BY <1>2 DEF CreateKey, HGoto, PInv, Handling
    <2>2. FlowTyped'
      BY <2>1 DEF PInv, FlowTyped, orderVars, queueVars, workerVars
    <2>3. Working' /\ PaidWasCharged'
      BY <2>1, WorkersUntouched DEF queueVars
    <2>4. Queueing'
      BY <2>1 DEF PInv, Queueing, queueVars
    <2>5. added[event[h]] = 0
      BY <1>2, <2>1 DEF PInv, Queueing, FlowTyped
    <2>6. \A g \in Handlers : hpc[g] \in Dispatching => event[g] # event[h]
      BY <1>2 DEF PInv, Handling
    <2>7. \A g \in Handlers : g # h => hpc'[g] = hpc[g]
      BY <2>1 DEF PInv, FlowTyped
    <2>8. Handling'
      <3>1. added' = added
        BY <2>1 DEF queueVars
      <3>2. \A g \in Handlers : hpc'[g] # "idle" => event'[g] \in Events
        BY <2>1, <2>7 DEF PInv, Handling
      <3>3. \A g \in Handlers : hpc'[g] \in Dispatching =>
                event'[g] \in seen' /\ added'[event'[g]] = 0
        BY <2>1, <2>5, <2>7, <3>1 DEF PInv, Handling
      <3>4. \A g, k \in Handlers :
                hpc'[g] \in Dispatching /\ hpc'[k] \in Dispatching /\ event'[g] = event'[k]
                    => g = k
        BY <2>1, <2>6, <2>7 DEF PInv, Handling
      <3> QED
        BY <3>2, <3>3, <3>4 DEF Handling
    <2> QED
      BY <2>2, <2>3, <2>4, <2>8 DEF PInv
  <1> QED
    BY <1>1, <1>2

(* The handler that has the event is the one that queues its job.          *)
LEMMA EnqueueOK ==
    ASSUME PInv, NEW h \in Handlers, Enqueue(h)
    PROVE  PInv'
  <1> DEFINE e == event[h]
  <1>1. /\ hpc[h] = "enqueue" /\ hpc' = [hpc EXCEPT ![h] = "store"]
        /\ event' = event /\ job' = [job EXCEPT ![e] = "waiting"]
        /\ added' = [added EXCEPT ![e] = @ + 1]
        /\ UNCHANGED <<orderVars, seen, emitted, workerVars>>
    BY DEF Enqueue, HGoto
  <1>2. e \in Events /\ e \in seen /\ added[e] = 0
    BY <1>1 DEF PInv, Handling, Dispatching
  <1>3. FlowTyped'
    BY <1>1, <1>2 DEF PInv, FlowTyped, orderVars, workerVars
  <1>4. Working' /\ PaidWasCharged'
    BY <1>1, <1>2, WorkersUntouched DEF PInv, FlowTyped
  <1>5. Queueing'
    BY <1>1, <1>2 DEF PInv, FlowTyped, Queueing
  <1>6. \A g \in Handlers : hpc'[g] \in Dispatching =>
            hpc[g] \in Dispatching /\ g # h
    BY <1>1 DEF PInv, FlowTyped, Dispatching
  <1>7. \A g \in Handlers : hpc'[g] \in Dispatching => event[g] # e
    BY <1>1, <1>6 DEF PInv, Handling, Dispatching
  <1>8. Handling'
    <2>1. \A g \in Handlers : hpc'[g] # "idle" => event'[g] \in Events
      BY <1>1 DEF PInv, FlowTyped, Handling
    <2>2. \A g \in Handlers : hpc'[g] \in Dispatching =>
              event'[g] \in seen' /\ added'[event'[g]] = 0
      BY <1>1, <1>6, <1>7 DEF PInv, FlowTyped, Handling
    <2> QED
      BY <1>1, <1>6, <2>1, <2>2 DEF PInv, Handling
  <1> QED
    BY <1>3, <1>4, <1>5, <1>8 DEF PInv

LEMMA WebhookStep ==
    ASSUME PInv, NEW h \in Handlers, WebhookRuns(h) \/ WebhookFails(h)
    PROVE  PInv'
  <1>1. CASE FindKey(h)
    BY <1>1, HandlerMovesOn DEF FindKey, Ack, HGoto
  <1>2. CASE FindPayment(h)
    BY <1>2, HandlerMovesOn DEF FindPayment, Ack, HGoto, queueVars
  <1>3. CASE UpdatePayment(h)
    BY <1>3, HandlerMovesOn DEF UpdatePayment, HGoto
  <1>4. CASE StoreKey(h)
    BY <1>4, HandlerMovesOn DEF StoreKey, Ack
  <1>5. CASE WebhookFails(h)
    BY <1>5, HandlerMovesOn DEF WebhookFails, HThrow
  <1> QED
    BY <1>1, <1>2, <1>3, <1>4, <1>5, CreateKeyOK, EnqueueOK DEF WebhookRuns

-----------------------------------------------------------------------------
(* The workers.                                                            *)

(* What every step of a worker leaves alone: the webhook's tables and      *)
(* which jobs there are.                                                   *)
JobsStay ==
    /\ UNCHANGED stripeVars /\ added' = added
    /\ job' \in [Events -> {"none", "waiting", "active", "completed", "failed"}]
    /\ \A e \in Events : job'[e] # "none" <=> job[e] # "none"

LEMMA WebhookUntouched ==
    ASSUME PInv, JobsStay
    PROVE  Handling' /\ Queueing'
  BY DEF PInv, Handling, Queueing, JobsStay, stripeVars

(* Worker w goes on with the job it has, or with none.                     *)
LEMMA WorkerMovesOn ==
    ASSUME PInv, JobsStay, NEW w \in Workers, status' = status,
           \/ \E p \in {"stock", "check", "write"} :
                /\ wpc[w] # "idle" /\ wjob' = wjob
                /\ wpc' = [wpc EXCEPT ![w] = p]
                /\ p = "write" => TypeOf(wjob[w]) = "succeeded"
           \/ wpc' = [wpc EXCEPT ![w] = "idle"] /\ wjob' = [wjob EXCEPT ![w] = NoJob]
           \/ \E e \in Events :
                /\ job[e] # "none"
                /\ wpc' = [wpc EXCEPT ![w] = "items"] /\ wjob' = [wjob EXCEPT ![w] = e]
           \/ wpc' = wpc /\ wjob' = wjob
    PROVE  PInv'
  <1>1. FlowTyped'
    BY DEF PInv, FlowTyped, JobsStay, stripeVars
  <1>2. PaidWasCharged'
    BY DEF PInv, PaidWasCharged, JobsStay, stripeVars
  <1>3. Working'
    BY DEF PInv, FlowTyped, Working, JobsStay
  <1> QED
    BY <1>1, <1>2, <1>3, WebhookUntouched DEF PInv

LEMMA ThrowingOK ==
    ASSUME PInv, NEW w \in Workers, wpc[w] # "idle", JobThrows(w),
           UNCHANGED <<orderVars, stripeVars>>
    PROVE  PInv'
  <1>1. wjob[w] \in Events /\ job[wjob[w]] # "none"
    BY DEF PInv, Working
  <1>2. JobsStay
    BY <1>1 DEF JobThrows, JobsStay, PInv, FlowTyped
  <1> QED
    BY <1>2, WorkerMovesOn DEF JobThrows, Free, orderVars

LEMMA TakeOK ==
    ASSUME PInv, NEW w \in Workers, Take(w)
    PROVE  PInv'
  <1>1. PICK e \in Events : /\ job[e] = "waiting" /\ job' = [job EXCEPT ![e] = "active"]
                            /\ wjob' = [wjob EXCEPT ![w] = e]
    BY DEF Take
  <1>2. JobsStay
    BY <1>1 DEF Take, JobsStay, PInv, FlowTyped
  <1> QED
    BY <1>1, <1>2, WorkerMovesOn DEF Take, orderVars

LEMMA StallOK ==
    ASSUME PInv, NEW w \in Workers, Stall(w)
    PROVE  PInv'
  <1>1. wjob[w] \in Events /\ job[wjob[w]] # "none"
    BY DEF PInv, Working, Stall
  <1>2. JobsStay
    BY <1>1 DEF Stall, JobsStay, PInv, FlowTyped
  <1> QED
    BY <1>2, WorkerMovesOn DEF Stall, Free, orderVars

(* The check before the write: what it lets pass is a payment.             *)
LEMMA CheckStatusOK ==
    ASSUME PInv, NEW w \in Workers, CheckStatus(w)
    PROVE  PInv'
  <1>1. wjob[w] \in Events /\ wpc[w] # "idle"
    BY DEF PInv, Working, CheckStatus
  <1>2. status[OrderOf(wjob[w])] \in Reached
    BY <1>1, EventParts DEF PInv, FlowTyped
  <1>3. CASE MayBecome(status[OrderOf(wjob[w])], Target(wjob[w]))
    <2>1. TypeOf(wjob[w]) = "succeeded"
      BY <1>1, <1>2, <1>3, EventParts, NoArrow DEF Target
    <2>2. JobsStay
      BY <1>3 DEF CheckStatus, JobsStay, queueVars, PInv, FlowTyped
    <2> QED
      BY <1>1, <1>3, <2>1, <2>2, WorkerMovesOn DEF CheckStatus, WGoto, orderVars
  <1>4. CASE ~MayBecome(status[OrderOf(wjob[w])], Target(wjob[w]))
    BY <1>1, <1>4, ThrowingOK DEF CheckStatus
  <1> QED
    BY <1>3, <1>4

LEMMA WriteStatusOK ==
    ASSUME PInv, NEW w \in Workers, WriteStatus(w)
    PROVE  PInv'
  <1> DEFINE o == OrderOf(wjob[w])
  <1>1. /\ wjob[w] \in Events /\ job[wjob[w]] # "none"
        /\ Target(wjob[w]) = "paid" /\ TypeOf(wjob[w]) = "succeeded"
    BY DEF PInv, Working, WriteStatus, Target
  <1>2. <<o, "succeeded">> \in seen /\ o \in Orders
    <2>1. wjob[w] \in seen
      BY <1>1 DEF PInv, Queueing
    <2> QED
      BY <1>1, <2>1, EventParts
  <1>3. status' = [status EXCEPT ![o] = "paid"]
    BY <1>1 DEF WriteStatus
  <1>4. JobsStay
    BY <1>1 DEF WriteStatus, JobsStay, PInv, FlowTyped
  <1>5. wpc' = [wpc EXCEPT ![w] = "idle"] /\ wjob' = [wjob EXCEPT ![w] = NoJob]
    BY DEF WriteStatus, Free
  <1>6. FlowTyped'
    BY <1>3, <1>4, <1>5 DEF PInv, FlowTyped, JobsStay, stripeVars, Reached
  <1>7. Working'
    BY <1>4, <1>5 DEF PInv, FlowTyped, Working, JobsStay
  <1>8. PaidWasCharged'
    BY <1>2, <1>3, <1>4 DEF PInv, FlowTyped, PaidWasCharged, JobsStay, stripeVars
  <1> QED
    BY <1>4, <1>6, <1>7, <1>8, WebhookUntouched DEF PInv

LEMMA WorkerStep ==
    ASSUME PInv, NEW w \in Workers,
           Take(w) \/ WorkerRuns(w) \/ WorkerDbError(w) \/ Stall(w)
    PROVE  PInv'
  <1>1. CASE GetItems(w)
    <2>1. JobsStay
      BY <1>1 DEF GetItems, JobsStay, queueVars, PInv, FlowTyped
    <2> QED
      BY <1>1, <2>1, WorkerMovesOn DEF GetItems, WGoto, orderVars
  <1>2. CASE MoveItem(w)
    <2>1. JobsStay /\ status' = status
      BY <1>2 DEF MoveItem, JobsStay, queueVars, PInv, FlowTyped
    <2>2. \E p \in {"stock", "check"} : wpc' = [wpc EXCEPT ![w] = p] /\ wjob' = wjob
      BY <1>2 DEF MoveItem, WGoto
    <2>3. wpc[w] # "idle"
      BY <1>2 DEF MoveItem
    <2> QED
      BY <2>1, <2>2, <2>3, WorkerMovesOn
  <1>3. CASE WorkerDbError(w)
    BY <1>3, ThrowingOK DEF WorkerDbError
  <1> QED
    BY <1>1, <1>2, <1>3, TakeOK, StallOK, CheckStatusOK, WriteStatusOK DEF WorkerRuns

-----------------------------------------------------------------------------
LEMMA NextOK == PInv /\ [Next]_vars => PInv'
  <1> SUFFICES ASSUME PInv, [Next]_vars PROVE PInv'
    OBVIOUS
  <1>1. CASE UNCHANGED vars
    BY <1>1 DEF vars, PInv, FlowTyped, Handling, Queueing, Working, PaidWasCharged
  <1> QED
    BY <1>1, StripeStep, WebhookStep, WorkerStep DEF Next

LEMMA Invariance == Spec => []PInv
  BY InitOK, NextOK, PTL DEF Spec

(* A step changes the status of an order to "paid" or not at all.          *)
LEMMA StatusStep ==
    ASSUME PInv, [Next]_vars, NEW o \in Orders, status[o] = "paid"
    PROVE  status'[o] = "paid"
  <1>1. CASE status' = status
    BY <1>1
  <1>2. ASSUME NEW w \in Workers, WriteStatus(w) PROVE status'[o] = "paid"
    <2>1. wjob[w] \in Events /\ Target(wjob[w]) = "paid"
      BY <1>2 DEF PInv, Working, WriteStatus, Target
    <2> QED
      BY <1>2, <2>1 DEF WriteStatus, PInv, FlowTyped
  <1>3. ASSUME NEW w \in Workers, WorkerRuns(w) PROVE status'[o] = "paid"
    BY <1>1, <1>2, <1>3 DEF WorkerRuns, GetItems, MoveItem, CheckStatus, orderVars
  <1>4. ASSUME NEW w \in Workers, Take(w) \/ WorkerDbError(w) \/ Stall(w)
        PROVE status' = status
    BY <1>4 DEF Take, WorkerDbError, Stall, orderVars
  <1>5. ASSUME NEW h \in Handlers, Deliver(h) \/ WebhookRuns(h) \/ WebhookFails(h)
        PROVE status' = status
    BY <1>5 DEF Deliver, WebhookRuns, WebhookFails, FindKey, CreateKey, FindPayment,
                UpdatePayment, Enqueue, StoreKey, orderVars
  <1>6. ASSUME NEW e \in Events, Emit(e) PROVE status' = status
    BY <1>6 DEF Emit, orderVars
  <1>7. CASE UNCHANGED vars
    BY <1>7 DEF vars
  <1> QED
    BY <1>1, <1>3, <1>4, <1>5, <1>6, <1>7 DEF Next

(* PaymentService.handleStripeWebhook: an event is put on the queue once   *)
(* at most, however often, and to however many handlers, it is delivered.  *)
THEOREM EventMeansJob == Spec => []OneJobPerEvent
  <1>1. PInv => OneJobPerEvent
    BY DEF PInv, Queueing, OneJobPerEvent
  <1> QED
    BY <1>1, Invariance, PTL

(* OrderProcessor.process: an order is paid only once the webhook has      *)
(* stored the event that says its intent succeeded.                        *)
THEOREM PaidMeansCharged == Spec => []PaidWasCharged
  <1>1. PInv => PaidWasCharged
    BY DEF PInv
  <1> QED
    BY <1>1, Invariance, PTL

(* transitionOrderStatus: no late, retried or stalled job takes "paid"     *)
(* back, although it checks one status and overwrites whatever is there.   *)
THEOREM PaidStays == Spec => PaidIsFinal
  <1>1. PInv /\ [Next]_vars =>
            [\A o \in Orders : status[o] = "paid" => status'[o] = "paid"]_vars
    BY StatusStep
  <1> QED
    BY <1>1, Invariance, PTL DEF Spec, PaidIsFinal

-----------------------------------------------------------------------------
(* Types.                                                                  *)

RestTyped ==
    /\ stock \in [Variants -> [quantity : Nat, reserved : Nat]]
    /\ history \in [Orders -> Seq([from : Status, to : Status])]
    /\ payment \in [Orders -> {"pending", "succeeded", "failed", NoRow}]
    /\ acked \subseteq seen /\ seen \subseteq emitted
    /\ attempt \in [Events -> 0 .. Attempts]
    /\ stalls \in [Events -> 0 .. MaxStalls]
    /\ owns \in [Workers -> BOOLEAN]
    /\ read \in [Workers -> Status \cup {"none"}]
    /\ todo \in [Workers -> SUBSET Variants]

(* A handler works on an event Stripe has emitted, and answers once the    *)
(* key of the event is stored.                                             *)
Answering ==
    \A h \in Handlers :
        /\ hpc[h] # "idle" => event[h] \in emitted
        /\ hpc[h] = "store" => event[h] \in seen

(* A job that may still run has attempts left; the lock of a job is held   *)
(* while it is active, by one worker.                                      *)
Locking ==
    /\ \A e \in Events : job[e] \in {"none", "waiting", "active"} => attempt[e] < Attempts
    /\ \A w \in Workers : owns[w] => wpc[w] # "idle" /\ job[wjob[w]] = "active"
    /\ \A w, x \in Workers : owns[w] /\ owns[x] /\ wjob[w] = wjob[x] => w = x
    /\ \A w \in Workers : wpc[w] = "write" => read[w] \in Status

TInv == PInv /\ RestTyped /\ Answering /\ Locking

LEMMA StatusKnown == Reached \subseteq Status /\ "paid" \in Status /\ "payment_failed" \in Status
  BY DEF Reached, Status

LEMMA StockTyped ==
    ASSUME NEW v \in Variants, NEW q \in Nat,
           stock \in [Variants -> [quantity : Nat, reserved : Nat]],
           stock[v].reserved >= q,
           \/ Ledger!Deduct(v, q) /\ stock[v].quantity >= q
           \/ Ledger!Release(v, q)
    PROVE  /\ stock' \in [Variants -> [quantity : Nat, reserved : Nat]]
           /\ \A w \in Variants \ {v} : stock'[w] = stock[w]
           /\ stock'[v].reserved = stock[v].reserved - q
           /\ Ledger!Deduct(v, q) => stock'[v].quantity = stock[v].quantity - q
           /\ Ledger!Release(v, q) => stock'[v].quantity = stock[v].quantity
  <1>1. stock[v].quantity \in Nat /\ stock[v].reserved \in Nat
    OBVIOUS
  <1>2. stock[v].reserved - q \in Nat
    BY <1>1
  <1>3. CASE Ledger!Deduct(v, q) /\ stock[v].quantity >= q
    <2>1. stock[v].quantity - q \in Nat
      BY <1>1, <1>3
    <2>2. stock' = [stock EXCEPT ![v] = [quantity |-> stock[v].quantity - q,
                                         reserved |-> stock[v].reserved - q]]
      BY <1>3 DEF Ledger!Deduct
    <2>3. Ledger!Release(v, q) => q = 0
      BY <1>1, <2>1, <2>2 DEF Ledger!Release
    <2> QED
      BY <1>1, <1>2, <2>1, <2>2, <2>3
  <1>4. CASE Ledger!Release(v, q)
    <2>1. stock' = [stock EXCEPT ![v] = [quantity |-> stock[v].quantity,
                                         reserved |-> stock[v].reserved - q]]
      BY <1>4 DEF Ledger!Release
    <2>2. Ledger!Deduct(v, q) => q = 0
      BY <1>1, <1>2, <2>1 DEF Ledger!Deduct
    <2> QED
      BY <1>1, <1>2, <2>1, <2>2
  <1> QED
    BY <1>3, <1>4

(* What MoveItem does to the stock.                                        *)
Deducts(w, v) ==
    /\ CanMove(wjob[w], stock[v], Bought[OrderOf(wjob[w])][v])
    /\ TypeOf(wjob[w]) = "succeeded"
    /\ Ledger!Deduct(v, Bought[OrderOf(wjob[w])][v])

Releases(w, v) ==
    /\ CanMove(wjob[w], stock[v], Bought[OrderOf(wjob[w])][v])
    /\ TypeOf(wjob[w]) # "succeeded"
    /\ Ledger!Release(v, Bought[OrderOf(wjob[w])][v])

LEMMA ItemMoves ==
    ASSUME PInv, RestTyped, NEW w \in Workers, MoveItem(w)
    PROVE  \E v \in todo[w] :
              /\ v \in Variants /\ Bought[OrderOf(wjob[w])][v] \in Nat
              /\ wjob[w] \in Events /\ OrderOf(wjob[w]) \in Orders
              /\ todo' = [todo EXCEPT ![w] = @ \ {v}]
              /\ WGoto(w, IF todo[w] = {v} THEN "check" ELSE "stock")
              /\ \/ Deducts(w, v) \/ Releases(w, v)
                 \/ /\ ~CanMove(wjob[w], stock[v], Bought[OrderOf(wjob[w])][v])
                    /\ stock' = stock
  <1>1. PICK v \in todo[w] :
            /\ IF ~CanMove(wjob[w], stock[v], Bought[OrderOf(wjob[w])][v])
               THEN UNCHANGED stock
               ELSE IF TypeOf(wjob[w]) = "succeeded"
               THEN Ledger!Deduct(v, Bought[OrderOf(wjob[w])][v])
               ELSE Ledger!Release(v, Bought[OrderOf(wjob[w])][v])
            /\ todo' = [todo EXCEPT ![w] = @ \ {v}]
            /\ WGoto(w, IF todo[w] = {v} THEN "check" ELSE "stock")
    BY DEF MoveItem
  <1>2. wjob[w] \in Events
    BY DEF MoveItem, PInv, Working
  <1>3. v \in Variants /\ OrderOf(wjob[w]) \in Orders
    BY <1>2, EventParts DEF RestTyped
  <1>4. Bought[OrderOf(wjob[w])][v] \in Nat
    BY <1>3, PipelineAssumption
  <1> QED
    BY <1>1, <1>2, <1>3, <1>4 DEF Deducts, Releases

LEMMA MovedStockTyped ==
    ASSUME PInv, RestTyped, NEW w \in Workers, NEW v \in Variants,
           Bought[OrderOf(wjob[w])][v] \in Nat, Deducts(w, v) \/ Releases(w, v)
    PROVE  /\ stock' \in [Variants -> [quantity : Nat, reserved : Nat]]
           /\ \A u \in Variants \ {v} : stock'[u] = stock[u]
           /\ stock'[v].reserved = stock[v].reserved - Bought[OrderOf(wjob[w])][v]
           /\ Deducts(w, v) =>
                stock'[v].quantity = stock[v].quantity - Bought[OrderOf(wjob[w])][v]
           /\ Releases(w, v) => stock'[v].quantity = stock[v].quantity
  <1> DEFINE q == Bought[OrderOf(wjob[w])][v]
  <1>1. /\ q \in Nat /\ stock[v].reserved >= q
        /\ \/ Ledger!Deduct(v, q) /\ stock[v].quantity >= q
           \/ Ledger!Release(v, q)
    BY DEF Deducts, Releases, CanMove
  <1>2. stock \in [Variants -> [quantity : Nat, reserved : Nat]]
    BY DEF RestTyped
  <1>3. /\ Deducts(w, v) => Ledger!Deduct(v, q)
        /\ Releases(w, v) => Ledger!Release(v, q)
    BY DEF Deducts, Releases
  <1> HIDE DEF q
  <1>4. /\ stock' \in [Variants -> [quantity : Nat, reserved : Nat]]
        /\ \A u \in Variants \ {v} : stock'[u] = stock[u]
        /\ stock'[v].reserved = stock[v].reserved - q
        /\ Ledger!Deduct(v, q) => stock'[v].quantity = stock[v].quantity - q
        /\ Ledger!Release(v, q) => stock'[v].quantity = stock[v].quantity
    BY <1>1, <1>2, StockTyped
  <1> QED
    BY <1>3, <1>4 DEF q

LEMMA HeldFunction ==
    ASSUME NEW v \in Variants, NEW S
    PROVE  /\ [o \in Orders |-> IF o \in S THEN Bought[o][v] ELSE 0] \in [Orders -> Nat]
           /\ Countable([o \in Orders |-> IF o \in S THEN Bought[o][v] ELSE 0])
  <1>1. \A o \in Orders : Bought[o][v] \in Nat
    BY PipelineAssumption
  <1>2. [o \in Orders |-> IF o \in S THEN Bought[o][v] ELSE 0] \in [Orders -> Nat]
    BY <1>1
  <1> QED
    BY <1>2, FiniteCountable, PipelineAssumption

LEMMA HeldNat ==
    ASSUME NEW v \in Variants, NEW S
    PROVE  Held(v, S) \in Nat
  BY HeldFunction, TotalNat DEF Held

LEMMA TypesInit == Init => TInv
  <1> SUFFICES ASSUME Init PROVE TInv
    OBVIOUS
  <1>1. PInv
    BY InitOK
  <1>2. RestTyped
    <2>1. \A v \in Variants : Held(v, {o \in Orders : payment[o] # NoRow}) \in Nat
      BY HeldNat
    <2>2. Spare \in Nat /\ MaxStalls \in Nat /\ Attempts \in Nat
      BY PipelineAssumption
    <2>3. stock \in [Variants -> [quantity : Nat, reserved : Nat]]
      <3> DEFINE held(v) == Held(v, {o \in Orders : payment[o] # NoRow})
      <3>1. stock = [v \in Variants |->
                        [quantity |-> held(v) + Spare, reserved |-> held(v)]]
        BY DEF Init
      <3>2. \A v \in Variants : held(v) \in Nat
        BY <2>1
      <3> HIDE DEF held
      <3> QED
        BY <2>2, <3>1, <3>2
    <2>4. history \in [Orders -> Seq([from : Status, to : Status])]
      BY DEF Init
    <2> QED
      BY <2>2, <2>3, <2>4 DEF Init, RestTyped
  <1>3. Answering
    BY DEF Init, Answering
  <1>4. Locking
    BY PipelineAssumption DEF Init, Locking
  <1> QED
    BY <1>1, <1>2, <1>3, <1>4 DEF TInv

(* Stripe and the webhook leave the workers alone.                         *)
LEMMA LocksUntouched ==
    ASSUME TInv, UNCHANGED <<queueVars, workerVars>>
    PROVE  Locking'
  BY DEF TInv, Locking, queueVars, workerVars

LEMMA StripeTypes ==
    ASSUME TInv,
           \/ \E e \in Events : Emit(e)
           \/ \E h \in Handlers : Deliver(h)
    PROVE  RestTyped' /\ Answering' /\ Locking'
  <1>1. Locking'
    BY LocksUntouched DEF Emit, Deliver
  <1>2. RestTyped'
    BY DEF TInv, RestTyped, Emit, Deliver, orderVars, queueVars, workerVars
  <1>3. Answering'
    BY DEF TInv, PInv, FlowTyped, Answering, Emit, Deliver
  <1> QED
    BY <1>1, <1>2, <1>3

(* A handler answers an event whose key is stored, throws, or goes on.     *)
LEMMA HandlerTypes ==
    ASSUME TInv, NEW h \in Handlers, UNCHANGED <<orderVars, emitted, workerVars>>,
           payment' \in [Orders -> {"pending", "succeeded", "failed", NoRow}],
           seen \subseteq seen', seen' \subseteq emitted,
           attempt' = attempt, stalls' = stalls,
           \/ /\ hpc' = [hpc EXCEPT ![h] = "idle"]
              /\ event' = [event EXCEPT ![h] = NoEvent]
              /\ \/ acked' = acked
                 \/ acked' = acked \cup {event[h]} /\ event[h] \in seen
           \/ \E p \in {"create", "payment", "update", "enqueue", "store"} :
                /\ hpc[h] # "idle"
                /\ hpc' = [hpc EXCEPT ![h] = p]
                /\ event' = event /\ acked' = acked
                /\ p = "store" => event[h] \in seen
    PROVE  RestTyped' /\ Answering'
  <1>1. RestTyped'
    BY DEF TInv, RestTyped, orderVars, workerVars
  <1>2. Answering'
    BY DEF TInv, PInv, FlowTyped, Answering
  <1> QED
    BY <1>1, <1>2

LEMMA WebhookTypes ==
    ASSUME TInv, NEW h \in Handlers, WebhookRuns(h) \/ WebhookFails(h)
    PROVE  RestTyped' /\ Answering' /\ Locking'
  <1>0. /\ payment \in [Orders -> {"pending", "succeeded", "failed", NoRow}]
        /\ seen \subseteq emitted /\ hpc \in [Handlers -> {"idle", "find", "create",
                                       "payment", "update", "enqueue", "store"}]
        /\ hpc[h] # "idle" => event[h] \in emitted
    BY DEF TInv, PInv, FlowTyped, RestTyped, Answering
  <1>1. CASE FindKey(h)
    BY <1>0, <1>1, HandlerTypes, LocksUntouched DEF FindKey, Ack, HGoto, queueVars
  <1>2. CASE CreateKey(h)
    BY <1>0, <1>2, HandlerTypes, LocksUntouched DEF CreateKey, HThrow, HGoto, queueVars
  <1>3. CASE FindPayment(h)
    <2>1. event[h] \in seen
      BY <1>3 DEF FindPayment, TInv, PInv, Handling, Dispatching
    <2> QED
      BY <1>0, <1>3, <2>1, HandlerTypes, LocksUntouched DEF FindPayment, Ack, HGoto, queueVars
  <1>4. CASE UpdatePayment(h)
    <2>1. payment' \in [Orders -> {"pending", "succeeded", "failed", NoRow}]
      BY <1>0, <1>4 DEF UpdatePayment
    <2> QED
      BY <1>0, <1>4, <2>1, HandlerTypes, LocksUntouched DEF UpdatePayment, HGoto, queueVars
  <1>5. CASE Enqueue(h)
    <2>1. event[h] \in seen /\ event[h] \in Events /\ job[event[h]] = "none"
      BY <1>5 DEF Enqueue, TInv, PInv, Handling, Queueing, Dispatching
    <2>2. RestTyped' /\ Answering'
      BY <1>0, <1>5, <2>1, HandlerTypes DEF Enqueue, HGoto
    <2>3. Locking'
      <3>1. /\ job' = [job EXCEPT ![event[h]] = "waiting"]
            /\ UNCHANGED <<attempt, owns, wjob, wpc, read>>
        BY <1>5 DEF Enqueue, workerVars
      <3>2. \A w \in Workers : owns[w] => wjob[w] # event[h]
        BY <2>1 DEF TInv, Locking
      <3> QED
        BY <2>1, <3>1, <3>2 DEF TInv, PInv, FlowTyped, Locking
    <2> QED
      BY <2>2, <2>3
  <1>6. CASE StoreKey(h)
    <2>1. event[h] \in seen
      BY <1>6 DEF StoreKey, TInv, Answering
    <2> QED
      BY <1>0, <1>6, <2>1, HandlerTypes, LocksUntouched DEF StoreKey, Ack, queueVars
  <1>7. CASE WebhookFails(h)
    BY <1>0, <1>7, HandlerTypes, LocksUntouched DEF WebhookFails, HThrow, queueVars
  <1> QED
    BY <1>1, <1>2, <1>3, <1>4, <1>5, <1>6, <1>7 DEF WebhookRuns

(* A worker w drops its job, goes on or loses the lock: nobody else had    *)
(* the lock of the job whose state changes.                                *)
LEMMA LocksKept ==
    ASSUME TInv, NEW w \in Workers, wpc[w] # "idle",
           UNCHANGED stripeVars,
           \A x \in Workers \ {w} : /\ wpc'[x] = wpc[x] /\ wjob'[x] = wjob[x]
                                    /\ owns'[x] = owns[x] /\ read'[x] = read[x],
           \/ owns'[w] = FALSE
              /\ (job' = job \/ (owns[w] /\ \E s : job' = [job EXCEPT ![wjob[w]] = s]))
           \/ /\ owns'[w] = owns[w] /\ wjob'[w] = wjob[w] /\ wpc'[w] # "idle"
              /\ job' = job,
           \A e \in Events : job'[e] \in {"none", "waiting", "active"} => attempt'[e] < Attempts,
           wpc'[w] = "write" => read'[w] \in Status
    PROVE  Locking' /\ Answering'
  <1>1. Answering'
    BY DEF TInv, Answering, stripeVars
  <1>2. \A x \in Workers : owns'[x] => owns[x] /\ wjob'[x] = wjob[x] /\ wpc'[x] # "idle"
    BY DEF TInv, Locking
  <1>3. \A x \in Workers : owns'[x] => job'[wjob'[x]] = "active"
    <2> SUFFICES ASSUME NEW x \in Workers, owns'[x] PROVE job'[wjob[x]] = "active"
      BY <1>2
    <2>1. owns[x] /\ job[wjob[x]] = "active"
      BY <1>2 DEF TInv, Locking
    <2>2. CASE job' = job
      BY <2>1, <2>2
    <2>3. CASE job' # job
      <3>1. owns'[w] = FALSE /\ owns[w] /\ \E s : job' = [job EXCEPT ![wjob[w]] = s]
        BY <2>3
      <3>2. wjob[x] # wjob[w]
        BY <2>1, <3>1 DEF TInv, Locking
      <3>3. wjob[x] \in Events
        BY <2>1 DEF TInv, PInv, Locking, Working
      <3> QED
        BY <2>1, <3>1, <3>2, <3>3 DEF TInv, PInv, FlowTyped
    <2> QED
      BY <2>2, <2>3
  <1>4. \A x, y \in Workers : owns'[x] /\ owns'[y] /\ wjob'[x] = wjob'[y] => x = y
    BY <1>2 DEF TInv, Locking
  <1>5. \A x \in Workers : wpc'[x] = "write" => read'[x] \in Status
    BY DEF TInv, Locking
  <1> QED
    BY <1>1, <1>2, <1>3, <1>4, <1>5 DEF Locking

LEMMA ThrowingTypes ==
    ASSUME TInv, NEW w \in Workers, wpc[w] # "idle", JobThrows(w),
           UNCHANGED <<orderVars, stripeVars>>
    PROVE  RestTyped' /\ Answering' /\ Locking'
  <1> DEFINE e == wjob[w]
  <1>1. e \in Events
    BY DEF TInv, PInv, Working
  <1>2. Free(w) /\ stalls' = stalls
    BY DEF JobThrows
  <1>3. CASE owns[w]
    <2>1. job[e] = "active" /\ attempt[e] < Attempts /\ attempt[e] \in Nat
      BY <1>1, <1>3, PipelineAssumption DEF TInv, Locking, RestTyped
    <2>2. /\ attempt' = [attempt EXCEPT ![e] = attempt[e] + 1]
          /\ job' = [job EXCEPT ![e] = IF MayRetry(e) THEN "waiting" ELSE "failed"]
      BY <1>3 DEF JobThrows
    <2>3. attempt[e] + 1 \in 0 .. Attempts
      BY <2>1, PipelineAssumption
    <2>4. \A f \in Events : job'[f] \in {"none", "waiting", "active"} => attempt'[f] < Attempts
      BY <1>1, <2>1, <2>2 DEF MayRetry, TInv, PInv, FlowTyped, Locking, RestTyped
    <2>5. RestTyped'
      BY <1>2, <2>2, <2>3 DEF TInv, RestTyped, Free, orderVars, stripeVars
    <2>6. Locking' /\ Answering'
      BY <1>2, <1>3, <2>2, <2>4, LocksKept DEF Free, TInv, PInv, FlowTyped, RestTyped
    <2> QED
      BY <2>5, <2>6
  <1>4. CASE ~owns[w]
    <2>1. job' = job /\ attempt' = attempt
      BY <1>4 DEF JobThrows
    <2>2. RestTyped'
      BY <1>2, <2>1 DEF TInv, RestTyped, Free, orderVars, stripeVars
    <2>3. \A x \in Workers \ {w} : /\ wpc'[x] = wpc[x] /\ wjob'[x] = wjob[x]
                                   /\ owns'[x] = owns[x] /\ read'[x] = read[x]
      BY <1>2 DEF Free, TInv, PInv, FlowTyped, RestTyped
    <2>4. owns'[w] = FALSE /\ wpc'[w] = "idle"
      BY <1>2 DEF Free, TInv, PInv, FlowTyped, RestTyped
    <2>5. \A f \in Events : job'[f] \in {"none", "waiting", "active"} => attempt'[f] < Attempts
      BY <2>1 DEF TInv, Locking
    <2>6. UNCHANGED stripeVars /\ (wpc'[w] = "write" => read'[w] \in Status)
      BY <2>4
    <2>7. \/ owns'[w] = FALSE
              /\ (job' = job \/ (owns[w] /\ \E s : job' = [job EXCEPT ![wjob[w]] = s]))
          \/ /\ owns'[w] = owns[w] /\ wjob'[w] = wjob[w] /\ wpc'[w] # "idle"
             /\ job' = job
      BY <2>1, <2>4
    <2>8. Locking' /\ Answering'
      BY <2>3, <2>5, <2>6, <2>7, LocksKept
    <2> QED
      BY <2>2, <2>8
  <1> QED
    BY <1>3, <1>4

LEMMA TakeTypes ==
    ASSUME TInv, NEW w \in Workers, Take(w)
    PROVE  RestTyped' /\ Answering' /\ Locking'
  <1>1. PICK e \in Events : /\ job[e] = "waiting" /\ job' = [job EXCEPT ![e] = "active"]
                            /\ wjob' = [wjob EXCEPT ![w] = e]
    BY DEF Take
  <1>2. /\ wpc' = [wpc EXCEPT ![w] = "items"] /\ owns' = [owns EXCEPT ![w] = TRUE]
        /\ wpc[w] = "idle"
        /\ UNCHANGED <<orderVars, stripeVars, attempt, stalls, read, todo>>
    BY DEF Take
  <1>3. RestTyped'
    BY <1>2 DEF TInv, RestTyped, orderVars, stripeVars
  <1>4. Answering'
    BY <1>2 DEF TInv, Answering, stripeVars
  <1>5. \A x \in Workers : owns[x] => x # w /\ wjob[x] # e /\ wjob[x] \in Events
    BY <1>1, <1>2 DEF TInv, PInv, Locking, Working
  <1>6. Locking'
    <2>1. \A x \in Workers \ {w} : wpc'[x] = wpc[x] /\ wjob'[x] = wjob[x] /\ owns'[x] = owns[x]
      BY <1>1, <1>2 DEF TInv, PInv, FlowTyped, RestTyped
    <2>2. wpc'[w] = "items" /\ wjob'[w] = e /\ job'[e] = "active"
      BY <1>1, <1>2 DEF TInv, PInv, FlowTyped
    <2>3. \A f \in Events : job'[f] \in {"none", "waiting", "active"} => attempt'[f] < Attempts
      BY <1>1, <1>2 DEF TInv, PInv, FlowTyped, Locking
    <2>4. \A x \in Workers : owns'[x] => wpc'[x] # "idle" /\ job'[wjob'[x]] = "active"
      BY <1>1, <1>5, <2>1, <2>2 DEF TInv, PInv, FlowTyped, Locking
    <2>5. \A x, y \in Workers : owns'[x] /\ owns'[y] /\ wjob'[x] = wjob'[y] => x = y
      BY <1>5, <2>1, <2>2 DEF TInv, Locking
    <2>6. \A x \in Workers : wpc'[x] = "write" => read'[x] \in Status
      BY <1>2, <2>1, <2>2 DEF TInv, Locking
    <2> QED
      BY <2>3, <2>4, <2>5, <2>6 DEF Locking
  <1> QED
    BY <1>3, <1>4, <1>6

LEMMA StallTypes ==
    ASSUME TInv, NEW w \in Workers, Stall(w)
    PROVE  RestTyped' /\ Answering' /\ Locking'
  <1> DEFINE e == wjob[w]
  <1>1. /\ e \in Events /\ wpc[w] # "idle" /\ owns[w] /\ job[e] = "active"
        /\ attempt' = attempt /\ UNCHANGED <<orderVars, stripeVars>>
    BY DEF Stall, TInv, PInv, Working, Locking
  <1>2. \E s \in {"waiting", "failed"} : job' = [job EXCEPT ![e] = s]
    BY DEF Stall
  <1>3. stalls' = [stalls EXCEPT ![e] = IF stalls[e] < MaxStalls THEN stalls[e] + 1
                                        ELSE stalls[e]]
    BY DEF Stall
  <1>4. stalls' \in [Events -> 0 .. MaxStalls]
    BY <1>1, <1>3, PipelineAssumption DEF TInv, RestTyped
  <1>5. owns' = [owns EXCEPT ![w] = FALSE]
    BY DEF Stall, Free
  <1>6. /\ read' = [read EXCEPT ![w] = "none"] \/ read' = read
        /\ todo' = [todo EXCEPT ![w] = {}] \/ todo' = todo
        /\ \/ wpc' = wpc /\ wjob' = wjob /\ read' = read
           \/ wpc' = [wpc EXCEPT ![w] = "idle"] /\ wjob' = [wjob EXCEPT ![w] = NoJob]
    BY DEF Stall, Free
  <1>7. RestTyped'
    BY <1>1, <1>4, <1>5, <1>6 DEF TInv, RestTyped, orderVars, stripeVars
  <1>8. Locking' /\ Answering'
    <2>1. \A x \in Workers \ {w} : /\ wpc'[x] = wpc[x] /\ wjob'[x] = wjob[x]
                                   /\ owns'[x] = owns[x] /\ read'[x] = read[x]
      BY <1>5, <1>6 DEF TInv, PInv, FlowTyped, RestTyped
    <2>2. owns'[w] = FALSE
      BY <1>5 DEF TInv, RestTyped
    <2>3. wpc'[w] = "write" => read'[w] \in Status
      BY <1>6 DEF TInv, PInv, FlowTyped, Locking
    <2>4. \A f \in Events : job'[f] \in {"none", "waiting", "active"} => attempt'[f] < Attempts
      BY <1>1, <1>2 DEF TInv, PInv, FlowTyped, Locking
    <2> QED
      BY <1>1, <1>2, <2>1, <2>2, <2>3, <2>4, LocksKept
  <1> QED
    BY <1>7, <1>8

LEMMA GetItemsTypes ==
    ASSUME TInv, NEW w \in Workers, GetItems(w)
    PROVE  RestTyped' /\ Answering' /\ Locking'
  <1>1. /\ wpc[w] = "items" /\ wpc' = [wpc EXCEPT ![w] = "stock"]
        /\ todo' = [todo EXCEPT ![w] = ItemsOf(OrderOf(wjob[w]))]
        /\ UNCHANGED <<orderVars, stripeVars, queueVars, read, wjob, owns>>
    BY DEF GetItems, WGoto
  <1>2. RestTyped'
    BY <1>1 DEF TInv, RestTyped, orderVars, stripeVars, queueVars, ItemsOf
  <1>3. Answering'
    BY <1>1 DEF TInv, Answering, stripeVars
  <1>4. Locking'
    BY <1>1 DEF TInv, PInv, FlowTyped, Locking, queueVars
  <1> QED
    BY <1>2, <1>3, <1>4

LEMMA MoveItemTypes ==
    ASSUME TInv, NEW w \in Workers, MoveItem(w)
    PROVE  RestTyped' /\ Answering' /\ Locking'
  <1>1. PICK v \in todo[w] :
              /\ v \in Variants /\ Bought[OrderOf(wjob[w])][v] \in Nat
              /\ todo' = [todo EXCEPT ![w] = @ \ {v}]
              /\ WGoto(w, IF todo[w] = {v} THEN "check" ELSE "stock")
              /\ Deducts(w, v) \/ Releases(w, v) \/ stock' = stock
    BY ItemMoves DEF TInv
  <1>2. stock' \in [Variants -> [quantity : Nat, reserved : Nat]]
    <2>1. CASE stock' = stock
      BY <2>1 DEF TInv, RestTyped
    <2>2. CASE Deducts(w, v) \/ Releases(w, v)
      BY <1>1, <2>2, MovedStockTyped DEF TInv
    <2> QED
      BY <1>1, <2>1, <2>2
  <1>3. UNCHANGED <<status, history, stripeVars, queueVars, read>> /\ wpc[w] = "stock"
    BY DEF MoveItem
  <1>4. RestTyped'
    BY <1>1, <1>2, <1>3 DEF TInv, RestTyped, WGoto, stripeVars, queueVars
  <1>5. Answering'
    BY <1>3 DEF TInv, Answering, stripeVars
  <1>6. Locking'
    <2>1. wpc' = [wpc EXCEPT ![w] = "check"] \/ wpc' = [wpc EXCEPT ![w] = "stock"]
      BY <1>1 DEF WGoto
    <2>2. UNCHANGED <<wjob, owns, read, job, attempt>>
      BY <1>1, <1>3 DEF WGoto, queueVars
    <2> QED
      BY <2>1, <2>2 DEF TInv, PInv, FlowTyped, Locking
  <1> QED
    BY <1>4, <1>5, <1>6

LEMMA CheckStatusTypes ==
    ASSUME TInv, NEW w \in Workers, CheckStatus(w)
    PROVE  RestTyped' /\ Answering' /\ Locking'
  <1>1. /\ wpc[w] = "check" /\ wjob[w] \in Events
        /\ UNCHANGED <<orderVars, stripeVars>>
    BY DEF CheckStatus, TInv, PInv, Working
  <1>2. CASE MayBecome(status[OrderOf(wjob[w])], Target(wjob[w]))
    <2>1. /\ wpc' = [wpc EXCEPT ![w] = "write"]
          /\ read' = [read EXCEPT ![w] = status[OrderOf(wjob[w])]]
          /\ UNCHANGED <<wjob, owns, todo, queueVars>>
      BY <1>2 DEF CheckStatus, WGoto
    <2>2. status[OrderOf(wjob[w])] \in Status
      BY <1>1, EventParts, StatusKnown DEF TInv, PInv, FlowTyped
    <2>3. RestTyped'
      BY <1>1, <2>1, <2>2 DEF TInv, RestTyped, orderVars, stripeVars, queueVars
    <2>4. Answering'
      BY <1>1 DEF TInv, Answering, stripeVars
    <2>5. Locking'
      BY <1>1, <2>1, <2>2 DEF TInv, PInv, FlowTyped, RestTyped, Locking, queueVars
    <2> QED
      BY <2>3, <2>4, <2>5
  <1>3. CASE ~MayBecome(status[OrderOf(wjob[w])], Target(wjob[w]))
    BY <1>1, <1>3, ThrowingTypes DEF CheckStatus
  <1> QED
    BY <1>2, <1>3

LEMMA WriteStatusTypes ==
    ASSUME TInv, NEW w \in Workers, WriteStatus(w)
    PROVE  RestTyped' /\ Answering' /\ Locking'
  <1> DEFINE e == wjob[w]
             o == OrderOf(wjob[w])
  <1>1. /\ wpc[w] = "write" /\ e \in Events /\ o \in Orders /\ Target(e) \in Status
        /\ read[w] \in Status
    BY EventParts, StatusKnown DEF WriteStatus, TInv, PInv, Working, Locking, Target
  <1>2. history' = [history EXCEPT ![o] =
                        Append(history[o], [from |-> read[w], to |-> Target(e)])]
    BY DEF WriteStatus
  <1>3. history' \in [Orders -> Seq([from : Status, to : Status])]
    <2>1. history[o] \in Seq([from : Status, to : Status])
      BY <1>1 DEF TInv, RestTyped
    <2>2. [from |-> read[w], to |-> Target(e)] \in [from : Status, to : Status]
      BY <1>1
    <2>3. Append(history[o], [from |-> read[w], to |-> Target(e)])
              \in Seq([from : Status, to : Status])
      BY <2>1, <2>2
    <2> QED
      BY <1>1, <1>2, <2>3 DEF TInv, RestTyped
  <1>4. Free(w) /\ UNCHANGED <<stock, stripeVars, added, attempt, stalls>>
    BY DEF WriteStatus
  <1>5. job' = IF owns[w] THEN [job EXCEPT ![e] = "completed"] ELSE job
    BY DEF WriteStatus
  <1>6. RestTyped'
    BY <1>3, <1>4 DEF TInv, RestTyped, Free, stripeVars
  <1>7. Locking' /\ Answering'
    <2>1. \A x \in Workers \ {w} : /\ wpc'[x] = wpc[x] /\ wjob'[x] = wjob[x]
                                   /\ owns'[x] = owns[x] /\ read'[x] = read[x]
      BY <1>4 DEF Free, TInv, PInv, FlowTyped, RestTyped
    <2>2. owns'[w] = FALSE /\ wpc'[w] = "idle"
      BY <1>4 DEF Free, TInv, PInv, FlowTyped, RestTyped
    <2>3. \A f \in Events : job'[f] \in {"none", "waiting", "active"} => attempt'[f] < Attempts
      BY <1>1, <1>4, <1>5 DEF TInv, PInv, FlowTyped, Locking
    <2>4. UNCHANGED stripeVars /\ (wpc'[w] = "write" => read'[w] \in Status)
      BY <1>4, <2>2
    <2>5. job' = job \/ (owns[w] /\ \E s : job' = [job EXCEPT ![wjob[w]] = s])
      <3>1. CASE owns[w]
        <4>1. job' = [job EXCEPT ![wjob[w]] = "completed"]
          BY <1>5, <3>1
        <4> QED
          BY <3>1, <4>1
      <3>2. CASE ~owns[w]
        BY <1>5, <3>2
      <3> QED
        BY <3>1, <3>2
    <2> QED
      BY <1>1, <2>1, <2>2, <2>3, <2>4, <2>5, LocksKept
  <1> QED
    BY <1>6, <1>7

LEMMA TypesNext == TInv /\ [Next]_vars => TInv'
  <1> SUFFICES ASSUME TInv, [Next]_vars PROVE TInv'
    OBVIOUS
  <1>1. PInv'
    BY NextOK DEF TInv
  <1>2. CASE UNCHANGED vars
    BY <1>1, <1>2 DEF vars, TInv, RestTyped, Answering, Locking
  <1>3. ASSUME NEW w \in Workers, WorkerRuns(w)
        PROVE  RestTyped' /\ Answering' /\ Locking'
    BY <1>3, GetItemsTypes, MoveItemTypes, CheckStatusTypes, WriteStatusTypes DEF WorkerRuns
  <1>4. ASSUME NEW w \in Workers, WorkerDbError(w)
        PROVE  RestTyped' /\ Answering' /\ Locking'
    BY <1>4, ThrowingTypes DEF WorkerDbError
  <1> QED
    BY <1>1, <1>2, <1>3, <1>4, StripeTypes, WebhookTypes, TakeTypes, StallTypes DEF Next, TInv

LEMMA TypesInvariance == Spec => []TInv
  BY TypesInit, TypesNext, PTL DEF Spec

(* Tables, queue, handlers and workers hold what they may: stock never     *)
(* goes below zero, a job is not tried more often than it may be, and only *)
(* events whose key is stored were answered, whatever fails or stalls.     *)
THEOREM PipelineTypes == Spec => []TypeOK
  <1>1. TInv => TypeOK
    <2> SUFFICES ASSUME TInv PROVE TypeOK
      OBVIOUS
    <2>1. status \in [Orders -> Status]
      BY StatusKnown DEF TInv, PInv, FlowTyped
    <2> QED
      BY <2>1 DEF TInv, PInv, FlowTyped, RestTyped, TypeOK
  <1> QED
    BY <1>1, TypesInvariance, PTL

-----------------------------------------------------------------------------
(* What leaves the warehouse.                                              *)

(* A handler that has found the payment row works on an order that has     *)
(* one, and so does every job; such an order is reserved or paid.  A loop  *)
(* has items of its order to handle, and no row reserves what it has not.  *)
Rows ==
    /\ \A h \in Handlers :
            hpc[h] \in {"update", "enqueue"} => payment[OrderOf(event[h])] # NoRow
    /\ \A e \in Events : job[e] # "none" => payment[OrderOf(e)] # NoRow
    /\ \A o \in Orders : payment[o] # NoRow => status[o] \in {"stock_reserved", "paid"}
    /\ \A w \in Workers : wpc[w] = "stock" => todo[w] \subseteq ItemsOf(OrderOf(wjob[w]))
    /\ \A v \in Variants : stock[v].reserved <= stock[v].quantity

LEMMA RowsInit == Init => Rows
  <1> SUFFICES ASSUME Init PROVE Rows
    OBVIOUS
  <1>1. \A v \in Variants : stock[v].reserved <= stock[v].quantity
    <2> SUFFICES ASSUME NEW v \in Variants PROVE stock[v].reserved <= stock[v].quantity
      OBVIOUS
    <2> DEFINE held == Held(v, {o \in Orders : payment[o] # NoRow})
    <2>1. stock[v] = [quantity |-> held + Spare, reserved |-> held]
      BY DEF Init
    <2>2. held \in Nat /\ Spare \in Nat
      BY HeldNat, PipelineAssumption
    <2> HIDE DEF held
    <2> QED
      BY <2>1, <2>2
  <1> QED
    BY <1>1 DEF Init, Rows

(* Stripe and the webhook neither touch an order nor give it a row.        *)
LEMMA RowsOfWebhook ==
    ASSUME TInv, Rows,
           \/ \E e \in Events : Emit(e)
           \/ \E h \in Handlers : Deliver(h) \/ WebhookRuns(h) \/ WebhookFails(h)
    PROVE  /\ Rows'
           /\ UNCHANGED <<orderVars, workerVars>> /\ emitted \subseteq emitted'
           /\ \A o \in Orders : payment'[o] = NoRow <=> payment[o] = NoRow
           /\ job' # job => \E e \in Events : job[e] = "none" /\ job' = [job EXCEPT ![e] = "waiting"]
  <1>1. UNCHANGED <<orderVars, workerVars>> /\ emitted \subseteq emitted'
    BY DEF Emit, Deliver, WebhookRuns, WebhookFails, FindKey, CreateKey, FindPayment,
           UpdatePayment, Enqueue, StoreKey
  <1>2. CASE \E e \in Events : Emit(e)
    BY <1>1, <1>2 DEF Emit, Rows, orderVars, workerVars, queueVars
  <1>3. ASSUME NEW h \in Handlers, Deliver(h) \/ WebhookRuns(h) \/ WebhookFails(h)
        PROVE  /\ Rows'
               /\ \A o \in Orders : payment'[o] = NoRow <=> payment[o] = NoRow
               /\ job' # job => \E e \in Events :
                        job[e] = "none" /\ job' = [job EXCEPT ![e] = "waiting"]
    <2>1. /\ \A g \in Handlers \ {h} : hpc'[g] = hpc[g] /\ event'[g] = event[g]
          /\ hpc'[h] = "update" => hpc[h] = "payment" /\ payment[OrderOf(event[h])] # NoRow
          /\ hpc'[h] = "enqueue" => hpc[h] = "update"
          /\ hpc'[h] \in {"update", "enqueue"} => event'[h] = event[h]
      BY <1>3 DEF Deliver, WebhookRuns, WebhookFails, FindKey, CreateKey, FindPayment,
           UpdatePayment, Enqueue, StoreKey, HGoto, Ack, HThrow, TInv, PInv, FlowTyped
    <2>2. \A o \in Orders : payment'[o] = NoRow <=> payment[o] = NoRow
      <3>1. CASE payment' = payment
        BY <3>1
      <3>2. CASE UpdatePayment(h)
        <4>1. /\ payment[OrderOf(event[h])] # NoRow
              /\ \E p \in {"succeeded", "failed"} :
                    payment' = [payment EXCEPT ![OrderOf(event[h])] = p]
          BY <3>2 DEF UpdatePayment, Rows
        <4> QED
          BY <4>1, PipelineAssumption DEF TInv, RestTyped
      <3> QED
        BY <1>3, <3>1, <3>2 DEF Deliver, WebhookRuns, WebhookFails, FindKey, CreateKey,
              FindPayment, Enqueue, StoreKey
    <2>3. \/ job' = job
          \/ /\ hpc[h] = "enqueue" /\ event[h] \in Events /\ job[event[h]] = "none"
             /\ job' = [job EXCEPT ![event[h]] = "waiting"]
      <3>1. CASE Enqueue(h)
        BY <3>1 DEF Enqueue, TInv, PInv, Handling, Queueing, Dispatching
      <3> QED
        BY <1>3, <3>1 DEF Deliver, WebhookRuns, WebhookFails, FindKey, CreateKey,
              FindPayment, UpdatePayment, StoreKey, queueVars
    <2>4. \A g \in Handlers : hpc'[g] \in {"update", "enqueue"} =>
              event'[g] = event[g] /\ event[g] \in Events /\ payment[OrderOf(event[g])] # NoRow
      BY <2>1 DEF TInv, PInv, Handling, Rows
    <2>5. \A e \in Events : job'[e] # "none" => payment[OrderOf(e)] # NoRow
      BY <2>3 DEF Rows, TInv, PInv, FlowTyped
    <2>6. \A g \in Handlers :
            hpc'[g] \in {"update", "enqueue"} => payment'[OrderOf(event'[g])] # NoRow
      BY <2>2, <2>4, EventParts
    <2>7. \A e \in Events : job'[e] # "none" => payment'[OrderOf(e)] # NoRow
      BY <2>2, <2>5, EventParts
    <2>8. Rows'
      BY <1>1, <2>2, <2>6, <2>7 DEF Rows, orderVars, workerVars
    <2> QED
      BY <2>2, <2>3, <2>8
  <1> QED
    BY <1>1, <1>2, <1>3 DEF Emit, queueVars

(* Workers take no row away, and have jobs of orders that have one.        *)
LEMMA RowsOfWorkers ==
    ASSUME TInv, Rows, NEW w \in Workers,
           Take(w) \/ WorkerRuns(w) \/ WorkerDbError(w) \/ Stall(w)
    PROVE  Rows' /\ UNCHANGED stripeVars
  <1>1. UNCHANGED stripeVars
    BY DEF Take, WorkerRuns, WorkerDbError, Stall, GetItems, MoveItem, CheckStatus, WriteStatus
  <1>2. /\ \A x \in Workers \ {w} : wpc'[x] = wpc[x] /\ wjob'[x] = wjob[x] /\ todo'[x] = todo[x]
        /\ wpc'[w] = "stock" => wjob'[w] = wjob[w] /\
              (todo'[w] = ItemsOf(OrderOf(wjob[w])) \/
                 (wpc[w] = "stock" /\ todo'[w] \subseteq todo[w]))
    BY DEF Take, WorkerRuns, WorkerDbError, Stall, GetItems, MoveItem, CheckStatus, WriteStatus,
           JobThrows, Free, WGoto, TInv, PInv, FlowTyped, RestTyped
  <1>3. \A x \in Workers : wpc'[x] = "stock" => todo'[x] \subseteq ItemsOf(OrderOf(wjob'[x]))
    BY <1>2 DEF Rows
  <1>4. \A e \in Events : job'[e] # "none" => job[e] # "none"
    <2>1. wpc[w] # "idle" => wjob[w] \in Events /\ job[wjob[w]] # "none"
      BY DEF TInv, PInv, Working
    <2> QED
      BY <2>1 DEF Take, WorkerRuns, WorkerDbError, Stall, GetItems, MoveItem, CheckStatus,
           WriteStatus, JobThrows, queueVars, TInv, PInv, FlowTyped
  <1>5. \A o \in Orders : status'[o] = status[o] \/ status'[o] = "paid"
    <2>1. CASE WriteStatus(w)
      <3>1. wjob[w] \in Events /\ Target(wjob[w]) = "paid"
        BY <2>1 DEF TInv, PInv, Working, WriteStatus, Target
      <3> QED
        BY <2>1, <3>1 DEF WriteStatus, TInv, PInv, FlowTyped
    <2> QED
      BY <2>1 DEF Take, WorkerRuns, WorkerDbError, Stall, GetItems, MoveItem, CheckStatus, orderVars
  <1>6. \A v \in Variants : stock'[v].reserved <= stock'[v].quantity
    <2>1. CASE stock' = stock
      BY <2>1 DEF Rows
    <2>2. CASE MoveItem(w)
      <3>1. PICK v \in todo[w] :
              /\ v \in Variants /\ Bought[OrderOf(wjob[w])][v] \in Nat
              /\ Deducts(w, v) \/ Releases(w, v) \/ stock' = stock
        BY <2>2, ItemMoves DEF TInv
      <3>2. CASE Deducts(w, v) \/ Releases(w, v)
        <4>1. /\ \A u \in Variants \ {v} : stock'[u] = stock[u]
              /\ stock'[v].reserved = stock[v].reserved - Bought[OrderOf(wjob[w])][v]
              /\ \/ stock'[v].quantity = stock[v].quantity - Bought[OrderOf(wjob[w])][v]
                 \/ stock'[v].quantity = stock[v].quantity
          BY <3>1, <3>2, MovedStockTyped DEF TInv
        <4>2. /\ stock[v].reserved \in Nat /\ stock[v].quantity \in Nat
              /\ stock[v].reserved <= stock[v].quantity
          BY <3>1 DEF TInv, RestTyped, Rows
        <4>3. stock'[v].reserved <= stock'[v].quantity
          BY <3>1, <4>1, <4>2
        <4> QED
          BY <4>1, <4>3 DEF Rows
      <3> QED
        BY <2>1, <3>1, <3>2
    <2> QED
      BY <2>1, <2>2 DEF Take, WorkerRuns, WorkerDbError, Stall, GetItems, CheckStatus,
           WriteStatus, orderVars
  <1>7. \A o \in Orders : payment[o] # NoRow => status'[o] \in {"stock_reserved", "paid"}
    BY <1>5 DEF Rows
  <1> QED
    BY <1>1, <1>3, <1>4, <1>6, <1>7 DEF Rows, stripeVars

LEMMA RowsNext == TInv /\ Rows /\ [Next]_vars => Rows'
  <1>1. TInv /\ Rows /\ UNCHANGED vars => Rows'
    BY DEF vars, Rows
  <1> QED
    BY <1>1, RowsOfWebhook, RowsOfWorkers DEF Next

Success(o) == <<o, "succeeded">>

(* The loop of the job that pays order o has v behind it.                  *)
Past(o, v) ==
    \/ job[Success(o)] = "completed"
    \/ \E w \in Workers :
        /\ wjob[w] = Success(o)
        /\ \/ wpc[w] = "stock" /\ v \notin todo[w]
           \/ wpc[w] \in {"check", "write"}

(* Units of v each order has taken from the warehouse, or has reserved.    *)
Gone(v) == [o \in Orders |-> IF Past(o, v) THEN Bought[o][v] ELSE 0]
Left(v) == [o \in Orders |-> IF payment[o] # NoRow /\ ~Past(o, v) THEN Bought[o][v] ELSE 0]
Placed(v) == Held(v, {o \in Orders : payment[o] # NoRow})

(* No card was refused for an order of v.                                  *)
Unrefused(v) == \A o \in Orders : Bought[o][v] > 0 => <<o, "payment_failed">> \notin emitted

(* Unless jobs are cut short, a worker has its lock, an order is paid when *)
(* its job has completed, and the stock misses what the loops have passed. *)
Ledgered(v) ==
    /\ Placed(v) + Spare <= stock[v].quantity + Total(Gone(v))
    /\ Unrefused(v) => /\ stock[v].reserved = Total(Left(v))
                       /\ Placed(v) + Spare = stock[v].quantity + Total(Gone(v))

Calm ==
    ~Faults =>
        /\ \A w \in Workers : wpc[w] # "idle" => owns[w]
        /\ \A o \in Orders : status[o] = "paid" <=> job[Success(o)] = "completed"
        /\ \A v \in Variants : Ledgered(v)

SInv == TInv /\ Rows /\ Calm

LEMMA GoneCountable ==
    ASSUME NEW v \in Variants
    PROVE  /\ Gone(v) \in [Orders -> Nat] /\ Countable(Gone(v)) /\ Total(Gone(v)) \in Nat
           /\ Left(v) \in [Orders -> Nat] /\ Countable(Left(v)) /\ Total(Left(v)) \in Nat
  <1>1. \A o \in Orders : Bought[o][v] \in Nat
    BY PipelineAssumption
  <1>2. Gone(v) \in [Orders -> Nat] /\ Left(v) \in [Orders -> Nat]
    BY <1>1 DEF Gone, Left
  <1>3. Countable(Gone(v)) /\ Countable(Left(v))
    BY <1>2, FiniteCountable, PipelineAssumption
  <1> QED
    BY <1>2, <1>3, TotalNat

LEMMA CalmInit == Init => Calm
  <1> SUFFICES ASSUME Init PROVE Calm
    OBVIOUS
  <1>1. \A o \in Orders, v \in Variants : ~Past(o, v)
    BY DEF Init, Past, Success, Events
  <1>2. ASSUME NEW v \in Variants PROVE Ledgered(v)
    <2> DEFINE S == {o \in Orders : payment[o] # NoRow}
    <2>1. Total(Gone(v)) = 0
      <3>1. \A o \in Orders : Gone(v)[o] = 0
        BY <1>1 DEF Gone
      <3> QED
        BY <3>1, GoneCountable, TotalZero
    <2>2. Left(v) = [o \in Orders |-> IF o \in S THEN Bought[o][v] ELSE 0]
      BY <1>1 DEF Left
    <2>3. Total(Left(v)) = Held(v, S)
      BY <2>2 DEF Held
    <2>4. stock[v] = [quantity |-> Held(v, S) + Spare, reserved |-> Held(v, S)]
      BY DEF Init
    <2>5. Held(v, S) \in Nat /\ Spare \in Nat /\ Placed(v) = Held(v, S)
      BY HeldNat, PipelineAssumption DEF Placed
    <2> HIDE DEF S
    <2> QED
      BY <2>1, <2>3, <2>4, <2>5 DEF Ledgered
  <1>3. \A o \in Orders : status[o] # "paid" /\ job[Success(o)] # "completed"
    BY DEF Init, Success, Events
  <1> QED
    BY <1>2, <1>3 DEF Init, Calm

(* A step that moves no stock of v, and after which each loop has behind it     *)
(* what it had, but for variants that its order has not bought.            *)
LEMMA LedgerStays ==
    ASSUME TInv, NEW v \in Variants, Ledgered(v),
           stock'[v] = stock[v], emitted \subseteq emitted',
           \A o \in Orders : payment'[o] = NoRow <=> payment[o] = NoRow,
           \A o \in Orders : (Past(o, v)' <=> Past(o, v)) \/ Bought[o][v] = 0
    PROVE  Ledgered(v)'
  <1>1. Gone(v)' = Gone(v)
    BY DEF Gone
  <1>2. Left(v)' = Left(v)
    BY DEF Left
  <1>3. Placed(v)' = Placed(v)
    BY DEF Placed, Held
  <1>4. Unrefused(v)' => Unrefused(v)
    BY DEF Unrefused
  <1>5. Total(Gone(v))' = Total(Gone(v)) /\ Total(Left(v))' = Total(Left(v))
    BY <1>1, <1>2
  <1> QED
    BY <1>3, <1>4, <1>5 DEF Ledgered

LEMMA CalmOfWebhook ==
    ASSUME SInv,
           \/ \E e \in Events : Emit(e)
           \/ \E h \in Handlers : Deliver(h) \/ WebhookRuns(h) \/ WebhookFails(h)
    PROVE  Calm'
  <1>1. /\ UNCHANGED <<orderVars, workerVars>> /\ emitted \subseteq emitted'
        /\ \A o \in Orders : payment'[o] = NoRow <=> payment[o] = NoRow
        /\ job' # job => \E e \in Events : job[e] = "none" /\ job' = [job EXCEPT ![e] = "waiting"]
    BY RowsOfWebhook DEF SInv
  <1>2. \A e \in Events : job'[e] = "completed" <=> job[e] = "completed"
    BY <1>1 DEF SInv, TInv, PInv, FlowTyped
  <1>3. \A o \in Orders : Success(o) \in Events
    BY DEF Success, Events
  <1>4. \A o \in Orders, v \in Variants : Past(o, v)' <=> Past(o, v)
    BY <1>1, <1>2, <1>3 DEF Past, workerVars, Success
  <1>5. ASSUME NEW v \in Variants, Ledgered(v) PROVE Ledgered(v)'
    BY <1>1, <1>4, <1>5, LedgerStays DEF SInv, orderVars
  <1> QED
    BY <1>1, <1>2, <1>3, <1>5 DEF SInv, Calm, orderVars, workerVars, Success

(* Without faults a worker at work is the only one with its job.           *)
LEMMA Alone ==
    ASSUME SInv, ~Faults, NEW w \in Workers, wpc[w] # "idle"
    PROVE  /\ wjob[w] \in Events /\ owns[w] /\ job[wjob[w]] = "active"
           /\ \A x \in Workers : wpc[x] # "idle" /\ wjob[x] = wjob[w] => x = w
  BY DEF SInv, Calm, TInv, PInv, Working, Locking

LEMMA PastIfAlone ==
    ASSUME SInv, ~Faults, NEW w \in Workers, NEW o \in Orders, NEW v \in Variants,
           wpc[w] # "idle", wjob[w] = Success(o)
    PROVE  Past(o, v) <=>
              (wpc[w] = "stock" /\ v \notin todo[w]) \/ wpc[w] \in {"check", "write"}
  BY Alone DEF Past

(* A step of w is none of the job of o, if w has not got it.               *)
LEMMA PastOfOthers ==
    ASSUME NEW w \in Workers, NEW o \in Orders, NEW v \in Variants,
           \A x \in Workers \ {w} : /\ wpc'[x] = wpc[x] /\ wjob'[x] = wjob[x]
                                    /\ todo'[x] = todo[x],
           job'[Success(o)] = "completed" <=> job[Success(o)] = "completed",
           wpc[w] \in {"stock", "check", "write"} => wjob[w] # Success(o),
           wpc'[w] \in {"stock", "check", "write"} => wjob'[w] # Success(o)
    PROVE  Past(o, v)' <=> Past(o, v)
  <1>1. Success(o)' = Success(o)
    BY DEF Success
  <1> QED
    BY <1>1 DEF Past

LEMMA SuccessOf ==
    ASSUME NEW e \in Events
    PROVE  /\ OrderOf(e) \in Orders
           /\ TypeOf(e) = "succeeded" => e = Success(OrderOf(e))
           /\ \A o \in Orders : Success(o) \in Events
           /\ \A o \in Orders : e = Success(o) => TypeOf(e) = "succeeded" /\ OrderOf(e) = o
  BY DEF Events, OrderOf, TypeOf, Success

LEMMA CalmTake ==
    ASSUME SInv, ~Faults, NEW w \in Workers, Take(w)
    PROVE  Calm'
  <1>1. PICK e \in Events : /\ job[e] = "waiting" /\ job' = [job EXCEPT ![e] = "active"]
                            /\ wjob' = [wjob EXCEPT ![w] = e]
    BY DEF Take
  <1>2. /\ wpc[w] = "idle" /\ wpc' = [wpc EXCEPT ![w] = "items"]
        /\ owns' = [owns EXCEPT ![w] = TRUE]
        /\ UNCHANGED <<orderVars, stripeVars, todo>>
    BY DEF Take
  <1>3. \A f \in Events : job'[f] = "completed" <=> job[f] = "completed"
    BY <1>1 DEF SInv, TInv, PInv, FlowTyped
  <1>4. \A x \in Workers \ {w} : wpc'[x] = wpc[x] /\ wjob'[x] = wjob[x] /\ todo'[x] = todo[x]
    BY <1>1, <1>2 DEF SInv, TInv, PInv, FlowTyped
  <1>5. wpc'[w] = "items"
    BY <1>2 DEF SInv, TInv, PInv, FlowTyped
  <1>6. \A o \in Orders, v \in Variants : Past(o, v)' <=> Past(o, v)
    BY <1>2, <1>3, <1>4, <1>5, PastOfOthers, SuccessOf, <1>1
  <1>7. ASSUME NEW v \in Variants, Ledgered(v) PROVE Ledgered(v)'
    BY <1>2, <1>6, <1>7, LedgerStays DEF SInv, orderVars, stripeVars
  <1>8. \A o \in Orders : Success(o)' = Success(o) /\ Success(o) \in Events
    BY DEF Success, Events
  <1>9. \A o \in Orders : status'[o] = "paid" <=> job'[Success(o)] = "completed"
    BY <1>2, <1>3, <1>8 DEF SInv, Calm, orderVars
  <1>10. \A x \in Workers : wpc'[x] # "idle" => owns'[x]
    BY <1>2 DEF SInv, Calm, TInv, RestTyped, PInv, FlowTyped
  <1> QED
    BY <1>7, <1>8, <1>9, <1>10 DEF SInv, Calm

(* A step of a worker that keeps its lock or frees itself, and neither     *)
(* moves stock nor pays.                                                   *)
LEMMA CalmWorker ==
    ASSUME SInv, ~Faults, NEW w \in Workers, UNCHANGED <<orderVars, stripeVars>>,
           \A x \in Workers : wpc'[x] # "idle" => wpc[x] # "idle" /\ owns'[x] = owns[x],
           \A e \in Events : job'[e] = "completed" <=> job[e] = "completed",
           \A o \in Orders, v \in Variants :
                (Past(o, v)' <=> Past(o, v)) \/ Bought[o][v] = 0
    PROVE  Calm'
  <1>1. ASSUME NEW v \in Variants, Ledgered(v) PROVE Ledgered(v)'
    BY <1>1, LedgerStays DEF SInv, orderVars, stripeVars
  <1>2. \A o \in Orders : Success(o)' = Success(o) /\ Success(o) \in Events
    BY DEF Success, Events
  <1>3. \A o \in Orders : status'[o] = "paid" <=> job'[Success(o)] = "completed"
    BY <1>2 DEF SInv, Calm, orderVars
  <1> QED
    BY <1>1, <1>2, <1>3 DEF SInv, Calm

LEMMA CalmGetItems ==
    ASSUME SInv, ~Faults, NEW w \in Workers, GetItems(w)
    PROVE  Calm'
  <1>1. /\ wpc[w] = "items" /\ wpc' = [wpc EXCEPT ![w] = "stock"]
        /\ todo' = [todo EXCEPT ![w] = ItemsOf(OrderOf(wjob[w]))]
        /\ UNCHANGED <<orderVars, stripeVars, queueVars, wjob, owns>>
    BY DEF GetItems, WGoto
  <1>2. /\ \A x \in Workers \ {w} : wpc'[x] = wpc[x] /\ wjob'[x] = wjob[x] /\ todo'[x] = todo[x]
        /\ wpc'[w] = "stock" /\ todo'[w] = ItemsOf(OrderOf(wjob[w])) /\ wjob'[w] = wjob[w]
        /\ job' = job
    BY <1>1 DEF SInv, TInv, PInv, FlowTyped, RestTyped, queueVars
  <1>3. wjob[w] \in Events
    BY <1>1, Alone
  <1>4. ASSUME NEW o \in Orders, NEW v \in Variants
        PROVE  (Past(o, v)' <=> Past(o, v)) \/ Bought[o][v] = 0
    <2>1. CASE wjob[w] # Success(o)
      BY <1>2, <2>1, PastOfOthers
    <2>2. CASE wjob[w] = Success(o)
      <3>1. ~Past(o, v)
        BY <1>1, <2>2, PastIfAlone
      <3>2. CASE v \notin ItemsOf(o)
        BY <3>2, PipelineAssumption DEF ItemsOf
      <3>3. CASE v \in ItemsOf(o)
        <4>1. todo'[w] = ItemsOf(o) /\ Success(o)' = Success(o)
          BY <1>2, <1>3, <2>2, SuccessOf DEF Success
        <4>2. job[Success(o)] = "active"
          BY <1>1, <2>2, Alone
        <4>3. \A x \in Workers \ {w} : wpc[x] = "idle" \/ wjob[x] # Success(o)
          BY <1>1, <2>2, Alone
        <4>4. ~Past(o, v)'
          BY <1>2, <3>3, <4>1, <4>2, <4>3 DEF Past
        <4> QED
          BY <3>1, <4>4
      <3> QED
        BY <3>2, <3>3
    <2> QED
      BY <2>1, <2>2
  <1>5. \A x \in Workers : wpc'[x] # "idle" => wpc[x] # "idle" /\ owns'[x] = owns[x]
    BY <1>1, <1>2
  <1> QED
    BY <1>1, <1>2, <1>4, <1>5, CalmWorker

(* The check passes the order of a success: it is not paid yet.            *)
LEMMA CalmCheckStatus ==
    ASSUME SInv, ~Faults, NEW w \in Workers, CheckStatus(w)
    PROVE  Calm'
  <1> DEFINE e == wjob[w]
             o == OrderOf(wjob[w])
  <1>1. /\ wpc[w] = "check" /\ e \in Events /\ job[e] = "active" /\ o \in Orders
        /\ UNCHANGED <<orderVars, stripeVars>>
    BY Alone, SuccessOf DEF CheckStatus
  <1>2. CASE MayBecome(status[o], Target(e))
    <2>1. /\ wpc' = [wpc EXCEPT ![w] = "write"]
          /\ UNCHANGED <<wjob, owns, todo, queueVars>>
      BY <1>2 DEF CheckStatus, WGoto
    <2>2. \A p \in Orders, v \in Variants : Past(p, v)' <=> Past(p, v)
      BY <1>1, <2>1 DEF Past, Success, queueVars, SInv, TInv, PInv, FlowTyped
    <2>3. \A x \in Workers : wpc'[x] # "idle" => wpc[x] # "idle" /\ owns'[x] = owns[x]
      BY <1>1, <2>1
    <2> QED
      BY <1>1, <2>1, <2>2, <2>3, CalmWorker DEF queueVars
  <1>3. CASE ~MayBecome(status[o], Target(e))
    <2>1. TypeOf(e) # "succeeded"
      <3> SUFFICES ASSUME TypeOf(e) = "succeeded" PROVE FALSE
        OBVIOUS
      <3>1. e = Success(o) /\ Target(e) = "paid"
        BY <1>1, SuccessOf DEF Target
      <3>2. status[o] # "paid"
        BY <1>1, <3>1 DEF SInv, Calm
      <3>3. status[o] = "stock_reserved"
        BY <1>1, <3>2 DEF SInv, Rows
      <3> QED
        BY <1>3, <3>1, <3>3 DEF MayBecome, VALID_ORDER_TRANSITIONS
    <2>2. /\ Free(w)
          /\ job' = job \/ \E s \in {"waiting", "failed"} : job' = [job EXCEPT ![e] = s]
      BY <1>3 DEF CheckStatus, JobThrows
    <2>3. \A f \in Events : job'[f] = "completed" <=> job[f] = "completed"
      BY <1>1, <2>2 DEF SInv, TInv, PInv, FlowTyped
    <2>4. /\ \A x \in Workers \ {w} : /\ wpc'[x] = wpc[x] /\ wjob'[x] = wjob[x]
                                      /\ todo'[x] = todo[x] /\ owns'[x] = owns[x]
          /\ wpc'[w] = "idle"
      BY <2>2 DEF Free, SInv, TInv, PInv, FlowTyped, RestTyped
    <2>5. \A p \in Orders, v \in Variants : Past(p, v)' <=> Past(p, v)
      BY <1>1, <2>1, <2>3, <2>4, PastOfOthers, SuccessOf
    <2>6. \A x \in Workers : wpc'[x] # "idle" => wpc[x] # "idle" /\ owns'[x] = owns[x]
      BY <2>4
    <2> QED
      BY <1>1, <2>3, <2>5, <2>6, CalmWorker
  <1> QED
    BY <1>2, <1>3

(* The order is paid as its job completes.                                 *)
LEMMA CalmWriteStatus ==
    ASSUME SInv, ~Faults, NEW w \in Workers, WriteStatus(w)
    PROVE  Calm'
  <1> DEFINE e == wjob[w]
             o == OrderOf(wjob[w])
  <1>1. /\ wpc[w] = "write" /\ e \in Events /\ owns[w] /\ job[e] = "active" /\ o \in Orders
        /\ TypeOf(e) = "succeeded" /\ e = Success(o) /\ Target(e) = "paid"
    BY Alone, SuccessOf DEF WriteStatus, SInv, TInv, PInv, Working, Target
  <1>2. /\ status' = [status EXCEPT ![o] = "paid"]
        /\ job' = [job EXCEPT ![e] = "completed"]
        /\ Free(w) /\ UNCHANGED <<stock, stripeVars>>
    BY <1>1 DEF WriteStatus
  <1>3. /\ \A x \in Workers \ {w} : /\ wpc'[x] = wpc[x] /\ wjob'[x] = wjob[x]
                                    /\ todo'[x] = todo[x] /\ owns'[x] = owns[x]
        /\ wpc'[w] = "idle"
    BY <1>2 DEF Free, SInv, TInv, PInv, FlowTyped, RestTyped
  <1>4. \A p \in Orders : /\ Success(p)' = Success(p) /\ Success(p) \in Events
                          /\ p # o => Success(p) # e
    BY <1>1, SuccessOf DEF Success
  <1>5. \A p \in Orders : job'[Success(p)] = IF p = o THEN "completed" ELSE job[Success(p)]
    BY <1>1, <1>2, <1>4 DEF SInv, TInv, PInv, FlowTyped
  <1>6. ASSUME NEW p \in Orders, NEW v \in Variants PROVE Past(p, v)' <=> Past(p, v)
    <2>1. CASE p = o
      <3>1. Past(p, v)
        BY <1>1, <2>1 DEF Past
      <3>2. Past(p, v)'
        BY <1>4, <1>5, <2>1 DEF Past
      <3> QED
        BY <3>1, <3>2
    <2>2. CASE p # o
      BY <1>3, <1>4, <1>5, <2>2, PastOfOthers
    <2> QED
      BY <2>1, <2>2
  <1>7. ASSUME NEW v \in Variants, Ledgered(v) PROVE Ledgered(v)'
    BY <1>2, <1>6, <1>7, LedgerStays DEF SInv, stripeVars
  <1>8. \A p \in Orders : status'[p] = "paid" <=> job'[Success(p)] = "completed"
    BY <1>2, <1>5 DEF SInv, Calm, TInv, PInv, FlowTyped
  <1>9. \A x \in Workers : wpc'[x] # "idle" => owns'[x]
    BY <1>3 DEF SInv, Calm
  <1> QED
    BY <1>4, <1>7, <1>8, <1>9 DEF SInv, Calm

(* After a step of its loop, the job of a success has one item more behind *)
(* it, and no other job has.                                               *)
LEMMA PastMoves ==
    ASSUME SInv, ~Faults, NEW w \in Workers, MoveItem(w), NEW v \in todo[w],
           todo' = [todo EXCEPT ![w] = @ \ {v}],
           WGoto(w, IF todo[w] = {v} THEN "check" ELSE "stock")
    PROVE  /\ \A o \in Orders, u \in Variants :
                (wjob[w] # Success(o) \/ u # v) => (Past(o, u)' <=> Past(o, u))
           /\ \A o \in Orders : wjob[w] = Success(o) => Past(o, v)' /\ ~Past(o, v)
  <1>1. /\ wpc[w] = "stock" /\ job' = job /\ wjob' = wjob
        /\ \A x \in Workers \ {w} : wpc'[x] = wpc[x] /\ todo'[x] = todo[x]
        /\ todo'[w] = todo[w] \ {v}
        /\ wpc'[w] = IF todo[w] = {v} THEN "check" ELSE "stock"
    BY DEF MoveItem, WGoto, queueVars, SInv, TInv, PInv, FlowTyped, RestTyped
  <1>2. \A o \in Orders, u \in Variants : wjob[w] # Success(o) => (Past(o, u)' <=> Past(o, u))
    BY <1>1, PastOfOthers
  <1>3. ASSUME NEW o \in Orders, wjob[w] = Success(o)
        PROVE  /\ \A u \in Variants \ {v} : Past(o, u)' <=> Past(o, u)
               /\ Past(o, v)' /\ ~Past(o, v)
    <2>1. Success(o)' = Success(o) /\ v \in Variants
      BY DEF Success, SInv, TInv, RestTyped
    <2>2. /\ job[Success(o)] # "completed"
          /\ \A x \in Workers \ {w} : wpc[x] = "idle" \/ wjob[x] # Success(o)
      BY <1>1, <1>3, Alone
    <2>3. \A u \in Variants : Past(o, u) <=> u \notin todo[w]
      BY <1>1, <1>3, PastIfAlone
    <2>4. \A u \in Variants : Past(o, u)' <=> u \notin todo[w] \ {v}
      BY <1>1, <1>3, <2>1, <2>2 DEF Past
    <2> QED
      BY <2>1, <2>3, <2>4
  <1> QED
    BY <1>2, <1>3 DEF SInv, TInv, RestTyped

(* A unit goes from the reserved to the gone, and from the row; the row    *)
(* has it if no unit of the variant was released.                          *)
LEMMA SuccessMoves ==
    ASSUME SInv, ~Faults, NEW w \in Workers, NEW v \in Variants, NEW o \in Orders,
           wjob[w] = Success(o), TypeOf(wjob[w]) = "succeeded",
           payment[o] # NoRow, stripeVars' = stripeVars,
           Bought[o][v] \in Nat, OrderOf(wjob[w]) = o,
           ~Past(o, v), Past(o, v)',
           \A p \in Orders \ {o} : Past(p, v)' <=> Past(p, v),
           \/ Deducts(w, v)
           \/ ~CanMove(wjob[w], stock[v], Bought[o][v]) /\ stock' = stock,
           Ledgered(v)
    PROVE  Ledgered(v)'
  <1> DEFINE q == Bought[o][v]
             gone == [p \in Orders |-> IF Past(p, v)' THEN Bought[p][v] ELSE 0]
             left == [p \in Orders |-> IF payment[p] # NoRow /\ ~Past(p, v)'
                                       THEN Bought[p][v] ELSE 0]
  <1>1. UNCHANGED <<payment, emitted>>
    BY DEF stripeVars
  <1>2. /\ Gone(v)' = gone /\ Left(v)' = left /\ Placed(v)' = Placed(v)
        /\ Unrefused(v)' => Unrefused(v)
    BY <1>1 DEF Gone, Left, Placed, Held, Unrefused
  <1>3. \A p \in Orders : Bought[p][v] \in Nat
    BY PipelineAssumption
  <1>4. /\ gone \in [Orders -> Nat] /\ left \in [Orders -> Nat]
        /\ gone[o] = q /\ Gone(v)[o] = 0 /\ left[o] = 0 /\ Left(v)[o] = q
        /\ \A p \in Orders \ {o} : gone[p] = Gone(v)[p] /\ left[p] = Left(v)[p]
    BY <1>3 DEF Gone, Left
  <1> HIDE DEF gone, left
  <1>5. Total(gone) = Total(Gone(v)) + q /\ Total(left) = Total(Left(v)) - q
    BY <1>4, GoneCountable, TotalChange
  <1>6. q <= Total(Left(v))
    BY <1>4, GoneCountable, TotalBounds
  <1>7. /\ stock[v].reserved \in Nat /\ stock[v].quantity \in Nat
        /\ stock[v].reserved <= stock[v].quantity
        /\ Placed(v) \in Nat /\ Spare \in Nat /\ Total(Gone(v)) \in Nat /\ Total(Left(v)) \in Nat
    BY GoneCountable, HeldNat, PipelineAssumption DEF Placed, SInv, TInv, RestTyped, Rows
  <1>8. Total(Gone(v))' = Total(gone) /\ Total(Left(v))' = Total(left)
    BY <1>2
  <1>9. CASE Deducts(w, v)
    <2>1. /\ stock'[v].reserved = stock[v].reserved - q
          /\ stock'[v].quantity = stock[v].quantity - q
      BY <1>9, MovedStockTyped DEF SInv, TInv
    <2>2. Placed(v)' + Spare <= stock'[v].quantity + Total(Gone(v))'
      BY <1>2, <1>5, <1>7, <1>8, <2>1 DEF Ledgered
    <2>3. ASSUME Unrefused(v)
          PROVE  /\ stock'[v].reserved = Total(Left(v))'
                 /\ Placed(v)' + Spare = stock'[v].quantity + Total(Gone(v))'
      BY <1>2, <1>5, <1>7, <1>8, <2>1, <2>3 DEF Ledgered
    <2> QED
      BY <1>2, <2>2, <2>3 DEF Ledgered
  <1>10. CASE ~CanMove(wjob[w], stock[v], q) /\ stock' = stock
    <2>1. ~Unrefused(v)
      BY <1>6, <1>7, <1>10 DEF Ledgered, CanMove
    <2>2. Placed(v)' + Spare <= stock'[v].quantity + Total(Gone(v))'
      BY <1>2, <1>5, <1>7, <1>8, <1>10 DEF Ledgered
    <2> QED
      BY <1>2, <2>1, <2>2 DEF Ledgered
  <1> QED
    BY <1>9, <1>10

LEMMA CalmMoveItem ==
    ASSUME SInv, ~Faults, NEW w \in Workers, MoveItem(w)
    PROVE  Calm'
  <1> DEFINE e == wjob[w]
  <1>0. PICK o \in Orders : o = OrderOf(wjob[w])
    BY Alone, SuccessOf DEF MoveItem
  <1>1. PICK v \in todo[w] :
              /\ v \in Variants /\ Bought[o][v] \in Nat /\ e \in Events
              /\ todo' = [todo EXCEPT ![w] = @ \ {v}]
              /\ WGoto(w, IF todo[w] = {v} THEN "check" ELSE "stock")
              /\ \/ Deducts(w, v) \/ Releases(w, v)
                 \/ ~CanMove(e, stock[v], Bought[o][v]) /\ stock' = stock
    BY <1>0, ItemMoves DEF SInv, TInv
  <1>2. /\ wpc[w] = "stock" /\ UNCHANGED <<status, history, stripeVars, queueVars>>
        /\ wjob' = wjob /\ owns' = owns
    BY <1>1 DEF MoveItem, WGoto
  <1>3. /\ \A p \in Orders, u \in Variants :
                (e # Success(p) \/ u # v) => (Past(p, u)' <=> Past(p, u))
        /\ \A p \in Orders : e = Success(p) => Past(p, v)' /\ ~Past(p, v)
    BY <1>1, PastMoves
  <1>4. \A u \in Variants \ {v} : stock'[u] = stock[u]
    BY <1>0, <1>1, MovedStockTyped DEF SInv, TInv
  <1>5. Bought[o][v] > 0 /\ payment[o] # NoRow
    BY <1>0, <1>1, <1>2, Alone DEF SInv, Rows, ItemsOf
  <1>6. ASSUME NEW u \in Variants \ {v}, Ledgered(u) PROVE Ledgered(u)'
    BY <1>2, <1>3, <1>4, <1>6, LedgerStays DEF SInv, stripeVars
  <1>7. ASSUME Ledgered(v) PROVE Ledgered(v)'
    <2>1. CASE TypeOf(e) = "succeeded"
      <3>1. e = Success(o) /\ \A p \in Orders \ {o} : e # Success(p)
        BY <1>0, <1>1, <2>1, SuccessOf
      <3>2. /\ ~Past(o, v) /\ Past(o, v)'
            /\ \A p \in Orders \ {o} : Past(p, v)' <=> Past(p, v)
        <4>1. ~Past(o, v) /\ Past(o, v)'
          BY <1>1, <1>3, <3>1
        <4>2. ASSUME NEW p \in Orders \ {o} PROVE Past(p, v)' <=> Past(p, v)
          BY <1>1, <1>3, <3>1
        <4> QED
          BY <4>1, <4>2
      <3>3. ~Releases(w, v)
        BY <2>1 DEF Releases
      <3> QED
        BY <1>0, <1>1, <1>2, <1>5, <1>7, <2>1, <3>1, <3>2, <3>3, SuccessMoves
    <2>2. CASE TypeOf(e) # "succeeded"
      <3>1. \A p \in Orders : e # Success(p)
        BY <1>1, <2>2, SuccessOf
      <3>2. stock'[v].quantity = stock[v].quantity
        BY <1>0, <1>1, <2>2, MovedStockTyped DEF SInv, TInv, Deducts
      <3>3. ~Unrefused(v)
        <4>1. e = <<o, "payment_failed">>
          BY <1>0, <1>1, <2>2, EventParts
        <4>2. e \in emitted
          BY <1>1, <1>2, Alone DEF SInv, TInv, PInv, Queueing, RestTyped
        <4> QED
          BY <1>1, <1>5, <4>1, <4>2 DEF Unrefused
      <3>4. Gone(v)' = Gone(v) /\ Placed(v)' = Placed(v) /\ Unrefused(v)' = Unrefused(v)
        BY <1>1, <1>2, <1>3, <3>1 DEF Gone, Placed, Held, Unrefused, stripeVars
      <3>5. Total(Gone(v))' = Total(Gone(v))
        BY <3>4
      <3> QED
        BY <1>7, <3>2, <3>3, <3>4, <3>5 DEF Ledgered
    <2> QED
      BY <2>1, <2>2
  <1>8. \A p \in Orders : status'[p] = "paid" <=> job'[Success(p)'] = "completed"
    BY <1>2 DEF SInv, Calm, Success, queueVars
  <1>9. \A x \in Workers : wpc'[x] # "idle" => owns'[x]
    BY <1>1, <1>2 DEF WGoto, SInv, Calm, TInv, PInv, FlowTyped
  <1>10. \A u \in Variants : Ledgered(u) => Ledgered(u)'
    BY <1>6, <1>7
  <1> QED
    BY <1>8, <1>9, <1>10 DEF SInv, Calm

LEMMA CalmNext == SInv /\ [Next]_vars => Calm'
  <1> SUFFICES ASSUME SInv, [Next]_vars PROVE Calm'
    OBVIOUS
  <1>1. CASE UNCHANGED vars
    <2>1. \A o \in Orders, v \in Variants : Past(o, v)' <=> Past(o, v)
      BY <1>1 DEF vars, Past, Success
    <2>2. ASSUME NEW v \in Variants, Ledgered(v) PROVE Ledgered(v)'
      BY <1>1, <2>1, <2>2, LedgerStays DEF SInv, vars
    <2> QED
      BY <1>1, <2>2 DEF SInv, Calm, vars, Success
  <1>2. CASE Faults
    BY <1>2 DEF Calm
  <1>3. ASSUME ~Faults, NEW w \in Workers,
               Take(w) \/ WorkerRuns(w) \/ WorkerDbError(w) \/ Stall(w)
        PROVE  Calm'
    BY <1>3, CalmTake, CalmGetItems, CalmMoveItem, CalmCheckStatus, CalmWriteStatus
       DEF WorkerRuns, WorkerDbError, Stall
  <1> QED
    BY <1>1, <1>2, <1>3, CalmOfWebhook DEF Next

LEMMA StockInvariance == Spec => []SInv
  <1>1. Init => SInv
    BY TypesInit, RowsInit, CalmInit DEF SInv
  <1>2. SInv /\ [Next]_vars => SInv'
    BY TypesNext, RowsNext, CalmNext DEF SInv
  <1> QED
    BY <1>1, <1>2, PTL DEF Spec

(* OrderService.deductStock: unless jobs are cut short, what has left the  *)
(* warehouse is at most what was bought in orders whose intent succeeded,  *)
(* and none of it left twice.                                              *)
THEOREM StockSoldOnce == Spec => []SoldOnce
  <1>1. SInv => SoldOnce
    <2> SUFFICES ASSUME SInv, ~Faults, NEW v \in Variants
                 PROVE  Sold(v) <= Held(v, {o \in Orders : <<o, "succeeded">> \in seen})
      BY DEF SoldOnce
    <2> DEFINE S == {o \in Orders : <<o, "succeeded">> \in seen}
               paid == [o \in Orders |-> IF o \in S THEN Bought[o][v] ELSE 0]
    <2>1. \A o \in Orders : Past(o, v) => o \in S
      <3> SUFFICES ASSUME NEW o \in Orders, Past(o, v) PROVE o \in S
        OBVIOUS
      <3>1. Success(o) \in Events /\ job[Success(o)] # "none"
        BY SuccessOf DEF Past, Success, Events, SInv, TInv, PInv, Working
      <3> QED
        BY <3>1 DEF SInv, TInv, PInv, FlowTyped, Queueing, Success
    <2>2. \A o \in Orders : Bought[o][v] \in Nat
      BY PipelineAssumption
    <2>3. \A o \in Orders : Gone(v)[o] <= paid[o]
      <3> SUFFICES ASSUME NEW o \in Orders PROVE Gone(v)[o] <= paid[o]
        OBVIOUS
      <3>1. Gone(v)[o] = IF Past(o, v) THEN Bought[o][v] ELSE 0
        BY DEF Gone
      <3>2. paid[o] = IF o \in S THEN Bought[o][v] ELSE 0
        OBVIOUS
      <3> HIDE DEF S, paid
      <3> QED
        BY <2>1, <2>2, <3>1, <3>2
    <2>4. paid \in [Orders -> Nat] /\ Countable(paid) /\ Total(paid) = Held(v, S)
      BY HeldFunction DEF Held
    <2> HIDE DEF paid
    <2>5. Total(Gone(v)) <= Total(paid)
      BY <2>3, <2>4, GoneCountable, TotalMonotonic
    <2>6. Sold(v) = Placed(v) + Spare - stock[v].quantity
      BY DEF Sold, Placed
    <2>7. Placed(v) + Spare <= stock[v].quantity + Total(Gone(v))
      BY DEF SInv, Calm, Ledgered
    <2>8. /\ Placed(v) \in Nat /\ Spare \in Nat /\ stock[v].quantity \in Nat
          /\ Total(Gone(v)) \in Nat /\ Total(paid) \in Nat
      BY <2>4, GoneCountable, HeldNat, TotalNat, PipelineAssumption
         DEF Placed, SInv, TInv, RestTyped
    <2> HIDE DEF S
    <2>9. Sold(v) <= Held(v, S)
      BY <2>4, <2>5, <2>6, <2>7, <2>8
    <2> QED
      BY <2>9 DEF S
  <1> QED
    BY <1>1, StockInvariance, PTL

(* docs/event-flows.md:35, "Stock is DEDUCTED permanently": unless jobs    *)
(* are cut short, when none is left the stock misses just what the paid    *)
(* orders have bought of a variant for which no card was refused.          *)
THEOREM PaidIsDeducted == Spec => []DeductedUnlessRefused
  <1>1. SInv => DeductedUnlessRefused
    <2> SUFFICES ASSUME SInv, ~Faults, Drained, NEW v \in Variants, Unrefused(v)
                 PROVE  Sold(v) = Held(v, {o \in Orders : status[o] = "paid"})
      BY DEF DeductedUnlessRefused, Unrefused
    <2>1. \A o \in Orders : Past(o, v) <=> status[o] = "paid"
      BY DEF Past, Drained, SInv, Calm
    <2>2. Gone(v) = [o \in Orders |-> IF o \in {p \in Orders : status[p] = "paid"}
                                      THEN Bought[o][v] ELSE 0]
      BY <2>1 DEF Gone
    <2>3. Total(Gone(v)) = Held(v, {o \in Orders : status[o] = "paid"})
      BY <2>2 DEF Held
    <2>4. Sold(v) = Placed(v) + Spare - stock[v].quantity
      BY DEF Sold, Placed
    <2>5. Placed(v) + Spare = stock[v].quantity + Total(Gone(v))
      BY DEF SInv, Calm, Ledgered
    <2>6. /\ Placed(v) \in Nat /\ Spare \in Nat /\ stock[v].quantity \in Nat
          /\ Total(Gone(v)) \in Nat
      BY GoneCountable, HeldNat, PipelineAssumption DEF Placed, SInv, TInv, RestTyped
    <2>7. Sold(v) = Total(Gone(v))
      BY <2>4, <2>5, <2>6
    <2> QED
      BY <2>3, <2>7
  <1> QED
    BY <1>1, StockInvariance, PTL

=============================================================================
