---------------------------- MODULE OrderStatus ----------------------------
(***************************************************************************)
(* VALID_ORDER_TRANSITIONS: which status may follow which, as the code has *)
(* it (docs/event-flows.md draws one more arrow).                          *)
(***************************************************************************)

Status == {"pending", "stock_reserved", "paid", "payment_failed", "processing",
           "shipped", "delivered", "completed", "cancelled", "refunded"}

VALID_ORDER_TRANSITIONS ==
    [ pending        |-> {"stock_reserved", "cancelled"},
      stock_reserved |-> {"paid", "cancelled"},
      paid           |-> {"processing", "refunded"},
      payment_failed |-> {"stock_reserved", "cancelled"},
      processing     |-> {"shipped"},
      shipped        |-> {"delivered"},
      delivered      |-> {"completed"},
      completed      |-> {},
      cancelled      |-> {},
      refunded       |-> {} ]

(* Plausible bugs: as docs/event-flows.md:15 draws it, and a table that    *)
(* was not extended when the status before paid was renamed.               *)
MayBecomeAsDrawn(status, next) ==
    \/ next \in VALID_ORDER_TRANSITIONS[status]
    \/ status = "stock_reserved" /\ next = "payment_failed"
MayNotBePaid(status, next) ==
    next # "paid" /\ next \in VALID_ORDER_TRANSITIONS[status]

(* The check of transitionOrderStatus.                                     *)
MayBecome(status, next) == next \in VALID_ORDER_TRANSITIONS[status]
=============================================================================
