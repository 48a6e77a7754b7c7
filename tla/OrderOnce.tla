------------------------------ MODULE OrderOnce ------------------------------
(***************************************************************************)
(* What an idempotency key promises to customers who place an order, with  *)
(* no trace of how: a request that takes its key keeps it, dead or alive,  *)
(* unless it fails without an order or the key lapses after it has ended;  *)
(* no other places an order under that key.  Who is told of an order is    *)
(* told of one that was placed, by this request or by one that asked the   *)
(* same; who is told of a failure has placed none.  There are no tables,   *)
(* stocks or payments here; module Checkout has them and is checked and    *)
(* proved to implement this one.                                           *)
(***************************************************************************)

CONSTANTS
    Requests,       \* the requests; an order has the name of its request
    Asks,           \* what they may ask: records with a field key
    None            \* nothing asked yet, no order

VARIABLES
    asked,          \* [Requests -> Asks or None]
    owners,         \* the requests that took their keys
    placed,         \* the orders placed
    answered,       \* the requests that were answered ...
    answer,         \* ... with an order, or with None: [Requests -> Requests or None]
    dead,           \* the requests that will never be answered
    lapsed          \* the keys that have lapsed

vars == <<asked, owners, placed, answered, answer, dead, lapsed>>

Over(r) == r \in answered \cup dead
Active(r) == asked[r] # None /\ ~Over(r)
OwnersOf(k) == {s \in owners : asked[s].key = k}

Init ==
    /\ asked = [r \in Requests |-> None]
    /\ owners = {} /\ placed = {} /\ answered = {} /\ dead = {} /\ lapsed = {}
    /\ answer = [r \in Requests |-> None]

Ask(r) ==
    /\ asked[r] = None
    /\ \E a \in Asks : asked' = [asked EXCEPT ![r] = a]
    /\ UNCHANGED <<owners, placed, answered, answer, dead, lapsed>>

(* The key is nobody's, or has lapsed since it was.                        *)
Take(r) ==
    /\ Active(r) /\ r \notin owners
    /\ \A s \in OwnersOf(asked[r].key) : Over(s) /\ asked[r].key \in lapsed
    /\ owners' = owners \cup {r}
    /\ UNCHANGED <<asked, placed, answered, answer, dead, lapsed>>

Place(r) ==
    /\ Active(r) /\ r \in owners
    /\ placed' = placed \cup {r}
    /\ UNCHANGED <<asked, owners, answered, answer, dead, lapsed>>

Answer(r, order) ==
    /\ answered' = answered \cup {r}
    /\ answer' = [answer EXCEPT ![r] = order]
    /\ UNCHANGED <<asked, placed, dead, lapsed>>

Confirm(r) ==
    /\ Active(r) /\ r \in owners \cap placed
    /\ Answer(r, r) /\ UNCHANGED owners

(* The next who asks may take the key.                                     *)
GiveUp(r) ==
    /\ Active(r) /\ r \in owners \ placed
    /\ owners' = owners \ {r}
    /\ Answer(r, None)

(* The order was placed by another who asked the same.                     *)
Replay(r) ==
    /\ Active(r) /\ r \notin owners
    /\ \E o \in placed : asked[o] = asked[r] /\ Answer(r, o)
    /\ UNCHANGED owners

Refuse(r) ==
    /\ Active(r) /\ r \notin owners
    /\ Answer(r, None) /\ UNCHANGED owners

Die(r) ==
    /\ Active(r)
    /\ dead' = dead \cup {r}
    /\ UNCHANGED <<asked, owners, placed, answered, answer, lapsed>>

Lapse(k) ==
    /\ \A s \in OwnersOf(k) : Over(s)
    /\ lapsed' = lapsed \cup {k}
    /\ UNCHANGED <<asked, owners, placed, answered, answer, dead>>

Next ==
    \/ \E r \in Requests :
        \/ Ask(r) \/ Take(r) \/ Place(r)
        \/ Confirm(r) \/ GiveUp(r) \/ Replay(r) \/ Refuse(r) \/ Die(r)
    \/ \E k \in {a.key : a \in Asks} : Lapse(k)

Spec == Init /\ [][Next]_vars
=============================================================================
