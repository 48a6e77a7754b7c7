------------------------------ MODULE Accounts ------------------------------
(***************************************************************************)
(* The services of the customer's own account behind one API: sessions and *)
(* addresses, with any mix of requests in flight.                          *)
(***************************************************************************)
EXTENDS Sessions, AddressBook

vars == <<callVars, sessionVars, addressVars>>

Init == CallsInit /\ SessionsInit /\ AddressInit

Fails(r) == Abort(r) /\ UNCHANGED <<sessionVars, addressVars>>

Next ==
    \/ \E r \in Requests :
        \/ SessionsStep(r) /\ UNCHANGED addressVars
        \/ AddressStep(r) /\ UNCHANGED sessionVars
        \/ Fails(r)
    \/ \E t \in Ids : Expire(t) /\ UNCHANGED addressVars

Spec == Init /\ [][Next]_vars

(* Type correctness. *)
TypeOK ==
    /\ call \in [Requests -> Calls \cup {None}]
    /\ SessionsTypeOK
    /\ AddressTypeOK
=============================================================================
