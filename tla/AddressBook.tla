----------------------------- MODULE AddressBook -----------------------------
(***************************************************************************)
(* AddressService: a user's delivery addresses, of which one is the        *)
(* default.  Texts are left out.                                           *)
(***************************************************************************)
EXTENDS ServiceCalls

CONSTANTS
    Customers,      \* the users
    OldAddresses    \* addresses stored before

AddressIds == Requests \cup OldAddresses

Address == [user : Customers, default : BOOLEAN]

(* dto.isDefault, None when it is not given                                *)
AddressCall == [op : {"addAddress"}, user : Customers, default : BOOLEAN \cup {None}]
          \cup [op : {"changeAddress"}, user : Customers, id : AddressIds,
                default : BOOLEAN \cup {None}]
          \cup [op : {"dropAddress"}, user : Customers, id : AddressIds]

ASSUME AddressAssumption ==
    /\ Requests \cap OldAddresses = {}
    /\ None \notin AddressIds /\ None \notin Address /\ None \notin BOOLEAN

VARIABLES
    addresses,  \* address: [AddressIds -> Address or None]
    crowded     \* observer: the users two of whose requests were about to
                \* store a default address at once

addressVars == <<addresses, crowded>>

DefaultsOf(u) == {a \in AddressIds :
    addresses[a] # None /\ addresses[a].user = u /\ addresses[a].default}

AddressInit ==
    /\ addresses \in [AddressIds -> Address \cup {None}]
    /\ \A r \in Requests : addresses[r] = None
    /\ \A u \in Customers : \A a, b \in DefaultsOf(u) : a = b
    /\ crowded = {}

PutAddress(a, row) == addresses' = [addresses EXCEPT ![a] = row] /\ UNCHANGED crowded

(* The where of every lookup: the id and the user.                         *)
Found(r) == addresses[call[r].id] # None /\ addresses[call[r].id].user = call[r].user

-----------------------------------------------------------------------------
Writers(u) == {q \in Requests : /\ pc[q] \in {"insertAddress", "writeAddress"}
                                /\ call[q].user = u /\ call[q].default = TRUE}

Write(op) == IF op = "addAddress" THEN "insertAddress" ELSE "writeAddress"

noClearDefault(r) ==                          \* plausible bug: the old default is kept
    /\ pc[r] = "clearDefault"
    /\ Goto(r, Write(call[r].op), None)
    /\ UNCHANGED addressVars

clearDefault(r) ==
    LET u == call[r].user IN
    /\ pc[r] = "clearDefault"
    /\ addresses' = [a \in AddressIds |-> IF a \in DefaultsOf(u)
                                          THEN [addresses[a] EXCEPT !.default = FALSE]
                                          ELSE addresses[a]]
    /\ crowded' = IF Writers(u) # {} THEN crowded \cup {u} ELSE crowded
    /\ Goto(r, Write(call[r].op), None)

(* The first statement after the checks of create and update.              *)
ToWrite(c) == IF c.default = TRUE THEN "clearDefault" ELSE Write(c.op)

insertAddress(r) ==
    /\ pc[r] = "insertAddress"
    /\ PutAddress(r, [user |-> call[r].user, default |-> call[r].default = TRUE])
    /\ End(r, "ok")

findAddress(r) ==
    /\ pc[r] = "findAddress"
    /\ IF ~ Found(r) THEN End(r, "refused")
       ELSE Goto(r, IF call[r].op = "dropAddress" THEN "deleteAddress" ELSE ToWrite(call[r]), None)
    /\ UNCHANGED addressVars

writeAsGiven(r) ==                            \* plausible bug: undefined overwrites
    /\ pc[r] = "writeAddress" /\ addresses[call[r].id] # None
    /\ PutAddress(call[r].id, [user |-> call[r].user, default |-> call[r].default])
    /\ End(r, "ok")

(* Not there any more: P2025, and only Abort is left.                      *)
writeAddress(r) ==
    LET c == call[r]  row == addresses[c.id] IN
    /\ pc[r] = "writeAddress" /\ row # None
    /\ PutAddress(c.id, [row EXCEPT !.default = IF c.default = None THEN @ ELSE c.default])
    /\ End(r, "ok")

deleteAddress(r) ==
    /\ pc[r] = "deleteAddress" /\ addresses[call[r].id] # None
    /\ PutAddress(call[r].id, None)
    /\ End(r, "ok")

AddressStart(r) == \E c \in Calls \cap AddressCall :
    /\ Begin(r, c, IF c.op = "addAddress" THEN ToWrite(c) ELSE "findAddress")
    /\ UNCHANGED addressVars

AddressStep(r) ==
    \/ AddressStart(r)
    \/ clearDefault(r) \/ insertAddress(r)
    \/ findAddress(r) \/ writeAddress(r) \/ deleteAddress(r)

-----------------------------------------------------------------------------
(* Type correctness. *)
AddressTypeOK ==
    /\ addresses \in [AddressIds -> Address \cup {None}]
    /\ crowded \subseteq Customers

(* A user has one default address at most, whatever the order and the      *)
(* failures of create, update and remove, unless two of the user's         *)
(* requests cleared the flag before either had stored its own default.     *)
OneDefaultUnlessCrowded == \A u \in Customers \ crowded :
    \A a, b \in DefaultsOf(u) : a = b
=============================================================================
