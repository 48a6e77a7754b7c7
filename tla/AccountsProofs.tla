--------------------------- MODULE AccountsProofs ---------------------------
(***************************************************************************)
(* Rotation keeps one good token per sign-in, a session that has ended     *)
(* stays ended, a Google profile has one account, and a user one default   *)
(* address: proofs, for any requests, accounts, tokens and addresses, with *)
(* any of them in flight together and any statement failing.               *)
(***************************************************************************)
EXTENDS Accounts, TLAPS

AddressStatements ==
    {"clearDefault", "insertAddress", "findAddress", "writeAddress", "deleteAddress"}

SessionStatements ==
    {"register", "createUser", "login", "google", "byEmail", "link", "createGoogle", "issue",
     "refresh", "revokeFamily", "revoke", "rotate", "readUser", "logout", "revokeOne"}

Seen == Token \cup Emails \cup {None}

CallsOK ==
    /\ call \in [Requests -> Calls \cup {None}]
    /\ pc \in [Requests -> SessionStatements \cup AddressStatements \cup Answers \cup {"idle"}]
    /\ seen \in [Requests -> Seen]

(* Request r moves on to p, holding x; the others stay where they are.     *)
Moves(r, p, x) ==
    /\ pc' = [pc EXCEPT ![r] = p]
    /\ seen' = [seen EXCEPT ![r] = x]
    /\ \E c \in Calls \cup {None} : call' = [call EXCEPT ![r] = c]

LEMMA GotoMoves ==
    ASSUME CallsOK, NEW r \in Requests, NEW p, NEW x, Goto(r, p, x)
    PROVE  Moves(r, p, x) /\ call' = call
  BY DEF CallsOK, Goto, Moves

LEMMA BeginMoves ==
    ASSUME CallsOK, NEW r \in Requests, NEW p, NEW c \in Calls, Begin(r, c, p)
    PROVE  Moves(r, p, seen[r]) /\ call'[r] = c /\ pc[r] = "idle"
  BY DEF CallsOK, Begin, Moves

LEMMA CallsStayOK ==
    ASSUME CallsOK, NEW r \in Requests, NEW x \in Seen,
           NEW p \in SessionStatements \cup AddressStatements \cup Answers,
           Moves(r, p, x)
    PROVE  CallsOK'
  BY DEF CallsOK, Moves

-----------------------------------------------------------------------------
(* Addresses.                                                              *)

(* What a request at a statement of AddressService has asked, and what it  *)
(* has found: the row it is to change is its user's, and stays so.         *)
AddressFits(r) ==
    /\ pc[r] \in AddressStatements => call[r] \in AddressCall
    /\ pc[r] = "insertAddress" => call[r].op = "addAddress"
    /\ pc[r] = "clearDefault" =>
            call[r].op \in {"addAddress", "changeAddress"} /\ call[r].default = TRUE
    /\ pc[r] = "findAddress" => call[r].op \in {"changeAddress", "dropAddress"}
    /\ pc[r] = "deleteAddress" => call[r].op = "dropAddress"
    /\ pc[r] = "writeAddress" => call[r].op = "changeAddress"

OwnRow(r) ==
    \/ pc[r] = "writeAddress"
    \/ pc[r] = "clearDefault" /\ call[r].op = "changeAddress"
    => LET a == call[r].id IN
       /\ a \in Requests => pc[a] \in Answers
       /\ addresses[a] # None => addresses[a].user = call[r].user

StoredIsAnswered == \A r \in Requests : addresses[r] # None => pc[r] \in Answers

(* A user's request is about to store a default only when there is none,   *)
(* and no other is.                                                        *)
Orderly(u) ==
    /\ \A a, b \in DefaultsOf(u) : a = b
    /\ \A q, r \in Writers(u) : q = r
    /\ Writers(u) # {} => DefaultsOf(u) = {}

AddressInv ==
    /\ AddressTypeOK
    /\ \A r \in Requests : AddressFits(r) /\ OwnRow(r)
    /\ StoredIsAnswered
    /\ \A u \in Customers \ crowded : Orderly(u)

LEMMA AddressCallParts ==
    ASSUME NEW c \in AddressCall
    PROVE  /\ c.op \in {"addAddress", "changeAddress", "dropAddress"}
           /\ c.user \in Customers
           /\ c.op # "addAddress" => c.id \in AddressIds
           /\ c.op # "dropAddress" => c.default \in BOOLEAN \cup {None}
  BY DEF AddressCall

(* What the other requests know stands when none of their rows changes its *)
(* user or comes back.                                                     *)
LEMMA OthersFit ==
    ASSUME CallsOK, AddressInv, NEW r \in Requests, NEW p, NEW x, Moves(r, p, x),
           NEW q \in Requests \ {r},
           \A a \in AddressIds : addresses'[a] # None =>
                \/ a = r /\ pc[r] \notin Answers
                \/ addresses[a] # None /\ addresses'[a].user = addresses[a].user,
           pc[r] \in Answers => p \in Answers
    PROVE  AddressFits(q)' /\ OwnRow(q)'
  <1>1. pc'[q] = pc[q] /\ call'[q] = call[q]
    BY DEF CallsOK, Moves
  <1>2. AddressFits(q)'
    BY <1>1 DEF AddressInv, AddressFits
  <1>3. OwnRow(q)'
    <2> SUFFICES ASSUME \/ pc[q] = "writeAddress"
                        \/ pc[q] = "clearDefault" /\ call[q].op = "changeAddress"
                 PROVE  LET a == call[q].id IN
                        /\ a \in Requests => pc'[a] \in Answers
                        /\ addresses'[a] # None => addresses'[a].user = call[q].user
      BY <1>1 DEF OwnRow
    <2>1. call[q].op = "changeAddress" /\ call[q].id \in AddressIds
      <3>1. call[q] \in AddressCall /\ call[q].op = "changeAddress"
        BY DEF AddressInv, AddressFits, AddressStatements
      <3> QED
        BY <3>1, AddressCallParts
    <2>2. /\ call[q].id \in Requests => pc[call[q].id] \in Answers
          /\ addresses[call[q].id] # None => addresses[call[q].id].user = call[q].user
      BY DEF AddressInv, OwnRow
    <2>3. call[q].id \in Requests => pc'[call[q].id] \in Answers
      BY <2>2 DEF CallsOK, Moves
    <2> QED
      BY <2>1, <2>2, <2>3
  <1> QED
    BY <1>2, <1>3

(* Nothing to do when defaults and writers only become fewer.              *)
LEMMA FewerIsOrderly ==
    ASSUME NEW u, Orderly(u), Writers(u)' \subseteq Writers(u),
           DefaultsOf(u)' \subseteq DefaultsOf(u)
    PROVE  Orderly(u)'
  BY DEF Orderly

LEMMA WritersMove ==
    ASSUME CallsOK, NEW r \in Requests, NEW p, NEW x, Moves(r, p, x), NEW u,
           p \notin {"insertAddress", "writeAddress"} \/ call'[r].default # TRUE
    PROVE  Writers(u)' \subseteq Writers(u)
  BY DEF CallsOK, Moves, Writers

(* The frame of a step that moves request r on and only removes addresses, *)
(* or clears their flags.                                                  *)
LEMMA QuietAddressStep ==
    ASSUME CallsOK, AddressInv, NEW r \in Requests, NEW p, NEW x, Moves(r, p, x),
           p \in SessionStatements \cup AddressStatements \cup Answers,
           pc[r] \in Answers => p \in Answers,
           p \notin {"insertAddress", "writeAddress"} \/ call'[r].default # TRUE,
           AddressTypeOK', crowded' = crowded,
           \A a \in AddressIds : addresses'[a] # None =>
                /\ addresses[a] # None
                /\ addresses'[a].user = addresses[a].user
                /\ addresses'[a].default => addresses[a].default,
           AddressFits(r)', OwnRow(r)', addresses'[r] # None => p \in Answers
    PROVE  AddressInv'
  <1>1. ASSUME NEW q \in Requests PROVE AddressFits(q)' /\ OwnRow(q)'
    <2>1. CASE q = r
      BY <2>1
    <2>2. CASE q # r
      BY <2>2, OthersFit
    <2> QED
      BY <2>1, <2>2
  <1>2. StoredIsAnswered'
    BY DEF StoredIsAnswered, AddressInv, Moves, CallsOK, AddressIds
  <1>3. ASSUME NEW u \in Customers \ crowded PROVE Orderly(u)'
    <2>1. Writers(u)' \subseteq Writers(u)
      BY WritersMove
    <2>2. DefaultsOf(u)' \subseteq DefaultsOf(u)
      BY DEF DefaultsOf
    <2> QED
      BY <2>1, <2>2, FewerIsOrderly DEF AddressInv
  <1> QED
    BY <1>1, <1>2, <1>3 DEF AddressInv

(* create, update and remove begin.                                        *)
LEMMA AddressStartKeeps ==
    ASSUME CallsOK, AddressInv, NEW r \in Requests, AddressStart(r)
    PROVE  /\ CallsOK' /\ AddressInv'
           /\ pc[r] = "idle"
           /\ \E p \in AddressStatements : Moves(r, p, seen[r])
  <1>1. PICK c \in Calls \cap AddressCall :
            /\ Begin(r, c, IF c.op = "addAddress" THEN ToWrite(c) ELSE "findAddress")
            /\ UNCHANGED addressVars
    BY DEF AddressStart
  <1> DEFINE p == IF c.op = "addAddress" THEN ToWrite(c) ELSE "findAddress"
  <1>2. Moves(r, p, seen[r]) /\ call'[r] = c /\ pc[r] = "idle"
    BY <1>1, BeginMoves
  <1>3. p \in AddressStatements
    BY DEF ToWrite, Write, AddressStatements
  <1>4. CallsOK'
    BY <1>2, <1>3, CallsStayOK DEF CallsOK
  <1>5. pc'[r] = p /\ c \in AddressCall
    BY <1>2 DEF Moves, CallsOK
  <1>6. AddressFits(r)' /\ OwnRow(r)'
    <2>1. c.op \in {"addAddress", "changeAddress", "dropAddress"}
      BY AddressCallParts
    <2> QED
      BY <1>2, <1>5, <2>1 DEF AddressFits, OwnRow, ToWrite, Write
  <1>7. addresses[r] = None
    BY <1>2 DEF AddressInv, StoredIsAnswered, Answers
  <1>8. p \notin {"insertAddress", "writeAddress"} \/ c.default # TRUE
    BY DEF ToWrite, Write
  <1>9. UNCHANGED <<addresses, crowded>> /\ AddressTypeOK'
    BY <1>1 DEF addressVars, AddressInv, AddressTypeOK
  <1>10. pc[r] \notin Answers
    BY <1>2 DEF Answers
  <1>11. AddressInv'
    <2> HIDE DEF p
    <2> QED
      BY <1>2, <1>3, <1>6, <1>7, <1>8, <1>9, <1>10, QuietAddressStep
  <1> QED
    BY <1>2, <1>3, <1>4, <1>11

LEMMA FindAddressKeeps ==
    ASSUME CallsOK, AddressInv, NEW r \in Requests, findAddress(r)
    PROVE  /\ CallsOK' /\ AddressInv'
           /\ \E p \in AddressStatements \cup Answers : Moves(r, p, None)
  <1>1. call[r] \in AddressCall /\ call[r].op \in {"changeAddress", "dropAddress"}
    BY DEF findAddress, AddressInv, AddressFits, AddressStatements
  <1> DEFINE p == IF ~ Found(r) THEN "refused"
                  ELSE IF call[r].op = "dropAddress" THEN "deleteAddress" ELSE ToWrite(call[r])
  <1>2. Moves(r, p, None) /\ call' = call
    BY GotoMoves DEF findAddress, End
  <1>3. p \in AddressStatements \cup Answers
    BY DEF ToWrite, Write, AddressStatements, Answers
  <1>4. CallsOK'
    BY <1>2, <1>3, CallsStayOK DEF Seen
  <1>5. pc'[r] = p
    BY <1>2 DEF Moves, CallsOK
  <1>6. AddressFits(r)'
    BY <1>1, <1>2, <1>5 DEF AddressFits, ToWrite, Write
  <1>7. UNCHANGED <<addresses, crowded>> /\ AddressTypeOK'
    BY DEF findAddress, addressVars, AddressInv, AddressTypeOK
  <1>8. OwnRow(r)'
    <2> SUFFICES ASSUME p \in {"writeAddress", "clearDefault"}
                 PROVE  /\ call[r].id \in Requests => pc'[call[r].id] \in Answers
                        /\ addresses[call[r].id] # None =>
                                addresses[call[r].id].user = call[r].user
      BY <1>2, <1>5, <1>7 DEF OwnRow
    <2>1. Found(r)
      OBVIOUS
    <2>2. call[r].id \in Requests => pc[call[r].id] \in Answers
      BY <2>1 DEF Found, AddressInv, StoredIsAnswered
    <2>3. call[r].id # r
      BY <2>2 DEF findAddress, Answers
    <2> QED
      BY <1>2, <2>1, <2>2, <2>3 DEF Found, Moves, CallsOK
  <1>9. addresses[r] = None /\ pc[r] \notin Answers
    BY DEF findAddress, AddressInv, StoredIsAnswered, Answers
  <1>10. p \notin {"insertAddress", "writeAddress"} \/ call'[r].default # TRUE
    BY <1>2 DEF ToWrite, Write
  <1>11. AddressInv'
    <2> HIDE DEF p
    <2> QED
      BY <1>2, <1>3, <1>6, <1>7, <1>8, <1>9, <1>10, QuietAddressStep
  <1> QED
    BY <1>2, <1>3, <1>4, <1>11

LEMMA DeleteAddressKeeps ==
    ASSUME CallsOK, AddressInv, NEW r \in Requests, deleteAddress(r)
    PROVE  CallsOK' /\ AddressInv' /\ Moves(r, "ok", None)
  <1>1. Moves(r, "ok", None) /\ call' = call
    BY GotoMoves DEF deleteAddress, End
  <1>2. CallsOK' /\ pc'[r] = "ok"
    BY <1>1, CallsStayOK DEF Seen, Answers, Moves, CallsOK
  <1>3. call[r] \in AddressCall /\ call[r].op = "dropAddress"
    BY DEF deleteAddress, AddressInv, AddressFits, AddressStatements
  <1>4. addresses' = [addresses EXCEPT ![call[r].id] = None] /\ crowded' = crowded
    BY DEF deleteAddress, PutAddress
  <1>5. AddressTypeOK'
    BY <1>3, <1>4, AddressCallParts DEF AddressInv, AddressTypeOK
  <1>6. AddressFits(r)' /\ OwnRow(r)'
    BY <1>2 DEF AddressFits, OwnRow, AddressStatements
  <1>7. \A a \in AddressIds : addresses'[a] # None => addresses'[a] = addresses[a]
    BY <1>4 DEF AddressInv, AddressTypeOK
  <1> QED
    BY <1>1, <1>2, <1>4, <1>5, <1>6, <1>7, QuietAddressStep DEF Answers

(* The flag is cleared, and the user crowded or the request the one writer. *)
LEMMA ClearDefaultKeeps ==
    ASSUME CallsOK, AddressInv, NEW r \in Requests, clearDefault(r)
    PROVE  /\ CallsOK' /\ AddressInv'
           /\ \E p \in AddressStatements : Moves(r, p, None)
  <1> DEFINE p == Write(call[r].op)
             me == call[r].user
  <1>1. Moves(r, p, None) /\ call' = call /\ pc[r] = "clearDefault"
    BY GotoMoves DEF clearDefault
  <1>2. p \in {"insertAddress", "writeAddress"}
    BY DEF Write
  <1>3. CallsOK' /\ pc'[r] = p
    BY <1>1, <1>2, CallsStayOK DEF Seen, AddressStatements, Moves, CallsOK
  <1>4. /\ call[r] \in AddressCall /\ call[r].default = TRUE
        /\ call[r].op \in {"addAddress", "changeAddress"}
    BY <1>1 DEF AddressInv, AddressFits, AddressStatements
  <1>5. me \in Customers
    BY <1>4, AddressCallParts
  <1>6. \A a \in AddressIds :
            addresses'[a] = IF a \in DefaultsOf(me) THEN [addresses[a] EXCEPT !.default = FALSE]
                                                    ELSE addresses[a]
    BY DEF clearDefault
  <1>7. \A a \in AddressIds : addresses[a] # None => addresses[a] \in Address
    BY DEF AddressInv, AddressTypeOK
  <1>8. \A a \in AddressIds : addresses'[a] # None =>
                /\ addresses[a] # None
                /\ addresses'[a] \in Address
                /\ addresses'[a].user = addresses[a].user
                /\ addresses'[a].default => addresses[a].default
                /\ ~ (addresses'[a].user = me /\ addresses'[a].default)
    <2> TAKE a \in AddressIds
    <2>1. CASE a \in DefaultsOf(me)
      BY <2>1, <1>5, <1>6, <1>7 DEF DefaultsOf, Address
    <2>2. CASE a \notin DefaultsOf(me)
      BY <2>2, <1>6, <1>7 DEF DefaultsOf
    <2> QED
      BY <2>1, <2>2
  <1>9. AddressTypeOK' /\ crowded \subseteq crowded'
    <2>1. addresses' = [a \in AddressIds |-> addresses'[a]]
      BY DEF clearDefault
    <2>2. addresses' \in [AddressIds -> Address \cup {None}]
      BY <1>8, <2>1
    <2> QED
      BY <2>2, <1>5 DEF clearDefault, AddressInv, AddressTypeOK
  <1>10. \A q \in Requests : AddressFits(q)' /\ OwnRow(q)'
    <2>1. AddressFits(r)'
      BY <1>1, <1>3, <1>4 DEF AddressFits, Write
    <2>2. OwnRow(r)'
      <3> SUFFICES ASSUME call[r].op = "changeAddress"
                   PROVE  LET a == call[r].id IN
                          /\ a \in Requests => pc'[a] \in Answers
                          /\ addresses'[a] # None => addresses'[a].user = call[r].user
        BY <1>1, <1>3, <1>4 DEF OwnRow, Write
      <3>1. LET a == call[r].id IN
            /\ a \in Requests => pc[a] \in Answers
            /\ addresses[a] # None => addresses[a].user = call[r].user
        BY <1>1 DEF AddressInv, OwnRow
      <3>2. call[r].id \in AddressIds /\ call[r].id # r
        BY <1>1, <1>4, <3>1, AddressCallParts DEF Answers
      <3>3. call[r].id \in Requests => pc'[call[r].id] = pc[call[r].id]
        BY <1>1, <3>2 DEF Moves, CallsOK
      <3> QED
        BY <3>1, <3>2, <3>3, <1>8
    <2> QED
      BY <1>1, <1>8, <2>1, <2>2, OthersFit DEF Answers
  <1>11. StoredIsAnswered'
    BY <1>1, <1>8 DEF StoredIsAnswered, AddressInv, Moves, CallsOK, AddressIds, Answers
  <1>12. ASSUME NEW u \in Customers \ crowded' PROVE Orderly(u)'
    <2>1. DefaultsOf(u)' \subseteq DefaultsOf(u)
      BY <1>8 DEF DefaultsOf
    <2>2. CASE u = me
      <3>1. Writers(u) = {}
        BY <2>2, <1>5, <1>12 DEF clearDefault
      <3>2. Writers(u)' \subseteq {r}
        BY <3>1, <1>1 DEF Writers, Moves, CallsOK
      <3>3. DefaultsOf(u)' = {}
        BY <2>2, <1>8 DEF DefaultsOf
      <3> QED
        BY <3>2, <3>3 DEF Orderly
    <2>3. CASE u # me
      <3>1. Writers(u)' \subseteq Writers(u)
        BY <2>3, <1>1 DEF Writers, Moves, CallsOK
      <3> QED
        BY <1>9, <3>1, <2>1, FewerIsOrderly DEF AddressInv
    <2> QED
      BY <2>2, <2>3
  <1> QED
    BY <1>1, <1>2, <1>3, <1>9, <1>10, <1>11, <1>12 DEF AddressInv, AddressStatements

(* A row is stored: that of the one writer, or one that is no default.     *)
LEMMA StoredIsOrderly ==
    ASSUME CallsOK, AddressInv, NEW r \in Requests, NEW u \in Customers \ crowded,
           Moves(r, "ok", None), pc[r] \in {"insertAddress", "writeAddress"},
           NEW a \in AddressIds, NEW row \in Address,
           addresses' = [addresses EXCEPT ![a] = row],
           call[r].user = row.user,
           row.default => call[r].default = TRUE \/ a \in DefaultsOf(row.user)
    PROVE  Orderly(u)'
  <1>1. Writers(u)' \subseteq Writers(u)
    BY DEF Writers, Moves, CallsOK
  <1>2. CASE call[r].default = TRUE /\ u = row.user
    <2>1. r \in Writers(u)
      BY <1>2 DEF Writers
    <2>2. Writers(u) = {r} /\ DefaultsOf(u) = {}
      BY <2>1 DEF AddressInv, Orderly
    <2>3. Writers(u)' = {}
      BY <1>1, <2>2 DEF Writers, Moves, CallsOK
    <2>4. DefaultsOf(u)' \subseteq {a}
      BY <2>2 DEF DefaultsOf, AddressInv, AddressTypeOK
    <2> QED
      BY <2>3, <2>4 DEF Orderly
  <1>3. CASE ~ (call[r].default = TRUE /\ u = row.user)
    <2>1. DefaultsOf(u)' \subseteq DefaultsOf(u)
      BY <1>3 DEF DefaultsOf, AddressInv, AddressTypeOK
    <2> QED
      BY <1>1, <2>1, FewerIsOrderly DEF AddressInv
  <1> QED
    BY <1>2, <1>3

LEMMA InsertAddressKeeps ==
    ASSUME CallsOK, AddressInv, NEW r \in Requests, insertAddress(r)
    PROVE  CallsOK' /\ AddressInv' /\ Moves(r, "ok", None)
  <1> DEFINE row == [user |-> call[r].user, default |-> call[r].default = TRUE]
  <1>1. Moves(r, "ok", None) /\ call' = call /\ pc[r] = "insertAddress"
    BY GotoMoves DEF insertAddress, End
  <1>2. CallsOK' /\ pc'[r] = "ok"
    BY <1>1, CallsStayOK DEF Seen, Answers, Moves, CallsOK
  <1>3. call[r] \in AddressCall
    BY <1>1 DEF AddressInv, AddressFits, AddressStatements
  <1>4. row \in Address
    BY <1>3, AddressCallParts DEF Address
  <1>5. addresses' = [addresses EXCEPT ![r] = row] /\ crowded' = crowded /\ r \in AddressIds
    BY DEF insertAddress, PutAddress, AddressIds
  <1>6. AddressTypeOK'
    BY <1>4, <1>5 DEF AddressInv, AddressTypeOK
  <1>7. \A q \in Requests : AddressFits(q)' /\ OwnRow(q)'
    <2>1. AddressFits(r)' /\ OwnRow(r)'
      BY <1>2 DEF AddressFits, OwnRow, AddressStatements
    <2>2. \A a \in AddressIds : a = r \/ addresses'[a] = addresses[a]
      BY <1>5 DEF AddressInv, AddressTypeOK
    <2>3. pc[r] \notin Answers
      BY <1>1 DEF Answers
    <2> QED
      BY <1>1, <2>1, <2>2, <2>3, OthersFit
  <1>8. StoredIsAnswered'
    BY <1>2, <1>1, <1>5 DEF StoredIsAnswered, AddressInv, AddressTypeOK, Moves, CallsOK, Answers
  <1>9. ASSUME NEW u \in Customers \ crowded PROVE Orderly(u)'
    <2> HIDE DEF row
    <2>1. row.user = call[r].user /\ (row.default => call[r].default = TRUE)
      BY DEF row
    <2> QED
      BY <1>1, <1>4, <1>5, <2>1, StoredIsOrderly
  <1> QED
    BY <1>1, <1>2, <1>5, <1>6, <1>7, <1>8, <1>9 DEF AddressInv

LEMMA WriteAddressKeeps ==
    ASSUME CallsOK, AddressInv, NEW r \in Requests, writeAddress(r)
    PROVE  CallsOK' /\ AddressInv' /\ Moves(r, "ok", None)
  <1> DEFINE a == call[r].id
             row == [addresses[a] EXCEPT !.default = IF call[r].default = None
                                                     THEN @ ELSE call[r].default]
  <1>1. Moves(r, "ok", None) /\ call' = call /\ pc[r] = "writeAddress"
    BY GotoMoves DEF writeAddress, End
  <1>2. CallsOK' /\ pc'[r] = "ok"
    BY <1>1, CallsStayOK DEF Seen, Answers, Moves, CallsOK
  <1>3. /\ call[r] \in AddressCall /\ call[r].op = "changeAddress"
        /\ a \in AddressIds /\ call[r].default \in BOOLEAN \cup {None}
    <2>1. call[r] \in AddressCall /\ call[r].op = "changeAddress"
      BY <1>1 DEF AddressInv, AddressFits, AddressStatements
    <2> QED
      BY <2>1, AddressCallParts
  <1>4. addresses[a] \in Address /\ addresses[a] # None
    BY <1>3 DEF writeAddress, AddressInv, AddressTypeOK
  <1>5. /\ addresses[a].user = call[r].user
        /\ a \in Requests => pc[a] \in Answers
    BY <1>1, <1>4 DEF AddressInv, OwnRow
  <1>6. /\ row \in Address
        /\ row.user = addresses[a].user
        /\ row.default => call[r].default = TRUE \/ a \in DefaultsOf(row.user)
    BY <1>3, <1>4, AddressAssumption DEF Address, DefaultsOf
  <1>7. addresses' = [addresses EXCEPT ![a] = row] /\ crowded' = crowded
    BY DEF writeAddress, PutAddress
  <1> HIDE DEF a, row
  <1>8. AddressTypeOK'
    BY <1>3, <1>6, <1>7 DEF AddressInv, AddressTypeOK
  <1>9. \A b \in AddressIds : addresses'[b] # None =>
            addresses[b] # None /\ addresses'[b].user = addresses[b].user
    BY <1>3, <1>4, <1>6, <1>7 DEF AddressInv, AddressTypeOK
  <1>10. \A q \in Requests : AddressFits(q)' /\ OwnRow(q)'
    <2>1. AddressFits(r)' /\ OwnRow(r)'
      BY <1>2 DEF AddressFits, OwnRow, AddressStatements
    <2>2. pc[r] \notin Answers
      BY <1>1 DEF Answers
    <2> QED
      BY <1>1, <1>9, <2>1, <2>2, OthersFit
  <1>11. StoredIsAnswered'
    BY <1>2, <1>1, <1>9 DEF StoredIsAnswered, AddressInv, AddressIds, Moves, CallsOK, Answers
  <1>12. ASSUME NEW u \in Customers \ crowded PROVE Orderly(u)'
    <2>1. call[r].user = row.user
      BY <1>5, <1>6
    <2> QED
      BY <1>1, <1>3, <1>6, <1>7, <2>1, StoredIsOrderly
  <1> QED
    BY <1>1, <1>2, <1>7, <1>8, <1>10, <1>11, <1>12 DEF AddressInv

LEMMA AddressStepKeeps ==
    ASSUME CallsOK, AddressInv, NEW r \in Requests, AddressStep(r)
    PROVE  /\ CallsOK' /\ AddressInv'
           /\ pc[r] \in AddressStatements \cup {"idle"}
           /\ \E p \in AddressStatements \cup Answers, x \in {None, seen[r]} : Moves(r, p, x)
  <1>1. CASE AddressStart(r)
    BY <1>1, AddressStartKeeps
  <1>2. CASE clearDefault(r)
    BY <1>2, ClearDefaultKeeps DEF clearDefault, AddressStatements
  <1>3. CASE insertAddress(r)
    BY <1>3, InsertAddressKeeps DEF insertAddress, AddressStatements, Answers
  <1>4. CASE findAddress(r)
    BY <1>4, FindAddressKeeps DEF findAddress, AddressStatements
  <1>5. CASE writeAddress(r)
    BY <1>5, WriteAddressKeeps DEF writeAddress, AddressStatements, Answers
  <1>6. CASE deleteAddress(r)
    BY <1>6, DeleteAddressKeeps DEF deleteAddress, AddressStatements, Answers
  <1> QED
    BY <1>1, <1>2, <1>3, <1>4, <1>5, <1>6 DEF AddressStep

(* A request of the other service, or one that fails, leaves them alone.   *)
LEMMA AddressesUntouched ==
    ASSUME CallsOK, AddressInv, NEW r \in Requests, NEW p, NEW x, Moves(r, p, x),
           p \in SessionStatements \cup Answers, pc[r] \notin Answers,
           UNCHANGED addressVars
    PROVE  AddressInv'
  <1>1. addresses' = addresses /\ crowded' = crowded /\ AddressTypeOK'
    BY DEF addressVars, AddressInv, AddressTypeOK
  <1>2. pc'[r] = p
    BY DEF Moves, CallsOK
  <1>3. p \notin AddressStatements
    BY DEF SessionStatements, AddressStatements, Answers
  <1>4. AddressFits(r)' /\ OwnRow(r)'
    BY <1>2, <1>3 DEF AddressFits, OwnRow, AddressStatements
  <1>5. addresses[r] = None
    BY DEF AddressInv, StoredIsAnswered
  <1>6. p \notin {"insertAddress", "writeAddress"}
    BY <1>3 DEF AddressStatements
  <1> QED
    BY <1>1, <1>4, <1>5, <1>6, QuietAddressStep

-----------------------------------------------------------------------------
(* Sessions.                                                               *)

(* What a request at a statement of AuthService has asked and holds: the   *)
(* account it links is there, so is the token it was given, and the row it *)
(* read of that token still tells its family.                              *)
SessionFits(r) ==
    LET c == call[r] IN
    /\ pc[r] \in {"register", "createUser", "login", "google", "byEmail", "link", "createGoogle"}
            => c.email \in Emails
    /\ pc[r] \in {"google", "byEmail", "link", "createGoogle"} => c.id \in GoogleIds
    /\ pc[r] = "link" => users[c.email] # None
    /\ pc[r] = "issue" => seen[r] \in Emails
    /\ pc[r] \in {"refresh", "revokeFamily", "revoke", "rotate", "logout", "revokeOne"}
            => c.token \in Ids /\ tokens[c.token] # None
    /\ pc[r] \in {"revokeFamily", "revoke", "rotate"}
            => seen[r] \in Token /\ seen[r].family = tokens[c.token].family
    /\ pc[r] = "rotate" => tokens[c.token].revoked

IssuedIsDone == \A r \in Requests : tokens[r] # None => pc[r] \in {"readUser"} \cup Answers

(* A family began with a token of its name.                                *)
FamiliesBegan == \A i \in Ids : tokens[i] # None => tokens[tokens[i].family] # None

RacedStand == \A t \in raced : tokens[t] # None

(* Who holds the same token unrevoked has been noticed.                    *)
RacesSeen == \A q, r \in Requests :
    pc[q] = "revoke" /\ pc[r] = "revoke" /\ call[q].token = call[r].token
    => q = r \/ call[r].token \in raced

(* The inductive form of ForkNeedsRace: a session has one head.            *)
OneHead == \A f, i, j \in Ids : i \in Heads(f) /\ j \in Heads(f) => i = j \/ RacedFamily(f)

SessionInv ==
    /\ SessionsTypeOK
    /\ \A r \in Requests : SessionFits(r)
    /\ IssuedIsDone
    /\ FamiliesBegan
    /\ RacedStand
    /\ RacesSeen
    /\ OneHead

LEMMA SessionCallParts ==
    ASSUME NEW c \in SessionCall
    PROVE  /\ c.op \in {"register", "login", "google", "refresh", "logout"}
           /\ c.op \in {"register", "login", "google"} => c.email \in Emails
           /\ c.op = "google" => c.id \in GoogleIds
           /\ c.op \in {"refresh", "logout"} => c.token \in Ids
  BY DEF SessionCall

LEMMA TokenRows ==
    ASSUME SessionsTypeOK, NEW i \in Ids, tokens[i] # None
    PROVE  /\ tokens[i] \in Token
           /\ tokens[i].family \in Ids /\ tokens[i].user \in Emails
           /\ tokens[i].revoked \in BOOLEAN
  BY DEF SessionsTypeOK, Token

(* Accounts do not vanish; nor do tokens, which keep their family and are  *)
(* never good again.                                                       *)
UsersStand == \A e \in Emails : users[e] # None => users'[e] # None

TokenKept(i) == tokens[i] # None =>
    /\ tokens'[i] # None
    /\ tokens'[i].family = tokens[i].family
    /\ tokens[i].revoked => tokens'[i].revoked

LEMMA OthersSessionsFit ==
    ASSUME CallsOK, SessionInv, NEW r \in Requests, NEW p, NEW x, Moves(r, p, x),
           UsersStand, \A i \in Ids : TokenKept(i),
           NEW q \in Requests \ {r}
    PROVE  SessionFits(q)'
  <1>1. pc'[q] = pc[q] /\ call'[q] = call[q] /\ seen'[q] = seen[q]
    BY DEF CallsOK, Moves
  <1>2. SessionFits(q)
    BY DEF SessionInv
  <1> QED
    BY <1>1, <1>2 DEF SessionFits, UsersStand, TokenKept

(* The heads after a step that revokes tokens and takes nothing back: each *)
(* was one, or is a refresh whose token, a head, was revoked by another.   *)
RevokingStep(r, p) ==
    /\ \A i \in Ids : TokenKept(i) /\ (tokens[i] = None => tokens'[i] = None)
    /\ p = "rotate" => pc[r] = "revoke" /\ seen'[r] = seen[r] /\ call'[r] = call[r]
    /\ p = "revoke" => ~ tokens'[call'[r].token].revoked
    /\ raced \subseteq raced'

LEMMA HeadsHadHeads ==
    ASSUME CallsOK, SessionInv, NEW r \in Requests, NEW p, NEW x, Moves(r, p, x),
           RevokingStep(r, p), SessionFits(r)',
           NEW f \in Ids, NEW i \in Ids, i \in Heads(f)'
    PROVE  \E h \in Heads(f) :
              \/ h = i
              \/ /\ Live(h, f) /\ ~ Live(h, f)'
                 /\ i \in Requests /\ pc[i] = "revoke" /\ call[i].token = h
                 /\ i \notin Heads(f)
  <1>1. CASE Live(i, f)'
    <2>1. Live(i, f)
      BY <1>1 DEF Live, RevokingStep, TokenKept
    <2> QED
      BY <2>1 DEF Heads
  <1>2. CASE Carries(i, f)'
    <2>1. i \in Requests
      BY <1>2 DEF Carries
    <2>2. /\ pc[i] \in {"revoke", "rotate"}
          /\ seen'[i] = seen[i] /\ call'[i] = call[i] /\ seen[i].family = f
      BY <1>2, <2>1 DEF Carries, RevokingStep, Moves, CallsOK
    <2> PICK t : t = call[i].token
      OBVIOUS
    <2>3. SessionFits(i)
      BY <2>1 DEF SessionInv
    <2>4. t \in Ids /\ tokens[t] # None /\ tokens[t].family = f
      BY <2>2, <2>3 DEF SessionFits
    <2>5. tokens'[t].revoked /\ tokens[t].revoked \in BOOLEAN
      <3>1. CASE i = r
        BY <3>1, <1>2, <2>2, <2>4, TokenRows DEF Carries, SessionFits, Moves, CallsOK, SessionInv
      <3>2. CASE i # r
        <4>1. pc'[i] = pc[i]
          BY <3>2, <2>1 DEF Moves, CallsOK
        <4> QED
          BY <4>1, <1>2, <2>2, <2>3, <2>4, TokenRows
          DEF Carries, SessionFits, SessionInv, RevokingStep, TokenKept
      <3> QED
        BY <3>1, <3>2
    <2>6. CASE Carries(i, f)
      BY <2>6 DEF Heads
    <2>7. CASE ~ Carries(i, f)
      <3>1. pc[i] = "revoke" /\ ~ tokens[t].revoked
        BY <2>7, <2>1, <2>2 DEF Carries
      <3>2. Live(t, f) /\ ~ Live(t, f)'
        BY <3>1, <2>4, <2>5 DEF Live
      <3>3. tokens[i] = None
        BY <3>1, <2>1 DEF SessionInv, IssuedIsDone, Answers
      <3>4. i \notin Heads(f)
        BY <2>7, <3>3 DEF Heads, Live
      <3> QED
        BY <3>1, <3>2, <3>4, <2>1, <2>4 DEF Heads
    <2> QED
      BY <2>6, <2>7
  <1> QED
    BY <1>1, <1>2 DEF Heads

LEMMA RacesStand ==
    ASSUME SessionInv, raced \subseteq raced', \A i \in Ids : TokenKept(i), NEW f, RacedFamily(f)
    PROVE  RacedFamily(f)'
  <1>1. PICK t \in raced : tokens[t].family = f
    BY DEF RacedFamily
  <1>2. t \in Ids /\ tokens[t] # None
    BY DEF SessionInv, SessionsTypeOK, RacedStand
  <1>3. tokens'[t].family = f /\ t \in raced'
    BY <1>1, <1>2 DEF TokenKept
  <1> QED
    BY <1>3 DEF RacedFamily

LEMMA OneHeadRevoking ==
    ASSUME CallsOK, SessionInv, NEW r \in Requests, NEW p, NEW x, Moves(r, p, x),
           RevokingStep(r, p), SessionFits(r)'
    PROVE  OneHead' /\ \A f \in Ids : Ended(f) => Ended(f)'
  <1>1. ASSUME NEW f \in Ids, NEW i \in Ids, NEW j \in Ids,
               i \in Heads(f)', j \in Heads(f)', ~ RacedFamily(f)'
        PROVE  i = j
    <2>1. ~ RacedFamily(f)
      BY <1>1, RacesStand DEF RevokingStep
    <2>2. PICK h \in Heads(f) : 
              \/ h = i
              \/ /\ Live(h, f) /\ ~ Live(h, f)'
                 /\ i \in Requests /\ pc[i] = "revoke" /\ call[i].token = h
                 /\ i \notin Heads(f)
      BY <1>1, HeadsHadHeads
    <2>3. PICK g \in Heads(f) : 
              \/ g = j
              \/ /\ Live(g, f) /\ ~ Live(g, f)'
                 /\ j \in Requests /\ pc[j] = "revoke" /\ call[j].token = g
                 /\ j \notin Heads(f)
      BY <1>1, HeadsHadHeads
    <2>4. h \in Ids /\ g \in Ids
      BY DEF Heads
    <2>5. g = h
      BY <2>1, <2>4 DEF SessionInv, OneHead
    <2>6. \A t \in Ids : Live(t, f) /\ ~ Live(t, f)' => t \notin Heads(f)'
      <3> SUFFICES ASSUME NEW t \in Ids, Live(t, f), Carries(t, f)' PROVE FALSE
        BY DEF Heads
      <3>1. t \in Requests /\ pc'[t] \in {"revoke", "rotate"}
        BY DEF Carries
      <3>2. pc[t] \in {"readUser"} \cup Answers
        BY <3>1 DEF Live, SessionInv, IssuedIsDone
      <3>3. t = r
        BY <3>1, <3>2 DEF Moves, CallsOK, Answers
      <3>4. pc'[r] = p /\ p = "revoke"
        BY <3>1, <3>2, <3>3 DEF RevokingStep, Moves, CallsOK, Answers
      <3>5. /\ SessionFits(r)' /\ tokens'[call'[r].token].revoked
        BY <3>3, <3>4 DEF Carries
      <3> QED
        BY <3>4, <3>5 DEF RevokingStep
    <2>7. i \in Heads(f) /\ j \in Heads(f) => i = j
      BY <2>1 DEF SessionInv, OneHead
    <2>8. i \notin Heads(f) /\ j \notin Heads(f) => i = j
      <3> SUFFICES ASSUME i \notin Heads(f), j \notin Heads(f), i # j PROVE FALSE
        OBVIOUS
      <3>1. h \in raced /\ Live(h, f)
        BY <2>2, <2>3, <2>5 DEF SessionInv, RacesSeen
      <3> QED
        BY <3>1, <2>1 DEF RacedFamily, Live
    <2> QED
      BY <1>1, <2>2, <2>3, <2>4, <2>5, <2>6, <2>7, <2>8
  <1>2. ASSUME NEW f \in Ids, Ended(f) PROVE Ended(f)'
    <2>1. tokens'[f] # None
      BY <1>2 DEF Ended, RevokingStep, TokenKept
    <2>2. ASSUME NEW i \in Heads(f)' PROVE FALSE
      BY <1>2, HeadsHadHeads DEF Ended, Heads
    <2> QED
      BY <2>1, <2>2 DEF Ended
  <1> QED
    BY <1>1, <1>2 DEF OneHead

(* A step sound for the sessions: what the theorems about them need.       *)
SessionsSound == SessionInv' /\ \A f \in Ids : Ended(f) => Ended(f)'

LEMMA RevokingIsSound ==
    ASSUME CallsOK, SessionInv, NEW r \in Requests, NEW p, NEW x, Moves(r, p, x),
           RevokingStep(r, p), SessionFits(r)', SessionsTypeOK', UsersStand,
           pc[r] \in {"readUser"} \cup Answers => p \in Answers,
           RacesSeen', RacedStand'
    PROVE  SessionsSound
  <1>1. \A q \in Requests : SessionFits(q)'
    BY OthersSessionsFit DEF RevokingStep
  <1>2. IssuedIsDone'
    BY DEF SessionInv, IssuedIsDone, RevokingStep, Moves, CallsOK, Ids
  <1>3. FamiliesBegan'
    <2> SUFFICES ASSUME NEW i \in Ids, tokens'[i] # None
                 PROVE  tokens'[tokens'[i].family] # None
      BY DEF FamiliesBegan
    <2>1. tokens[i] # None /\ tokens'[i].family = tokens[i].family
      BY DEF RevokingStep, TokenKept
    <2>2. tokens[i].family \in Ids /\ tokens[tokens[i].family] # None
      BY <2>1, TokenRows DEF SessionInv, FamiliesBegan
    <2> QED
      BY <2>1, <2>2 DEF RevokingStep, TokenKept
  <1> QED
    BY <1>1, <1>2, <1>3, OneHeadRevoking DEF SessionInv, SessionsSound

(* Nor does the token of another refresh change hands.                     *)
LEMMA NoNewRace ==
    ASSUME CallsOK, SessionInv, NEW r \in Requests, NEW p, NEW x, Moves(r, p, x),
           p # "revoke", raced' = raced, \A i \in Ids : TokenKept(i)
    PROVE  RacesSeen' /\ RacedStand'
  <1>1. RacesSeen'
    BY DEF RacesSeen, SessionInv, Moves, CallsOK
  <1>2. RacedStand'
    BY DEF RacedStand, SessionInv, SessionsTypeOK, TokenKept
  <1> QED
    BY <1>1, <1>2

(* Nothing is revoked or stored: most statements.                          *)
LEMMA QuietIsSound ==
    ASSUME CallsOK, SessionInv, NEW r \in Requests, NEW p, NEW x, Moves(r, p, x),
           p \notin {"revoke", "rotate"}, tokens' = tokens, raced' = raced,
           UsersStand, users' \in [Emails -> User \cup {None}], SessionFits(r)',
           pc[r] \in {"readUser"} \cup Answers => p \in Answers
    PROVE  SessionsSound
  <1>1. \A i \in Ids : TokenKept(i)
    BY DEF TokenKept
  <1>2. RevokingStep(r, p)
    BY <1>1 DEF RevokingStep
  <1>3. SessionsTypeOK'
    BY DEF SessionInv, SessionsTypeOK
  <1>4. RacesSeen' /\ RacedStand'
    BY <1>1, NoNewRace
  <1> QED
    BY <1>2, <1>3, <1>4, RevokingIsSound

(* The statements of AuthService, one by one.                              *)
SessionGoal(r) ==
    /\ CallsOK' /\ SessionsSound
    /\ pc[r] \in SessionStatements \cup {"idle"}
    /\ \E p \in SessionStatements \cup Answers, x \in Seen : Moves(r, p, x)

LEMMA SessionsStartSound ==
    ASSUME CallsOK, SessionInv, NEW r \in Requests, SessionsStart(r)
    PROVE  SessionGoal(r)
  <1>1. PICK c \in Calls \cap SessionCall :
            /\ c.op \in {"refresh", "logout"} => tokens[c.token] # None
            /\ Begin(r, c, c.op)
            /\ UNCHANGED sessionVars
    BY DEF SessionsStart
  <1>2. Moves(r, c.op, seen[r]) /\ call'[r] = c /\ pc[r] = "idle"
    BY <1>1, BeginMoves
  <1>3. c.op \in {"register", "login", "google", "refresh", "logout"}
    BY SessionCallParts
  <1>4. c.op \in SessionStatements \cup Answers /\ seen[r] \in Seen
    BY <1>3 DEF SessionStatements, CallsOK
  <1>5. CallsOK' /\ pc'[r] = c.op
    BY <1>2, <1>4, CallsStayOK DEF Moves, CallsOK
  <1>6. UNCHANGED <<users, tokens, raced>> /\ UsersStand
    BY <1>1 DEF sessionVars, UsersStand
  <1>7. SessionFits(r)'
    BY <1>1, <1>2, <1>3, <1>5, <1>6, SessionCallParts DEF SessionFits
  <1>8. SessionsSound
    <2>1. c.op \notin {"revoke", "rotate"} /\ pc[r] \notin {"readUser"} \cup Answers
      BY <1>2, <1>3 DEF Answers
    <2>2. users' \in [Emails -> User \cup {None}]
      BY <1>6 DEF SessionInv, SessionsTypeOK
    <2> QED
      BY <1>2, <1>6, <1>7, <2>1, <2>2, QuietIsSound
  <1> QED
    BY <1>2, <1>4, <1>5, <1>8 DEF SessionGoal

(* Statements that store at most an account.                               *)
LEMMA AccountStatementSound ==
    ASSUME CallsOK, SessionInv, NEW r \in Requests, NEW x \in Seen,
           NEW p \in {"createUser", "issue", "byEmail", "createGoogle", "link", "revokeFamily",
                      "revokeOne", "ok", "refused"},
           Goto(r, p, x), tokens' = tokens, raced' = raced,
           UsersStand, users' \in [Emails -> User \cup {None}],
           pc[r] \in SessionStatements,
           pc[r] = "readUser" => p = "ok",
           LET c == call[r] IN
           /\ p \in {"createUser", "byEmail", "createGoogle", "link"} => c.email \in Emails
           /\ p \in {"byEmail", "createGoogle", "link"} => c.id \in GoogleIds
           /\ p = "link" => users[c.email] # None
           /\ p = "issue" => x \in Emails
           /\ p \in {"revokeFamily", "revokeOne"} => c.token \in Ids /\ tokens[c.token] # None
           /\ p = "revokeFamily" => x \in Token /\ x.family = tokens[c.token].family
    PROVE  SessionGoal(r)
  <1>1. Moves(r, p, x) /\ call' = call
    BY GotoMoves
  <1>2. p \in SessionStatements \cup Answers
    BY DEF SessionStatements, Answers
  <1>3. CallsOK' /\ pc'[r] = p /\ seen'[r] = x
    BY <1>1, <1>2, CallsStayOK DEF Moves, CallsOK
  <1>4. SessionFits(r)'
    BY <1>1, <1>3 DEF SessionFits, UsersStand
  <1>5. p \notin {"revoke", "rotate"} /\ (pc[r] \in {"readUser"} \cup Answers => p \in Answers)
    BY DEF SessionStatements, Answers
  <1>6. SessionsSound
    BY <1>1, <1>4, <1>5, QuietIsSound
  <1> QED
    BY <1>1, <1>2, <1>3, <1>6 DEF SessionGoal

LEMMA StoredUsers ==
    ASSUME SessionInv, NEW e \in Emails, NEW row \in User, PutUser(e, row)
    PROVE  /\ UsersStand /\ users' \in [Emails -> User \cup {None}]
           /\ tokens' = tokens /\ raced' = raced
  BY SessionsAssumption DEF PutUser, UsersStand, SessionInv, SessionsTypeOK

LEMMA SameUsers ==
    ASSUME SessionInv, UNCHANGED sessionVars
    PROVE  /\ UsersStand /\ users' \in [Emails -> User \cup {None}]
           /\ users' = users /\ tokens' = tokens /\ raced' = raced
  BY DEF sessionVars, UsersStand, SessionInv, SessionsTypeOK

LEMMA RegisterLoginSound ==
    ASSUME CallsOK, SessionInv, NEW r \in Requests,
           registerFind(r) \/ registerCreate(r) \/ loginFind(r)
    PROVE  SessionGoal(r)
  <1> USE DEF SessionStatements, Seen
  <1>0. SessionFits(r)
    BY DEF SessionInv
  <1>1. CASE registerFind(r)
    <2> DEFINE p == IF users[call[r].email] = None THEN "createUser" ELSE "refused"
    <2>1. Goto(r, p, None) /\ pc[r] = "register" /\ call[r].email \in Emails
      BY <1>0, <1>1 DEF registerFind, End, SessionFits
    <2> QED
      BY <1>1, <2>1, SameUsers, AccountStatementSound DEF registerFind
  <1>2. CASE registerCreate(r)
    <2>1. call[r].email \in Emails /\ pc[r] = "createUser" /\ Goto(r, "ok", None)
      BY <1>0, <1>2 DEF registerCreate, SessionFits, End
    <2>2. [password |-> TRUE, google |-> None, active |-> TRUE] \in User
      BY DEF User
    <2> QED
      BY <1>2, <2>1, <2>2, StoredUsers, AccountStatementSound DEF registerCreate
  <1>3. CASE loginFind(r)
    <2>1. call[r].email \in Emails /\ pc[r] = "login"
      BY <1>0, <1>3 DEF loginFind, SessionFits
    <2>2. Goto(r, "issue", call[r].email) \/ Goto(r, "refused", None)
      BY <1>3 DEF loginFind, End
    <2> QED
      BY <1>3, <2>1, <2>2, SameUsers, AccountStatementSound DEF loginFind
  <1> QED
    BY <1>1, <1>2, <1>3

LEMMA GoogleSound ==
    ASSUME CallsOK, SessionInv, NEW r \in Requests,
           googleFindByOAuth(r) \/ googleFindByEmail(r) \/ googleLink(r) \/ googleCreate(r)
    PROVE  SessionGoal(r)
  <1> USE DEF SessionStatements, Seen
  <1>0. SessionFits(r)
    BY DEF SessionInv
  <1>1. CASE googleFindByOAuth(r)
    <2>1. pc[r] = "google" /\ call[r].email \in Emails /\ call[r].id \in GoogleIds
      BY <1>0, <1>1 DEF googleFindByOAuth, SessionFits
    <2>2. \/ Goto(r, "byEmail", None) \/ Goto(r, "refused", None)
          \/ \E e \in Emails : Goto(r, "issue", e)
      BY <1>1 DEF googleFindByOAuth, SignInIfActive, End, LinkedTo
    <2>3. UNCHANGED sessionVars
      BY <1>1 DEF googleFindByOAuth
    <2> QED
      BY <2>1, <2>2, <2>3, SameUsers, AccountStatementSound
  <1>2. CASE googleFindByEmail(r)
    <2>1. pc[r] = "byEmail" /\ call[r].email \in Emails /\ call[r].id \in GoogleIds
      BY <1>0, <1>2 DEF googleFindByEmail, SessionFits
    <2>2. \/ Goto(r, "createGoogle", None) \/ Goto(r, "refused", None)
          \/ Goto(r, "link", None) /\ users[call[r].email] # None
      BY <1>2 DEF googleFindByEmail, End
    <2>3. UNCHANGED sessionVars
      BY <1>2 DEF googleFindByEmail
    <2> QED
      BY <2>1, <2>2, <2>3, SameUsers, AccountStatementSound
  <1>3. CASE googleLink(r)
    <2>1. /\ pc[r] = "link" /\ call[r].email \in Emails /\ call[r].id \in GoogleIds
          /\ users[call[r].email] # None
      BY <1>0, <1>3 DEF googleLink, SessionFits
    <2>2. [users[call[r].email] EXCEPT !.google = call[r].id] \in User
      BY <2>1 DEF SessionInv, SessionsTypeOK, User
    <2> QED
      BY <1>3, <2>1, <2>2, StoredUsers, AccountStatementSound DEF googleLink
  <1>4. CASE googleCreate(r)
    <2>1. pc[r] = "createGoogle" /\ call[r].email \in Emails /\ call[r].id \in GoogleIds
      BY <1>0, <1>4 DEF googleCreate, SessionFits
    <2>2. [password |-> FALSE, google |-> call[r].id, active |-> TRUE] \in User
      BY <2>1 DEF User
    <2> QED
      BY <1>4, <2>1, <2>2, StoredUsers, AccountStatementSound DEF googleCreate
  <1> QED
    BY <1>1, <1>2, <1>3, <1>4

LEMMA ReadersSound ==
    ASSUME CallsOK, SessionInv, NEW r \in Requests,
           refreshReadUser(r) \/ logoutFind(r)
    PROVE  SessionGoal(r)
  <1> USE DEF SessionStatements, Seen
  <1>1. CASE refreshReadUser(r)
    <2>1. pc[r] = "readUser" /\ Goto(r, "ok", None) /\ UNCHANGED sessionVars
      BY <1>1 DEF refreshReadUser, End
    <2> QED
      BY <2>1, SameUsers, AccountStatementSound
  <1>2. CASE logoutFind(r)
    <2>1. /\ pc[r] = "logout" /\ Goto(r, "revokeOne", tokens[call[r].token])
          /\ UNCHANGED sessionVars
      BY <1>2 DEF logoutFind
    <2>2. call[r].token \in Ids /\ tokens[call[r].token] # None
      BY <2>1 DEF SessionInv, SessionFits
    <2>3. tokens[call[r].token] \in Seen
      BY <2>2, TokenRows DEF SessionInv
    <2> HIDE DEF Seen
    <2> QED
      BY <2>1, <2>2, <2>3, SameUsers, AccountStatementSound
  <1> QED
    BY <1>1, <1>2

(* refresh reads its token: good, and held by another, it is raced.        *)
LEMMA RefreshFindSound ==
    ASSUME CallsOK, SessionInv, NEW r \in Requests, refreshFind(r)
    PROVE  SessionGoal(r)
  <1> PICK t : t = call[r].token
    OBVIOUS
  <1>1. pc[r] = "refresh" /\ t \in Ids /\ tokens[t] # None
    BY DEF refreshFind, SessionInv, SessionFits
  <1>2. tokens[t] \in Token
    BY <1>1, TokenRows DEF SessionInv
  <1>3. users' = users /\ tokens' = tokens
    BY DEF refreshFind
  <1>4. UsersStand /\ users' \in [Emails -> User \cup {None}]
    BY <1>3 DEF UsersStand, SessionInv, SessionsTypeOK
  <1>5. CASE tokens[t].revoked
    <2>1. Goto(r, "revokeFamily", tokens[t])
      BY <1>5 DEF refreshFind
    <2>2. raced' = raced
      BY <2>1, <1>1 DEF refreshFind, Goto, CallsOK
    <2> QED
      BY <1>1, <1>2, <1>3, <1>4, <2>1, <2>2, AccountStatementSound DEF SessionStatements, Seen
  <1>6. CASE ~ tokens[t].revoked /\ tokens[t].expired
    <2>1. Goto(r, "refused", None)
      BY <1>6 DEF refreshFind, End
    <2>2. raced' = raced
      BY <2>1, <1>1 DEF refreshFind, Goto, CallsOK
    <2> QED
      BY <1>1, <1>3, <1>4, <2>1, <2>2, AccountStatementSound DEF SessionStatements, Seen
  <1>7. CASE ~ tokens[t].revoked /\ ~ tokens[t].expired
    <2>1. Goto(r, "revoke", tokens[t])
      BY <1>7 DEF refreshFind
    <2>2. Moves(r, "revoke", tokens[t]) /\ call' = call
      BY <2>1, GotoMoves
    <2>3. CallsOK' /\ pc'[r] = "revoke" /\ seen'[r] = tokens[t]
      BY <1>2, <2>2, CallsStayOK DEF Moves, CallsOK, SessionStatements, Seen
    <2>4. raced' = IF Holders(t) # {} THEN raced \cup {t} ELSE raced
      BY <2>3 DEF refreshFind
    <2>5. \A i \in Ids : TokenKept(i)
      BY <1>3 DEF TokenKept
    <2>6. RevokingStep(r, "revoke")
      BY <1>3, <1>7, <2>2, <2>4, <2>5 DEF RevokingStep
    <2>7. SessionFits(r)'
      BY <1>1, <1>2, <1>3, <2>2, <2>3 DEF SessionFits
    <2>8. SessionsTypeOK' /\ RacedStand'
      BY <1>1, <1>3, <2>4 DEF SessionInv, SessionsTypeOK, RacedStand
    <2>9. RacesSeen'
      BY <1>1, <2>2, <2>4 DEF RacesSeen, SessionInv, Moves, CallsOK, Holders
    <2>10. SessionsSound
      <3>1. pc[r] \notin {"readUser"} \cup Answers
        BY <1>1 DEF Answers
      <3> QED
        BY <1>4, <2>2, <2>6, <2>7, <2>8, <2>9, <3>1, RevokingIsSound
    <2> QED
      BY <1>1, <1>2, <2>2, <2>3, <2>10 DEF SessionGoal, SessionStatements, Seen
  <1> QED
    BY <1>5, <1>6, <1>7

(* Tokens are revoked: the one presented, or its family.                   *)
LEMMA OneRevoked ==
    ASSUME SessionInv, NEW t \in Ids, tokens[t] # None, Revoke(t)
    PROVE  /\ \A i \in Ids : TokenKept(i) /\ (tokens[i] = None => tokens'[i] = None)
           /\ SessionsTypeOK' /\ tokens'[t].revoked
           /\ UsersStand /\ raced' = raced
  <1>1. [tokens[t] EXCEPT !.revoked = TRUE] \in Token /\ tokens[t] \in Token
    BY DEF SessionInv, SessionsTypeOK, Token
  <1>2. tokens' = [tokens EXCEPT ![t] = [tokens[t] EXCEPT !.revoked = TRUE]]
    BY DEF Revoke, PutToken
  <1>3. [tokens[t] EXCEPT !.revoked = TRUE].family = tokens[t].family
    BY <1>1 DEF Token
  <1> QED
    BY <1>1, <1>2, <1>3, SessionsAssumption
    DEF Revoke, PutToken, SessionInv, SessionsTypeOK, TokenKept, UsersStand, Token

LEMMA FamilyRevoked ==
    ASSUME SessionInv, NEW r \in Requests, refreshRevokeFamily(r)
    PROVE  /\ \A i \in Ids : TokenKept(i) /\ (tokens[i] = None => tokens'[i] = None)
           /\ SessionsTypeOK' /\ UsersStand /\ raced' = raced
  <1> DEFINE Hit(i) == tokens[i] # None /\ tokens[i].family = seen[r].family
  <1>1. tokens' = [i \in Ids |-> IF Hit(i) THEN [tokens[i] EXCEPT !.revoked = TRUE] ELSE tokens[i]]
    BY DEF refreshRevokeFamily
  <1>2. ASSUME NEW i \in Ids
        PROVE  /\ TokenKept(i) /\ (tokens[i] = None => tokens'[i] = None)
               /\ tokens'[i] \in Token \cup {None}
    <2>1. CASE Hit(i)
      <3>1. tokens[i] \in Token /\ tokens'[i] = [tokens[i] EXCEPT !.revoked = TRUE]
        BY <1>1, <2>1, TokenRows DEF SessionInv
      <3>2. tokens'[i] \in Token /\ tokens'[i].family = tokens[i].family /\ tokens'[i].revoked
        BY <3>1 DEF Token
      <3> QED
        BY <2>1, <3>2, SessionsAssumption DEF TokenKept
    <2>2. CASE ~ Hit(i)
      BY <1>1, <2>2 DEF TokenKept, SessionInv, SessionsTypeOK
    <2> QED
      BY <2>1, <2>2
  <1>3. tokens' \in [Ids -> Token \cup {None}]
    BY <1>1, <1>2
  <1> QED
    BY <1>2, <1>3 DEF refreshRevokeFamily, SessionInv, SessionsTypeOK, UsersStand

LEMMA RevokersSound ==
    ASSUME CallsOK, SessionInv, NEW r \in Requests,
           refreshRevokeFamily(r) \/ refreshRevoke(r) \/ logoutRevoke(r)
    PROVE  SessionGoal(r)
  <1>0. SessionFits(r)
    BY DEF SessionInv
  <1>1. CASE refreshRevokeFamily(r)
    <2>1. Moves(r, "reused", None) /\ pc[r] = "revokeFamily"
      BY <1>1, GotoMoves DEF refreshRevokeFamily, End
    <2>2. CallsOK' /\ pc'[r] = "reused"
      BY <2>1, CallsStayOK DEF Moves, CallsOK, Seen, Answers
    <2>3. SessionFits(r)'
      BY <2>2 DEF SessionFits
    <2>4. RevokingStep(r, "reused")
      BY <1>1, FamilyRevoked DEF RevokingStep
    <2>5. RacesSeen' /\ RacedStand' /\ SessionsTypeOK' /\ UsersStand
      BY <1>1, <2>1, FamilyRevoked, NoNewRace
    <2>6. SessionsSound
      BY <2>1, <2>3, <2>4, <2>5, RevokingIsSound DEF Answers
    <2> QED
      BY <2>1, <2>2, <2>6 DEF SessionGoal, SessionStatements, Answers, Seen
  <1>2. CASE refreshRevoke(r)
    <2> PICK t : t = call[r].token
      OBVIOUS
    <2>1. Moves(r, "rotate", seen[r]) /\ call' = call /\ pc[r] = "revoke" /\ Revoke(t)
      BY <1>2, GotoMoves DEF refreshRevoke
    <2>2. CallsOK' /\ pc'[r] = "rotate" /\ seen'[r] = seen[r]
      BY <2>1, CallsStayOK DEF Moves, CallsOK, SessionStatements
    <2>3. t \in Ids /\ tokens[t] # None /\ seen[r] \in Token /\ seen[r].family = tokens[t].family
      BY <1>0, <2>1 DEF SessionFits
    <2>4. SessionFits(r)'
      BY <2>1, <2>2, <2>3, OneRevoked DEF SessionFits, TokenKept
    <2>5. RevokingStep(r, "rotate")
      BY <2>1, <2>2, <2>3, OneRevoked DEF RevokingStep
    <2>6. RacesSeen' /\ RacedStand' /\ SessionsTypeOK' /\ UsersStand
      BY <2>1, <2>3, OneRevoked, NoNewRace
    <2>7. SessionsSound
      BY <2>1, <2>4, <2>5, <2>6, RevokingIsSound DEF Answers
    <2> QED
      BY <2>1, <2>2, <2>3, <2>7 DEF SessionGoal, SessionStatements, Seen
  <1>3. CASE logoutRevoke(r)
    <2> PICK t : t = call[r].token
      OBVIOUS
    <2>1. Moves(r, "ok", None) /\ pc[r] = "revokeOne" /\ Revoke(t)
      BY <1>3, GotoMoves DEF logoutRevoke, End
    <2>2. CallsOK' /\ pc'[r] = "ok"
      BY <2>1, CallsStayOK DEF Moves, CallsOK, Seen, Answers
    <2>3. t \in Ids /\ tokens[t] # None
      BY <1>0, <2>1 DEF SessionFits
    <2>4. SessionFits(r)'
      BY <2>2 DEF SessionFits
    <2>5. RevokingStep(r, "ok")
      BY <2>3, <2>1, OneRevoked DEF RevokingStep
    <2>6. RacesSeen' /\ RacedStand' /\ SessionsTypeOK' /\ UsersStand
      BY <2>1, <2>3, OneRevoked, NoNewRace
    <2>7. SessionsSound
      BY <2>1, <2>4, <2>5, <2>6, RevokingIsSound DEF Answers
    <2> QED
      BY <2>1, <2>2, <2>7 DEF SessionGoal, SessionStatements, Answers, Seen
  <1> QED
    BY <1>1, <1>2, <1>3

(* A token is stored: for a session that was carried, or for a new one.    *)
LEMMA StoredIsSound ==
    ASSUME CallsOK, SessionInv, NEW r \in Requests, NEW p \in {"readUser", "ok"},
           Moves(r, p, None), pc[r] \in {"rotate", "issue"},
           NEW u \in Emails, NEW f \in Ids, PutToken(r, NewToken(u, f)),
           \/ Carries(r, f) /\ tokens[f] # None
           \/ f = r /\ pc[r] = "issue"
    PROVE  SessionsSound
  <1>0. r \in Ids /\ pc'[r] = p
    BY DEF Ids, Moves, CallsOK
  <1>1. tokens[r] = None
    BY DEF SessionInv, IssuedIsDone, Answers
  <1>2. NewToken(u, f) \in Token /\ NewToken(u, f) # None /\ NewToken(u, f).family = f
    <2>1. NewToken(u, f) \in Token /\ NewToken(u, f).family = f
      BY DEF NewToken, Token
    <2> QED
      BY <2>1, SessionsAssumption
  <1>3. /\ tokens' = [tokens EXCEPT ![r] = NewToken(u, f)]
        /\ users' = users /\ raced' = raced
    BY DEF PutToken
  <1>4. /\ \A i \in Ids : TokenKept(i) /\ (i # r => tokens'[i] = tokens[i])
        /\ tokens'[r] = NewToken(u, f)
    BY <1>0, <1>1, <1>3 DEF SessionInv, SessionsTypeOK, TokenKept
  <1>5. SessionsTypeOK' /\ UsersStand
    BY <1>2, <1>3 DEF SessionInv, SessionsTypeOK, UsersStand
  <1>6. \A q \in Requests : SessionFits(q)'
    <2>1. SessionFits(r)'
      BY <1>0 DEF SessionFits
    <2> QED
      BY <2>1, <1>4, <1>5, OthersSessionsFit
  <1>7. IssuedIsDone'
    BY <1>0, <1>4 DEF IssuedIsDone, SessionInv, Moves, CallsOK, Ids, Answers
  <1>8. FamiliesBegan'
    <2> SUFFICES ASSUME NEW i \in Ids, tokens'[i] # None
                 PROVE  tokens'[tokens'[i].family] # None
      BY DEF FamiliesBegan
    <2>1. CASE i = r
      BY <2>1, <1>2, <1>4 DEF TokenKept
    <2>2. CASE i # r
      <3>1. tokens[i].family \in Ids /\ tokens[tokens[i].family] # None
        BY <2>2, <1>4, TokenRows DEF SessionInv, FamiliesBegan
      <3> QED
        BY <2>2, <3>1, <1>4 DEF TokenKept
    <2> QED
      BY <2>1, <2>2
  <1>9. RacesSeen' /\ RacedStand'
    BY <1>3, <1>4, NoNewRace
  <1>10. ASSUME NEW g \in Ids, NEW i \in Ids, i # r, i \in Heads(g)'
         PROVE  i \in Heads(g)
    <2>1. CASE Live(i, g)'
      BY <1>10, <2>1, <1>4 DEF Live, Heads
    <2>2. CASE Carries(i, g)'
      <3>1. i \in Requests
        BY <2>2 DEF Carries
      <3>2. pc'[i] = pc[i] /\ seen'[i] = seen[i] /\ call'[i] = call[i]
        BY <1>10, <3>1 DEF Moves, CallsOK
      <3>3. pc[i] = "revoke" => call[i].token \in Ids /\ tokens[call[i].token] # None
        BY <3>1 DEF SessionInv, SessionFits
      <3>4. pc[i] = "revoke" => tokens'[call[i].token] = tokens[call[i].token]
        BY <3>3, <1>1, <1>4
      <3> QED
        BY <2>2, <3>2, <3>4 DEF Carries, Heads
    <2> QED
      BY <1>10, <2>1, <2>2 DEF Heads
  <1>11. \A g \in Ids : r \in Heads(g)' => g = f
    BY <1>0, <1>2, <1>4 DEF Heads, Live, Carries
  <1>12. CASE Carries(r, f) /\ tokens[f] # None
    <2>1. \A g \in Ids : Heads(g)' \subseteq Heads(g)
      BY <1>0, <1>10, <1>11, <1>12 DEF Heads
    <2>2. OneHead'
      BY <2>1, <1>3, <1>4, RacesStand DEF OneHead, SessionInv
    <2>3. \A g \in Ids : Ended(g) => Ended(g)'
      BY <2>1, <1>4 DEF Ended, TokenKept
    <2> QED
      BY <2>2, <2>3, <1>5, <1>6, <1>7, <1>8, <1>9 DEF SessionsSound, SessionInv
  <1>13. CASE f = r /\ pc[r] = "issue"
    <2>1. Heads(r) = {}
      <3>1. ASSUME NEW i \in Ids, Live(i, r) PROVE FALSE
        BY <3>1, <1>1 DEF Live, SessionInv, FamiliesBegan
      <3>2. ASSUME NEW i \in Ids, Carries(i, r) PROVE FALSE
        <4>1. SessionFits(i) /\ pc[i] \in {"revoke", "rotate"} /\ seen[i].family = r
          BY <3>2 DEF Carries, SessionInv
        <4> QED
          BY <4>1, <1>1 DEF SessionFits, SessionInv, FamiliesBegan
      <3> QED
        BY <3>1, <3>2 DEF Heads
    <2>2. \A g \in Ids : g # r => Heads(g)' \subseteq Heads(g)
      BY <1>10, <1>11, <1>13 DEF Heads
    <2>3. Heads(r)' \subseteq {r}
      BY <2>1, <1>0, <1>10 DEF Heads
    <2>4. OneHead'
      BY <2>2, <2>3, <1>3, <1>4, RacesStand DEF OneHead, SessionInv
    <2>5. \A g \in Ids : Ended(g) => Ended(g)'
      BY <2>2, <1>1, <1>4 DEF Ended, TokenKept
    <2> QED
      BY <2>4, <2>5, <1>5, <1>6, <1>7, <1>8, <1>9 DEF SessionsSound, SessionInv
  <1> QED
    BY <1>12, <1>13

LEMMA WritersOfTokensSound ==
    ASSUME CallsOK, SessionInv, NEW r \in Requests, issueToken(r) \/ refreshRotate(r)
    PROVE  SessionGoal(r)
  <1>0. SessionFits(r)
    BY DEF SessionInv
  <1>1. CASE issueToken(r)
    <2>1. Moves(r, "ok", None) /\ pc[r] = "issue" /\ seen[r] \in Emails
      BY <1>0, <1>1, GotoMoves DEF issueToken, End, SessionFits
    <2>2. CallsOK'
      BY <2>1, CallsStayOK DEF Seen, Answers
    <2>3. PutToken(r, NewToken(seen[r], r)) /\ r \in Ids
      BY <1>1 DEF issueToken, Ids
    <2>4. SessionsSound
      BY <2>1, <2>3, StoredIsSound
    <2> QED
      BY <2>1, <2>2, <2>4 DEF SessionGoal, SessionStatements, Answers, Seen
  <1>2. CASE refreshRotate(r)
    <2>1. Moves(r, "readUser", None) /\ pc[r] = "rotate" /\ seen[r] \in Token
      BY <1>0, <1>2, GotoMoves DEF refreshRotate, SessionFits
    <2>2. CallsOK'
      BY <2>1, CallsStayOK DEF Seen, SessionStatements
    <2>3. PutToken(r, NewToken(seen[r].user, seen[r].family))
      BY <1>2 DEF refreshRotate
    <2>4. seen[r].user \in Emails /\ seen[r].family \in Ids
      BY <2>1 DEF Token
    <2>5. Carries(r, seen[r].family)
      BY <2>1 DEF Carries
    <2>6. tokens[seen[r].family] # None
      BY <1>0, <2>1 DEF SessionFits, SessionInv, FamiliesBegan
    <2>7. SessionsSound
      BY <2>1, <2>3, <2>4, <2>5, <2>6, StoredIsSound
    <2> QED
      BY <2>1, <2>2, <2>7 DEF SessionGoal, SessionStatements, Seen
  <1> QED
    BY <1>1, <1>2

LEMMA SessionsStepSound ==
    ASSUME CallsOK, SessionInv, NEW r \in Requests, SessionsStep(r)
    PROVE  SessionGoal(r)
  BY SessionsStartSound, RegisterLoginSound, GoogleSound, ReadersSound, RefreshFindSound,
     RevokersSound, WritersOfTokensSound DEF SessionsStep

(* A request of the other service, or one that fails, leaves them alone.   *)
LEMMA SessionsUntouched ==
    ASSUME CallsOK, SessionInv, NEW r \in Requests, NEW p, NEW x, Moves(r, p, x),
           p \in AddressStatements \cup Answers, pc[r] \notin Answers,
           UNCHANGED sessionVars, pc[r] = "readUser" => p \in Answers
    PROVE  SessionsSound
  <1>1. p \notin {"revoke", "rotate"} /\ p \notin SessionStatements
    BY DEF AddressStatements, SessionStatements, Answers
  <1>2. pc'[r] = p
    BY DEF Moves, CallsOK
  <1>3. SessionFits(r)'
    BY <1>1, <1>2 DEF SessionFits, SessionStatements
  <1>4. pc[r] \in {"readUser"} \cup Answers => p \in Answers
    OBVIOUS
  <1> QED
    BY <1>1, <1>3, <1>4, SameUsers, QuietIsSound

LEMMA ExpireSound ==
    ASSUME CallsOK, SessionInv, NEW t \in Ids, Expire(t)
    PROVE  CallsOK' /\ SessionsSound
  <1>1. call' = call /\ pc' = pc /\ seen' = seen /\ users' = users /\ raced' = raced
    BY DEF Expire, PutToken, callVars
  <1>2. tokens' = [tokens EXCEPT ![t] = [tokens[t] EXCEPT !.expired = TRUE]] /\ tokens[t] # None
    BY DEF Expire, PutToken
  <1>3. /\ [tokens[t] EXCEPT !.expired = TRUE] \in Token
        /\ [tokens[t] EXCEPT !.expired = TRUE].family = tokens[t].family
        /\ [tokens[t] EXCEPT !.expired = TRUE].revoked = tokens[t].revoked
    BY <1>2 DEF SessionInv, SessionsTypeOK, Token
  <1>4. /\ SessionsTypeOK'
        /\ \A i \in Ids : tokens'[i] = None <=> tokens[i] = None
        /\ \A i \in Ids : tokens'[i] # None =>
              tokens'[i].family = tokens[i].family /\ tokens'[i].revoked = tokens[i].revoked
    BY <1>1, <1>2, <1>3, SessionsAssumption DEF SessionInv, SessionsTypeOK
  <1>5. \A q \in Requests : SessionFits(q)'
    BY <1>1, <1>4 DEF SessionInv, SessionFits
  <1>6. IssuedIsDone' /\ RacedStand' /\ RacesSeen'
    BY <1>1, <1>4 DEF SessionInv, SessionsTypeOK, IssuedIsDone, RacedStand, RacesSeen, Ids
  <1>7. FamiliesBegan'
    BY <1>4, TokenRows DEF SessionInv, FamiliesBegan
  <1>8. \A f, i \in Ids : i \in Heads(f)' => i \in Heads(f)
    BY <1>1, <1>4, <1>5 DEF Heads, Live, Carries, SessionInv, SessionFits
  <1>9. \A f \in Ids : RacedFamily(f) => RacedFamily(f)'
    BY <1>1, <1>4 DEF RacedFamily, SessionInv, SessionsTypeOK, RacedStand
  <1>10. OneHead'
    BY <1>8, <1>9 DEF OneHead, SessionInv
  <1>11. \A f \in Ids : Ended(f) => Ended(f)'
    <2>1. \A f \in Ids : Heads(f)' \subseteq Heads(f)
      BY <1>8 DEF Heads
    <2> QED
      BY <2>1, <1>4 DEF Ended
  <1> QED
    BY <1>1, <1>4, <1>5, <1>6, <1>7, <1>10, <1>11 DEF SessionsSound, SessionInv, CallsOK

-----------------------------------------------------------------------------
(* Google.                                                                 *)

GoogleStatements == {"google", "byEmail", "link", "createGoogle"}

AsksGoogle(r) == call[r] # None /\ call[r].op = "google"

LinksUnique == \A e, f \in Emails :
    users[e] # None /\ users[f] # None /\ users[e].google = users[f].google
        => users[e].google = None \/ e = f

(* Account u is linked to profile g, or a request for another profile has  *)
(* named its e-mail.                                                       *)
Relinked(g, u) == \E s \in Requests : AsksGoogle(s) /\ call[s].id # g /\ call[s].email = u
Linked(g, u) == (users[u] # None /\ users[u].google = g) \/ Relinked(g, u)

(* The account a request has found or made, and will get a token of or has.*)
SignedInto(r, u) ==
    \/ pc[r] = "issue" /\ seen[r] = u
    \/ tokens[r] # None /\ tokens[r].user = u

GoogleAsked ==
    \A r \in Requests :
        /\ pc[r] = "idle" => call[r] = None
        /\ pc[r] \in GoogleStatements => AsksGoogle(r)
        /\ AsksGoogle(r) => /\ pc[r] \in GoogleStatements \cup {"issue"} \cup Answers
                            /\ call[r].id \in GoogleIds

GoogleLinked ==
    \A r \in Requests, u \in Emails : \A g :
        AsksGoogle(r) /\ call[r].id = g /\ SignedInto(r, u) => Linked(g, u)

GoogleInv == LinksUnique /\ GoogleAsked /\ GoogleLinked

(* Account e is new, or it is linked as a request asks that names it.      *)
LinkingStep ==
    \/ users' = users
    \/ \E e \in Emails, row \in User :
        /\ PutUser(e, row)
        /\ \/ users[e] = None
           \/ \E s \in Requests :
                AsksGoogle(s) /\ call[s].email = e /\ row.google = call[s].id

LEMMA LinksStayUnique ==
    ASSUME SessionInv, LinksUnique, LinkingStep
    PROVE  LinksUnique'
  <1>1. CASE users' = users
    BY <1>1 DEF LinksUnique
  <1>2. ASSUME NEW e \in Emails, NEW row \in User, PutUser(e, row)
        PROVE  LinksUnique'
    <2>1. \A f \in Emails : users'[f] = IF f = e THEN row ELSE users[f]
      BY <1>2 DEF PutUser, SessionInv, SessionsTypeOK
    <2>2. \A f \in Emails \ {e} :
              users[f] # None /\ users[f].google = row.google => row.google = None
      BY <1>2 DEF PutUser, GoogleIdFree, LinkedTo
    <2> QED
      BY <2>1, <2>2 DEF LinksUnique
  <1> QED
    BY <1>1, <1>2 DEF LinkingStep

(* What was asked stays asked, so that links stay or are explained.        *)
LEMMA LinkedStays ==
    ASSUME SessionInv, LinkingStep, NEW g, NEW u \in Emails, Linked(g, u),
           \A s \in Requests : AsksGoogle(s) => call'[s] = call[s]
    PROVE  Linked(g, u)'
  <1>1. CASE Relinked(g, u)
    <2>1. Relinked(g, u)'
      BY <1>1 DEF Relinked, AsksGoogle
    <2> QED
      BY <2>1 DEF Linked
  <1>2. CASE users[u] # None /\ users[u].google = g
    <2>1. CASE users'[u] = users[u]
      BY <1>2, <2>1 DEF Linked
    <2>2. CASE users'[u] # users[u]
      <3>1. PICK e \in Emails, row \in User :
                /\ PutUser(e, row)
                /\ \/ users[e] = None
                   \/ \E s \in Requests :
                        AsksGoogle(s) /\ call[s].email = e /\ row.google = call[s].id
        BY <2>2 DEF LinkingStep
      <3>2. e = u /\ users'[u] = row
        BY <2>2, <3>1 DEF PutUser, SessionInv, SessionsTypeOK
      <3>3. PICK s \in Requests :
                AsksGoogle(s) /\ call[s].email = u /\ row.google = call[s].id
        BY <1>2, <3>1, <3>2
      <3>4. row # None
        BY SessionsAssumption
      <3>5. CASE call[s].id = g
        BY <3>2, <3>3, <3>4, <3>5 DEF Linked
      <3>6. CASE call[s].id # g
        BY <3>3, <3>6 DEF Linked, Relinked, AsksGoogle
      <3> QED
        BY <3>5, <3>6
    <2> QED
      BY <2>1, <2>2
  <1> QED
    BY <1>1, <1>2 DEF Linked

(* A request moves on; if it signs in, the account it holds is linked.     *)
LEMMA GoogleKept ==
    ASSUME CallsOK, SessionInv, GoogleInv, LinkingStep,
           NEW r \in Requests, NEW p, NEW x, Moves(r, p, x), p # "idle",
           pc[r] = "idle" \/ call' = call,
           p \in GoogleStatements => AsksGoogle(r)',
           AsksGoogle(r)' => p \in GoogleStatements \cup {"issue"} \cup Answers,
           pc[r] = "idle" /\ AsksGoogle(r)' => call'[r].id \in GoogleIds,
           \A g : AsksGoogle(r)' /\ call'[r].id = g /\ p = "issue" => Linked(g, x)',
           \A q \in Requests : \/ tokens'[q] = None
                               \/ tokens[q] # None /\ tokens'[q].user = tokens[q].user
                               \/ q = r /\ ~AsksGoogle(r)'
                               \/ q = r /\ pc[r] = "issue" /\ tokens'[q].user = seen[r]
    PROVE  GoogleInv'
  <1>1. LinksUnique'
    BY LinksStayUnique DEF GoogleInv
  <1>2. \A q \in Requests \ {r} : pc'[q] = pc[q] /\ seen'[q] = seen[q] /\ call'[q] = call[q]
    BY DEF Moves, CallsOK
  <1>3. pc'[r] = p /\ seen'[r] = x
    BY DEF Moves, CallsOK
  <1>4. \A q \in Requests : AsksGoogle(q) => call'[q] = call[q]
    BY <1>2 DEF GoogleInv, GoogleAsked, AsksGoogle
  <1>5. \A q \in Requests \ {r} : AsksGoogle(q)' <=> AsksGoogle(q)
    BY <1>2 DEF AsksGoogle
  <1>6. GoogleAsked'
    <2>1. AsksGoogle(r)' => call'[r].id \in GoogleIds
      BY DEF GoogleInv, GoogleAsked, AsksGoogle
    <2> QED
      BY <1>2, <1>3, <1>5, <2>1 DEF GoogleInv, GoogleAsked
  <1>7. ASSUME NEW q \in Requests, NEW u \in Emails, NEW g,
               AsksGoogle(q)', call'[q].id = g, SignedInto(q, u)'
        PROVE  Linked(g, u)'
    <2>1. CASE q = r /\ p = "issue" /\ x = u
      BY <1>7, <2>1
    <2>2. CASE ~(q = r /\ p = "issue" /\ x = u)
      <3>1. SignedInto(q, u)
        BY <1>2, <1>3, <1>7, <2>2 DEF SignedInto
      <3>2. pc[q] # "idle"
        <4>1. pc[q] = "issue" \/ tokens[q] # None
          BY <3>1 DEF SignedInto
        <4> QED
          BY <4>1 DEF SessionInv, IssuedIsDone, Answers
      <3>3. call'[q] = call[q]
        BY <1>2, <3>2
      <3>4. AsksGoogle(q)
        BY <1>7, <3>3 DEF AsksGoogle
      <3>5. Linked(g, u)
        BY <1>7, <3>1, <3>3, <3>4 DEF GoogleInv, GoogleLinked
      <3> QED
        BY <1>4, <3>5, LinkedStays
    <2> QED
      BY <2>1, <2>2
  <1>8. GoogleLinked'
    BY <1>7 DEF GoogleLinked
  <1> QED
    BY <1>1, <1>6, <1>8 DEF GoogleInv

(* A request that asks for something else may store what it likes, in its  *)
(* own name.                                                               *)
LEMMA OthersKeepGoogle ==
    ASSUME CallsOK, SessionInv, GoogleInv, LinkingStep,
           NEW r \in Requests, NEW p, NEW x, Moves(r, p, x), call' = call,
           pc[r] \notin GoogleStatements \cup {"issue"} \cup Answers,
           p \notin GoogleStatements, p # "idle",
           \A q \in Requests : \/ tokens'[q] = None
                               \/ tokens[q] # None /\ tokens'[q].user = tokens[q].user
                               \/ q = r
    PROVE  GoogleInv'
  <1>1. ~AsksGoogle(r)
    BY DEF GoogleInv, GoogleAsked
  <1>2. ~AsksGoogle(r)'
    BY <1>1 DEF AsksGoogle
  <1> QED
    BY <1>2, GoogleKept

LEMMA StartKeepsGoogle ==
    ASSUME CallsOK, SessionInv, GoogleInv, NEW r \in Requests,
           SessionsStart(r) \/ (AddressStart(r) /\ UNCHANGED sessionVars)
    PROVE  GoogleInv'
  <1>1. PICK c \in Calls, p \in {"clearDefault", "insertAddress", "writeAddress", "findAddress",
                                 "register", "login", "google", "refresh", "logout"} :
            /\ Begin(r, c, p) /\ UNCHANGED sessionVars
            /\ c.op = "google" <=> p = "google"
            /\ p = "google" => c.id \in GoogleIds
    <2>1. CASE SessionsStart(r)
      <3>1. PICK c \in Calls \cap SessionCall : Begin(r, c, c.op) /\ UNCHANGED sessionVars
        BY <2>1 DEF SessionsStart
      <3>2. /\ c.op \in {"register", "login", "google", "refresh", "logout"}
            /\ c.op = "google" => c.id \in GoogleIds
        BY SessionCallParts
      <3> QED
        BY <3>1, <3>2
    <2>2. CASE AddressStart(r) /\ UNCHANGED sessionVars
      <3>1. PICK c \in Calls \cap AddressCall :
                Begin(r, c, IF c.op = "addAddress" THEN ToWrite(c) ELSE "findAddress")
        BY <2>2 DEF AddressStart
      <3>2. c.op # "google"
        BY AddressCallParts
      <3>3. (IF c.op = "addAddress" THEN ToWrite(c) ELSE "findAddress")
                \in {"clearDefault", "insertAddress", "writeAddress", "findAddress"}
        BY DEF ToWrite, Write
      <3> QED
        BY <2>2, <3>1, <3>2, <3>3
    <2> QED
      BY <2>1, <2>2
  <1>2. Moves(r, p, seen[r]) /\ call'[r] = c /\ pc[r] = "idle"
    BY <1>1, BeginMoves
  <1>3. AsksGoogle(r)' <=> p = "google"
    BY <1>1, <1>2, SessionsAssumption DEF AsksGoogle
  <1>4. LinkingStep /\ tokens' = tokens
    BY <1>1 DEF LinkingStep, sessionVars
  <1>5. /\ p # "idle" /\ p # "issue"
        /\ p \in GoogleStatements <=> p = "google"
    BY DEF GoogleStatements
  <1>6. AsksGoogle(r)' => call'[r].id \in GoogleIds
    BY <1>1, <1>2, <1>3
  <1>7. \A q \in Requests : tokens'[q] = tokens[q]
    BY <1>4
  <1> QED
    BY <1>2, <1>3, <1>4, <1>5, <1>6, <1>7, GoogleKept

LEMMA GoogleStatementsKeep ==
    ASSUME CallsOK, SessionInv, GoogleInv, NEW r \in Requests,
           googleFindByOAuth(r) \/ googleFindByEmail(r) \/ googleLink(r) \/ googleCreate(r)
    PROVE  GoogleInv'
  <1>0. /\ pc[r] \in GoogleStatements /\ SessionFits(r)
        /\ AsksGoogle(r)
    BY DEF googleFindByOAuth, googleFindByEmail, googleLink, googleCreate, GoogleStatements,
           SessionInv, GoogleInv, GoogleAsked
  <1>1. call[r].email \in Emails /\ call[r].id \in GoogleIds
    BY <1>0 DEF SessionFits, GoogleStatements
  <1>3. CASE \E p \in {"byEmail", "createGoogle", "link", "refused"} :
                Goto(r, p, None) /\ UNCHANGED sessionVars
    <2>1. PICK p \in {"byEmail", "createGoogle", "link", "refused"} :
                Goto(r, p, None) /\ UNCHANGED sessionVars
      BY <1>3
    <2>2. Moves(r, p, None) /\ call' = call
      BY <2>1, GotoMoves
    <2>3. AsksGoogle(r)'
      BY <1>0, <2>2 DEF AsksGoogle
    <2>4. LinkingStep /\ tokens' = tokens
      BY <2>1 DEF LinkingStep, sessionVars
    <2>5. /\ p \in GoogleStatements \cup {"issue"} \cup Answers /\ p # "issue" /\ p # "idle"
          /\ pc[r] # "idle"
      BY <1>0 DEF GoogleStatements, Answers
    <2> QED
      BY <2>2, <2>3, <2>4, <2>5, GoogleKept
  <1>4. ASSUME NEW e \in Emails, Goto(r, "issue", e), LinkingStep, tokens' = tokens,
               users'[e] # None, users'[e].google = call[r].id
        PROVE  GoogleInv'
    <2>1. Moves(r, "issue", e) /\ call' = call
      BY <1>4, GotoMoves
    <2>2. AsksGoogle(r)' /\ "issue" \notin GoogleStatements /\ pc[r] # "idle"
      BY <1>0, <2>1 DEF AsksGoogle, GoogleStatements
    <2>3. ASSUME NEW g, call'[r].id = g PROVE Linked(g, e)'
      BY <1>4, <2>1, <2>3 DEF Linked
    <2> QED
      BY <1>4, <2>1, <2>2, <2>3, GoogleKept
  <1>5. CASE googleFindByOAuth(r)
    <2>1. CASE LinkedTo(call[r].id) = {}
      BY <1>3, <1>5, <2>1 DEF googleFindByOAuth
    <2>2. CASE LinkedTo(call[r].id) # {}
      <3>1. PICK e \in LinkedTo(call[r].id) : SignInIfActive(r, e)
        BY <1>5, <2>2 DEF googleFindByOAuth
      <3>2. UNCHANGED sessionVars /\ users' = users /\ tokens' = tokens /\ LinkingStep
        BY <1>5 DEF googleFindByOAuth, sessionVars, LinkingStep
      <3>3. e \in Emails /\ users[e] # None /\ users[e].google = call[r].id
        BY <3>1 DEF LinkedTo
      <3> QED
        BY <1>3, <1>4, <3>1, <3>2, <3>3 DEF SignInIfActive, End
    <2> QED
      BY <2>1, <2>2
  <1>6. CASE googleFindByEmail(r)
    BY <1>3, <1>6 DEF googleFindByEmail, End
  <1>7. ASSUME NEW row \in User, PutUser(call[r].email, row), row.google = call[r].id,
               Goto(r, "issue", call[r].email)
        PROVE  GoogleInv'
    <2>1. LinkingStep /\ tokens' = tokens
      BY <1>0, <1>1, <1>7 DEF LinkingStep, PutUser
    <2>2. users'[call[r].email] = row
      BY <1>1, <1>7 DEF PutUser, SessionInv, SessionsTypeOK
    <2>3. PICK e \in Emails : e = call[r].email
      BY <1>1
    <2>4. users'[e] = row /\ row # None /\ Goto(r, "issue", e)
      BY <1>7, <2>2, <2>3, SessionsAssumption DEF PutUser
    <2> QED
      BY <1>4, <1>7, <2>1, <2>4
  <1>8. CASE googleLink(r)
    <2>1. users[call[r].email] # None
      BY <1>0, <1>8 DEF googleLink, SessionFits
    <2>2. /\ [users[call[r].email] EXCEPT !.google = call[r].id] \in User
          /\ [users[call[r].email] EXCEPT !.google = call[r].id].google = call[r].id
      BY <1>1, <2>1 DEF SessionInv, SessionsTypeOK, User
    <2> QED
      BY <1>7, <1>8, <2>2 DEF googleLink
  <1>9. CASE googleCreate(r)
    <2>1. [password |-> FALSE, google |-> call[r].id, active |-> TRUE] \in User
      BY <1>1 DEF User
    <2> QED
      BY <1>7, <1>9, <2>1 DEF googleCreate
  <1> QED
    BY <1>5, <1>6, <1>8, <1>9

(* The token is that of the account the request holds.                     *)
LEMMA IssueKeepsGoogle ==
    ASSUME CallsOK, SessionInv, GoogleInv, NEW r \in Requests, issueToken(r)
    PROVE  GoogleInv'
  <1>1. Moves(r, "ok", None) /\ call' = call /\ pc[r] = "issue"
    BY GotoMoves DEF issueToken, End
  <1>2. /\ tokens' = [tokens EXCEPT ![r] = NewToken(seen[r], r)] /\ LinkingStep
        /\ r \in Ids
    BY DEF issueToken, PutToken, LinkingStep, Ids
  <1>3. \A q \in Requests : \/ tokens'[q] = tokens[q]
                            \/ q = r /\ pc[r] = "issue" /\ tokens'[q].user = seen[r]
    BY <1>1, <1>2 DEF NewToken, SessionInv, SessionsTypeOK, Ids
  <1>4. "ok" \in Answers /\ "ok" \notin GoogleStatements
    BY DEF Answers, GoogleStatements
  <1> QED
    BY <1>1, <1>2, <1>3, <1>4, GoogleKept

LEMMA AccountsKeepGoogle ==
    ASSUME CallsOK, SessionInv, GoogleInv, NEW r \in Requests,
           registerFind(r) \/ registerCreate(r) \/ loginFind(r)
    PROVE  GoogleInv'
  <1>1. /\ pc[r] \in {"register", "createUser", "login"} /\ call[r].email \in Emails
        /\ tokens' = tokens
        /\ \E p \in {"createUser", "issue", "ok", "refused"} : \E x : Goto(r, p, x)
    BY DEF registerFind, registerCreate, loginFind, SessionInv, SessionFits, sessionVars,
           PutUser, End
  <1>2. LinkingStep
    <2>1. [password |-> TRUE, google |-> None, active |-> TRUE] \in User
      BY DEF User
    <2> QED
      BY <1>1, <2>1 DEF registerFind, registerCreate, loginFind, sessionVars, LinkingStep
  <1>2a. PICK p \in {"createUser", "issue", "ok", "refused"} : \E x : Goto(r, p, x)
    BY <1>1
  <1>3. PICK x : Goto(r, p, x)
    BY <1>2a
  <1>4. Moves(r, p, x) /\ call' = call
    BY <1>3, GotoMoves
  <1>5. /\ pc[r] \notin GoogleStatements \cup {"issue"} \cup Answers
        /\ p \notin GoogleStatements /\ p # "idle"
    BY <1>1 DEF GoogleStatements, Answers
  <1> QED
    BY <1>1, <1>2, <1>4, <1>5, OthersKeepGoogle

(* refresh and logout: no account changes, no token changes hands.         *)
LEMMA TokensKeepGoogle ==
    ASSUME CallsOK, SessionInv, GoogleInv, NEW r \in Requests,
           \/ refreshFind(r) \/ refreshRevokeFamily(r) \/ refreshRevoke(r) \/ refreshRotate(r)
           \/ refreshReadUser(r) \/ logoutFind(r) \/ logoutRevoke(r)
    PROVE  GoogleInv'
  <1>1. /\ pc[r] \in {"refresh", "revokeFamily", "revoke", "rotate", "readUser", "logout",
                      "revokeOne"}
        /\ users' = users
        /\ \E p \in {"revokeFamily", "revoke", "rotate", "readUser", "revokeOne", "ok",
                     "refused", "reused"} : \E x : Goto(r, p, x)
    BY DEF refreshFind, refreshRevokeFamily, refreshRevoke, refreshRotate, refreshReadUser,
           logoutFind, logoutRevoke, sessionVars, Revoke, PutToken, End
  <1>2. \A q \in Requests : \/ tokens'[q] = None
                            \/ tokens[q] # None /\ tokens'[q].user = tokens[q].user
                            \/ q = r
    <2>1. CASE tokens' = tokens
      BY <2>1
    <2>2. CASE refreshRevokeFamily(r)
      <3>1. \A i \in Ids : \/ tokens'[i] = tokens[i]
                           \/ tokens[i] # None /\ tokens'[i] = [tokens[i] EXCEPT !.revoked = TRUE]
        BY <2>2 DEF refreshRevokeFamily
      <3>2. \A i \in Ids : tokens[i] # None =>
                [tokens[i] EXCEPT !.revoked = TRUE].user = tokens[i].user
        BY DEF SessionInv, SessionsTypeOK, Token
      <3> QED
        BY <3>1, <3>2 DEF Ids
    <2>3. CASE refreshRevoke(r) \/ logoutRevoke(r)
      <3>1. PICK t \in Ids : /\ tokens[t] # None
                             /\ tokens' = [tokens EXCEPT ![t] = [tokens[t] EXCEPT !.revoked = TRUE]]
        BY <1>1, <2>3 DEF refreshRevoke, logoutRevoke, Revoke, PutToken, SessionInv, SessionFits
      <3>2. [tokens[t] EXCEPT !.revoked = TRUE].user = tokens[t].user
        BY <3>1 DEF SessionInv, SessionsTypeOK, Token
      <3> QED
        BY <3>1, <3>2 DEF Ids, SessionInv, SessionsTypeOK
    <2>4. CASE refreshRotate(r)
      BY <2>4 DEF refreshRotate, PutToken, Ids, SessionInv, SessionsTypeOK
    <2> QED
      BY <2>1, <2>2, <2>3, <2>4 DEF refreshFind, refreshReadUser, logoutFind, sessionVars
  <1>2a. PICK p \in {"revokeFamily", "revoke", "rotate", "readUser", "revokeOne", "ok",
                    "refused", "reused"} : \E x : Goto(r, p, x)
    BY <1>1
  <1>3. PICK x : Goto(r, p, x)
    BY <1>2a
  <1>4. Moves(r, p, x) /\ call' = call
    BY <1>3, GotoMoves
  <1>5. /\ pc[r] \notin GoogleStatements \cup {"issue"} \cup Answers
        /\ p \notin GoogleStatements /\ p # "idle"
    BY <1>1 DEF GoogleStatements, Answers
  <1>6. LinkingStep
    BY <1>1 DEF LinkingStep
  <1> QED
    BY <1>2, <1>4, <1>5, <1>6, OthersKeepGoogle

(* A request of the other service, or one that fails.                      *)
LEMMA AddressKeepsGoogle ==
    ASSUME CallsOK, SessionInv, AddressInv, GoogleInv, NEW r \in Requests,
           AddressStep(r), UNCHANGED sessionVars
    PROVE  GoogleInv'
  <1>1. CASE AddressStart(r)
    BY <1>1, StartKeepsGoogle
  <1>2. CASE ~AddressStart(r)
    <2>1. /\ pc[r] \in {"clearDefault", "insertAddress", "findAddress", "writeAddress",
                        "deleteAddress"}
          /\ \E p, x : Goto(r, p, x)
      BY <1>2 DEF AddressStep, clearDefault, insertAddress, findAddress, writeAddress,
                  deleteAddress, End
    <2>2. call' = call
      BY <2>1 DEF Goto
    <2>3. /\ pc[r] \in AddressStatements \cup {"idle"}
          /\ \E p \in AddressStatements \cup Answers, x \in {None, seen[r]} : Moves(r, p, x)
      BY AddressStepKeeps
    <2>4. PICK p \in AddressStatements \cup Answers, x \in {None, seen[r]} : Moves(r, p, x)
      BY <2>3
    <2>5. /\ pc[r] \notin GoogleStatements \cup {"issue"} \cup Answers
          /\ p \notin GoogleStatements /\ p # "idle"
      BY <2>1 DEF GoogleStatements, AddressStatements, Answers
    <2>6. LinkingStep /\ tokens' = tokens
      BY DEF LinkingStep, sessionVars
    <2> QED
      BY <2>2, <2>4, <2>5, <2>6, OthersKeepGoogle
  <1> QED
    BY <1>1, <1>2

LEMMA FailureKeepsGoogle ==
    ASSUME CallsOK, SessionInv, GoogleInv, NEW r \in Requests, Fails(r)
    PROVE  GoogleInv'
  <1>1. /\ Moves(r, "failed", None) /\ call' = call /\ UNCHANGED sessionVars
        /\ pc[r] # "idle"
    BY GotoMoves DEF Fails, Abort, Running, End
  <1>2. LinkingStep /\ tokens' = tokens
    BY <1>1 DEF LinkingStep, sessionVars
  <1>3. "failed" \in Answers /\ "failed" \notin GoogleStatements
    BY DEF Answers, GoogleStatements
  <1> QED
    BY <1>1, <1>2, <1>3, GoogleKept

LEMMA ExpiryKeepsGoogle ==
    ASSUME CallsOK, SessionInv, GoogleInv, NEW t \in Ids, Expire(t)
    PROVE  GoogleInv'
  <1>1. call' = call /\ pc' = pc /\ seen' = seen /\ users' = users
    BY DEF Expire, PutToken, callVars
  <1>2. tokens' = [tokens EXCEPT ![t] = [tokens[t] EXCEPT !.expired = TRUE]] /\ tokens[t] # None
    BY DEF Expire, PutToken
  <1>3. [tokens[t] EXCEPT !.expired = TRUE].user = tokens[t].user
    BY <1>2 DEF SessionInv, SessionsTypeOK, Token
  <1>4. \A q \in Requests : tokens'[q] # None => tokens[q] # None /\ tokens'[q].user = tokens[q].user
    BY <1>2, <1>3 DEF SessionInv, SessionsTypeOK, Ids
  <1>5. \A q \in Requests, u \in Emails : SignedInto(q, u)' => SignedInto(q, u)
    BY <1>1, <1>4 DEF SignedInto
  <1>6. \A g, u : Linked(g, u)' <=> Linked(g, u)
    BY <1>1 DEF Linked, Relinked, AsksGoogle
  <1> QED
    BY <1>1, <1>5, <1>6 DEF GoogleInv, LinksUnique, GoogleAsked, GoogleLinked, AsksGoogle

IInv == CallsOK /\ SessionInv /\ AddressInv

LEMMA GoogleInit == Init => GoogleInv
  <1> SUFFICES ASSUME Init PROVE GoogleInv
    OBVIOUS
  <1>1. \A r \in Requests : call[r] = None /\ pc[r] = "idle"
    BY DEF Init, CallsInit
  <1> QED
    BY <1>1 DEF Init, SessionsInit, GoogleInv, LinksUnique, GoogleAsked, GoogleLinked,
                AsksGoogle, GoogleStatements

LEMMA GoogleNext == IInv /\ GoogleInv /\ [Next]_vars => GoogleInv'
  <1> SUFFICES ASSUME IInv, GoogleInv, [Next]_vars PROVE GoogleInv'
    OBVIOUS
  <1>1. CallsOK /\ SessionInv /\ AddressInv
    BY DEF IInv
  <1>2. CASE UNCHANGED vars
    BY <1>2 DEF vars, callVars, sessionVars, GoogleInv, LinksUnique, GoogleAsked, GoogleLinked,
                AsksGoogle, SignedInto, Linked, Relinked
  <1>3. ASSUME NEW r \in Requests, SessionsStep(r) PROVE GoogleInv'
    BY <1>1, <1>3, StartKeepsGoogle, AccountsKeepGoogle, GoogleStatementsKeep,
       IssueKeepsGoogle, TokensKeepGoogle DEF SessionsStep
  <1> QED
    BY <1>1, <1>2, <1>3, AddressKeepsGoogle, FailureKeepsGoogle, ExpiryKeepsGoogle DEF Next

-----------------------------------------------------------------------------
(* The theorems.                                                           *)

LEMMA InitIsSound ==
    ASSUME Init PROVE IInv
  <1>1. CallsOK
    BY DEF Init, CallsInit, CallsOK, Seen
  <1>2. \A r \in Requests : pc[r] = "idle"
    BY DEF Init, CallsInit
  <1>3. AddressInv
    <2>1. AddressTypeOK /\ StoredIsAnswered
      BY DEF Init, AddressInit, AddressTypeOK, StoredIsAnswered
    <2>2. \A r \in Requests : AddressFits(r) /\ OwnRow(r)
      BY <1>2 DEF AddressFits, OwnRow, AddressStatements
    <2>3. \A u \in Customers \ crowded : Orderly(u)
      BY <1>2 DEF Orderly, Writers, Init, AddressInit
    <2> QED
      BY <2>1, <2>2, <2>3 DEF AddressInv
  <1>4. SessionInv
    <2>1. PICK owner \in [OldTokens -> {None} \cup {e \in Emails : users[e] # None}] :
            tokens = [i \in Ids |-> IF i \in OldTokens /\ owner[i] # None
                                    THEN [user |-> owner[i], family |-> i,
                                          revoked |-> FALSE, expired |-> FALSE]
                                    ELSE None]
      BY DEF Init, SessionsInit
    <2>2. ASSUME NEW i \in Ids
          PROVE  /\ tokens[i] \in Token \cup {None}
                 /\ tokens[i] # None => i \in OldTokens /\ tokens[i].family = i
      BY <2>1 DEF Token
    <2>3. tokens \in [Ids -> Token \cup {None}]
      BY <2>1, <2>2
    <2>4. SessionsTypeOK
      BY <2>3 DEF Init, SessionsInit, SessionsTypeOK
    <2>5. \A r \in Requests : SessionFits(r)
      BY <1>2 DEF SessionFits
    <2>6. IssuedIsDone
      BY <2>2, SessionsAssumption DEF IssuedIsDone, Ids
    <2>7. FamiliesBegan
      BY <2>2 DEF FamiliesBegan
    <2>8. RacedStand /\ RacesSeen
      BY <1>2 DEF Init, SessionsInit, RacedStand, RacesSeen
    <2>9. OneHead
      BY <1>2, <2>2 DEF OneHead, Heads, Live, Carries
    <2> QED
      BY <2>4, <2>5, <2>6, <2>7, <2>8, <2>9 DEF SessionInv
  <1> QED
    BY <1>1, <1>3, <1>4 DEF IInv

LEMMA StepIsSound ==
    ASSUME IInv, [Next]_vars
    PROVE  IInv' /\ \A f \in Ids : Ended(f) => Ended(f)'
  <1>1. ASSUME NEW r \in Requests, SessionsStep(r), UNCHANGED addressVars
        PROVE  IInv' /\ \A f \in Ids : Ended(f) => Ended(f)'
    <2>1. SessionGoal(r)
      BY <1>1, SessionsStepSound DEF IInv
    <2>2. PICK p \in SessionStatements \cup Answers, x \in Seen : Moves(r, p, x)
      BY <2>1 DEF SessionGoal
    <2>3. pc[r] \notin Answers
      BY <2>1 DEF SessionGoal, SessionStatements, Answers
    <2>4. AddressInv'
      BY <1>1, <2>2, <2>3, AddressesUntouched DEF IInv
    <2> QED
      BY <2>1, <2>4 DEF SessionGoal, SessionsSound, IInv
  <1>2. ASSUME NEW r \in Requests, AddressStep(r), UNCHANGED sessionVars
        PROVE  IInv' /\ \A f \in Ids : Ended(f) => Ended(f)'
    <2>1. /\ CallsOK' /\ AddressInv'
          /\ pc[r] \in AddressStatements \cup {"idle"}
          /\ \E p \in AddressStatements \cup Answers, x \in {None, seen[r]} : Moves(r, p, x)
      BY <1>2, AddressStepKeeps DEF IInv
    <2>2. PICK p \in AddressStatements \cup Answers, x \in {None, seen[r]} : Moves(r, p, x)
      BY <2>1
    <2>3. pc[r] \notin Answers /\ pc[r] # "readUser"
      BY <2>1 DEF AddressStatements, Answers
    <2>4. SessionsSound
      BY <1>2, <2>2, <2>3, SessionsUntouched DEF IInv
    <2> QED
      BY <2>1, <2>4 DEF SessionsSound, IInv
  <1>3. ASSUME NEW r \in Requests, Fails(r)
        PROVE  IInv' /\ \A f \in Ids : Ended(f) => Ended(f)'
    <2>1. /\ Moves(r, "failed", None) /\ pc[r] \notin Answers
          /\ UNCHANGED sessionVars /\ UNCHANGED addressVars
      BY <1>3, GotoMoves DEF Fails, Abort, Running, End, IInv
    <2>2. CallsOK'
      BY <2>1, CallsStayOK DEF IInv, Seen, Answers
    <2>3. SessionsSound /\ AddressInv'
      BY <2>1, SessionsUntouched, AddressesUntouched DEF IInv, Answers
    <2> QED
      BY <2>2, <2>3 DEF SessionsSound, IInv
  <1>4. ASSUME NEW t \in Ids, Expire(t), UNCHANGED addressVars
        PROVE  IInv' /\ \A f \in Ids : Ended(f) => Ended(f)'
    <2>1. AddressInv'
      BY <1>4 DEF Expire, callVars, addressVars, IInv, AddressInv, AddressTypeOK, AddressFits,
                  OwnRow, StoredIsAnswered, Orderly, Writers, DefaultsOf
    <2> QED
      BY <1>4, <2>1, ExpireSound DEF SessionsSound, IInv
  <1>5. CASE UNCHANGED vars
    <2>1. /\ call' = call /\ pc' = pc /\ seen' = seen
          /\ users' = users /\ tokens' = tokens /\ raced' = raced
          /\ addresses' = addresses /\ crowded' = crowded
      BY <1>5 DEF vars, callVars, sessionVars, addressVars
    <2>2. AddressInv' /\ CallsOK'
      BY <2>1 DEF IInv, CallsOK, AddressInv, AddressTypeOK, AddressFits,
                  OwnRow, StoredIsAnswered, Orderly, Writers, DefaultsOf
    <2>3. SessionInv'
      BY <2>1 DEF IInv, SessionInv, SessionsTypeOK, SessionFits, IssuedIsDone, FamiliesBegan,
                  RacedStand, RacesSeen, OneHead, Heads, Live, Carries, RacedFamily
    <2>4. \A f \in Ids : Ended(f) => Ended(f)'
      BY <2>1 DEF Ended, Heads, Live, Carries
    <2> QED
      BY <2>2, <2>3, <2>4 DEF IInv
  <1> QED
    BY <1>1, <1>2, <1>3, <1>4, <1>5 DEF Next

THEOREM Inductive == Spec => []IInv
  BY InitIsSound, StepIsSound, PTL DEF Spec

(* Types: every row of users, tokens and addresses stays one its table     *)
(* takes, whatever the mix of requests.                                    *)
THEOREM Types == Spec => []TypeOK
  <1>1. IInv => TypeOK
    BY DEF IInv, CallsOK, SessionInv, AddressInv, TypeOK
  <1> QED
    BY <1>1, Inductive, PTL

(* AuthService.refresh: rotation leaves a sign-in one good token, unless   *)
(* two refreshes held one token unrevoked at the same time.                *)
THEOREM OneGoodToken == Spec => []ForkNeedsRace
  <1>1. IInv => ForkNeedsRace
    BY DEF IInv, SessionInv, OneHead, ForkNeedsRace, Heads
  <1> QED
    BY <1>1, Inductive, PTL

(* AuthService.refresh and logout: a session that has ended, with no       *)
(* refresh of it under way, does not come back.                            *)
THEOREM EndedForGood == Spec => DeadFamilyStaysDead
  <1>1. IInv /\ [Next]_vars => [\A f \in Ids : Ended(f) => Ended(f)']_<<users, tokens, raced, callVars>>
    BY StepIsSound
  <1> QED
    BY <1>1, Inductive, PTL DEF Spec, DeadFamilyStaysDead

(* AddressService.create and update: one default address, unless two       *)
(* requests of the user were about to store one at the same time.          *)
THEOREM OneDefault == Spec => []OneDefaultUnlessCrowded
  <1>1. IInv => OneDefaultUnlessCrowded
    BY DEF IInv, AddressInv, Orderly, OneDefaultUnlessCrowded
  <1> QED
    BY <1>1, Inductive, PTL

(* AuthService.findOrCreateGoogleUser: two sign-ins with one Google        *)
(* profile end in one account, however they interleave, unless a sign-in   *)
(* with another profile has named the e-mail of one of the two accounts.   *)
THEOREM OneGoogleAccount == Spec => []OneAccountPerGoogleId
  <1>1. IInv /\ GoogleInv => OneAccountPerGoogleId
    <2> SUFFICES ASSUME IInv, GoogleInv, NEW r \in Requests, NEW q \in Requests,
                        AsksGoogle(r), tokens[r] # None, AsksGoogle(q), tokens[q] # None,
                        call[r].id = call[q].id
                 PROVE  \/ tokens[r].user = tokens[q].user
                        \/ \E s \in Requests :
                              /\ AsksGoogle(s) /\ call[s].id # call[r].id
                              /\ call[s].email \in {tokens[r].user, tokens[q].user}
      BY DEF OneAccountPerGoogleId, AsksGoogle
    <2> DEFINE g == call[r].id
    <2>1. \A p \in {r, q} : tokens[p].user \in Emails
      BY TokenRows DEF IInv, SessionInv, Ids
    <2>2. Linked(g, tokens[r].user) /\ Linked(g, tokens[q].user)
      BY <2>1 DEF GoogleInv, GoogleLinked, SignedInto
    <2>3. CASE Relinked(g, tokens[r].user) \/ Relinked(g, tokens[q].user)
      BY <2>3 DEF Relinked
    <2>4. CASE ~(Relinked(g, tokens[r].user) \/ Relinked(g, tokens[q].user))
      <3>1. /\ users[tokens[r].user] # None /\ users[tokens[r].user].google = g
            /\ users[tokens[q].user] # None /\ users[tokens[q].user].google = g
        BY <2>2, <2>4 DEF Linked
      <3>2. g # None
        BY SessionsAssumption DEF GoogleInv, GoogleAsked
      <3> QED
        BY <2>1, <3>1, <3>2 DEF GoogleInv, LinksUnique
    <2> QED
      BY <2>3, <2>4
  <1>2. Spec => []GoogleInv
    BY Inductive, GoogleInit, GoogleNext, PTL DEF Spec
  <1> QED
    BY <1>1, <1>2, Inductive, PTL

=============================================================================
