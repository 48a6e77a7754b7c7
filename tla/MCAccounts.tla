----------------------------- MODULE MCAccounts -----------------------------
(* Small instances of Accounts.                                            *)
EXTENDS Accounts, TLC

CONSTANTS alice, bob, g1, g2, t0, a0

(* One request of each kind, to one stored token and one stored address,   *)
(* and refreshes of the tokens the requests themselves obtain.             *)
AllCalls ==
         {[op |-> "register", email |-> alice],
          [op |-> "login", email |-> alice, right |-> TRUE],
          [op |-> "google", email |-> alice, id |-> g1],
          [op |-> "google", email |-> bob, id |-> g1],
          [op |-> "google", email |-> alice, id |-> g2]}
    \cup [op : {"refresh"}, token : Ids]
    \cup [op : {"logout"}, token : {t0}]
    \cup [op : {"addAddress"}, user : {alice}, default : BOOLEAN]
    \cup [op : {"changeAddress"}, user : {alice}, id : {a0}, default : {TRUE, None}]
    \cup [op : {"dropAddress"}, user : {alice}, id : {a0}]

(* Alice has signed up with a password, and has a session and an address,  *)
(* or has not; Bob's account, at Google, is disabled, or he has none.      *)
Seed ==
    /\ users[alice] \in {None, [password |-> TRUE, google |-> None, active |-> TRUE]}
    /\ users[bob] \in {None, [password |-> FALSE, google |-> g1, active |-> FALSE]}
    /\ tokens[t0] = None <=> users[alice] = None
    /\ addresses[a0] = IF users[alice] = None THEN None ELSE [user |-> alice, default |-> TRUE]

MCInit == Init /\ Seed

MCSpec == MCInit /\ [][Next]_vars

RequestSymmetry == Permutations(Requests)
=============================================================================
