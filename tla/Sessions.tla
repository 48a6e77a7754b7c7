------------------------------ MODULE Sessions ------------------------------
(***************************************************************************)
(* AuthService: accounts, sign-in and the rotation of refresh tokens.      *)
(*                                                                         *)
(* Left out: names, hashes, and access tokens, which no table remembers.   *)
(***************************************************************************)
EXTENDS ServiceCalls

CONSTANTS
    Emails,     \* e-mail addresses; no method changes that of an account
    GoogleIds,  \* profile ids at Google
    OldTokens   \* refresh tokens handed out before

Ids == Requests \cup OldTokens

User  == [password : BOOLEAN, google : GoogleIds \cup {None}, active : BOOLEAN]
Token == [user : Emails, family : Ids, revoked : BOOLEAN, expired : BOOLEAN]

SessionCall == [op : {"register"}, email : Emails]
          \cup [op : {"login"}, email : Emails, right : BOOLEAN]
          \cup [op : {"google"}, email : Emails, id : GoogleIds]
          \cup [op : {"refresh", "logout"}, token : Ids]

ASSUME SessionsAssumption ==
    /\ Requests \cap OldTokens = {}
    /\ None \notin Ids /\ None \notin User /\ None \notin Token
    /\ None \notin Emails /\ None \notin GoogleIds /\ None \notin Calls

VARIABLES
    users,      \* user: [Emails -> User or None]
    tokens,     \* refreshToken: [Ids -> Token or None]
    raced       \* observer: the tokens two requests held unrevoked at once

sessionVars == <<users, tokens, raced>>

SessionsInit ==
    /\ users \in [Emails -> User \cup {None}]
    /\ \A e, f \in Emails : users[e] # None /\ users[f] # None /\ users[e].google = users[f].google
                            => users[e].google = None \/ e = f
    /\ \E owner \in [OldTokens -> {None} \cup {e \in Emails : users[e] # None}] :
        tokens = [i \in Ids |-> IF i \in OldTokens /\ owner[i] # None
                                THEN [user |-> owner[i], family |-> i,
                                      revoked |-> FALSE, expired |-> FALSE]
                                ELSE None]
    /\ raced = {}

-----------------------------------------------------------------------------
(* Rows.                                                                   *)

LinkedTo(g) == {e \in Emails : users[e] # None /\ users[e].google = g}

NoConstraint(e, row) == TRUE                  \* plausible bug: no @@unique

(* @@unique([oauth_provider, oauth_id])                                    *)
GoogleIdFree(e, row) == row.google = None \/ LinkedTo(row.google) \subseteq {e}

PutUser(e, row) ==
    /\ GoogleIdFree(e, row)
    /\ users' = [users EXCEPT ![e] = row]
    /\ UNCHANGED <<tokens, raced>>

PutToken(i, row) ==
    /\ tokens' = [tokens EXCEPT ![i] = row]
    /\ UNCHANGED <<users, raced>>

NewToken(user, family) ==
    [user |-> user, family |-> family, revoked |-> FALSE, expired |-> FALSE]

-----------------------------------------------------------------------------
(* register                                                                *)

registerFind(r) ==
    /\ pc[r] = "register"
    /\ IF users[call[r].email] = None THEN Goto(r, "createUser", None) ELSE End(r, "refused")
    /\ UNCHANGED sessionVars

registerCreate(r) ==
    /\ pc[r] = "createUser" /\ users[call[r].email] = None
    /\ PutUser(call[r].email, [password |-> TRUE, google |-> None, active |-> TRUE])
    /\ End(r, "ok")

(* login: it asks for a password, not whether the account is active.       *)
loginFind(r) ==
    LET u == users[call[r].email] IN
    /\ pc[r] = "login"
    /\ IF u # None /\ call[r].right /\ u.password
       THEN Goto(r, "issue", call[r].email)
       ELSE End(r, "refused")
    /\ UNCHANGED sessionVars

-----------------------------------------------------------------------------
(* GoogleStrategy.validate -> findOrCreateGoogleUser, then googleSignIn    *)

SignInIfActive(r, e) ==
    IF users[e].active THEN Goto(r, "issue", e) ELSE End(r, "refused")

googleFindByOAuth(r) ==
    /\ pc[r] = "google"
    /\ IF LinkedTo(call[r].id) = {} THEN Goto(r, "byEmail", None)
       ELSE \E e \in LinkedTo(call[r].id) : SignInIfActive(r, e)
    /\ UNCHANGED sessionVars

googleFindByEmail(r) ==
    LET u == users[call[r].email] IN
    /\ pc[r] = "byEmail"
    /\ IF u = None THEN Goto(r, "createGoogle", None)
       ELSE IF u.active THEN Goto(r, "link", None) ELSE End(r, "refused")
    /\ UNCHANGED sessionVars

googleLink(r) ==
    LET e == call[r].email IN
    /\ pc[r] = "link"
    /\ PutUser(e, [users[e] EXCEPT !.google = call[r].id])
    /\ Goto(r, "issue", e)

googleCreate(r) ==
    LET e == call[r].email IN
    /\ pc[r] = "createGoogle" /\ users[e] = None
    /\ PutUser(e, [password |-> FALSE, google |-> call[r].id, active |-> TRUE])
    /\ Goto(r, "issue", e)

(* login and googleSignIn: the first token of a new family                 *)
issueToken(r) ==
    /\ pc[r] = "issue"
    /\ PutToken(r, NewToken(seen[r], r))
    /\ End(r, "ok")

-----------------------------------------------------------------------------
(* refresh                                                                 *)

Holders(t) == {q \in Requests : pc[q] = "revoke" /\ call[q].token = t}

refreshIgnoresRevoked(r) ==                   \* plausible bug: no reuse check
    LET t == call[r].token IN
    /\ pc[r] = "refresh"
    /\ IF tokens[t].expired THEN End(r, "refused") ELSE Goto(r, "revoke", tokens[t])
    /\ raced' = IF ~ tokens[t].revoked /\ Holders(t) # {} THEN raced \cup {t} ELSE raced
    /\ UNCHANGED <<users, tokens>>

refreshFind(r) ==
    LET t == call[r].token IN
    /\ pc[r] = "refresh"
    /\ IF tokens[t].revoked THEN Goto(r, "revokeFamily", tokens[t])
       ELSE IF tokens[t].expired THEN End(r, "refused")
       ELSE Goto(r, "revoke", tokens[t])
    /\ raced' = IF pc'[r] = "revoke" /\ Holders(t) # {} THEN raced \cup {t} ELSE raced
    /\ UNCHANGED <<users, tokens>>

refreshRevokeFamily(r) ==
    /\ pc[r] = "revokeFamily"
    /\ tokens' = [i \in Ids |-> IF tokens[i] # None /\ tokens[i].family = seen[r].family
                                THEN [tokens[i] EXCEPT !.revoked = TRUE] ELSE tokens[i]]
    /\ End(r, "reused")
    /\ UNCHANGED <<users, raced>>

Revoke(t) == PutToken(t, [tokens[t] EXCEPT !.revoked = TRUE])

revokeNothing(r) ==                           \* plausible bug: the old token lives on
    pc[r] = "revoke" /\ Goto(r, "rotate", seen[r]) /\ UNCHANGED sessionVars

refreshRevoke(r) ==
    /\ pc[r] = "revoke"
    /\ Revoke(call[r].token)
    /\ Goto(r, "rotate", seen[r])

refreshRotate(r) ==
    /\ pc[r] = "rotate"
    /\ PutToken(r, NewToken(seen[r].user, seen[r].family))
    /\ Goto(r, "readUser", None)

refreshReadUser(r) == pc[r] = "readUser" /\ End(r, "ok") /\ UNCHANGED sessionVars

(* logout *)
logoutFind(r) ==
    /\ pc[r] = "logout"
    /\ Goto(r, "revokeOne", tokens[call[r].token])
    /\ UNCHANGED sessionVars

logoutRevoke(r) ==
    /\ pc[r] = "revokeOne"
    /\ Revoke(call[r].token)
    /\ End(r, "ok")

(* Seven days pass.                                                        *)
Expire(t) ==
    /\ tokens[t] # None /\ ~ tokens[t].expired
    /\ PutToken(t, [tokens[t] EXCEPT !.expired = TRUE])
    /\ UNCHANGED callVars

(* A client can only present a token it was given; a request without a     *)
(* valid one, or a profile without an e-mail, is refused and changes       *)
(* nothing.                                                                *)
SessionsStart(r) == \E c \in Calls \cap SessionCall :
    /\ c.op \in {"refresh", "logout"} => tokens[c.token] # None
    /\ Begin(r, c, c.op)
    /\ UNCHANGED sessionVars

SessionsStep(r) ==
    \/ SessionsStart(r)
    \/ registerFind(r) \/ registerCreate(r) \/ loginFind(r)
    \/ googleFindByOAuth(r) \/ googleFindByEmail(r) \/ googleLink(r) \/ googleCreate(r)
    \/ issueToken(r)
    \/ refreshFind(r) \/ refreshRevokeFamily(r) \/ refreshRevoke(r) \/ refreshRotate(r) \/ refreshReadUser(r)
    \/ logoutFind(r) \/ logoutRevoke(r)

-----------------------------------------------------------------------------
(* Type correctness. *)
SessionsTypeOK ==
    /\ users \in [Emails -> User \cup {None}]
    /\ tokens \in [Ids -> Token \cup {None}]
    /\ raced \subseteq Ids

(* A session is a family of tokens; its heads are what it can go on from:  *)
(* the tokens still good, and the refreshes that hold none any more and    *)
(* will still store one.                                                   *)
Live(i, f) == tokens[i] # None /\ tokens[i].family = f /\ ~ tokens[i].revoked

Carries(r, f) ==
    /\ r \in Requests
    /\ \/ pc[r] = "rotate"
       \/ pc[r] = "revoke" /\ tokens[call[r].token].revoked
    /\ seen[r].family = f

Heads(f) == {i \in Ids : Live(i, f) \/ Carries(i, f)}

RacedFamily(f) == \E t \in raced : tokens[t].family = f

(* Rotation keeps one good token per sign-in: a family has two only if two *)
(* refreshes held the same token unrevoked at the same time.               *)
ForkNeedsRace == \A i, j \in Ids, f \in Ids :
    Live(i, f) /\ Live(j, f) => i = j \/ RacedFamily(f)

(* A session that has ended (revoked, logged out, and no refresh under     *)
(* way) does not come back to life.                                        *)
Ended(f) == tokens[f] # None /\ Heads(f) = {}
DeadFamilyStaysDead ==
    [][\A f \in Ids : Ended(f) => Ended(f)']_<<users, tokens, raced, callVars>>

(* Two Google sign-ins with one profile id end in one account, unless one  *)
(* of the accounts was meanwhile linked to another profile.                *)
OneAccountPerGoogleId == \A r, q \in Requests :
    /\ call[r] # None /\ call[r].op = "google" /\ tokens[r] # None
    /\ call[q] # None /\ call[q].op = "google" /\ tokens[q] # None
    /\ call[r].id = call[q].id
    => \/ tokens[r].user = tokens[q].user
       \/ \E s \in Requests : /\ call[s] # None /\ call[s].op = "google"
                              /\ call[s].id # call[r].id
                              /\ call[s].email \in {tokens[r].user, tokens[q].user}

(* "If a stolen token is replayed, the entire token family is revoked":    *)
(* once a reuse is answered, nothing of the family is good.                *)
ReuseRevokesFamily == \A r \in Requests :
    pc[r] = "reused" => \A i \in Ids : ~ Live(i, tokens[call[r].token].family)
=============================================================================
