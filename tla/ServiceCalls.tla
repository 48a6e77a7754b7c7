---------------------------- MODULE ServiceCalls ----------------------------
(***************************************************************************)
(* What the request handlers of the REST modules have in common: each HTTP *)
(* request runs one service method, one awaited statement at a time, over  *)
(* rows that other requests read and write in between.  Modules that model *)
(* a service extend this one, add its tables, and write one action per     *)
(* statement.                                                              *)
(*                                                                         *)
(* A row that a request creates has the identity of the request.           *)
(***************************************************************************)
EXTENDS Integers, FiniteSets

CONSTANTS
    Requests,   \* the HTTP requests
    Calls,      \* what they may ask: records with a field op
    None        \* no row, no value

VARIABLES
    call,       \* what each request asks
    pc,         \* the statement it is about to run, or how it was answered
    seen        \* the row its method holds in a local variable

callVars == <<call, pc, seen>>

(* "ok" is a 2xx answer, "refused" an exception the method throws itself,  *)
(* "reused" that of the reuse of a refresh token, "failed" a 500.          *)
Answers == {"ok", "refused", "reused", "failed"}

Running(r) == pc[r] \notin Answers \cup {"idle"}

CallsInit ==
    /\ call = [r \in Requests |-> None]
    /\ pc = [r \in Requests |-> "idle"]
    /\ seen = [r \in Requests |-> None]

(* The request reaches its service method, whose first statement is p.     *)
Begin(r, c, p) ==
    /\ pc[r] = "idle"
    /\ call' = [call EXCEPT ![r] = c]
    /\ pc' = [pc EXCEPT ![r] = p]
    /\ UNCHANGED seen

(* The next statement is p (or the answer is); x is what the method holds. *)
Goto(r, p, x) ==
    /\ pc' = [pc EXCEPT ![r] = p]
    /\ seen' = [seen EXCEPT ![r] = x]
    /\ UNCHANGED call

End(r, answer) == Goto(r, answer, None)

(* The statement the request is at throws without effect, or the server    *)
(* dies: nothing in these methods catches it.                              *)
Abort(r) == Running(r) /\ End(r, "failed")
=============================================================================
