--------------------------- MODULE Notifications ---------------------------
(***************************************************************************)
(* NotificationService.dispatchNotification, the BullMQ queue              *)
(* `notification-queue` and NotificationProcessor.process, which sends the *)
(* message of a job over every channel that has not sent it yet.           *)
(*                                                                         *)
(* The queue is the one of OrderPipeline: a job that throws is tried       *)
(* again, a job whose worker loses its lock is given to another worker,    *)
(* while the first may be dead or work on.  A message is a user, a type    *)
(* and the data: the processor tells no two apart by anything else.        *)
(***************************************************************************)
EXTENDS Integers, Sequences, FiniteSets

CONSTANTS
    Jobs, Messages, Workers,
    About,          \* the message of each job
    Channels,       \* NOTIFICATION_CHANNELS: a sequence, of one channel today
    Attempts,       \* job option attempts: 3
    MaxStalls,      \* BullMQ's maxStalledCount
    None

ASSUME NotificationAssumption ==
    /\ About \in [Jobs -> Messages] /\ Channels \in Seq(STRING) /\ Channels # <<>>
    /\ Attempts \in Nat \ {0} /\ MaxStalls \in Nat /\ None \notin Jobs

Sendings == Messages \X (1 .. Len(Channels))

VARIABLES
    job, attempt, stalls,   \* the job's state, attemptsMade, how often it stalled
    wpc, wjob, owns,        \* what a worker is about to do, for which job, with its lock?
    channel,                \* the index of the channel its loop is at
    errors,                 \* whether errors holds one
    sent,                   \* notification: what has a row whose status is 'sent'
    mails,                  \* how often the provider delivered each, 2 for twice
                            \* or more
    refused,                \* what it refused in a result, which send ignores
    doubtful                \* observer: what was delivered and not recorded, or
                            \* was in the hands of two workers at once

queueVars  == <<job, attempt, stalls>>
workerVars == <<wpc, wjob, owns, channel, errors>>
outside    == <<mails, refused>>
vars       == <<queueVars, workerVars, sent, outside, doubtful>>

Init ==
    /\ job = [j \in Jobs |-> "none"]
    /\ attempt = [j \in Jobs |-> 0] /\ stalls = [j \in Jobs |-> 0]
    /\ wpc = [w \in Workers |-> "idle"] /\ wjob = [w \in Workers |-> None]
    /\ owns = [w \in Workers |-> FALSE]
    /\ channel = [w \in Workers |-> 1] /\ errors = [w \in Workers |-> FALSE]
    /\ sent = {} /\ mails = [s \in Sendings |-> 0] /\ refused = {} /\ doubtful = {}

(* What a worker is sending.                                               *)
Its(w) == <<About[wjob[w]], channel[w]>>

-----------------------------------------------------------------------------
(* The queue.                                                              *)

dispatchNotification(j) ==
    /\ job[j] = "none"
    /\ job' = [job EXCEPT ![j] = "waiting"]
    /\ UNCHANGED <<attempt, stalls, workerVars, sent, outside, doubtful>>

Take(w) == \E j \in Jobs :
    /\ wpc[w] = "idle" /\ job[j] = "waiting"
    /\ job' = [job EXCEPT ![j] = "active"]
    /\ wpc' = [wpc EXCEPT ![w] = "user"] /\ wjob' = [wjob EXCEPT ![w] = j]
    /\ owns' = [owns EXCEPT ![w] = TRUE]
    /\ channel' = [channel EXCEPT ![w] = 1] /\ errors' = [errors EXCEPT ![w] = FALSE]
    /\ UNCHANGED <<attempt, stalls, sent, outside, doubtful>>

Free(w) ==
    /\ wpc' = [wpc EXCEPT ![w] = "idle"] /\ wjob' = [wjob EXCEPT ![w] = None]
    /\ owns' = [owns EXCEPT ![w] = FALSE]
    /\ channel' = [channel EXCEPT ![w] = 1] /\ errors' = [errors EXCEPT ![w] = FALSE]

OneMore(j)  == attempt[j] + 1 <= Attempts        \* plausible bug: off by one
MayRetry(j) == attempt[j] + 1 < Attempts

(* Plausible bug: a job that threw is put back by hand, uncounted.         *)
putBack(w, throws) ==
    /\ job' = [job EXCEPT ![wjob[w]] = IF ~ owns[w] THEN @
                                       ELSE IF throws THEN "waiting" ELSE "completed"]
    /\ UNCHANGED <<attempt, stalls>>
    /\ Free(w)

(* process ends; the queue hears of it from the worker with the lock only. *)
Ends(w, throws) ==
    LET j == wjob[w] IN
    /\ IF ~ owns[w] THEN UNCHANGED <<job, attempt>>
       ELSE IF ~ throws THEN job' = [job EXCEPT ![j] = "completed"] /\ UNCHANGED attempt
       ELSE /\ attempt' = [attempt EXCEPT ![j] = @ + 1]
            /\ job' = [job EXCEPT ![j] = IF MayRetry(j) THEN "waiting" ELSE "failed"]
    /\ UNCHANGED stalls
    /\ Free(w)

Goto(w, p) == wpc' = [wpc EXCEPT ![w] = p] /\ UNCHANGED <<queueVars, wjob, owns, channel, errors>>

ErrorsLost(w, throws) == FALSE                   \* plausible bug: errors not rethrown
Failed(w, throws) == errors[w] \/ throws

(* The next turn of the loop, or what follows it.                          *)
NextChannel(w, throws) ==
    IF channel[w] = Len(Channels) THEN Ends(w, Failed(w, throws))
    ELSE /\ channel' = [channel EXCEPT ![w] = @ + 1]
         /\ errors' = [errors EXCEPT ![w] = Failed(w, throws)]
         /\ wpc' = [wpc EXCEPT ![w] = "find"]
         /\ UNCHANGED <<queueVars, wjob, owns>>

-----------------------------------------------------------------------------
(* process                                                                 *)

FindUser(w) ==
    /\ wpc[w] = "user"
    /\ Goto(w, "find")
    /\ UNCHANGED <<sent, outside, doubtful>>

WithIt(s, w) == {x \in Workers \ {w} : wpc[x] \in {"create", "send", "mark"} /\ Its(x) = s}

AlwaysNew(s) == FALSE                            \* plausible bug: no look at the rows
AlreadySent(s) == s \in sent

FindSent(w) ==
    LET s == Its(w) IN
    /\ wpc[w] = "find"
    /\ IF AlreadySent(s) THEN NextChannel(w, FALSE) /\ UNCHANGED doubtful
       ELSE /\ Goto(w, "create")
            /\ doubtful' = IF WithIt(s, w) = {} THEN doubtful ELSE doubtful \cup {s}
    /\ UNCHANGED <<sent, outside>>

createSent(w) ==                                 \* plausible bug: sent from the start
    /\ wpc[w] = "create"
    /\ sent' = sent \cup {Its(w)}
    /\ Goto(w, "send")
    /\ UNCHANGED <<outside, doubtful>>

(* Rows that are pending or failed are read nowhere.                       *)
CreatePending(w) ==
    /\ wpc[w] = "create"
    /\ Goto(w, "send")
    /\ UNCHANGED <<sent, outside, doubtful>>

(* channel.send: the provider delivers or refuses, and the call returns;   *)
(* or it throws, without delivery or with the answer lost.                 *)
Send(w) ==
    LET s == Its(w) IN
    /\ wpc[w] = "send"
    /\ \/ /\ mails' = [mails EXCEPT ![s] = IF @ < 2 THEN @ + 1 ELSE @]
          /\ \/ Goto(w, "mark") /\ UNCHANGED doubtful
             \/ Goto(w, "fail") /\ doubtful' = doubtful \cup {s}
          /\ UNCHANGED refused
       \/ refused' = refused \cup {s} /\ Goto(w, "mark") /\ UNCHANGED <<mails, doubtful>>
       \/ Goto(w, "fail") /\ UNCHANGED <<mails, refused, doubtful>>
    /\ UNCHANGED sent

MarkSent(w) ==
    /\ wpc[w] = "mark"
    /\ sent' = sent \cup {Its(w)}
    /\ NextChannel(w, FALSE)
    /\ UNCHANGED <<outside, doubtful>>

MarkFailed(w) ==
    /\ wpc[w] = "fail"
    /\ NextChannel(w, TRUE)
    /\ UNCHANGED <<sent, outside, doubtful>>

(* A statement on the database throws.  Inside the try it counts among     *)
(* errors and marks the row, if there is one, failed; in the catch, or     *)
(* before the loop, it leaves process.                                     *)
DbError(w) ==
    /\ \/ wpc[w] \in {"user", "fail"} /\ Ends(w, TRUE) /\ UNCHANGED doubtful
       \/ wpc[w] \in {"find", "create"} /\ NextChannel(w, TRUE) /\ UNCHANGED doubtful
       \/ wpc[w] = "mark" /\ Goto(w, "fail") /\ doubtful' = doubtful \cup {Its(w)}
    /\ UNCHANGED <<sent, outside>>

(* The lock runs out: once, the job goes back to the queue.                *)
Requeue(j) ==
    /\ stalls' = [stalls EXCEPT ![j] = IF @ < MaxStalls THEN @ + 1 ELSE @]
    /\ job' = [job EXCEPT ![j] = IF stalls[j] < MaxStalls THEN "waiting" ELSE "failed"]
    /\ UNCHANGED attempt

Crash(w) ==
    /\ wpc[w] # "idle"
    /\ IF owns[w] THEN Requeue(wjob[w]) ELSE UNCHANGED queueVars
    /\ doubtful' = IF wpc[w] = "mark" THEN doubtful \cup {Its(w)} ELSE doubtful
    /\ Free(w)
    /\ UNCHANGED <<sent, outside>>

LoseLock(w) ==
    /\ wpc[w] # "idle" /\ owns[w]
    /\ Requeue(wjob[w])
    /\ owns' = [owns EXCEPT ![w] = FALSE]
    /\ UNCHANGED <<wpc, wjob, channel, errors, sent, outside, doubtful>>

WorkerRuns(w) ==
    FindUser(w) \/ FindSent(w) \/ CreatePending(w) \/ Send(w) \/ MarkSent(w) \/ MarkFailed(w)

Next ==
    \/ \E j \in Jobs : dispatchNotification(j)
    \/ \E w \in Workers : Take(w) \/ WorkerRuns(w) \/ DbError(w) \/ Crash(w) \/ LoseLock(w)

Spec == Init /\ [][Next]_vars

(* The event loop runs the workers, and an idle one polls the queue.       *)
FairSpec ==
    /\ Spec
    /\ \A w \in Workers : WF_vars(WorkerRuns(w)) /\ WF_vars(Take(w))

-----------------------------------------------------------------------------
(* Type correctness. *)
TypeOK ==
    /\ job \in [Jobs -> {"none", "waiting", "active", "completed", "failed"}]
    /\ attempt \in [Jobs -> 0 .. Attempts] /\ stalls \in [Jobs -> 0 .. MaxStalls]
    /\ wpc \in [Workers -> {"idle", "user", "find", "create", "send", "mark", "fail"}]
    /\ wjob \in [Workers -> Jobs \cup {None}] /\ owns \in [Workers -> BOOLEAN]
    /\ channel \in [Workers -> 1 .. Len(Channels)] /\ errors \in [Workers -> BOOLEAN]
    /\ sent \subseteq Sendings /\ mails \in [Sendings -> 0 .. 2]
    /\ refused \subseteq Sendings /\ doubtful \subseteq Sendings

(* Whatever is tried again, a customer gets a message once per channel,    *)
(* unless its delivery could not be recorded or two workers had it.        *)
MailedTwiceOnlyInDoubt == \A s \in Sendings : mails[s] > 1 => s \in doubtful

(* A row says "sent" only of a message that was delivered, or that the     *)
(* provider refused without the call throwing.                             *)
SentMeansDelivered == \A s \in sent : mails[s] > 0 \/ s \in refused

(* A completed job, retried or taken over, left no channel behind.         *)
CompletedMeansSent == \A j \in Jobs : job[j] = "completed" =>
    \A c \in 1 .. Len(Channels) : <<About[j], c>> \in sent

(* Every job ends, completed or failed for good.                           *)
JobsEnd == \A j \in Jobs : job[j] = "waiting" ~> job[j] \in {"completed", "failed"}
=============================================================================
