------------------------- MODULE NotificationsProofs -------------------------
(***************************************************************************)
(* Retries, takeovers and crashes of a notification job neither skip a     *)
(* channel nor repeat one whose delivery was recorded: proofs, for any     *)
(* jobs, messages, workers and channels and any number of attempts.        *)
(***************************************************************************)
EXTENDS Notifications, TLAPS

JobStates == {"none", "waiting", "active", "completed", "failed"}
Points    == {"idle", "user", "find", "create", "send", "mark", "fail"}

(* The types the steps need; those of the counters are in Counted.         *)
WorkTyped ==
    /\ job \in [Jobs -> JobStates]
    /\ wpc \in [Workers -> Points]
    /\ wjob \in [Workers -> Jobs \cup {None}] /\ owns \in [Workers -> BOOLEAN]
    /\ channel \in [Workers -> 1 .. Len(Channels)] /\ errors \in [Workers -> BOOLEAN]
    /\ sent \subseteq Sendings /\ mails \in [Sendings -> 0 .. 2]
    /\ refused \subseteq Sendings /\ doubtful \subseteq Sendings
    /\ \A w \in Workers : wpc[w] # "idle" => wjob[w] \in Jobs

(* A job that may be tried has an attempt left.                            *)
Counted ==
    /\ attempt \in [Jobs -> 0 .. Attempts] /\ stalls \in [Jobs -> 0 .. MaxStalls]
    /\ \A j \in Jobs : job[j] \in {"none", "waiting", "active"} => attempt[j] < Attempts

(* One worker at most has the lock of a job, and the job is active then.   *)
Locked ==
    /\ \A w \in Workers : owns[w] => wpc[w] # "idle" /\ job[wjob[w]] = "active"
    /\ \A w, x \in Workers : owns[w] /\ owns[x] /\ wjob[w] = wjob[x] => w = x

(* A worker has sent over the channels it is past, or holds an error.      *)
NoneSkipped ==
    \A w \in Workers : wpc[w] # "idle" /\ ~errors[w] =>
        \A c \in 1 .. (channel[w] - 1) : <<About[wjob[w]], c>> \in sent

(* A worker about to record a delivery has made one, or was refused it.    *)
MarkMeansDelivered ==
    \A w \in Workers : wpc[w] = "mark" => mails[Its(w)] > 0 \/ Its(w) \in refused

(* The workers that have found a message unsent and not recorded it yet.   *)
Holding(s) == {w \in Workers : wpc[w] \in {"create", "send", "mark"} /\ Its(w) = s}

(* Outside doubt one worker has a message in hand; the message was         *)
(* delivered at most once, and if so is recorded, or about to be.          *)
Certain(s) ==
    /\ mails[s] <= 1
    /\ \A w, x \in Holding(s) : w = x
    /\ \A w \in Holding(s) : wpc[w] # "mark" => mails[s] = 0
    /\ mails[s] > 0 => s \in sent \/ \E w \in Holding(s) : wpc[w] = "mark"

DeliveredOnce == \A s \in Sendings : s \notin doubtful => Certain(s)

NInv ==
    /\ WorkTyped /\ Counted /\ Locked
    /\ NoneSkipped /\ CompletedMeansSent
    /\ MarkMeansDelivered /\ SentMeansDelivered
    /\ DeliveredOnce

-----------------------------------------------------------------------------
(* Shapes of steps.                                                        *)

(* The others stay where they are.                                         *)
OthersStay(w) ==
    \A x \in Workers : x # w =>
        /\ wpc'[x] = wpc[x] /\ wjob'[x] = wjob[x] /\ owns'[x] = owns[x]
        /\ channel'[x] = channel[x] /\ errors'[x] = errors[x]

LocalsTyped ==
    /\ wpc \in [Workers -> Points]
    /\ wjob \in [Workers -> Jobs \cup {None}] /\ owns \in [Workers -> BOOLEAN]
    /\ channel \in [Workers -> 1 .. Len(Channels)] /\ errors \in [Workers -> BOOLEAN]

(* w is free again.                                                        *)
Freed(w) == LocalsTyped' /\ OthersStay(w) /\ wpc'[w] = "idle" /\ ~owns'[w]

(* w goes on with its job: at the channel it was at, or at the next one.   *)
GoesOn(w, p) ==
    /\ LocalsTyped' /\ OthersStay(w) /\ wpc'[w] = p
    /\ wjob'[w] = wjob[w] /\ owns'[w] = owns[w]

Stays(w, p) == GoesOn(w, p) /\ channel'[w] = channel[w] /\ errors'[w] = errors[w]

Advances(w, throws) ==
    /\ GoesOn(w, "find")
    /\ channel[w] < Len(Channels) /\ channel'[w] = channel[w] + 1
    /\ errors'[w] = (errors[w] \/ throws)

LEMMA ChannelsCount == Len(Channels) \in Nat \ {0}
  BY NotificationAssumption

LEMMA FreeFrees ==
    ASSUME WorkTyped, NEW w \in Workers, Free(w)
    PROVE  Freed(w)
  BY ChannelsCount DEF WorkTyped, Free, Freed, LocalsTyped, OthersStay, Points

LEMMA GotoStays ==
    ASSUME WorkTyped, NEW w \in Workers, NEW p \in Points, Goto(w, p)
    PROVE  Stays(w, p) /\ UNCHANGED queueVars
  BY DEF WorkTyped, Goto, Stays, GoesOn, LocalsTyped, OthersStay

LEMMA NextChannelMoves ==
    ASSUME WorkTyped, NEW w \in Workers, NEW throws \in BOOLEAN, NextChannel(w, throws)
    PROVE  \/ Advances(w, throws) /\ UNCHANGED queueVars
           \/ channel[w] = Len(Channels) /\ Ends(w, errors[w] \/ throws)
  <1>1. CASE channel[w] = Len(Channels)
    BY <1>1 DEF NextChannel, Failed
  <1>2. CASE channel[w] # Len(Channels)
    <2>1. channel[w] \in 1 .. Len(Channels) /\ errors[w] \in BOOLEAN
      BY DEF WorkTyped
    <2>2. channel[w] < Len(Channels)
      BY <1>2, <2>1, ChannelsCount
    <2>3. /\ channel' = [channel EXCEPT ![w] = @ + 1]
          /\ errors' = [errors EXCEPT ![w] = (errors[w] \/ throws)]
          /\ wpc' = [wpc EXCEPT ![w] = "find"]
          /\ wjob' = wjob /\ owns' = owns /\ UNCHANGED queueVars
      BY <1>2 DEF NextChannel, Failed
    <2>4. channel[w] + 1 \in 1 .. Len(Channels)
      BY <2>1, <2>2, ChannelsCount
    <2>5. LocalsTyped'
      BY <2>1, <2>3, <2>4 DEF WorkTyped, LocalsTyped, Points
    <2> QED
      BY <2>1, <2>2, <2>3, <2>5 DEF WorkTyped, Advances, GoesOn, OthersStay
  <1> QED
    BY <1>1, <1>2

-----------------------------------------------------------------------------
(* The queue: what is typed, counted and locked.                           *)

DataTyped ==
    /\ sent \subseteq Sendings /\ mails \in [Sendings -> 0 .. 2]
    /\ refused \subseteq Sendings /\ doubtful \subseteq Sendings

QueueOK == WorkTyped /\ Counted /\ Locked

LEMMA ItsTyped ==
    ASSUME WorkTyped, NEW w \in Workers, wpc[w] # "idle"
    PROVE  Its(w) \in Sendings
  BY NotificationAssumption DEF WorkTyped, Its, Sendings

LEMMA GoingOnOK ==
    ASSUME QueueOK, NEW w \in Workers, wpc[w] # "idle", NEW p \in Points \ {"idle"},
           GoesOn(w, p), UNCHANGED queueVars, DataTyped'
    PROVE  QueueOK'
  <1>1. WorkTyped'
    BY DEF QueueOK, WorkTyped, GoesOn, LocalsTyped, OthersStay, DataTyped, queueVars
  <1>2. Counted'
    BY DEF QueueOK, Counted, queueVars
  <1>3. \A x \in Workers : owns'[x] = owns[x] /\ wjob'[x] = wjob[x]
    BY DEF GoesOn, OthersStay
  <1>4. Locked'
    BY <1>3 DEF QueueOK, Locked, GoesOn, OthersStay, queueVars
  <1> QED
    BY <1>1, <1>2, <1>4 DEF QueueOK

(* A worker gives its job up; the job moves on if it had the lock.         *)
LEMMA GivingUpOK ==
    ASSUME QueueOK, NEW w \in Workers, wpc[w] # "idle", Freed(w), DataTyped',
           job' \in [Jobs -> JobStates],
           \A j \in Jobs : job'[j] # job[j] => owns[w] /\ j = wjob[w],
           Counted'
    PROVE  QueueOK'
  <1>1. WorkTyped'
    BY DEF QueueOK, WorkTyped, Freed, LocalsTyped, OthersStay, DataTyped
  <1>2. ASSUME NEW x \in Workers, owns'[x]
        PROVE  x # w /\ owns[x] /\ wpc'[x] # "idle" /\ job'[wjob'[x]] = "active"
    <2>1. x # w
      BY <1>2 DEF Freed
    <2>2. owns[x] /\ wjob'[x] = wjob[x] /\ wpc'[x] = wpc[x]
      BY <1>2, <2>1 DEF Freed, OthersStay
    <2>3. wpc[x] # "idle" /\ job[wjob[x]] = "active" /\ wjob[x] \in Jobs
      BY <2>2 DEF QueueOK, Locked, WorkTyped
    <2>4. owns[w] => wjob[x] # wjob[w]
      BY <2>1, <2>2 DEF QueueOK, Locked
    <2> QED
      BY <2>1, <2>2, <2>3, <2>4
  <1>3. Locked'
    BY <1>2 DEF QueueOK, Locked, Freed, OthersStay
  <1> QED
    BY <1>1, <1>3 DEF QueueOK

LEMMA EndingOK ==
    ASSUME QueueOK, NEW w \in Workers, wpc[w] # "idle", NEW throws \in BOOLEAN,
           Ends(w, throws), DataTyped'
    PROVE  QueueOK' /\ Freed(w)
  <1> DEFINE j == wjob[w]
  <1>1. j \in Jobs /\ (owns[w] => job[j] = "active")
    BY DEF QueueOK, WorkTyped, Locked
  <1>2. Freed(w)
    BY FreeFrees DEF Ends, QueueOK
  <1>3. CASE ~owns[w]
    BY <1>2, <1>3, GivingUpOK DEF Ends, QueueOK, WorkTyped, Counted
  <1>4. CASE owns[w] /\ ~throws
    <2>1. job' = [job EXCEPT ![j] = "completed"] /\ UNCHANGED <<attempt, stalls>>
      BY <1>4 DEF Ends
    <2>2. job' \in [Jobs -> JobStates]
      BY <2>1 DEF QueueOK, WorkTyped, JobStates
    <2>3. Counted'
      BY <1>1, <2>1 DEF QueueOK, WorkTyped, Counted
    <2>4. \A i \in Jobs : job'[i] # job[i] => owns[w] /\ i = j
      BY <1>4, <2>1 DEF QueueOK, WorkTyped
    <2> QED
      BY <1>2, <2>2, <2>3, <2>4, GivingUpOK
  <1>5. CASE owns[w] /\ throws
    <2>1. /\ attempt' = [attempt EXCEPT ![j] = @ + 1] /\ stalls' = stalls
          /\ job' = [job EXCEPT ![j] = IF attempt[j] + 1 < Attempts THEN "waiting" ELSE "failed"]
      BY <1>5 DEF Ends, MayRetry
    <2>2. job' \in [Jobs -> JobStates]
      BY <2>1 DEF QueueOK, WorkTyped, JobStates
    <2>3. Counted'
      BY <1>1, <1>5, <2>1, NotificationAssumption DEF QueueOK, WorkTyped, Counted
    <2>4. \A i \in Jobs : job'[i] # job[i] => owns[w] /\ i = j
      BY <1>5, <2>1 DEF QueueOK, WorkTyped
    <2> QED
      BY <1>2, <2>2, <2>3, <2>4, GivingUpOK
  <1> QED
    BY <1>2, <1>3, <1>4, <1>5

LEMMA DispatchOK ==
    ASSUME QueueOK, NEW j \in Jobs, dispatchNotification(j)
    PROVE  QueueOK'
  <1>1. /\ job[j] = "none" /\ job' = [job EXCEPT ![j] = "waiting"]
        /\ UNCHANGED <<attempt, stalls, wpc, wjob, owns, channel, errors,
                       sent, mails, refused, doubtful>>
    BY DEF dispatchNotification, workerVars, outside
  <1>2. WorkTyped'
    BY <1>1 DEF QueueOK, WorkTyped, JobStates
  <1>3. Counted'
    BY <1>1 DEF QueueOK, Counted, WorkTyped
  <1>4. Locked'
    BY <1>1 DEF QueueOK, Locked, WorkTyped
  <1> QED
    BY <1>2, <1>3, <1>4 DEF QueueOK

LEMMA TakeOK ==
    ASSUME QueueOK, NEW w \in Workers, Take(w)
    PROVE  /\ QueueOK'
           /\ OthersStay(w) /\ wpc[w] = "idle" /\ wpc'[w] = "user" /\ channel'[w] = 1
           /\ \A j \in Jobs : job'[j] = "completed" => job[j] = "completed"
           /\ UNCHANGED <<sent, outside, doubtful>>
  <1>1. PICK j \in Jobs :
            /\ wpc[w] = "idle" /\ job[j] = "waiting" /\ job' = [job EXCEPT ![j] = "active"]
            /\ wpc' = [wpc EXCEPT ![w] = "user"] /\ wjob' = [wjob EXCEPT ![w] = j]
            /\ owns' = [owns EXCEPT ![w] = TRUE]
            /\ channel' = [channel EXCEPT ![w] = 1] /\ errors' = [errors EXCEPT ![w] = FALSE]
            /\ UNCHANGED <<attempt, stalls, sent, mails, refused, doubtful>>
    BY DEF Take, outside
  <1>2. 1 \in 1 .. Len(Channels)
    BY ChannelsCount
  <1>3. WorkTyped'
    BY <1>1, <1>2 DEF QueueOK, WorkTyped, JobStates, Points
  <1>4. Counted'
    BY <1>1 DEF QueueOK, Counted, WorkTyped
  <1>5. \A x \in Workers : owns[x] => wjob[x] # j
    BY <1>1 DEF QueueOK, Locked
  <1>6. OthersStay(w) /\ wjob'[w] = j /\ wpc'[w] = "user" /\ channel'[w] = 1
    BY <1>1 DEF QueueOK, WorkTyped, OthersStay
  <1>7. ASSUME NEW x \in Workers, owns'[x]
        PROVE  /\ wpc'[x] # "idle" /\ job'[wjob'[x]] = "active"
               /\ x # w => owns[x] /\ wjob'[x] # j
    <2>1. CASE x = w
      BY <1>1, <1>6, <2>1 DEF QueueOK, WorkTyped
    <2>2. CASE x # w
      BY <1>1, <1>5, <1>6, <1>7, <2>2 DEF QueueOK, WorkTyped, Locked, OthersStay
    <2> QED
      BY <2>1, <2>2
  <1>8. Locked'
    BY <1>6, <1>7 DEF QueueOK, Locked, OthersStay
  <1>9. \A i \in Jobs : job'[i] = "completed" => job[i] = "completed"
    BY <1>1 DEF QueueOK, WorkTyped
  <1> QED
    BY <1>1, <1>3, <1>4, <1>6, <1>8, <1>9 DEF QueueOK, outside

(* The lock runs out: the job waits again, or has failed.                  *)
LEMMA RequeueCounts ==
    ASSUME QueueOK, NEW j \in Jobs, job[j] = "active", Requeue(j)
    PROVE  /\ Counted' /\ job' \in [Jobs -> JobStates]
           /\ \A i \in Jobs : job'[i] # job[i] => i = j
           /\ \A i \in Jobs : job'[i] = "completed" => job[i] = "completed"
  BY NotificationAssumption DEF QueueOK, WorkTyped, Counted, Requeue, JobStates

LEMMA CrashOK ==
    ASSUME QueueOK, NEW w \in Workers, Crash(w)
    PROVE  QueueOK' /\ Freed(w) /\ \A i \in Jobs : job'[i] = "completed" => job[i] = "completed"
  <1>1. Freed(w) /\ wpc[w] # "idle"
    BY FreeFrees DEF Crash, QueueOK
  <1>2. wjob[w] \in Jobs /\ Its(w) \in Sendings
    BY <1>1, ItsTyped DEF QueueOK, WorkTyped
  <1>3. DataTyped'
    BY <1>2 DEF Crash, QueueOK, WorkTyped, DataTyped, outside
  <1>4. CASE owns[w]
    <2>1. job[wjob[w]] = "active" /\ Requeue(wjob[w])
      BY <1>4 DEF QueueOK, Locked, Crash
    <2> QED
      BY <1>1, <1>2, <1>3, <1>4, <2>1, RequeueCounts, GivingUpOK
  <1>5. CASE ~owns[w]
    <2>1. UNCHANGED <<job, attempt, stalls>>
      BY <1>5 DEF Crash, queueVars
    <2>2. Counted' /\ job' \in [Jobs -> JobStates]
      BY <2>1 DEF QueueOK, Counted, WorkTyped
    <2> QED
      BY <1>1, <1>3, <2>1, <2>2, GivingUpOK
  <1> QED
    BY <1>4, <1>5

LEMMA LoseLockOK ==
    ASSUME QueueOK, NEW w \in Workers, LoseLock(w)
    PROVE  QueueOK' /\ \A i \in Jobs : job'[i] = "completed" => job[i] = "completed"
  <1>1. /\ wpc[w] # "idle" /\ owns[w] /\ Requeue(wjob[w])
        /\ owns' = [owns EXCEPT ![w] = FALSE]
        /\ UNCHANGED <<wpc, wjob, channel, errors, sent, mails, refused, doubtful>>
    BY DEF LoseLock, outside
  <1>2. wjob[w] \in Jobs /\ job[wjob[w]] = "active"
    BY <1>1 DEF QueueOK, WorkTyped, Locked
  <1>3. /\ Counted' /\ job' \in [Jobs -> JobStates]
        /\ \A i \in Jobs : job'[i] # job[i] => i = wjob[w]
        /\ \A i \in Jobs : job'[i] = "completed" => job[i] = "completed"
    BY <1>1, <1>2, RequeueCounts
  <1>4. WorkTyped'
    BY <1>1, <1>3 DEF QueueOK, WorkTyped
  <1>5. \A x \in Workers : owns'[x] => owns[x] /\ x # w
    BY <1>1 DEF QueueOK, WorkTyped
  <1>6. \A x \in Workers : owns'[x] => wjob[x] # wjob[w] /\ wjob[x] \in Jobs
    BY <1>1, <1>5 DEF QueueOK, Locked, WorkTyped
  <1>7. Locked'
    BY <1>1, <1>3, <1>5, <1>6 DEF QueueOK, Locked
  <1> QED
    BY <1>3, <1>4, <1>7 DEF QueueOK

-----------------------------------------------------------------------------
(* The channels: none is skipped.                                          *)

ChannelsOK == NoneSkipped /\ CompletedMeansSent

(* w is at the channel it was at, or starts at the first; no job completes.*)
LEMMA SameChannel ==
    ASSUME QueueOK, ChannelsOK, NEW w \in Workers, QueueOK', OthersStay(w),
           sent \subseteq sent',
           \A j \in Jobs : job'[j] = "completed" => job[j] = "completed",
           \/ wpc'[w] = "idle"
           \/ channel'[w] = 1
           \/ /\ wpc[w] # "idle" /\ wjob'[w] = wjob[w]
              /\ channel'[w] = channel[w] /\ errors'[w] = errors[w]
    PROVE  ChannelsOK'
  <1>1. CompletedMeansSent'
    BY DEF ChannelsOK, CompletedMeansSent
  <1>2. ASSUME NEW x \in Workers, wpc'[x] # "idle", ~errors'[x],
               NEW c \in 1 .. (channel'[x] - 1)
        PROVE  <<About[wjob'[x]], c>> \in sent'
    BY <1>2 DEF OthersStay, ChannelsOK, NoneSkipped
  <1>3. NoneSkipped'
    BY <1>2 DEF NoneSkipped
  <1> QED
    BY <1>1, <1>3 DEF ChannelsOK

LEMMA ThrowingEnds ==
    ASSUME QueueOK, ChannelsOK, NEW w \in Workers, wpc[w] # "idle", Ends(w, TRUE),
           sent \subseteq sent', DataTyped'
    PROVE  QueueOK' /\ ChannelsOK' /\ OthersStay(w) /\ wpc'[w] = "idle"
  <1>1. QueueOK' /\ Freed(w)
    BY EndingOK
  <1>2. \A j \in Jobs : job'[j] = "completed" => job[j] = "completed"
    BY DEF Ends, QueueOK, WorkTyped
  <1> QED
    BY <1>1, <1>2, SameChannel DEF Freed

(* The loop goes on to a channel having sent, or with an error; it ends    *)
(* well only when the last one was sent too.                               *)
LEMMA NextChannelOK ==
    ASSUME QueueOK, ChannelsOK, NEW w \in Workers, wpc[w] # "idle",
           NEW throws \in BOOLEAN, NextChannel(w, throws),
           ~throws => Its(w) \in sent', sent \subseteq sent', DataTyped'
    PROVE  QueueOK' /\ ChannelsOK' /\ OthersStay(w) /\ wpc'[w] \in {"idle", "find"}
  <1>1. /\ channel[w] \in 1 .. Len(Channels) /\ errors[w] \in BOOLEAN
        /\ wjob[w] \in Jobs
    BY DEF QueueOK, WorkTyped
  <1>2. ASSUME ~errors[w], ~throws, NEW c \in 1 .. channel[w]
        PROVE  <<About[wjob[w]], c>> \in sent'
    <2>1. CASE c = channel[w]
      BY <1>2, <2>1 DEF Its
    <2>2. CASE c # channel[w]
      <3>1. c \in 1 .. (channel[w] - 1)
        BY <1>1, <2>2, ChannelsCount
      <3> QED
        BY <1>2, <3>1 DEF ChannelsOK, NoneSkipped
    <2> QED
      BY <2>1, <2>2
  <1>3. CASE Advances(w, throws) /\ UNCHANGED queueVars
    <2>1. QueueOK'
      BY <1>3, GoingOnOK DEF Advances, Points
    <2>2. ASSUME NEW x \in Workers, wpc'[x] # "idle", ~errors'[x],
                 NEW c \in 1 .. (channel'[x] - 1)
          PROVE  <<About[wjob'[x]], c>> \in sent'
      <3>1. CASE x = w
        BY <1>1, <1>2, <1>3, <2>2, <3>1, ChannelsCount DEF Advances, GoesOn
      <3>2. CASE x # w
        BY <1>3, <2>2, <3>2 DEF Advances, GoesOn, OthersStay, ChannelsOK, NoneSkipped
      <3> QED
        BY <3>1, <3>2
    <2>3. NoneSkipped' /\ CompletedMeansSent'
      BY <1>3, <2>2 DEF NoneSkipped, ChannelsOK, CompletedMeansSent, queueVars
    <2> QED
      BY <1>3, <2>1, <2>3 DEF Advances, GoesOn, ChannelsOK
  <1>4. CASE channel[w] = Len(Channels) /\ Ends(w, errors[w] \/ throws)
    <2>1. CASE errors[w] \/ throws
      <3>1. Ends(w, TRUE)
        BY <1>4, <2>1 DEF Ends
      <3> QED
        BY <3>1, ThrowingEnds
    <2>2. CASE ~errors[w] /\ ~throws
      <3>1. Ends(w, FALSE)
        BY <1>4, <2>2 DEF Ends
      <3>2. QueueOK' /\ Freed(w)
        BY <3>1, EndingOK
      <3>3. \A j \in Jobs : job'[j] = "completed" => job[j] = "completed" \/ j = wjob[w]
        BY <3>1 DEF Ends, QueueOK, WorkTyped
      <3>4. \A c \in 1 .. Len(Channels) : <<About[wjob[w]], c>> \in sent'
        BY <1>2, <1>4, <2>2
      <3>5. CompletedMeansSent'
        BY <3>3, <3>4 DEF ChannelsOK, CompletedMeansSent
      <3>6. NoneSkipped'
        BY <3>2 DEF Freed, OthersStay, ChannelsOK, NoneSkipped
      <3> QED
        BY <3>2, <3>5, <3>6 DEF Freed, ChannelsOK
    <2> QED
      BY <2>1, <2>2
  <1> QED
    BY <1>3, <1>4, NextChannelMoves DEF QueueOK

-----------------------------------------------------------------------------
(* The deliveries.                                                         *)

DeliveriesOK == MarkMeansDelivered /\ SentMeansDelivered /\ DeliveredOnce

InHand == {"create", "send", "mark"}

LEMMA HoldingStays ==
    ASSUME NEW w \in Workers, OthersStay(w), NEW x \in Workers \ {w}, NEW s
    PROVE  /\ x \in Holding(s)' <=> x \in Holding(s)
           /\ wpc'[x] = wpc[x] /\ Its(x)' = Its(x)
  BY DEF OthersStay, Holding, Its

(* Nothing is delivered; w has no message in hand any more, and what it    *)
(* was about to record is recorded or in doubt.                            *)
LEMMA PutDown ==
    ASSUME QueueOK, DeliveriesOK, NEW w \in Workers, OthersStay(w),
           wpc'[w] \notin InHand, UNCHANGED outside,
           sent \subseteq sent', doubtful \subseteq doubtful',
           \A s \in sent' \ sent : wpc[w] = "mark" /\ s = Its(w),
           wpc[w] = "mark" => Its(w) \in sent' \cup doubtful'
    PROVE  DeliveriesOK'
  <1>1. mails' = mails /\ refused' = refused
    BY DEF outside
  <1>2. SentMeansDelivered'
    BY <1>1 DEF DeliveriesOK, SentMeansDelivered, MarkMeansDelivered
  <1>3. MarkMeansDelivered'
    BY <1>1, HoldingStays DEF DeliveriesOK, MarkMeansDelivered, InHand
  <1>4. ASSUME NEW s \in Sendings, s \notin doubtful' PROVE Certain(s)'
    <2>1. Certain(s)
      BY <1>4 DEF DeliveriesOK, DeliveredOnce
    <2>2. w \notin Holding(s)'
      BY DEF Holding, InHand
    <2>3. \A x \in Holding(s)' : x \in Holding(s) /\ wpc'[x] = wpc[x]
      BY <2>2, HoldingStays DEF Holding
    <2>4. ASSUME mails[s] > 0, s \notin sent'
          PROVE  \E x \in Holding(s)' : wpc'[x] = "mark"
      <3>1. PICK x \in Holding(s) : wpc[x] = "mark"
        BY <2>1, <2>4 DEF Certain
      <3>2. x \in Workers /\ Its(x) = s
        BY DEF Holding
      <3>3. x # w
        BY <1>4, <2>4, <3>1, <3>2
      <3> QED
        BY <3>1, <3>2, <3>3, HoldingStays
    <2> QED
      BY <1>1, <2>1, <2>3, <2>4 DEF Certain
  <1>5. DeliveredOnce'
    BY <1>4 DEF DeliveredOnce
  <1> QED
    BY <1>2, <1>3, <1>5 DEF DeliveriesOK

(* w takes up what nobody has in hand, or puts it in doubt.                *)
LEMMA TakeUp ==
    ASSUME QueueOK, DeliveriesOK, NEW w \in Workers, Stays(w, "create"),
           wpc[w] = "find", UNCHANGED <<sent, outside>>,
           Its(w) \notin sent,
           doubtful' = IF WithIt(Its(w), w) = {} THEN doubtful ELSE doubtful \cup {Its(w)}
    PROVE  DeliveriesOK'
  <1>1. mails' = mails /\ refused' = refused /\ sent' = sent /\ OthersStay(w)
        /\ wpc'[w] = "create" /\ Its(w)' = Its(w)
    BY DEF outside, Stays, GoesOn, Its
  <1>2. SentMeansDelivered' /\ MarkMeansDelivered'
    BY <1>1, HoldingStays DEF DeliveriesOK, SentMeansDelivered, MarkMeansDelivered
  <1>3. ASSUME NEW s \in Sendings, s \notin doubtful' PROVE Certain(s)'
    <2>1. Certain(s)
      BY <1>3 DEF DeliveriesOK, DeliveredOnce
    <2>2. CASE s = Its(w)
      <3>1. WithIt(s, w) = {}
        BY <1>3, <2>2
      <3>2. Holding(s) \subseteq {w}
        BY <3>1 DEF WithIt, Holding
      <3>3. w \notin Holding(s)
        BY DEF Holding
      <3>4. mails[s] = 0
        BY <2>1, <2>2, <3>2, <3>3 DEF Certain, QueueOK, WorkTyped
      <3>5. Holding(s)' \subseteq {w}
        BY <1>1, <3>2, HoldingStays DEF Holding
      <3> QED
        BY <1>1, <3>4, <3>5 DEF Certain
    <2>3. CASE s # Its(w)
      <3>1. w \notin Holding(s)' /\ w \notin Holding(s)
        BY <1>1, <2>3 DEF Holding
      <3>2. Holding(s)' = Holding(s) /\ \A x \in Holding(s) : wpc'[x] = wpc[x]
        BY <1>1, <3>1, HoldingStays DEF Holding
      <3> QED
        BY <1>1, <2>1, <3>2 DEF Certain
    <2> QED
      BY <2>2, <2>3
  <1>4. DeliveredOnce'
    BY <1>3 DEF DeliveredOnce
  <1> QED
    BY <1>2, <1>4 DEF DeliveriesOK

LEMMA CreatePendingKeeps ==
    ASSUME QueueOK, DeliveriesOK, NEW w \in Workers, CreatePending(w)
    PROVE  DeliveriesOK'
  <1>1. /\ wpc[w] = "create" /\ wpc'[w] = "send" /\ Stays(w, "send")
        /\ OthersStay(w) /\ Its(w)' = Its(w)
        /\ mails' = mails /\ refused' = refused /\ sent' = sent /\ doubtful' = doubtful
    BY GotoStays DEF CreatePending, QueueOK, Points, Stays, GoesOn, Its, outside
  <1>2. SentMeansDelivered' /\ MarkMeansDelivered'
    BY <1>1, HoldingStays DEF DeliveriesOK, SentMeansDelivered, MarkMeansDelivered
  <1>3. ASSUME NEW s \in Sendings, s \notin doubtful PROVE Certain(s)'
    <2>1. Holding(s)' = Holding(s)
      BY <1>1, HoldingStays DEF Holding
    <2>2. \A x \in Holding(s) : wpc'[x] = "mark" <=> wpc[x] = "mark"
      BY <1>1, HoldingStays DEF Holding
    <2> QED
      BY <1>1, <1>3, <2>1, <2>2 DEF DeliveriesOK, DeliveredOnce, Certain
  <1>4. DeliveredOnce'
    BY <1>1, <1>3 DEF DeliveredOnce
  <1> QED
    BY <1>2, <1>4 DEF DeliveriesOK

(* The provider is asked: outside doubt for the first time, and if it      *)
(* delivers, either the worker goes on to record it or doubt begins.       *)
LEMMA SendKeeps ==
    ASSUME QueueOK, DeliveriesOK, NEW w \in Workers, Send(w)
    PROVE  DeliveriesOK'
  <1> DEFINE m == Its(w)
  <1>1. PICK p \in {"mark", "fail"} : Goto(w, p)
    BY DEF Send
  <1>2. /\ wpc[w] = "send" /\ wpc'[w] = p /\ Stays(w, p)
        /\ OthersStay(w) /\ Its(w)' = m /\ sent' = sent
    BY <1>1, GotoStays DEF Send, QueueOK, Points, Stays, GoesOn, Its
  <1>3. m \in Sendings /\ mails \in [Sendings -> 0 .. 2]
    BY <1>2, ItsTyped DEF QueueOK, WorkTyped
  <1>4. /\ mails' \in [Sendings -> 0 .. 2]
        /\ \A s \in Sendings : mails'[s] >= mails[s] /\ (s # m => mails'[s] = mails[s])
        /\ refused \subseteq refused' /\ doubtful \subseteq doubtful'
        /\ mails'[m] \in {mails[m], mails[m] + 1}
        /\ p = "mark" => mails'[m] > 0 \/ m \in refused'
        /\ mails'[m] # mails[m] => p = "mark" \/ m \in doubtful'
    <2>1. CASE /\ mails' = [mails EXCEPT ![m] = IF @ < 2 THEN @ + 1 ELSE @]
               /\ refused' = refused
               /\ \/ Goto(w, "mark") /\ doubtful' = doubtful
                  \/ Goto(w, "fail") /\ doubtful' = doubtful \cup {m}
      <3>1. p = "fail" => m \in doubtful'
        BY <1>2, <2>1 DEF Goto, QueueOK, WorkTyped
      <3>2. \A s \in Sendings : mails'[s] = IF s # m THEN mails[s]
                                         ELSE IF mails[m] < 2 THEN mails[m] + 1 ELSE mails[m]
        BY <1>3, <2>1
      <3>3. mails[m] \in 0 .. 2 /\ mails' \in [Sendings -> 0 .. 2] /\ mails'[m] > 0
        BY <1>3, <2>1
      <3> QED
        BY <1>1, <1>3, <2>1, <3>1, <3>2, <3>3
    <2>2. CASE refused' = refused \cup {m} /\ mails' = mails /\ doubtful' = doubtful
      BY <1>3, <2>2
    <2>3. CASE Goto(w, "fail") /\ mails' = mails /\ refused' = refused /\ doubtful' = doubtful
      <3>1. p = "fail"
        BY <1>2, <2>3 DEF Goto, QueueOK, WorkTyped
      <3> QED
        BY <1>3, <2>3, <3>1
    <2> QED
      BY <2>1, <2>2, <2>3 DEF Send
  <1> DEFINE Asked(s)  == mails[s] > 0 \/ s \in refused
             StillAsked(s) == mails'[s] > 0 \/ s \in refused'
  <1>a. ASSUME NEW s \in Sendings, Asked(s) PROVE StillAsked(s)
    <2>1. mails[s] \in 0 .. 2 /\ mails'[s] \in 0 .. 2 /\ mails'[s] >= mails[s]
      BY <1>3, <1>4
    <2> QED
      BY <1>4, <1>a, <2>1
  <1>5. SentMeansDelivered'
    <2>1. \A s \in sent : Asked(s) /\ s \in Sendings
      BY DEF DeliveriesOK, SentMeansDelivered, QueueOK, WorkTyped
    <2>2. \A s \in sent : StillAsked(s)
      BY <1>a, <2>1
    <2> QED
      BY <1>2, <2>2 DEF SentMeansDelivered
  <1>6. ASSUME NEW x \in Workers, wpc'[x] = "mark"
        PROVE  StillAsked(Its(x)')
    <2>1. CASE x = w
      BY <1>2, <1>4, <1>6, <2>1
    <2>2. CASE x # w
      <3>1. wpc[x] = "mark" /\ Its(x)' = Its(x)
        BY <1>2, <1>6, <2>2, HoldingStays
      <3>2. Its(x) \in Sendings
        BY <3>1, ItsTyped DEF QueueOK
      <3>3. Asked(Its(x))
        BY <3>1 DEF DeliveriesOK, MarkMeansDelivered
      <3> QED
        BY <1>a, <3>1, <3>2, <3>3
    <2> QED
      BY <2>1, <2>2
  <1>7. ASSUME NEW s \in Sendings, s \notin doubtful' PROVE Certain(s)'
    <2>1. Certain(s)
      BY <1>4, <1>7 DEF DeliveriesOK, DeliveredOnce
    <2>2. CASE s # m
      <3>1. w \notin Holding(s)' /\ w \notin Holding(s)
        BY <1>2, <2>2 DEF Holding
      <3>2. Holding(s)' = Holding(s) /\ \A x \in Holding(s) : wpc'[x] = wpc[x]
        BY <1>2, <3>1, HoldingStays DEF Holding
      <3> QED
        BY <1>2, <1>4, <2>1, <2>2, <3>2 DEF Certain
    <2>3. CASE s = m
      <3>1. w \in Holding(s)
        BY <1>2, <2>3 DEF Holding
      <3>2. Holding(s) = {w} /\ mails[s] = 0
        BY <1>2, <2>1, <3>1 DEF Certain
      <3>3. Holding(s)' \subseteq {w}
        BY <1>2, <3>2, HoldingStays DEF Holding
      <3>4. p = "mark" => w \in Holding(s)'
        BY <1>2, <2>3 DEF Holding
      <3>5. mails'[s] <= 1 /\ (mails'[s] > 0 => p = "mark")
        BY <1>4, <1>7, <2>3, <3>2
      <3>6. p = "fail" => Holding(s)' = {}
        BY <1>2, <3>3 DEF Holding
      <3> QED
        BY <1>2, <3>3, <3>4, <3>5, <3>6 DEF Certain
    <2> QED
      BY <2>2, <2>3
  <1>8. MarkMeansDelivered' /\ DeliveredOnce'
    BY <1>6, <1>7 DEF MarkMeansDelivered, DeliveredOnce
  <1> QED
    BY <1>5, <1>8 DEF DeliveriesOK

-----------------------------------------------------------------------------
(* The statements of process.                                              *)

StepOK == QueueOK' /\ ChannelsOK' /\ DeliveriesOK'

(* A statement after which the message is in nobody's hand any more.       *)
LEMMA EndOrNextOK ==
    ASSUME QueueOK, ChannelsOK, DeliveriesOK, NEW w \in Workers, wpc[w] # "idle",
           \/ NextChannel(w, FALSE) /\ Its(w) \in sent'
           \/ NextChannel(w, TRUE)
           \/ Ends(w, TRUE),
           UNCHANGED outside, sent \subseteq sent', DataTyped',
           doubtful \subseteq doubtful',
           \A s \in sent' \ sent : wpc[w] = "mark" /\ s = Its(w),
           wpc[w] = "mark" => Its(w) \in sent' \cup doubtful'
    PROVE  StepOK
  <1>1. QueueOK' /\ ChannelsOK' /\ OthersStay(w) /\ wpc'[w] \in {"idle", "find"}
    <2>1. CASE NextChannel(w, FALSE) /\ Its(w) \in sent'
      BY <2>1, NextChannelOK, FALSE \in BOOLEAN
    <2>2. CASE NextChannel(w, TRUE)
      BY <2>2, NextChannelOK, TRUE \in BOOLEAN
    <2>3. CASE Ends(w, TRUE)
      BY <2>3, ThrowingEnds
    <2> QED
      BY <2>1, <2>2, <2>3
  <1>2. DeliveriesOK'
    BY <1>1, PutDown DEF InHand
  <1> QED
    BY <1>1, <1>2 DEF StepOK

(* A statement after which w goes on at the same channel.                  *)
LEMMA GotoKeeps ==
    ASSUME QueueOK, ChannelsOK, NEW w \in Workers, wpc[w] # "idle",
           NEW p \in Points \ {"idle"}, Goto(w, p), sent' = sent, DataTyped'
    PROVE  QueueOK' /\ ChannelsOK' /\ Stays(w, p)
  <1>1. Stays(w, p) /\ UNCHANGED queueVars
    BY GotoStays DEF QueueOK
  <1>2. QueueOK'
    BY <1>1, GoingOnOK DEF Stays
  <1>3. \A j \in Jobs : job'[j] = "completed" => job[j] = "completed"
    BY <1>1 DEF queueVars
  <1>4. OthersStay(w) /\ wjob'[w] = wjob[w] /\ channel'[w] = channel[w] /\ errors'[w] = errors[w]
    BY <1>1 DEF Stays, GoesOn
  <1>5. ChannelsOK'
    BY <1>2, <1>3, <1>4, SameChannel
  <1> QED
    BY <1>1, <1>2, <1>5

LEMMA DataStaysTyped ==
    ASSUME QueueOK, NEW s \in Sendings,
           sent' \in {sent, sent \cup {s}}, doubtful' \in {doubtful, doubtful \cup {s}},
           refused' \in {refused, refused \cup {s}},
           mails' \in {mails, [mails EXCEPT ![s] = IF @ < 2 THEN @ + 1 ELSE @]}
    PROVE  DataTyped'
  <1>1. mails \in [Sendings -> 0 .. 2]
    BY DEF QueueOK, WorkTyped
  <1>2. mails[s] \in 0 .. 2
    BY <1>1
  <1>3. (IF mails[s] < 2 THEN mails[s] + 1 ELSE mails[s]) \in 0 .. 2
    BY <1>2
  <1>4. mails' \in [Sendings -> 0 .. 2]
    BY <1>1, <1>3
  <1> QED
    BY <1>4 DEF QueueOK, WorkTyped, DataTyped

LEMMA SearchOK ==
    ASSUME QueueOK, ChannelsOK, DeliveriesOK, NEW w \in Workers,
           FindUser(w) \/ FindSent(w)
    PROVE  StepOK
  <1>1. wpc[w] \in {"user", "find"} /\ UNCHANGED <<sent, mails, refused>>
        /\ doubtful' \in {doubtful, doubtful \cup {Its(w)}}
    BY DEF FindUser, FindSent, outside
  <1>2. Its(w) \in Sendings
    BY <1>1, ItsTyped DEF QueueOK
  <1>3. DataTyped'
    BY <1>1, <1>2, DataStaysTyped
  <1>4. CASE FindUser(w)
    <2>1. wpc[w] = "user" /\ Goto(w, "find") /\ UNCHANGED <<sent, outside, doubtful>>
      BY <1>4 DEF FindUser
    <2>2. QueueOK' /\ ChannelsOK' /\ Stays(w, "find")
      BY <1>1, <1>3, <2>1, GotoKeeps DEF Points
    <2>3. DeliveriesOK'
      BY <2>1, <2>2, PutDown DEF Stays, GoesOn, InHand
    <2> QED
      BY <2>2, <2>3 DEF StepOK
  <1>5. CASE FindSent(w) /\ Its(w) \in sent
    <2>1. NextChannel(w, FALSE) /\ doubtful' = doubtful /\ UNCHANGED <<sent, outside>>
      BY <1>5 DEF FindSent, AlreadySent
    <2> QED
      BY <1>1, <1>3, <1>5, <2>1, EndOrNextOK
  <1>6. CASE FindSent(w) /\ Its(w) \notin sent
    <2>1. /\ wpc[w] = "find" /\ Goto(w, "create") /\ UNCHANGED <<sent, outside>>
          /\ doubtful' = IF WithIt(Its(w), w) = {} THEN doubtful ELSE doubtful \cup {Its(w)}
      BY <1>6 DEF FindSent, AlreadySent
    <2>2. QueueOK' /\ ChannelsOK' /\ Stays(w, "create")
      BY <1>1, <1>3, <2>1, GotoKeeps DEF Points
    <2>3. DeliveriesOK'
      BY <1>6, <2>1, <2>2, TakeUp
    <2> QED
      BY <2>2, <2>3 DEF StepOK
  <1> QED
    BY <1>4, <1>5, <1>6

LEMMA SendingOK ==
    ASSUME QueueOK, ChannelsOK, DeliveriesOK, NEW w \in Workers,
           CreatePending(w) \/ Send(w)
    PROVE  StepOK
  <1>1. wpc[w] \in {"create", "send"} /\ sent' = sent
        /\ \E p \in {"send", "mark", "fail"} : Goto(w, p)
    BY DEF CreatePending, Send
  <1>2. Its(w) \in Sendings
    BY <1>1, ItsTyped DEF QueueOK
  <1>3. DataTyped'
    <2>1. /\ doubtful' \in {doubtful, doubtful \cup {Its(w)}}
          /\ refused' \in {refused, refused \cup {Its(w)}}
          /\ mails' \in {mails, [mails EXCEPT ![Its(w)] = IF @ < 2 THEN @ + 1 ELSE @]}
      BY DEF CreatePending, Send, outside
    <2> QED
      BY <1>1, <1>2, <2>1, DataStaysTyped
  <1>4. QueueOK' /\ ChannelsOK'
    BY <1>1, <1>3, GotoKeeps DEF Points
  <1> QED
    BY <1>4, CreatePendingKeeps, SendKeeps DEF StepOK

LEMMA MarkingOK ==
    ASSUME QueueOK, ChannelsOK, DeliveriesOK, NEW w \in Workers,
           MarkSent(w) \/ MarkFailed(w) \/ DbError(w)
    PROVE  StepOK
  <1>1. /\ wpc[w] # "idle" /\ UNCHANGED outside
        /\ sent' \in {sent, sent \cup {Its(w)}}
        /\ doubtful' \in {doubtful, doubtful \cup {Its(w)}}
    BY DEF MarkSent, MarkFailed, DbError
  <1>2. Its(w) \in Sendings
    BY <1>1, ItsTyped DEF QueueOK
  <1>3. DataTyped'
    BY <1>1, <1>2, DataStaysTyped DEF outside
  <1>4. CASE MarkSent(w)
    <2>1. /\ wpc[w] = "mark" /\ sent' = sent \cup {Its(w)} /\ NextChannel(w, FALSE)
          /\ doubtful' = doubtful
      BY <1>4 DEF MarkSent
    <2> QED
      BY <1>1, <1>3, <2>1, EndOrNextOK
  <1>5. CASE /\ wpc[w] \in {"user", "find", "create", "fail"}
             /\ NextChannel(w, TRUE) \/ Ends(w, TRUE)
             /\ sent' = sent /\ doubtful' = doubtful
    BY <1>1, <1>3, <1>5, EndOrNextOK
  <1>6. CASE wpc[w] = "mark" /\ DbError(w)
    <2>1. Goto(w, "fail") /\ doubtful' = doubtful \cup {Its(w)} /\ sent' = sent
      BY <1>6 DEF DbError
    <2>2. QueueOK' /\ ChannelsOK' /\ Stays(w, "fail")
      BY <1>1, <1>3, <2>1, GotoKeeps DEF Points
    <2>3. DeliveriesOK'
      BY <1>1, <2>1, <2>2, PutDown DEF Stays, GoesOn, InHand
    <2> QED
      BY <2>2, <2>3 DEF StepOK
  <1> QED
    BY <1>4, <1>5, <1>6 DEF MarkFailed, DbError

-----------------------------------------------------------------------------
LEMMA InitOK == Init => QueueOK /\ ChannelsOK /\ DeliveriesOK
  <1> SUFFICES ASSUME Init PROVE QueueOK /\ ChannelsOK /\ DeliveriesOK
    OBVIOUS
  <1>1. WorkTyped
    BY ChannelsCount DEF Init, WorkTyped, JobStates, Points
  <1>2. Counted /\ Locked
    BY NotificationAssumption DEF Init, Counted, Locked
  <1>3. ChannelsOK
    BY DEF Init, ChannelsOK, NoneSkipped, CompletedMeansSent
  <1>4. DeliveriesOK
    BY DEF Init, DeliveriesOK, MarkMeansDelivered, SentMeansDelivered, DeliveredOnce,
           Certain, Holding
  <1> QED
    BY <1>1, <1>2, <1>3, <1>4 DEF QueueOK

LEMMA NextOK ==
    ASSUME QueueOK, ChannelsOK, DeliveriesOK, [Next]_vars
    PROVE  StepOK
  <1>1. ASSUME wpc' = wpc, wjob' = wjob, channel' = channel, errors' = errors,
               UNCHANGED <<sent, mails, refused, doubtful>>, QueueOK',
               \A j \in Jobs : job'[j] = "completed" => job[j] = "completed"
        PROVE  StepOK
    BY <1>1 DEF ChannelsOK, NoneSkipped, CompletedMeansSent, DeliveriesOK, MarkMeansDelivered,
                SentMeansDelivered, DeliveredOnce, Certain, Holding, Its, StepOK
  <1>2. ASSUME NEW j \in Jobs, dispatchNotification(j) PROVE StepOK
    <2>1. \A i \in Jobs : job'[i] = "completed" => job[i] = "completed"
      BY <1>2 DEF dispatchNotification, QueueOK, WorkTyped
    <2> QED
      BY <1>1, <1>2, <2>1, DispatchOK DEF dispatchNotification, workerVars, outside
  <1>3. ASSUME NEW w \in Workers, LoseLock(w) PROVE StepOK
    BY <1>1, <1>3, LoseLockOK DEF LoseLock, outside
  <1>4. ASSUME NEW w \in Workers, Take(w) PROVE StepOK
    <2>1. /\ QueueOK' /\ OthersStay(w) /\ wpc[w] = "idle" /\ wpc'[w] = "user"
          /\ channel'[w] = 1 /\ UNCHANGED <<sent, outside, doubtful>>
          /\ \A j \in Jobs : job'[j] = "completed" => job[j] = "completed"
      BY <1>4, TakeOK
    <2>2. ChannelsOK'
      BY <2>1, SameChannel
    <2>3. DeliveriesOK'
      BY <2>1, PutDown DEF InHand
    <2> QED
      BY <2>1, <2>2, <2>3 DEF StepOK
  <1>5. ASSUME NEW w \in Workers, Crash(w) PROVE StepOK
    <2>1. QueueOK' /\ Freed(w) /\ \A i \in Jobs : job'[i] = "completed" => job[i] = "completed"
      BY <1>5, CrashOK
    <2>2. /\ UNCHANGED <<sent, outside>> /\ doubtful \subseteq doubtful'
          /\ wpc[w] = "mark" => Its(w) \in doubtful'
      BY <1>5 DEF Crash
    <2>3. ChannelsOK'
      BY <2>1, <2>2, SameChannel DEF Freed
    <2>4. DeliveriesOK'
      BY <2>1, <2>2, PutDown DEF Freed, InHand
    <2> QED
      BY <2>1, <2>3, <2>4 DEF StepOK
  <1>6. CASE UNCHANGED vars
    <2>1. QueueOK'
      BY <1>6 DEF vars, queueVars, workerVars, outside, QueueOK, WorkTyped, Counted, Locked
    <2> QED
      BY <1>1, <1>6, <2>1 DEF vars, queueVars, workerVars, outside
  <1> QED
    BY <1>2, <1>3, <1>4, <1>5, <1>6, SearchOK, SendingOK, MarkingOK DEF Next, WorkerRuns

LEMMA Invariance == Spec => [](QueueOK /\ ChannelsOK /\ DeliveriesOK)
  <1>1. QueueOK /\ ChannelsOK /\ DeliveriesOK /\ [Next]_vars
            => (QueueOK /\ ChannelsOK /\ DeliveriesOK)'
    BY NextOK DEF StepOK
  <1> QED
    BY <1>1, InitOK, PTL DEF Spec

(* Types: the queue's counters stay in their bounds, the loop within the   *)
(* channels.                                                               *)
THEOREM NotificationsTyped == Spec => []TypeOK
  <1>1. QueueOK => TypeOK
    BY DEF QueueOK, WorkTyped, Counted, TypeOK, JobStates, Points
  <1> QED
    BY <1>1, Invariance, PTL

(* NotificationProcessor.process: retries and takeovers repeat no delivery *)
(* but one that could not be recorded, or that two workers had in hand.    *)
THEOREM MailedOnce == Spec => []MailedTwiceOnlyInDoubt
  <1>1. QueueOK /\ DeliveriesOK => MailedTwiceOnlyInDoubt
    <2>1. ASSUME QueueOK, DeliveriesOK, NEW s \in Sendings, mails[s] > 1
          PROVE  s \in doubtful
      <3>1. mails[s] \in 0 .. 2
        BY <2>1 DEF QueueOK, WorkTyped
      <3>2. s \notin doubtful => mails[s] <= 1
        BY <2>1 DEF DeliveriesOK, DeliveredOnce, Certain
      <3> QED
        BY <2>1, <3>1, <3>2
    <2> QED
      BY <2>1 DEF MailedTwiceOnlyInDoubt
  <1> QED
    BY <1>1, Invariance, PTL

(* A row says "sent" only of what was delivered, or refused in a result.   *)
THEOREM SentWasDelivered == Spec => []SentMeansDelivered
  <1>1. DeliveriesOK => SentMeansDelivered
    BY DEF DeliveriesOK
  <1> QED
    BY <1>1, Invariance, PTL

(* A job that completed, at whichever attempt and in whichever worker, has *)
(* sent its message over every channel.                                    *)
THEOREM NoChannelSkipped == Spec => []CompletedMeansSent
  <1>1. ChannelsOK => CompletedMeansSent
    BY DEF ChannelsOK
  <1> QED
    BY <1>1, Invariance, PTL

=============================================================================
