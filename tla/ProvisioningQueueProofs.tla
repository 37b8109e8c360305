----------------------- MODULE ProvisioningQueueProofs -----------------------
(***************************************************************************)
(* Proofs about the provisioning queue, for any number of jobs, slots,     *)
(* refusals, pauses, failures and restarts.                                *)
(*                                                                         *)
(* MadeOnce is not inductive: that a create isn't started over rests on    *)
(* which fibers may still start one (Taken), and on no row that may be     *)
(* taken again being of a job that was ever started (Fresh).  DiscardAlone *)
(* and LeftoversShown rest on the job being out of the worker's reach for  *)
(* as long as a delete removes what it left (Discarding).  NoLostJob is    *)
(* inductive as it stands, given the types.                                *)
(***************************************************************************)
EXTENDS ProvisioningQueue, TLAPS, FiniteSetTheorems

\* A fiber's job is its row's, and its attempt counted; the ones that may
\* still be started, or put back, made nothing.
Taken ==
    /\ \A j \in Jobs : fiber[j] # "none" =>
           status[j] = "running" /\ attempt[j] > 0
    /\ \A j \in Jobs : fiber[j] \in {"waiting", "paused", "refused"} =>
           made[j] = 0 /\ ~left[j]

\* No job that the worker may yet take was started.
Fresh ==
    /\ MadeOnce
    /\ \A j \in Jobs : status[j] \in {"none", "awaiting_claim", "queued"} =>
           made[j] = 0 /\ ~left[j]

\* While a delete removes what a job left, the worker can't take the job;
\* the job goes when nothing is left.
Discarding ==
    /\ \A j \in Jobs : discard[j] \in {"cleaning", "cleaned"} =>
           status[j] \in {"failed", "cancelled", "gone"}
    /\ \A j \in Jobs : discard[j] = "cleaned" => ~left[j]
    /\ LeftoversShown

QueueInv == QueueTypeOK /\ Taken /\ Fresh /\ Discarding

-----------------------------------------------------------------------------
\* The invariant holds before the first job.
LEMMA InitQueueInv == Init => QueueInv
  <1> SUFFICES ASSUME Init PROVE QueueInv
    OBVIOUS
  <1> USE QueueConstants DEF Init
  <1>1. QueueTypeOK
    <2>1. /\ refusals \in 0..MaxRefused /\ pauses \in 0..MaxPauses
          /\ errors \in 0..MaxErrors /\ stops \in 0..MaxStops
      OBVIOUS
    <2>2. born \in Seq(Jobs)
      OBVIOUS
    <2>3. QED
      BY <2>1, <2>2 DEF QueueTypeOK, Statuses, Fibers
  <1>2. Taken /\ Fresh /\ Discarding
    BY DEF Taken, Fresh, MadeOnce, Discarding, LeftoversShown
  <1>3. QED
    BY <1>1, <1>2 DEF QueueInv

-----------------------------------------------------------------------------
\* Every step keeps the invariant.
LEMMA StepQueueInv == QueueInv /\ [Next]_vars => QueueInv'
  <1> SUFFICES ASSUME QueueInv, [Next]_vars PROVE QueueInv'
    OBVIOUS
  <1> USE QueueConstants DEF QueueInv, rows, workerVars, requests, history, bounds
  <1>1. ASSUME NEW j \in Jobs, Prepare(j) PROVE QueueInv'
    <2> USE <1>1 DEF Prepare
    <2>1. QueueTypeOK'
      BY DEF QueueTypeOK, Statuses, Fibers, Taken
    <2>2. Taken' /\ Fresh'
      BY DEF QueueTypeOK, Taken, Fresh, MadeOnce
    <2>3. Discarding'
      BY DEF QueueTypeOK, Taken, Fresh, Discarding, LeftoversShown
    <2>4. QED
      BY <2>1, <2>2, <2>3
  <1>2. ASSUME NEW j \in Jobs, Claim(j) PROVE QueueInv'
    <2> USE <1>2 DEF Claim
    <2>1. QueueTypeOK'
      BY DEF QueueTypeOK, Statuses, Fibers, Taken
    <2>2. Taken' /\ Fresh'
      BY DEF QueueTypeOK, Taken, Fresh, MadeOnce
    <2>3. Discarding'
      BY DEF QueueTypeOK, Taken, Fresh, Discarding, LeftoversShown
    <2>4. QED
      BY <2>1, <2>2, <2>3
  <1>3. ASSUME NEW j \in Jobs, Cancel(j) PROVE QueueInv'
    <2> USE <1>3 DEF Cancel, Cancellable
    <2>1. QueueTypeOK'
      BY DEF QueueTypeOK, Statuses, Fibers, Taken
    <2>2. Taken' /\ Fresh'
      BY DEF QueueTypeOK, Taken, Fresh, MadeOnce
    <2>3. Discarding'
      BY DEF QueueTypeOK, Taken, Fresh, Discarding, LeftoversShown
    <2>4. QED
      BY <2>1, <2>2, <2>3
  <1>4. ASSUME NEW j \in Jobs, StartDiscard(j) PROVE QueueInv'
    <2> USE <1>4 DEF StartDiscard
    <2>1. QueueTypeOK'
      BY DEF QueueTypeOK, Statuses, Fibers, Taken
    <2>2. Taken' /\ Fresh'
      BY DEF QueueTypeOK, Taken, Fresh, MadeOnce
    <2>3. Discarding'
      BY DEF QueueTypeOK, Taken, Fresh, Discarding, LeftoversShown
    <2>4. QED
      BY <2>1, <2>2, <2>3
  <1>5. ASSUME NEW j \in Jobs, Withdraw(j) PROVE QueueInv'
    <2> USE <1>5 DEF Withdraw, MayWithdraw
    <2>1. QueueTypeOK'
      BY DEF QueueTypeOK, Statuses, Fibers, Taken
    <2>2. Taken' /\ Fresh'
      BY DEF QueueTypeOK, Taken, Fresh, MadeOnce
    <2>3. Discarding'
      BY DEF QueueTypeOK, Taken, Fresh, Discarding, LeftoversShown
    <2>4. QED
      BY <2>1, <2>2, <2>3
  <1>6. ASSUME NEW j \in Jobs, CleanUp(j) PROVE QueueInv'
    <2> USE <1>6 DEF CleanUp
    <2>1. QueueTypeOK'
      BY DEF QueueTypeOK, Statuses, Fibers, Taken
    <2>2. Taken' /\ Fresh'
      BY DEF QueueTypeOK, Taken, Fresh, MadeOnce
    <2>3. Discarding'
      BY DEF QueueTypeOK, Taken, Fresh, Discarding, LeftoversShown
    <2>4. QED
      BY <2>1, <2>2, <2>3
  <1>7. ASSUME NEW j \in Jobs, DiscardFails(j) PROVE QueueInv'
    <2> USE <1>7 DEF DiscardFails
    <2>1. QueueTypeOK'
      BY DEF QueueTypeOK, Statuses, Fibers, Taken
    <2>2. Taken' /\ Fresh'
      BY DEF QueueTypeOK, Taken, Fresh, MadeOnce
    <2>3. Discarding'
      BY DEF QueueTypeOK, Taken, Fresh, Discarding, LeftoversShown
    <2>4. QED
      BY <2>1, <2>2, <2>3
  <1>8. ASSUME NEW j \in Jobs, DropJob(j) PROVE QueueInv'
    <2> USE <1>8 DEF DropJob, Cancellable
    <2>1. QueueTypeOK'
      BY DEF QueueTypeOK, Statuses, Fibers, Taken
    <2>2. Taken' /\ Fresh'
      BY DEF QueueTypeOK, Taken, Fresh, MadeOnce
    <2>3. Discarding'
      BY DEF QueueTypeOK, Taken, Fresh, Discarding, LeftoversShown
    <2>4. QED
      BY <2>1, <2>2, <2>3
  <1>9. ASSUME NEW j \in Jobs, StartMaking(j) PROVE QueueInv'
    <2> USE <1>9 DEF StartMaking
    <2>1. QueueTypeOK'
      BY DEF QueueTypeOK, Statuses, Fibers, Taken
    <2>2. Taken' /\ Fresh'
      <3>1. /\ fiber[j] = "waiting" /\ fiber'[j] = "making"
            /\ made[j] = 0 /\ made'[j] = 1
            /\ \A k \in Jobs \ {j} : /\ fiber'[k] = fiber[k]
                                     /\ made'[k] = made[k]
                                     /\ left'[k] = left[k]
        BY DEF QueueTypeOK, Taken
      <3>2. UNCHANGED <<status, attempt>>
        OBVIOUS
      <3> HIDE <1>9
      <3>3. QED
        BY <3>1, <3>2 DEF Taken, Fresh, MadeOnce
    <2>3. Discarding'
      BY DEF QueueTypeOK, Taken, Fresh, Discarding, LeftoversShown
    <2>4. QED
      BY <2>1, <2>2, <2>3
  <1>10. ASSUME NEW j \in Jobs, Refuse(j) PROVE QueueInv'
    <2> USE <1>10 DEF Refuse
    <2>1. QueueTypeOK'
      <3>1. fiber' \in [Jobs -> Fibers]
        BY DEF QueueTypeOK, Fibers
      <3>2. refusals' \in 0..MaxRefused
        BY DEF QueueTypeOK
      <3>3. QED
        BY <3>1, <3>2 DEF QueueTypeOK
    <2>2. Taken' /\ Fresh'
      BY DEF QueueTypeOK, Taken, Fresh, MadeOnce
    <2>3. Discarding'
      BY DEF QueueTypeOK, Taken, Fresh, Discarding, LeftoversShown
    <2>4. QED
      BY <2>1, <2>2, <2>3
  <1>11. ASSUME NEW j \in Jobs, PutBack(j) PROVE QueueInv'
    <2> USE <1>11 DEF PutBack, AttemptBack, EndFiber
    <2>1. QueueTypeOK'
      <3>1. fiber' \in [Jobs -> Fibers] /\ status' \in [Jobs -> Statuses]
        BY DEF QueueTypeOK, Fibers, Statuses
      <3>2. attempt' \in [Jobs -> Nat]
        <4>1. attempt[j] \in Nat /\ attempt[j] > 0
          <5> HIDE DEF PutBack
          <5>1. fiber[j] # "none"
            BY DEF PutBack
          <5>2. QED
            BY <5>1 DEF QueueTypeOK, Taken
        <4>2. attempt[j] - 1 \in Nat
          BY <4>1
        <4>3. QED
          BY <4>2 DEF QueueTypeOK
      <3>3. CASE fiber[j] = "paused"
        BY <3>1, <3>2, <3>3 DEF QueueTypeOK
      <3>4. CASE fiber[j] = "refused"
        <4>1. wake' = wake /\ resting' = [resting EXCEPT ![j] = @ + 1]
          BY <3>4
        <4>2. resting' \in [Jobs -> Nat]
          <5> HIDE <1>11
          <5>1. QED
            BY <4>1 DEF QueueTypeOK
        <4>3. QED
          BY <3>1, <3>2, <4>1, <4>2 DEF QueueTypeOK
      <3>5. QED
        BY <3>3, <3>4
    <2>2. Taken' /\ Fresh'
      BY DEF QueueTypeOK, Taken, Fresh, MadeOnce
    <2>3. Discarding'
      BY DEF QueueTypeOK, Taken, Fresh, Discarding, LeftoversShown
    <2>4. QED
      BY <2>1, <2>2, <2>3
  <1>12. ASSUME NEW j \in Jobs, Rest(j) PROVE QueueInv'
    <2> USE <1>12 DEF Rest
    <2>1. QueueTypeOK'
      BY DEF QueueTypeOK, Statuses, Fibers, Taken
    <2>2. Taken' /\ Fresh'
      BY DEF QueueTypeOK, Taken, Fresh, MadeOnce
    <2>3. Discarding'
      BY DEF QueueTypeOK, Taken, Fresh, Discarding, LeftoversShown
    <2>4. QED
      BY <2>1, <2>2, <2>3
  <1>13. ASSUME NEW j \in Jobs, Make(j) PROVE QueueInv'
    <2> USE <1>13 DEF Make
    <2>1. QueueTypeOK'
      BY DEF QueueTypeOK, Statuses, Fibers, Taken
    <2>2. Taken' /\ Fresh'
      BY DEF QueueTypeOK, Taken, Fresh, MadeOnce
    <2>3. Discarding'
      <3>1. UNCHANGED <<status, discard>>
        OBVIOUS
      <3>2. \A k \in Jobs : left'[k] => left[k]
        BY DEF QueueTypeOK
      <3> HIDE <1>13
      <3>3. QED
        BY <3>1, <3>2 DEF QueueTypeOK, Discarding, LeftoversShown
    <2>4. QED
      BY <2>1, <2>2, <2>3
  <1>14. ASSUME NEW j \in Jobs, Record(j) PROVE QueueInv'
    <2> USE <1>14 DEF Record, EndFiber
    <2>1. QueueTypeOK'
      BY DEF QueueTypeOK, Statuses, Fibers, Taken
    <2>2. Taken' /\ Fresh'
      BY DEF QueueTypeOK, Taken, Fresh, MadeOnce
    <2>3. Discarding'
      <3>1. /\ discard' = discard
            /\ \A k \in Jobs : left'[k] => left[k]
            /\ \A k \in Jobs \ {j} : status'[k] = status[k]
        BY DEF QueueTypeOK
      <3>2. /\ status'[j] \in {"gone", "failed"}
            /\ status'[j] = "gone" => ~left'[j]
        BY DEF QueueTypeOK
      <3> HIDE <1>14
      <3>3. QED
        BY <3>1, <3>2 DEF QueueTypeOK, Discarding, LeftoversShown
    <2>4. QED
      BY <2>1, <2>2, <2>3
  <1>15. ASSUME NEW j \in Jobs, RecordFails(j) PROVE QueueInv'
    <2> USE <1>15 DEF RecordFails, EndFiber
    <2>1. QueueTypeOK'
      <3>1. fiber' \in [Jobs -> Fibers] /\ wake' \in BOOLEAN
        BY DEF QueueTypeOK, Fibers
      <3>2. errors' \in 0..MaxErrors
        BY DEF QueueTypeOK
      <3>3. QED
        BY <3>1, <3>2 DEF QueueTypeOK
    <2>2. Taken' /\ Fresh'
      BY DEF QueueTypeOK, Taken, Fresh, MadeOnce
    <2>3. Discarding'
      BY DEF QueueTypeOK, Taken, Fresh, Discarding, LeftoversShown
    <2>4. QED
      BY <2>1, <2>2, <2>3
  <1>16. ASSUME WakeWorker PROVE QueueInv'
    <2> USE <1>16 DEF WakeWorker
    <2>1. QueueTypeOK'
      BY DEF QueueTypeOK, Statuses, Fibers, Taken
    <2>2. Taken' /\ Fresh'
      BY DEF QueueTypeOK, Taken, Fresh, MadeOnce
    <2>3. Discarding'
      BY DEF QueueTypeOK, Taken, Fresh, Discarding, LeftoversShown
    <2>4. QED
      BY <2>1, <2>2, <2>3
  <1>17. ASSUME Check PROVE QueueInv'
    <2> USE <1>17 DEF Check
    <2>1. QueueTypeOK'
      BY DEF QueueTypeOK, Statuses, Fibers, Taken
    <2>2. Taken' /\ Fresh'
      BY DEF QueueTypeOK, Taken, Fresh, MadeOnce
    <2>3. Discarding'
      BY DEF QueueTypeOK, Taken, Fresh, Discarding, LeftoversShown
    <2>4. QED
      BY <2>1, <2>2, <2>3
  <1>18. ASSUME TakeNext PROVE QueueInv'
    <2> USE <1>18 DEF TakeNext, Oldest, Queue
    <2>1. CASE Queue = {} /\ worker' = "asleep" /\ UNCHANGED <<status, attempt, fiber>>
      BY <2>1 DEF QueueTypeOK, Taken, Fresh, MadeOnce, Discarding, LeftoversShown
    <2>2. ASSUME NEW j \in Jobs, status[j] = "queued",
                 status' = [status EXCEPT ![j] = "running"],
                 attempt' = [attempt EXCEPT ![j] = @ + 1],
                 fiber' = [fiber EXCEPT ![j] = "waiting"],
                 worker' = "checking",
                 UNCHANGED <<born, resting, wake, recheck, requests, paused,
                             history, bounds>>
          PROVE  QueueInv'
      <3> HIDE <1>18
      <3> USE <2>2
      <3>1. QueueTypeOK'
        BY DEF QueueTypeOK, Statuses, Fibers
      <3>2. Taken' /\ Fresh'
        BY DEF QueueTypeOK, Taken, Fresh, MadeOnce
      <3>3. Discarding'
        BY DEF QueueTypeOK, Discarding, LeftoversShown
      <3>4. QED
        BY <3>1, <3>2, <3>3
    <2>3. \A i \in DOMAIN born : born[i] \in Jobs
      BY DEF QueueTypeOK
    <2>4. QED
      BY <2>1, <2>2, <2>3
  <1>19. ASSUME Recheck PROVE QueueInv'
    <2> USE <1>19 DEF Recheck
    <2>1. QueueTypeOK'
      BY DEF QueueTypeOK, Statuses, Fibers, Taken
    <2>2. Taken' /\ Fresh'
      BY DEF QueueTypeOK, Taken, Fresh, MadeOnce
    <2>3. Discarding'
      BY DEF QueueTypeOK, Taken, Fresh, Discarding, LeftoversShown
    <2>4. QED
      BY <2>1, <2>2, <2>3
  <1>20. ASSUME Pause PROVE QueueInv'
    <2> USE <1>20 DEF Pause
    <2>1. QueueTypeOK'
      BY DEF QueueTypeOK, Statuses, Fibers, Taken
    <2>2. Taken' /\ Fresh'
      BY DEF QueueTypeOK, Taken, Fresh, MadeOnce
    <2>3. Discarding'
      BY DEF QueueTypeOK, Taken, Fresh, Discarding, LeftoversShown
    <2>4. QED
      BY <2>1, <2>2, <2>3
  <1>21. ASSUME Resume PROVE QueueInv'
    <2> USE <1>21 DEF Resume
    <2>1. QueueTypeOK'
      BY DEF QueueTypeOK, Statuses, Fibers, Taken
    <2>2. Taken' /\ Fresh'
      BY DEF QueueTypeOK, Taken, Fresh, MadeOnce
    <2>3. Discarding'
      BY DEF QueueTypeOK, Taken, Fresh, Discarding, LeftoversShown
    <2>4. QED
      BY <2>1, <2>2, <2>3
  <1>22. ASSUME Restart PROVE QueueInv'
    <2> USE <1>22 DEF Restart, AfterRestart
    <2>1. QueueTypeOK'
      <3>1. status' \in [Jobs -> Statuses]
        BY DEF QueueTypeOK, Statuses
      <3>2. stops' \in 0..MaxStops
        BY DEF QueueTypeOK
      <3>3. QED
        BY <3>1, <3>2 DEF QueueTypeOK, Fibers
    <2>2. Taken' /\ Fresh'
      BY DEF QueueTypeOK, Taken, Fresh, MadeOnce
    <2>3. Discarding'
      BY DEF QueueTypeOK, Taken, Fresh, Discarding, LeftoversShown
    <2>4. QED
      BY <2>1, <2>2, <2>3
  <1>23. ASSUME NEW j \in Jobs, ClaimEnds(j) PROVE QueueInv'
    <2> USE <1>23 DEF ClaimEnds
    <2>1. QueueTypeOK'
      BY DEF QueueTypeOK, Statuses, Fibers, Taken
    <2>2. Taken' /\ Fresh'
      BY DEF QueueTypeOK, Taken, Fresh, MadeOnce
    <2>3. Discarding'
      BY DEF QueueTypeOK, Taken, Fresh, Discarding, LeftoversShown
    <2>4. QED
      BY <2>1, <2>2, <2>3
  <1>24. ASSUME NEW j \in Jobs, ClaimFails(j) PROVE QueueInv'
    <2> USE <1>24 DEF ClaimFails
    <2>1. QueueTypeOK'
      BY DEF QueueTypeOK, Statuses, Fibers, Taken
    <2>2. Taken' /\ Fresh'
      BY DEF QueueTypeOK, Taken, Fresh, MadeOnce
    <2>3. Discarding'
      BY DEF QueueTypeOK, Taken, Fresh, Discarding, LeftoversShown
    <2>4. QED
      BY <2>1, <2>2, <2>3
  <1>25. ASSUME Die PROVE QueueInv'
    <2> USE <1>25 DEF Die
    <2>1. QueueTypeOK'
      <3>1. fiber' \in [Jobs -> Fibers] /\ resting' \in [Jobs -> Nat]
        BY DEF QueueTypeOK, Fibers
      <3>2. errors' \in 0..MaxErrors
        BY DEF QueueTypeOK
      <3>3. QED
        BY <3>1, <3>2 DEF QueueTypeOK
    <2>2. Taken' /\ Fresh'
      BY DEF QueueTypeOK, Taken, Fresh, MadeOnce
    <2>3. Discarding'
      BY DEF QueueTypeOK, Taken, Fresh, Discarding, LeftoversShown
    <2>4. QED
      BY <2>1, <2>2, <2>3
  <1>26. CASE UNCHANGED vars
    BY <1>26 DEF vars, QueueTypeOK, Taken, Fresh, MadeOnce, Discarding,
       LeftoversShown
  <1>27. QED
    BY <1>1, <1>2, <1>3, <1>4, <1>5, <1>6, <1>7, <1>8, <1>9, <1>10,
       <1>11, <1>12, <1>13, <1>14, <1>15, <1>16, <1>17, <1>18, <1>19,
       <1>20, <1>21, <1>22, <1>23, <1>24, <1>25, <1>26 DEF Next

-----------------------------------------------------------------------------
(***************************************************************************)
(* The worker sleeps only while there is nothing for it, or something will *)
(* wake it.                                                                *)
(***************************************************************************)

\* Some fiber has its job, or was refused and rests.
Lives == \E j \in Jobs : fiber[j] # "none" \/ resting[j] > 0

\* What is in #running, for any fibers that have their jobs or rest.
LEMMA RunningLives ==
    ASSUME NEW fb, NEW rs \in [Jobs -> Nat]
    PROVE  UNION {{<<j, n>> : n \in (IF fb[j] = "none" THEN 1 ELSE 0)..rs[j]} :
                      j \in Jobs} # {}
               <=> \E j \in Jobs : fb[j] # "none" \/ rs[j] > 0
  <1> DEFINE first(j) == IF fb[j] = "none" THEN 1 ELSE 0
             Of(j) == {<<j, n>> : n \in first(j)..rs[j]}
  <1>1. ASSUME NEW j \in Jobs PROVE Of(j) # {} <=> first(j) <= rs[j]
    <2>1. rs[j] \in Nat /\ first(j) \in {0, 1}
      OBVIOUS
    <2>2. first(j) <= rs[j] => rs[j] \in first(j)..rs[j]
      BY <2>1
    <2>3. first(j)..rs[j] # {} => first(j) <= rs[j]
      BY <2>1
    <2> HIDE DEF first
    <2>4. QED
      BY <2>2, <2>3
  <1>2. ASSUME NEW j \in Jobs
        PROVE  first(j) <= rs[j] <=> fb[j] # "none" \/ rs[j] > 0
    <2>1. rs[j] \in Nat
      OBVIOUS
    <2>2. QED
      BY <2>1
  <1>3. UNION {Of(j) : j \in Jobs} # {} <=> \E j \in Jobs : Of(j) # {}
    <2> HIDE DEF Of
    <2>1. QED
      OBVIOUS
  <1>4. QED
    BY <1>1, <1>2, <1>3

\* Every step after which the worker sleeps leaves it what will wake it.
LEMMA StepNoLostJob ==
    ASSUME QueueTypeOK, QueueTypeOK', NoLostJob, [Next]_vars
    PROVE  NoLostJob'
  <1> USE DEF rows, workerVars, requests, history, bounds
  <1>1. (Running # {} <=> Lives) /\ (Running' # {} <=> Lives')
    BY RunningLives DEF Running, Lives, QueueTypeOK
  <1>2. NoLostJob' <=>
          (worker' = "asleep" /\ ~wake' =>
               \/ paused' \/ recheck' \/ Lives'
               \/ \A i \in Queue' : born'[i] \in claiming' \cup quiet')
    BY <1>1 DEF NoLostJob
  <1>3. worker = "asleep" /\ ~wake =>
            \/ paused \/ recheck \/ Lives
            \/ \A i \in Queue : born[i] \in claiming \cup quiet
    BY <1>1 DEF NoLostJob
  <1>4. ASSUME UNCHANGED <<worker, wake, paused, recheck>>,
               claiming' \cup quiet' = claiming \cup quiet,
               \A i \in Queue' : i \in Queue /\ born'[i] = born[i],
               Lives => Lives'
        PROVE  NoLostJob'
    BY <1>2, <1>3, <1>4
  <1>5. CASE UNCHANGED vars
    BY <1>4, <1>5 DEF vars, Queue, Lives
  <1>6. ASSUME NEW j \in Jobs, Prepare(j) PROVE NoLostJob'
    <2>1. status'[j] = "awaiting_claim"
          /\ \A k \in Jobs \ {j} : status'[k] = status[k]
      BY <1>6 DEF Prepare, QueueTypeOK
    <2>2. DOMAIN born = 1..Len(born) /\ DOMAIN born' = 1..(Len(born) + 1)
          /\ born'[Len(born) + 1] = j
          /\ \A i \in 1..Len(born) : born'[i] = born[i] /\ born[i] \in Jobs
      BY <1>6 DEF Prepare, QueueTypeOK
    <2>3. \A i \in Queue' : i \in Queue /\ born'[i] = born[i]
      BY <2>1, <2>2 DEF Queue
    <2>4. QED
      BY <1>4, <1>6, <2>3 DEF Prepare, Lives
  <1>7. ASSUME NEW j \in Jobs,
               Cancel(j) \/ StartDiscard(j) \/ Withdraw(j) \/ CleanUp(j)
                   \/ DropJob(j) \/ DiscardFails(j) \/ ClaimFails(j)
        PROVE  NoLostJob'
    <2>1. /\ UNCHANGED <<born, worker, wake, paused, recheck, fiber, resting>>
          /\ \/ status' = status
             \/ \E s \in Statuses \ {"queued"} :
                    status' = [status EXCEPT ![j] = s]
             \/ status' = [status EXCEPT ![j] = @]
      BY <1>7 DEF Cancel, StartDiscard, Withdraw, MayWithdraw, CleanUp,
         DiscardFails, ClaimFails, DropJob, Cancellable, Statuses
    <2>2. claiming' \cup quiet' = claiming \cup quiet
      BY <1>7 DEF Cancel, StartDiscard, Withdraw, CleanUp, DiscardFails,
         ClaimFails, DropJob
    <2>3. \A k \in Jobs : status'[k] = "queued" => status[k] = "queued"
      BY <2>1 DEF QueueTypeOK
    <2>4. \A i \in DOMAIN born : born[i] \in Jobs
      BY DEF QueueTypeOK
    <2>5. \A i \in Queue' : i \in Queue /\ born'[i] = born[i]
      BY <2>1, <2>3, <2>4 DEF Queue
    <2>6. QED
      BY <1>4, <2>1, <2>2, <2>5 DEF Lives
  <1>8. ASSUME NEW j \in Jobs, StartMaking(j) \/ Refuse(j) \/ Make(j)
        PROVE  NoLostJob'
    <2>1. /\ UNCHANGED <<rows, worker, wake, paused, recheck, resting>>
          /\ UNCHANGED <<claiming, quiet>>
          /\ fiber'[j] # "none"
          /\ \A k \in Jobs \ {j} : fiber'[k] = fiber[k]
      BY <1>8 DEF StartMaking, Refuse, Make, QueueTypeOK
    <2>2. QED
      BY <1>4, <2>1 DEF Lives, Queue
  <1>9. ASSUME NEW j \in Jobs, PutBack(j) PROVE NoLostJob'
    <2>1. wake' \/ resting'[j] = resting[j] + 1
      BY <1>9 DEF PutBack, EndFiber, QueueTypeOK
    <2>2. wake' \/ Lives'
      BY <2>1 DEF Lives, QueueTypeOK
    <2>3. QED
      BY <1>2, <2>2
  <1>10. ASSUME NEW j \in Jobs, RecordFails(j) PROVE NoLostJob'
    <2>1. CASE wake'
      BY <1>2, <2>1
    <2>2. CASE ~wake'
      <3>1. /\ UNCHANGED <<rows, worker, wake, paused, recheck, resting>>
            /\ UNCHANGED <<claiming, quiet>>
            /\ fiber'[j] # "none"
            /\ \A k \in Jobs \ {j} : fiber'[k] = fiber[k]
        BY <1>10, <2>2 DEF RecordFails, EndFiber, QueueTypeOK
      <3>2. QED
        BY <1>4, <3>1 DEF Lives, Queue
    <2>3. QED
      BY <2>1, <2>2
  <1>11. CASE Check
    <2>1. ~HasRoom => Running # {}
      BY QueueConstants, FS_EmptySet DEF HasRoom
    <2>2. worker' = "asleep" => paused' \/ recheck' \/ Running # {}
      BY <1>11, <2>1 DEF Check
    <2>3. Lives' <=> Lives
      BY <1>11 DEF Check, Lives
    <2>4. QED
      BY <1>1, <1>2, <2>2, <2>3
  <1>12. CASE TakeNext
    BY <1>2, <1>12 DEF TakeNext, Queue
  <1>13. CASE WakeWorker \/ Pause \/ Die
    BY <1>2, <1>13 DEF WakeWorker, Pause, Die
  <1>14. ASSUME wake' PROVE NoLostJob'
    BY <1>2, <1>14
  <1>15. CASE Recheck \/ Resume \/ Restart
              \/ \E j \in Jobs : ClaimEnds(j) \/ Rest(j) \/ Record(j)
    BY <1>14, <1>15 DEF Recheck, Resume, Restart, ClaimEnds, Rest, Record,
       EndFiber
  <1>16. ASSUME NEW j \in Jobs, Claim(j) PROVE NoLostJob'
    <2>1. /\ UNCHANGED <<born, workerVars, paused, quiet>>
          /\ claiming' = claiming \cup {j}
      BY <1>16 DEF Claim
    <2>2. \A k \in Jobs : status'[k] = status[k] \/ k = j
      BY <1>16 DEF Claim, QueueTypeOK
    <2>3. \A i \in DOMAIN born : born[i] \in Jobs
      BY DEF QueueTypeOK
    <2>4. \A i \in Queue' : i \in Queue \/ born[i] = j
      BY <2>1, <2>2, <2>3 DEF Queue
    <2>5. Lives' <=> Lives
      BY <2>1 DEF Lives
    <2>6. QED
      BY <1>2, <1>3, <2>1, <2>4, <2>5
  <1>17. QED
    BY <1>5, <1>6, <1>7, <1>8, <1>9, <1>10, <1>11, <1>12, <1>13, <1>15, <1>16
       DEF Next

-----------------------------------------------------------------------------
(***************************************************************************)
(* Theorems.                                                               *)
(***************************************************************************)

\* The inductive invariant of the queue: rows, fibers and deletes agree on
\* which jobs may still be started, and which of them left something.
THEOREM QueueInvariant == Spec => []QueueInv
  <1>1. Init => QueueInv
    BY InitQueueInv
  <1>2. QueueInv /\ [Next]_vars => QueueInv'
    BY StepQueueInv
  <1>3. QED
    BY <1>1, <1>2, PTL DEF Spec

\* Rows, fibers and deletes keep to their types: no attempt is given back
\* that wasn't spent (returnProvisioningJob).
THEOREM QueueTypes == Spec => []QueueTypeOK
  <1>1. QueueInv => QueueTypeOK
    BY DEF QueueInv
  <1>2. QED
    BY <1>1, QueueInvariant, PTL

\* A job's create is started at most once, however it's refused, put back and
\* cut off (run, requeueInterruptedProvisioningJobs).
THEOREM CreatesOnce == Spec => []MadeOnce
  <1>1. QueueInv => MadeOnce
    BY DEF QueueInv, Fresh
  <1>2. QED
    BY <1>1, QueueInvariant, PTL

\* A delete that removes what a job left is alone with it (discard).
THEOREM DiscardsAlone == Spec => []DiscardAlone
  <1>1. QueueInv => DiscardAlone
    BY DEF QueueInv, QueueTypeOK, Taken, Discarding, DiscardAlone
  <1>2. QED
    BY <1>1, QueueInvariant, PTL

\* What a create left stays on show in its job's row, until it's removed or
\* the job is cancelled.
THEOREM LeftoversStayShown == Spec => []LeftoversShown
  <1>1. QueueInv => LeftoversShown
    BY DEF QueueInv, Discarding
  <1>2. QED
    BY <1>1, QueueInvariant, PTL

\* A worker sleeps beside a queued job only while something will wake it, or
\* after the claim that was to wake it failed (claim, #drain, #recheckLater,
\* resume).
THEOREM JobsNotLost == Spec => []NoLostJob
  <1>1. Init => NoLostJob
    BY DEF Init, NoLostJob, Queue
  <1>2. QueueInv /\ QueueInv' /\ NoLostJob /\ [Next]_vars => NoLostJob'
    BY StepNoLostJob DEF QueueInv
  <1>3. QED
    BY <1>1, <1>2, QueueInvariant, PTL DEF Spec

=============================================================================
