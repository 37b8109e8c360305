-------------------------- MODULE BackupQueueProofs --------------------------
(***************************************************************************)
(* Proofs about the queue of backup tasks, for any number of tasks of each *)
(* kind, pauses, failed statements and restarts.                           *)
(*                                                                         *)
(* The properties share what the worker's task in hand may be (Hand).      *)
(* OneWins adds how far a restore must have come for its data to be in     *)
(* place (Restoring), ArchiveMatchesRow who may still remove an archive    *)
(* (Archiving), PruneOwed what a prune or delete leaves when it's cut off  *)
(* (Owing), CancelHolds which cancels a controller knows of (Cancelling),  *)
(* and NoLostTask that a task is only put back while a resume is to come   *)
(* (Awake).                                                                *)
(***************************************************************************)
EXTENDS BackupQueue, TLAPS, SequenceTheorems

\* The worker and its task: a row that it took and nothing has settled but a
\* cancel or the task's own deadline, and a deadline that passed before the
\* gate closed it, or not at all.
Hand ==
    /\ (worker = "busy") = (task # None)
    /\ task # None => status[task] \in {"running", "cancelled", "timed_out"}
    /\ task # None /\ status[task] = "cancelled" => task \in Creates
    /\ task # None /\ status[task] = "timed_out" => passed
    /\ task = None => ~installing /\ timer = "off"
    /\ timer = "fired" => passed
    /\ installing => ~passed
    /\ at \notin {"none", "claimed"} => active

\* A restore of files that put its data in place did so past the gate, and is
\* over unless a stop or a failed write cut it off.
Restoring ==
    /\ OneWins
    /\ task \in Restores /\ at \in {"installing", "made"} => installing
    /\ \A t \in Restores : restored[t] > 0 =>
           /\ status[t] \in {"running", "failed", "succeeded"}
           /\ task = t => at \in {"made", "failing"} /\ installing
           /\ task = t /\ at = "failing" => t \in cut

\* An archive is there from when it's made, and goes unless its row succeeds.
Archiving ==
    /\ ArchiveMatchesRow
    /\ \A t \in Creates : task = t /\ at = "made" => artifact[t]
    /\ \A t \in Creates : artifact[t] /\ t \notin cut =>
           IF task = t THEN at = "made" ELSE status[t] = "succeeded"

\* Data no snapshot uses outlives no prune that ends well.
Owing ==
    /\ PruneOwed
    /\ task \in Prunes /\ at = "made" => ~garbage
    /\ \A t \in Prunes \cup Deletes : status[t] = "timed_out" => gaveUp

\* A cancel stays in its row, and reaches a controller that's registered, or
\* looks for it.
Cancelling ==
    \A t \in Creates :
        /\ cancels[t] # "none" => status[t] = "cancelled"
        /\ cancels[t] = "answered" /\ task = t
               /\ at \notin {"claimed", "registered"} => aborted

BackupInv ==
    /\ BackupTypeOK
    /\ Hand
    /\ Restoring
    /\ Archiving
    /\ Owing
    /\ Cancelling

-----------------------------------------------------------------------------
\* A row that joins the queue's end leaves a queue.
LEMMA BornGrows ==
    ASSUME NEW s \in Seq(Tasks), NEW t \in Tasks
    PROVE  Append(s, t) \in Seq(Tasks)
  BY AppendProperties

\* What a Relay has before its first task.
LEMMA InitBackupInv == Init => BackupInv
  <1> SUFFICES ASSUME Init PROVE BackupInv
    OBVIOUS
  <1> USE BackupConstants DEF Init, Idle, Tasks, Asked
  <1>1. BackupTypeOK
    <2>1. pauses \in 0..MaxPauses /\ errors \in 0..MaxErrors /\ stops \in 0..MaxStops
      OBVIOUS
    <2>2. born \in Seq(Tasks)
      OBVIOUS
    <2>3. QED
      BY <2>1, <2>2 DEF BackupTypeOK, Ended
  <1>2. Hand /\ Restoring
    BY DEF Hand, Restoring, OneWins
  <1>3. Archiving /\ Owing /\ Cancelling
    BY DEF Archiving, ArchiveMatchesRow, Owing, PruneOwed, Cancelling, Ended
  <1>4. QED
    BY <1>1, <1>2, <1>3 DEF BackupInv

-----------------------------------------------------------------------------
\* Every step keeps the invariant.
LEMMA StepBackupInv == BackupInv /\ [Next]_vars => BackupInv'
  <1> SUFFICES ASSUME BackupInv, [Next]_vars PROVE BackupInv'
    OBVIOUS
  <1> USE BackupConstants DEF BackupInv, Tasks, Asked, rows, own, history, bounds
  <1>1. ASSUME NEW t \in Asked, Enqueue(t) PROVE BackupInv'
    <2> USE <1>1 DEF Enqueue
    <2>1. BackupTypeOK'
      BY DEF BackupTypeOK, Ended
    <2>2. Hand'
      BY DEF BackupTypeOK, Hand
    <2>3. Restoring'
      BY DEF BackupTypeOK, Hand, Restoring, OneWins
    <2>4. Archiving'
      BY DEF BackupTypeOK, Hand, Archiving, ArchiveMatchesRow, Ended
    <2>5. Owing'
      BY DEF BackupTypeOK, Hand, Owing, PruneOwed
    <2>6. Cancelling'
      BY DEF BackupTypeOK, Hand, Cancelling
    <2>7. QED
      BY <2>1, <2>2, <2>3, <2>4, <2>5, <2>6
  <1>2. ASSUME NEW t \in Creates, CancelRow(t) PROVE BackupInv'
    <2> USE <1>2 DEF CancelRow
    <2>1. BackupTypeOK'
      BY DEF BackupTypeOK, Ended
    <2>2. Hand'
      BY DEF BackupTypeOK, Hand
    <2>3. Restoring'
      BY DEF BackupTypeOK, Hand, Restoring, OneWins
    <2>4. Archiving'
      BY DEF BackupTypeOK, Hand, Archiving, ArchiveMatchesRow, Ended
    <2>5. Owing'
      BY DEF BackupTypeOK, Hand, Owing, PruneOwed
    <2>6. Cancelling'
      BY DEF BackupTypeOK, Hand, Cancelling
    <2>7. QED
      BY <2>1, <2>2, <2>3, <2>4, <2>5, <2>6
  <1>3. ASSUME NEW t \in Creates, CancelAbort(t) PROVE BackupInv'
    <2> USE <1>3 DEF CancelAbort
    <2>1. BackupTypeOK'
      BY DEF BackupTypeOK, Ended
    <2>2. Hand'
      BY DEF BackupTypeOK, Hand
    <2>3. Restoring'
      BY DEF BackupTypeOK, Hand, Restoring, OneWins
    <2>4. Archiving'
      BY DEF BackupTypeOK, Hand, Archiving, ArchiveMatchesRow, Ended
    <2>5. Owing'
      BY DEF BackupTypeOK, Hand, Owing, PruneOwed
    <2>6. Cancelling'
      BY DEF BackupTypeOK, Hand, Cancelling
    <2>7. QED
      BY <2>1, <2>2, <2>3, <2>4, <2>5, <2>6
  <1>4. ASSUME Pause PROVE BackupInv'
    <2> USE <1>4 DEF Pause
    <2>1. BackupTypeOK'
      BY DEF BackupTypeOK, Ended
    <2>2. Hand'
      BY DEF BackupTypeOK, Hand
    <2>3. Restoring'
      BY DEF BackupTypeOK, Hand, Restoring, OneWins
    <2>4. Archiving'
      BY DEF BackupTypeOK, Hand, Archiving, ArchiveMatchesRow, Ended
    <2>5. Owing'
      BY DEF BackupTypeOK, Hand, Owing, PruneOwed
    <2>6. Cancelling'
      BY DEF BackupTypeOK, Hand, Cancelling
    <2>7. QED
      BY <2>1, <2>2, <2>3, <2>4, <2>5, <2>6
  <1>5. ASSUME Resume PROVE BackupInv'
    <2> USE <1>5 DEF Resume
    <2>1. BackupTypeOK'
      BY DEF BackupTypeOK, Ended
    <2>2. Hand'
      BY DEF BackupTypeOK, Hand
    <2>3. Restoring'
      BY DEF BackupTypeOK, Hand, Restoring, OneWins
    <2>4. Archiving'
      BY DEF BackupTypeOK, Hand, Archiving, ArchiveMatchesRow, Ended
    <2>5. Owing'
      BY DEF BackupTypeOK, Hand, Owing, PruneOwed
    <2>6. Cancelling'
      BY DEF BackupTypeOK, Hand, Cancelling
    <2>7. QED
      BY <2>1, <2>2, <2>3, <2>4, <2>5, <2>6
  <1>6. ASSUME Wake PROVE BackupInv'
    <2> USE <1>6 DEF Wake
    <2>1. BackupTypeOK'
      BY DEF BackupTypeOK, Ended
    <2>2. Hand'
      BY DEF BackupTypeOK, Hand
    <2>3. Restoring'
      BY DEF BackupTypeOK, Hand, Restoring, OneWins
    <2>4. Archiving'
      BY DEF BackupTypeOK, Hand, Archiving, ArchiveMatchesRow, Ended
    <2>5. Owing'
      BY DEF BackupTypeOK, Hand, Owing, PruneOwed
    <2>6. Cancelling'
      BY DEF BackupTypeOK, Hand, Cancelling
    <2>7. QED
      BY <2>1, <2>2, <2>3, <2>4, <2>5, <2>6
  <1>7. ASSUME Check PROVE BackupInv'
    <2> USE <1>7 DEF Check
    <2>1. BackupTypeOK'
      BY DEF BackupTypeOK, Ended
    <2>2. Hand'
      BY DEF BackupTypeOK, Hand
    <2>3. Restoring'
      BY DEF BackupTypeOK, Hand, Restoring, OneWins
    <2>4. Archiving'
      BY DEF BackupTypeOK, Hand, Archiving, ArchiveMatchesRow, Ended
    <2>5. Owing'
      BY DEF BackupTypeOK, Hand, Owing, PruneOwed
    <2>6. Cancelling'
      BY DEF BackupTypeOK, Hand, Cancelling
    <2>7. QED
      BY <2>1, <2>2, <2>3, <2>4, <2>5, <2>6
  <1>8. ASSUME ClaimNone PROVE BackupInv'
    <2> USE <1>8 DEF ClaimNone
    <2>1. BackupTypeOK'
      BY DEF BackupTypeOK, Ended
    <2>2. Hand'
      BY DEF BackupTypeOK, Hand
    <2>3. Restoring'
      BY DEF BackupTypeOK, Hand, Restoring, OneWins
    <2>4. Archiving'
      BY DEF BackupTypeOK, Hand, Archiving, ArchiveMatchesRow, Ended
    <2>5. Owing'
      BY DEF BackupTypeOK, Hand, Owing, PruneOwed
    <2>6. Cancelling'
      BY DEF BackupTypeOK, Hand, Cancelling
    <2>7. QED
      BY <2>1, <2>2, <2>3, <2>4, <2>5, <2>6
  <1>9. ASSUME NEW t \in Tasks, Claim(t) PROVE BackupInv'
    <2> USE <1>9 DEF Claim
    <2>0. /\ worker = "claiming" /\ worker' = "busy" /\ task = None
          /\ status[t] = "queued" /\ status' = [status EXCEPT ![t] = "running"]
          /\ task' = t /\ at' = "claimed"
          /\ UNCHANGED <<refresh, born, wake, own, cancels, paused, artifact,
                         history, bounds>>
      BY DEF Claimable, Hand
    <2> HIDE <1>9
    <2>1. BackupTypeOK'
      BY <2>0 DEF BackupTypeOK, Ended
    <2>2. Hand'
      BY <2>0 DEF BackupTypeOK, Hand
    <2>3. Restoring'
      BY <2>0 DEF BackupTypeOK, Hand, Restoring, OneWins
    <2>4. Archiving'
      BY <2>0 DEF BackupTypeOK, Hand, Archiving, ArchiveMatchesRow, Ended
    <2>5. Owing'
      BY <2>0 DEF BackupTypeOK, Hand, Owing, PruneOwed
    <2>6. Cancelling'
      BY <2>0 DEF BackupTypeOK, Hand, Cancelling
    <2>7. QED
      BY <2>1, <2>2, <2>3, <2>4, <2>5, <2>6
  <1>10. ASSUME Register PROVE BackupInv'
    <2> USE <1>10 DEF Register
    <2>1. BackupTypeOK'
      BY DEF BackupTypeOK, Ended
    <2>2. Hand'
      BY DEF BackupTypeOK, Hand
    <2>3. Restoring'
      BY DEF BackupTypeOK, Hand, Restoring, OneWins
    <2>4. Archiving'
      BY DEF BackupTypeOK, Hand, Archiving, ArchiveMatchesRow, Ended
    <2>5. Owing'
      BY DEF BackupTypeOK, Hand, Owing, PruneOwed
    <2>6. Cancelling'
      BY DEF BackupTypeOK, Hand, Cancelling
    <2>7. QED
      BY <2>1, <2>2, <2>3, <2>4, <2>5, <2>6
  <1>11. ASSUME Look PROVE BackupInv'
    <2> USE <1>11 DEF Look, Goes
    <2>1. BackupTypeOK'
      BY DEF BackupTypeOK, Ended
    <2>2. Hand'
      BY DEF BackupTypeOK, Hand
    <2>3. Restoring'
      BY DEF BackupTypeOK, Hand, Restoring, OneWins
    <2>4. Archiving'
      BY DEF BackupTypeOK, Hand, Archiving, ArchiveMatchesRow, Ended
    <2>5. Owing'
      BY DEF BackupTypeOK, Hand, Owing, PruneOwed
    <2>6. Cancelling'
      BY DEF BackupTypeOK, Hand, Cancelling
    <2>7. QED
      BY <2>1, <2>2, <2>3, <2>4, <2>5, <2>6
  <1>12. ASSUME Grant PROVE BackupInv'
    <2> USE <1>12 DEF Grant, Goes
    <2>1. BackupTypeOK'
      BY DEF BackupTypeOK, Ended
    <2>2. Hand'
      BY DEF BackupTypeOK, Hand
    <2>3. Restoring'
      BY DEF BackupTypeOK, Hand, Restoring, OneWins
    <2>4. Archiving'
      BY DEF BackupTypeOK, Hand, Archiving, ArchiveMatchesRow, Ended
    <2>5. Owing'
      BY DEF BackupTypeOK, Hand, Owing, PruneOwed
    <2>6. Cancelling'
      BY DEF BackupTypeOK, Hand, Cancelling
    <2>7. QED
      BY <2>1, <2>2, <2>3, <2>4, <2>5, <2>6
  <1>13. ASSUME Withdraw PROVE BackupInv'
    <2> USE <1>13 DEF Withdraw, Goes
    <2>1. BackupTypeOK'
      BY DEF BackupTypeOK, Ended
    <2>2. Hand'
      BY DEF BackupTypeOK, Hand
    <2>3. Restoring'
      BY DEF BackupTypeOK, Hand, Restoring, OneWins
    <2>4. Archiving'
      BY DEF BackupTypeOK, Hand, Archiving, ArchiveMatchesRow, Ended
    <2>5. Owing'
      BY DEF BackupTypeOK, Hand, Owing, PruneOwed
    <2>6. Cancelling'
      BY DEF BackupTypeOK, Hand, Cancelling
    <2>7. QED
      BY <2>1, <2>2, <2>3, <2>4, <2>5, <2>6
  <1>14. ASSUME Refused PROVE BackupInv'
    <2> USE <1>14 DEF Refused, Goes
    <2>1. BackupTypeOK'
      BY DEF BackupTypeOK, Ended
    <2>2. Hand'
      BY DEF BackupTypeOK, Hand
    <2>3. Restoring'
      BY DEF BackupTypeOK, Hand, Restoring, OneWins
    <2>4. Archiving'
      BY DEF BackupTypeOK, Hand, Archiving, ArchiveMatchesRow, Ended
    <2>5. Owing'
      BY DEF BackupTypeOK, Hand, Owing, PruneOwed
    <2>6. Cancelling'
      BY DEF BackupTypeOK, Hand, Cancelling
    <2>7. QED
      BY <2>1, <2>2, <2>3, <2>4, <2>5, <2>6
  <1>15. ASSUME Archive PROVE BackupInv'
    <2> USE <1>15 DEF Archive, Goes
    <2>1. BackupTypeOK'
      BY DEF BackupTypeOK, Ended
    <2>2. Hand'
      BY DEF BackupTypeOK, Hand
    <2>3. Restoring'
      BY DEF BackupTypeOK, Hand, Restoring, OneWins
    <2>4. Archiving'
      BY DEF BackupTypeOK, Hand, Archiving, ArchiveMatchesRow, Ended
    <2>5. Owing'
      BY DEF BackupTypeOK, Hand, Owing, PruneOwed
    <2>6. Cancelling'
      BY DEF BackupTypeOK, Hand, Cancelling
    <2>7. QED
      BY <2>1, <2>2, <2>3, <2>4, <2>5, <2>6
  <1>16. ASSUME BeginInstall PROVE BackupInv'
    <2> USE <1>16 DEF BeginInstall, Goes
    <2>1. BackupTypeOK'
      BY DEF BackupTypeOK, Ended
    <2>2. Hand'
      BY DEF BackupTypeOK, Hand
    <2>3. Restoring'
      BY DEF BackupTypeOK, Hand, Restoring, OneWins
    <2>4. Archiving'
      BY DEF BackupTypeOK, Hand, Archiving, ArchiveMatchesRow, Ended
    <2>5. Owing'
      BY DEF BackupTypeOK, Hand, Owing, PruneOwed
    <2>6. Cancelling'
      BY DEF BackupTypeOK, Hand, Cancelling
    <2>7. QED
      BY <2>1, <2>2, <2>3, <2>4, <2>5, <2>6
  <1>17. ASSUME BeginDatabase PROVE BackupInv'
    <2> USE <1>17 DEF BeginDatabase, Goes
    <2>1. BackupTypeOK'
      BY DEF BackupTypeOK, Ended
    <2>2. Hand'
      BY DEF BackupTypeOK, Hand
    <2>3. Restoring'
      BY DEF BackupTypeOK, Hand, Restoring, OneWins
    <2>4. Archiving'
      BY DEF BackupTypeOK, Hand, Archiving, ArchiveMatchesRow, Ended
    <2>5. Owing'
      BY DEF BackupTypeOK, Hand, Owing, PruneOwed
    <2>6. Cancelling'
      BY DEF BackupTypeOK, Hand, Cancelling
    <2>7. QED
      BY <2>1, <2>2, <2>3, <2>4, <2>5, <2>6
  <1>18. ASSUME Install PROVE BackupInv'
    <2> USE <1>18 DEF Install, Goes
    <2>1. BackupTypeOK'
      BY DEF BackupTypeOK, Ended
    <2>2. Hand'
      BY DEF BackupTypeOK, Hand
    <2>3. Restoring'
      BY DEF BackupTypeOK, Hand, Restoring, OneWins
    <2>4. Archiving'
      BY DEF BackupTypeOK, Hand, Archiving, ArchiveMatchesRow, Ended
    <2>5. Owing'
      BY DEF BackupTypeOK, Hand, Owing, PruneOwed
    <2>6. Cancelling'
      BY DEF BackupTypeOK, Hand, Cancelling
    <2>7. QED
      BY <2>1, <2>2, <2>3, <2>4, <2>5, <2>6
  <1>19. ASSUME Forget PROVE BackupInv'
    <2> USE <1>19 DEF Forget, Goes
    <2>1. BackupTypeOK'
      BY DEF BackupTypeOK, Ended
    <2>2. Hand'
      BY DEF BackupTypeOK, Hand
    <2>3. Restoring'
      BY DEF BackupTypeOK, Hand, Restoring, OneWins
    <2>4. Archiving'
      BY DEF BackupTypeOK, Hand, Archiving, ArchiveMatchesRow, Ended
    <2>5. Owing'
      BY DEF BackupTypeOK, Hand, Owing, PruneOwed
    <2>6. Cancelling'
      BY DEF BackupTypeOK, Hand, Cancelling
    <2>7. QED
      BY <2>1, <2>2, <2>3, <2>4, <2>5, <2>6
  <1>20. ASSUME Prune PROVE BackupInv'
    <2> USE <1>20 DEF Prune, Goes
    <2>1. BackupTypeOK'
      BY DEF BackupTypeOK, Ended
    <2>2. Hand'
      BY DEF BackupTypeOK, Hand
    <2>3. Restoring'
      BY DEF BackupTypeOK, Hand, Restoring, OneWins
    <2>4. Archiving'
      BY DEF BackupTypeOK, Hand, Archiving, ArchiveMatchesRow, Ended
    <2>5. Owing'
      BY DEF BackupTypeOK, Hand, Owing, PruneOwed
    <2>6. Cancelling'
      BY DEF BackupTypeOK, Hand, Cancelling
    <2>7. QED
      BY <2>1, <2>2, <2>3, <2>4, <2>5, <2>6
  <1>21. ASSUME Break PROVE BackupInv'
    <2> USE <1>21 DEF Break, Goes
    <2>1. BackupTypeOK'
      BY DEF BackupTypeOK, Ended
    <2>2. Hand'
      BY DEF BackupTypeOK, Hand
    <2>3. Restoring'
      BY DEF BackupTypeOK, Hand, Restoring, OneWins
    <2>4. Archiving'
      BY DEF BackupTypeOK, Hand, Archiving, ArchiveMatchesRow, Ended
    <2>5. Owing'
      BY DEF BackupTypeOK, Hand, Owing, PruneOwed
    <2>6. Cancelling'
      BY DEF BackupTypeOK, Hand, Cancelling
    <2>7. QED
      BY <2>1, <2>2, <2>3, <2>4, <2>5, <2>6
  <1>22. ASSUME Complete PROVE BackupInv'
    <2> USE <1>22 DEF Complete, Over, OwesPrune
    <2>a. PICK new \in SUBSET Prunes :
             /\ \A p \in new : status[p] = "none"
             /\ status' = [t \in Tasks |-> IF t = task THEN "succeeded"
                                           ELSE IF t \in new THEN "queued"
                                           ELSE status[t]]
             /\ born' \in Seq(Tasks)
             /\ task \in Deletes =>
                    \E p \in Prunes : status[p] = "queued" \/ p \in new
      <3>1. task \in Tasks /\ status \in [Tasks -> Ended \cup {"none", "queued", "running"}]
        BY DEF BackupTypeOK
      <3>2. CASE ~OwesPrune(task)
        <4>1. status' = [status EXCEPT ![task] = "succeeded"] /\ born' = born
          BY <3>2
        <4>2. WITNESS {} \in SUBSET Prunes
        <4>3. QED
          BY <3>1, <3>2, <4>1 DEF BackupTypeOK
      <3>3. CASE OwesPrune(task)
        <4>1. PICK p \in Prunes :
                 /\ status[p] = "none"
                 /\ status' = [status EXCEPT ![task] = "succeeded", ![p] = "queued"]
                 /\ born' = Append(born, p)
          BY <3>3
        <4>2. p # task
          BY <4>1
        <4>3. born' \in Seq(Tasks)
          BY <4>1, BornGrows DEF BackupTypeOK
        <4>4. WITNESS {p} \in SUBSET Prunes
        <4>5. QED
          BY <3>1, <4>1, <4>2, <4>3
      <3>4. QED
        BY <3>2, <3>3
    <2>b. /\ at = "made" /\ status[task] = "running" /\ task \in Tasks
          /\ task \notin new
          /\ worker' = "checking" /\ Over
          /\ UNCHANGED <<refresh, wake, cancels, paused, artifact, history, bounds>>
      BY <2>a DEF BackupTypeOK
    <2> HIDE <1>22
    <2>1. BackupTypeOK'
      BY <2>a, <2>b DEF BackupTypeOK, Ended
    <2>2. Hand'
      BY <2>a, <2>b DEF BackupTypeOK, Hand
    <2>3. Restoring'
      BY <2>a, <2>b DEF BackupTypeOK, Hand, Restoring, OneWins
    <2>4. Archiving'
      BY <2>a, <2>b DEF BackupTypeOK, Hand, Archiving, ArchiveMatchesRow, Ended
    <2>5. Owing'
      BY <2>a, <2>b DEF BackupTypeOK, Hand, Owing, PruneOwed
    <2>6. Cancelling'
      BY <2>a, <2>b DEF BackupTypeOK, Hand, Cancelling
    <2>7. QED
      BY <2>1, <2>2, <2>3, <2>4, <2>5, <2>6
  <1>23. ASSUME CompleteLate PROVE BackupInv'
    <2> USE <1>23 DEF CompleteLate, Goes
    <2>1. BackupTypeOK'
      BY DEF BackupTypeOK, Ended
    <2>2. Hand'
      BY DEF BackupTypeOK, Hand
    <2>3. Restoring'
      BY DEF BackupTypeOK, Hand, Restoring, OneWins
    <2>4. Archiving'
      BY DEF BackupTypeOK, Hand, Archiving, ArchiveMatchesRow, Ended
    <2>5. Owing'
      BY DEF BackupTypeOK, Hand, Owing, PruneOwed
    <2>6. Cancelling'
      BY DEF BackupTypeOK, Hand, Cancelling
    <2>7. QED
      BY <2>1, <2>2, <2>3, <2>4, <2>5, <2>6
  <1>24. ASSUME Fail PROVE BackupInv'
    <2> USE <1>24 DEF Fail, Over
    <2>1. BackupTypeOK'
      BY DEF BackupTypeOK, Ended
    <2>2. Hand'
      BY DEF BackupTypeOK, Hand
    <2>3. Restoring'
      BY DEF BackupTypeOK, Hand, Restoring, OneWins
    <2>4. Archiving'
      BY DEF BackupTypeOK, Hand, Archiving, ArchiveMatchesRow, Ended
    <2>5. Owing'
      BY DEF BackupTypeOK, Hand, Owing, PruneOwed
    <2>6. Cancelling'
      BY DEF BackupTypeOK, Hand, Cancelling
    <2>7. QED
      BY <2>1, <2>2, <2>3, <2>4, <2>5, <2>6
  <1>25. ASSUME PutBack PROVE BackupInv'
    <2> USE <1>25 DEF PutBack, Over
    <2>1. BackupTypeOK'
      BY DEF BackupTypeOK, Ended
    <2>2. Hand'
      BY DEF BackupTypeOK, Hand
    <2>3. Restoring'
      BY DEF BackupTypeOK, Hand, Restoring, OneWins
    <2>4. Archiving'
      BY DEF BackupTypeOK, Hand, Archiving, ArchiveMatchesRow, Ended
    <2>5. Owing'
      BY DEF BackupTypeOK, Hand, Owing, PruneOwed
    <2>6. Cancelling'
      BY DEF BackupTypeOK, Hand, Cancelling
    <2>7. QED
      BY <2>1, <2>2, <2>3, <2>4, <2>5, <2>6
  <1>26. ASSUME Expire PROVE BackupInv'
    <2> USE <1>26 DEF Expire
    <2>1. BackupTypeOK'
      BY DEF BackupTypeOK, Ended
    <2>2. Hand'
      BY DEF BackupTypeOK, Hand
    <2>3. Restoring'
      BY DEF BackupTypeOK, Hand, Restoring, OneWins
    <2>4. Archiving'
      BY DEF BackupTypeOK, Hand, Archiving, ArchiveMatchesRow, Ended
    <2>5. Owing'
      BY DEF BackupTypeOK, Hand, Owing, PruneOwed
    <2>6. Cancelling'
      BY DEF BackupTypeOK, Hand, Cancelling
    <2>7. QED
      BY <2>1, <2>2, <2>3, <2>4, <2>5, <2>6
  <1>27. ASSUME TimeOut PROVE BackupInv'
    <2> USE <1>27 DEF TimeOut
    <2>1. BackupTypeOK'
      BY DEF BackupTypeOK, Ended
    <2>2. Hand'
      BY DEF BackupTypeOK, Hand
    <2>3. Restoring'
      BY DEF BackupTypeOK, Hand, Restoring, OneWins
    <2>4. Archiving'
      BY DEF BackupTypeOK, Hand, Archiving, ArchiveMatchesRow, Ended
    <2>5. Owing'
      BY DEF BackupTypeOK, Hand, Owing, PruneOwed
    <2>6. Cancelling'
      BY DEF BackupTypeOK, Hand, Cancelling
    <2>7. QED
      BY <2>1, <2>2, <2>3, <2>4, <2>5, <2>6
  <1>28. ASSUME Die PROVE BackupInv'
    <2> USE <1>28 DEF Die, Over
    <2>a. errors' \in 0..MaxErrors
      BY DEF BackupTypeOK
    <2>b. /\ worker' = "dead" /\ Over
          /\ UNCHANGED <<rows, wake, cancels, paused, artifact, history, pauses,
                         stops>>
      OBVIOUS
    <2>1. BackupTypeOK'
      <3> HIDE <1>28
      <3> QED
        BY <2>a, <2>b DEF BackupTypeOK
    <2>2. Hand'
      BY DEF BackupTypeOK, Hand
    <2>3. Restoring'
      BY DEF BackupTypeOK, Hand, Restoring, OneWins
    <2>4. Archiving'
      BY DEF BackupTypeOK, Hand, Archiving, ArchiveMatchesRow, Ended
    <2>5. Owing'
      BY DEF BackupTypeOK, Hand, Owing, PruneOwed
    <2>6. Cancelling'
      BY DEF BackupTypeOK, Hand, Cancelling
    <2>7. QED
      BY <2>1, <2>2, <2>3, <2>4, <2>5, <2>6
  <1>29. ASSUME CompleteBreaks PROVE BackupInv'
    <2> USE <1>29 DEF CompleteBreaks
    <2>1. BackupTypeOK'
      BY DEF BackupTypeOK, Ended
    <2>2. Hand'
      BY DEF BackupTypeOK, Hand
    <2>3. Restoring'
      BY DEF BackupTypeOK, Hand, Restoring, OneWins
    <2>4. Archiving'
      BY DEF BackupTypeOK, Hand, Archiving, ArchiveMatchesRow, Ended
    <2>5. Owing'
      BY DEF BackupTypeOK, Hand, Owing, PruneOwed
    <2>6. Cancelling'
      BY DEF BackupTypeOK, Hand, Cancelling
    <2>7. QED
      BY <2>1, <2>2, <2>3, <2>4, <2>5, <2>6
  <1>30. ASSUME Restart PROVE BackupInv'
    <2> USE <1>30 DEF Restart, Over, AfterRestart
    <2>a. PICK swapped \in SUBSET Restores :
             /\ \A t \in swapped : t = task /\ at = "installing"
             /\ status' = [t \in Tasks |-> AfterRestart(t, t \in swapped)]
             /\ restored' = [t \in DOMAIN restored |->
                               restored[t] + IF t \in swapped THEN 1 ELSE 0]
      <3>1. PICK finishes \in BOOLEAN :
               LET swapped == {t \in Restores : /\ finishes
                                                /\ t = task
                                                /\ at = "installing"}
               IN  /\ status' = [t \in Tasks |-> AfterRestart(t, t \in swapped)]
                   /\ restored' = [t \in DOMAIN restored |->
                                     restored[t] + IF t \in swapped THEN 1 ELSE 0]
        OBVIOUS
      <3>2. WITNESS {t \in Restores : finishes /\ t = task /\ at = "installing"}
                      \in SUBSET Restores
      <3>3. QED
        BY <3>1
    <2>b. /\ stops' \in 0..MaxStops
          /\ refresh' = [t \in Tasks |-> \/ refresh[t]
                                         \/ status[t] = "running" /\ t \in Signed]
          /\ cut' = cut \cup {t \in Tasks : status[t] = "running" \/ t = task}
          /\ cancels' = [t \in Creates |->
                           IF cancels[t] = "written" THEN "none" ELSE cancels[t]]
          /\ wake' = TRUE /\ worker' = "asleep" /\ Over
          /\ UNCHANGED <<born, paused, artifact, garbage, gaveUp, pauses, errors>>
      BY DEF BackupTypeOK
    <2> HIDE <1>30
    <2>c. /\ status' \in [Tasks -> Ended \cup {"none", "queued", "running"}]
          /\ \A t \in Tasks : status[t] # "running" => status'[t] = status[t]
          /\ \A t \in swapped : status[t] = "running" => status'[t] = "succeeded"
          /\ \A t \in Restores \ swapped :
                 status[t] = "running" => status'[t] = "failed"
      <3>1. \A t \in Tasks : status'[t] = AfterRestart(t, t \in swapped)
        BY <2>a
      <3>2. \A t \in Tasks : status[t] \in Ended \cup {"none", "queued", "running"}
        BY DEF BackupTypeOK
      <3>3. \A t \in Tasks : status'[t] \in Ended \cup {"none", "queued", "running"}
        BY <3>1, <3>2 DEF Ended
      <3>4. QED
        BY <2>a, <3>1, <3>3
    <2>d. /\ restored' \in [Restores \cup Databases -> Nat]
          /\ \A t \in Restores : restored'[t] > 0 => restored[t] > 0 \/ t \in swapped
      BY <2>a DEF BackupTypeOK
    <2>1. BackupTypeOK'
      <3>1. /\ refresh' \in [Tasks -> BOOLEAN]
            /\ cut' \in SUBSET Tasks
            /\ cancels' \in [Creates -> {"none", "written", "answered"}]
        BY <2>b DEF BackupTypeOK
      <3>2. QED
        BY <2>b, <2>c, <2>d, <3>1 DEF BackupTypeOK
    <2>2. Hand'
      BY <2>a, <2>b DEF BackupTypeOK, Hand
    <2>3. Restoring'
      <3>1. \A t \in Restores : t \in swapped =>
                t \in cut' /\ status[t] \in {"running", "cancelled", "timed_out"}
                  /\ status[t] # "cancelled" /\ status[t] # "timed_out"
        BY <2>a, <2>b DEF BackupTypeOK, Hand, Restoring
      <3>2. \A t \in Restores : status[t] = "running" => t \in cut'
        BY <2>b
      <3>3. cut \subseteq cut' /\ task' = None /\ None \notin Restores
        BY <2>b
      <3>4. \A t \in Restores : task = t => t \in cut'
        BY <2>b
      <3>5. ASSUME NEW t \in Restores, restored'[t] > 0
            PROVE  status'[t] \in {"failed", "succeeded"}
                     /\ (t \in cut' \/ status'[t] = "succeeded")
        <4>1. CASE t \in swapped
          BY <2>c, <3>1, <4>1
        <4>2. CASE t \notin swapped /\ status[t] = "running"
          BY <2>c, <3>2, <4>2
        <4>3. CASE t \notin swapped /\ status[t] # "running"
          <5>1. restored[t] > 0 /\ status'[t] = status[t]
            BY <2>c, <2>d, <3>5, <4>3
          <5>2. QED
            BY <3>3, <3>4, <4>3, <5>1 DEF Restoring, OneWins
        <4>4. QED
          BY <4>1, <4>2, <4>3
      <3>6. \A t \in Restores : restored'[t] \in Nat
        BY <2>d
      <3>7. \A t \in Restores : status'[t] = "timed_out" => restored'[t] = 0
        BY <3>5, <3>6
      <3>8. QED
        BY <3>3, <3>5, <3>7 DEF Restoring, OneWins
    <2>4. Archiving'
      BY <2>a, <2>b DEF BackupTypeOK, Hand, Archiving, ArchiveMatchesRow, Ended
    <2>5. Owing'
      BY <2>a, <2>b DEF BackupTypeOK, Hand, Owing, PruneOwed
    <2>6. Cancelling'
      BY <2>a, <2>b DEF BackupTypeOK, Hand, Cancelling
    <2>7. QED
      BY <2>1, <2>2, <2>3, <2>4, <2>5, <2>6
  <1>31. CASE UNCHANGED vars
    BY <1>31 DEF vars, BackupTypeOK, Hand, Restoring, OneWins, Archiving,
       ArchiveMatchesRow, Owing, PruneOwed, Cancelling
  <1>32. QED
    BY <1>1, <1>2, <1>3, <1>4, <1>5, <1>6, <1>7, <1>8, <1>9, <1>10,
       <1>11, <1>12, <1>13, <1>14, <1>15, <1>16, <1>17, <1>18, <1>19,
       <1>20, <1>21, <1>22, <1>23, <1>24, <1>25, <1>26, <1>27, <1>28,
       <1>29, <1>30, <1>31 DEF Next, WorkerSteps, TaskSteps

-----------------------------------------------------------------------------
(***************************************************************************)
(* The worker sleeps only while there is nothing for it, or a resume or a  *)
(* wake-up is still to come.                                               *)
(***************************************************************************)

\* No task is left to a worker that nothing wakes, nor will be once the one in
\* hand is put back.
Awake ==
    /\ NoLostTask
    /\ at = "paused" => paused \/ wake

\* A create that's cancelled makes no other task claimable.
LEMMA CancelFreesNone ==
    ASSUME BackupTypeOK, NEW t \in Creates,
           status' = [status EXCEPT ![t] = "cancelled"], refresh' = refresh
    PROVE  Claimable' \subseteq Claimable
  <1> DEFINE ready == {u \in Tasks : status[u] = "queued" /\ ~refresh[u]}
  <1>1. ready' = ready \ {t}
    BY DEF BackupTypeOK
  <1>2. t \notin Deletes
    BY BackupConstants
  <1>3. Claimable = {u \in ready : u \in Prunes => ready \cap Deletes = {}}
    BY DEF Claimable
  <1>4. Claimable' = {u \in ready' : u \in Prunes => ready' \cap Deletes = {}}
    BY DEF Claimable
  <1> HIDE DEF ready
  <1>5. QED
    BY <1>1, <1>2, <1>3, <1>4

\* What a worker that goes to sleep, or sleeps on, leaves.
LEMMA StepAwake ==
    ASSUME BackupTypeOK, Hand, Awake, [Next]_vars
    PROVE  Awake'
  <1> USE DEF Awake, rows, own, history, bounds
  <1>1. CASE UNCHANGED vars
    BY <1>1 DEF NoLostTask, Claimable, vars
  <1>2. ASSUME wake' PROVE Awake'
    BY <1>2 DEF NoLostTask
  <1>3. ASSUME NEW t \in Creates, CancelRow(t) PROVE Awake'
    BY <1>3, CancelFreesNone DEF CancelRow, NoLostTask
  <1>4. ASSUME Pause \/ \E t \in Creates : CancelAbort(t) PROVE Awake'
    BY <1>4 DEF Pause, CancelAbort, NoLostTask, Claimable
  <1>5. CASE Wake \/ Check \/ ClaimNone \/ \E t \in Tasks : Claim(t)
    <2>1. at # "paused"
      BY <1>5 DEF Wake, Check, ClaimNone, Claim, Hand, BackupTypeOK
    <2>2. QED
      BY <1>5, <2>1 DEF Wake, Check, ClaimNone, Claim, NoLostTask, Claimable
  <1>6. ASSUME task # None, worker' = worker, at' # "paused" PROVE Awake'
    BY <1>6 DEF Hand, NoLostTask
  <1>7. CASE Register \/ Look \/ Grant \/ Refused \/ Archive \/ BeginInstall
             \/ BeginDatabase \/ Install \/ Forget \/ Prune \/ Break
             \/ CompleteLate \/ CompleteBreaks
    BY <1>6, <1>7 DEF Register, Look, Grant, Refused, Archive, BeginInstall,
       BeginDatabase, Install, Forget, Prune, Break, CompleteLate,
       CompleteBreaks, Goes, BackupTypeOK
  <1>8. CASE Withdraw
    BY <1>8 DEF Withdraw, Goes, Hand, BackupTypeOK, NoLostTask
  <1>9. CASE Complete \/ Fail \/ Die
    BY <1>9 DEF Complete, Fail, Die, Over, NoLostTask
  <1>10. CASE PutBack
    BY <1>10 DEF PutBack, Over, NoLostTask
  <1>11. CASE Expire \/ TimeOut
    <2>1. task # None
      BY <1>11 DEF Expire, TimeOut, Hand
    <2>2. UNCHANGED <<worker, at, wake, paused>>
      BY <1>11 DEF Expire, TimeOut
    <2>3. QED
      BY <2>1, <2>2 DEF Hand, NoLostTask
  <1>12. QED
    BY <1>1, <1>2, <1>3, <1>4, <1>5, <1>7, <1>8, <1>9, <1>10, <1>11
    DEF Next, WorkerSteps, TaskSteps, Enqueue, Resume, Restart

-----------------------------------------------------------------------------
(***************************************************************************)
(* Theorems.                                                               *)
(***************************************************************************)

\* The inductive invariant of the backup queue: the worker, the task in its
\* hand and the rows agree.
THEOREM BackupInvariant == Spec => []BackupInv
  <1>1. Init => BackupInv
    BY InitBackupInv
  <1>2. BackupInv /\ [Next]_vars => BackupInv'
    BY StepBackupInv
  <1>3. QED
    BY <1>1, <1>2, PTL DEF Spec

\* Rows and the worker keep to their types, and the worker has a task exactly
\* while that task is somewhere (#runTask).
THEOREM BackupTypes == Spec => []BackupTypeOK
  <1>1. BackupInv => BackupTypeOK
    BY DEF BackupInv
  <1>2. QED
    BY <1>1, BackupInvariant, PTL

\* Of a restore of files and its deadline, one wins (beginInstall and the
\* deadline in #execute).
THEOREM RestoreOrDeadline == Spec => []OneWins
  <1>1. BackupInv => OneWins
    BY DEF BackupInv, Restoring
  <1>2. QED
    BY <1>1, BackupInvariant, PTL

\* The archive of a create that ended is there exactly if it succeeded,
\* whatever overtook it (completeBackupTask and what #runTask removes).
THEOREM ArchivesMatchRows == Spec => []ArchiveMatchesRow
  <1>1. BackupInv => ArchiveMatchesRow
    BY DEF BackupInv, Archiving
  <1>2. QED
    BY <1>1, BackupInvariant, PTL

\* Data no snapshot uses is owed a prune, across restarts (insertBackupPrune
\* in completeBackupTask's transaction).
THEOREM PrunesAreOwed == Spec => []PruneOwed
  <1>1. BackupInv => PruneOwed
    BY DEF BackupInv, Owing
  <1>2. QED
    BY <1>1, BackupInvariant, PTL

\* Once a cancel is answered, the task it stopped never starts (cancel and
\* the look #runTask takes after it registers).
THEOREM CancelsHold == Spec => CancelHolds
  <1> DEFINE Stays == \A t \in Creates :
                          cancels[t] = "answered" /\ task = t /\ at # "working"
                              => at' # "working"
  <1>1. ASSUME BackupInv, [Next]_vars PROVE [Stays]_vars
    <2>1. CASE Grant
      BY <1>1, <2>1 DEF Grant, Goes, BackupInv, Cancelling
    <2>2. ASSUME at # "working", at' = "working" PROVE Grant
      BY <1>1, <2>2 DEF Next, WorkerSteps, TaskSteps, vars, rows, own, history, bounds,
         Enqueue, CancelRow, CancelAbort, Pause, Resume, Wake, Check, ClaimNone, Claim,
         Goes, Over, Register, Look, Withdraw, Refused, Archive, BeginInstall,
         BeginDatabase, Install, Forget, Prune, Break, Complete, CompleteLate, Fail,
         PutBack, Expire, TimeOut, Die, CompleteBreaks, Restart
    <2>3. QED
      BY <2>1, <2>2
  <1>2. QED
    BY <1>1, BackupInvariant, PTL DEF Spec, CancelHolds

\* No task that could be taken is left to a worker that sleeps with nothing to
\* wake it (enqueue, resume, and #drain's look before it sleeps).
THEOREM TasksNotLost == Spec => []NoLostTask
  <1>1. Init => Awake
    BY DEF Init, Idle, Awake, NoLostTask
  <1>2. BackupInv /\ Awake /\ [Next]_vars => Awake'
    BY StepAwake DEF BackupInv
  <1>3. Awake => NoLostTask
    BY DEF Awake
  <1>4. QED
    BY <1>1, <1>2, <1>3, BackupInvariant, PTL DEF Spec
=============================================================================
