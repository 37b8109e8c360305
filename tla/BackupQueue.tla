----------------------------- MODULE BackupQueue -----------------------------
(***************************************************************************)
(* The queue of backup tasks (apps/relay/src/backups.ts BackupManager) and *)
(* its rows (effect/state.ts relay_backup_tasks): creates, restores,       *)
(* deletes, and the prunes the Relay adds for what deletes forgot.  One    *)
(* worker takes one task at a time; beside it run the task's deadline,     *)
(* cancels, and pauses, and the Relay may stop at any step.                *)
(*                                                                         *)
(* A restore of files swaps them in behind a gate that its deadline also   *)
(* passes; a restore of a database has no such gate.  Batches, whose       *)
(* members share one stopped window, are StoppedApps'.                     *)
(***************************************************************************)
EXTENDS Integers, SequencesExt, FiniteSetsExt

CONSTANTS
    Creates, Restores, Databases, Deletes,  \* tasks, by what they do
    Prunes,     \* IDs for the prunes the Relay makes
    Signed,     \* tasks whose input holds a signed request that expires
    None,       \* no task
    MaxPauses,  \* bound on pauses
    MaxErrors,  \* bound on statements SQLite fails
    MaxStops    \* bound on restarts of the Relay

Asked == Creates \cup Restores \cup Databases \cup Deletes
Tasks == Asked \cup Prunes

ASSUME BackupConstants ==
    /\ IsFiniteSet(Tasks)
    /\ None \notin Tasks
    /\ Creates \cap (Restores \cup Databases \cup Deletes \cup Prunes) = {}
    /\ Restores \cap (Databases \cup Deletes \cup Prunes) = {}
    /\ Databases \cap (Deletes \cup Prunes) = {}
    /\ Deletes \cap Prunes = {}
    /\ Signed \subseteq Creates
    /\ {MaxPauses, MaxErrors, MaxStops} \subseteq Nat

VARIABLES
    status,    \* the task's row: its status, or that its deadline ended it
    refresh,   \* the row's input_refresh_required
    born,      \* the rows, oldest first
    wake,      \* whether the worker's queue holds a wake-up
    worker,    \* where the worker is
    task,      \* the task it took
    at,        \* where that task is
    active,    \* whether its controller is in #activeCreates
    aborted,   \* whether its controller is aborted
    timer,     \* its deadline
    passed,    \* deadlinePassed
    installing,
    cancels,   \* a cancel of the task: its row written, then answered
    paused,    \* lanes.paused
    artifact,  \* whether the create's archive is on disk
    restored,  \* history: how often the restore's data was put in place
    garbage,   \* whether a repository holds data no snapshot uses
    cut,       \* history: tasks a stop, or a failed write, cut off
    gaveUp,    \* history: whether a delete or prune failed
    pauses, errors, stops

rows == <<status, refresh, born>>
own == <<active, aborted, timer, passed, installing>>
history == <<restored, garbage, cut, gaveUp>>
bounds == <<pauses, errors, stops>>
vars == <<rows, wake, worker, task, at, own, cancels, paused, artifact,
          history, bounds>>

Ended == {"succeeded", "failed", "timed_out", "cancelled"}

\* The states of the rows and of the one task in hand; the worker has a task
\* exactly while that task is somewhere (#runTask).
BackupTypeOK ==
    /\ status \in [Tasks -> Ended \cup {"none", "queued", "running"}]
    /\ refresh \in [Tasks -> BOOLEAN]
    /\ born \in Seq(Tasks)
    /\ wake \in BOOLEAN
    /\ worker \in {"asleep", "checking", "claiming", "busy", "dead"}
    /\ task \in Tasks \cup {None}
    /\ at \in {"none", "claimed", "registered", "waiting", "working",
               "installing", "made", "failing", "paused"}
    /\ (task = None) = (at = "none")
    /\ {active, aborted, passed, installing, paused, garbage, gaveUp}
           \subseteq BOOLEAN
    /\ timer \in {"off", "on", "fired"}
    /\ cancels \in [Creates -> {"none", "written", "answered"}]
    /\ artifact \in [Creates -> BOOLEAN]
    /\ restored \in [Restores \cup Databases -> Nat]
    /\ cut \subseteq Tasks
    /\ pauses \in 0..MaxPauses
    /\ errors \in 0..MaxErrors
    /\ stops \in 0..MaxStops

\* The worker as a Relay starts it, with no task.
Idle ==
    /\ task = None
    /\ at = "none"
    /\ active = FALSE
    /\ aborted = FALSE
    /\ timer = "off"
    /\ passed = FALSE
    /\ installing = FALSE

Init ==
    /\ status = [t \in Tasks |-> "none"]
    /\ refresh = [t \in Tasks |-> FALSE]
    /\ born = <<>>
    /\ wake = TRUE
    /\ worker = "asleep"
    /\ Idle
    /\ cancels = [t \in Creates |-> "none"]
    /\ paused = FALSE
    /\ artifact = [t \in Creates |-> FALSE]
    /\ restored = [t \in Restores \cup Databases |-> 0]
    /\ garbage = FALSE
    /\ cut = {}
    /\ gaveUp = FALSE
    /\ pauses = 0
    /\ errors = 0
    /\ stops = 0

-----------------------------------------------------------------------------
(***************************************************************************)
(* Requests.                                                               *)
(***************************************************************************)

\* enqueue makes the task's row, or gives a row that waits for it fresh
\* input, or finds the row; and wakes the worker.
Enqueue(t) ==
    /\ status' = [status EXCEPT ![t] = IF @ = "none" THEN "queued" ELSE @]
    /\ born' = IF status[t] = "none" THEN Append(born, t) ELSE born
    /\ refresh' = [refresh EXCEPT ![t] = FALSE]
    /\ wake' = TRUE
    /\ UNCHANGED <<worker, task, at, own, cancels, paused, artifact, history,
                   bounds>>

\* cancel: the row first ...
CancelRow(t) ==
    /\ cancels[t] = "none"
    /\ status[t] \in {"queued", "running"}
    /\ status' = [status EXCEPT ![t] = "cancelled"]
    /\ cancels' = [cancels EXCEPT ![t] = "written"]
    /\ UNCHANGED <<refresh, born, wake, worker, task, at, own, paused,
                   artifact, history, bounds>>

\* ... then the task's controller, if it's registered.
CancelAbort(t) ==
    /\ cancels[t] = "written"
    /\ cancels' = [cancels EXCEPT ![t] = "answered"]
    /\ aborted' = (aborted \/ (active /\ task = t))
    /\ UNCHANGED <<rows, wake, worker, task, at, active, timer, passed,
                   installing, paused, artifact, history, bounds>>

Pause ==
    /\ ~paused
    /\ pauses < MaxPauses
    /\ paused' = TRUE
    /\ pauses' = pauses + 1
    /\ UNCHANGED <<rows, wake, worker, task, at, own, cancels, artifact,
                   history, errors, stops>>

\* Faulty variant: the worker isn't woken.
ResumeQuietly ==
    /\ paused
    /\ paused' = FALSE
    /\ UNCHANGED <<rows, wake, worker, task, at, own, cancels, artifact,
                   history, bounds>>

\* The lanes resume, and resume() wakes the worker.
Resume ==
    /\ paused
    /\ paused' = FALSE
    /\ wake' = TRUE
    /\ UNCHANGED <<rows, worker, task, at, own, cancels, artifact, history,
                   bounds>>

-----------------------------------------------------------------------------
(***************************************************************************)
(* run and #drain.                                                         *)
(***************************************************************************)

Wake ==
    /\ worker = "asleep"
    /\ wake
    /\ wake' = FALSE
    /\ worker' = "checking"
    /\ UNCHANGED <<rows, task, at, own, cancels, paused, artifact, history,
                   bounds>>

Check ==
    /\ worker = "checking"
    /\ worker' = IF paused THEN "asleep" ELSE "claiming"
    /\ UNCHANGED <<rows, wake, task, at, own, cancels, paused, artifact,
                   history, bounds>>

\* Rows the worker may take: a prune waits while a delete does.
Claimable ==
    LET ready == {t \in Tasks : status[t] = "queued" /\ ~refresh[t]}
    IN  {t \in ready : t \in Prunes => ready \cap Deletes = {}}

\* claimNextBackupTask: the oldest of them.
Claim(t) ==
    /\ worker = "claiming"
    /\ t \in Claimable
    /\ t = SelectSeq(born, LAMBDA u : u \in Claimable)[1]
    /\ status' = [status EXCEPT ![t] = "running"]
    /\ worker' = "busy"
    /\ task' = t
    /\ at' = "claimed"
    /\ UNCHANGED <<refresh, born, wake, own, cancels, paused, artifact,
                   history, bounds>>

ClaimNone ==
    /\ worker = "claiming"
    /\ Claimable = {}
    /\ worker' = "asleep"
    /\ UNCHANGED <<rows, wake, task, at, own, cancels, paused, artifact,
                   history, bounds>>

-----------------------------------------------------------------------------
(***************************************************************************)
(* #runTask and #execute.                                                  *)
(***************************************************************************)

\* A step of the task in hand that leaves the rest of the worker alone.
Goes(from, to) ==
    /\ at = from
    /\ at' = to
    /\ UNCHANGED <<refresh, born, wake, worker, task, active, cancels, paused,
                   cut, bounds>>

\* The task's controller can now be found by a cancel ...
Register ==
    /\ at = "claimed"
    /\ at' = "registered"
    /\ active' = TRUE
    /\ UNCHANGED <<rows, wake, worker, task, aborted, timer, passed,
                   installing, cancels, paused, artifact, history, bounds>>

\* Faulty variant: a cancel from before then is missed.
LookNowhere ==
    /\ Goes("registered", "waiting")
    /\ timer' = "on"
    /\ UNCHANGED <<status, aborted, passed, installing, artifact, restored,
                   garbage, gaveUp>>

\* ... and one from before then is seen in its row.  Its deadline starts.
Look ==
    /\ Goes("registered", "waiting")
    /\ aborted' = (aborted \/ status[task] # "running")
    /\ timer' = "on"
    /\ UNCHANGED <<status, passed, installing, artifact, restored, garbage,
                   gaveUp>>

\* The lanes grant its locks, unless it has been stopped.
Grant ==
    /\ ~paused
    /\ ~aborted
    /\ Goes("waiting", "working")
    /\ UNCHANGED <<status, aborted, timer, passed, installing, artifact,
                   restored, garbage, gaveUp>>

\* A pause withdraws it: its deadline is stopped before it goes back.
Withdraw ==
    /\ paused
    /\ Goes("waiting", "paused")
    /\ timer' = "off"
    /\ UNCHANGED <<status, aborted, passed, installing, artifact, restored,
                   garbage, gaveUp>>

\* Its locks can't be looked up, are refused, or its precondition is false.
Refused ==
    /\ Goes("waiting", "failing")
    /\ UNCHANGED <<status, aborted, timer, passed, installing, artifact,
                   restored, garbage, gaveUp>>

\* The archive of a create is made.
Archive ==
    /\ task \in Creates
    /\ Goes("working", "made")
    /\ artifact' = [artifact EXCEPT ![task] = TRUE]
    /\ UNCHANGED <<status, aborted, timer, passed, installing, restored,
                   garbage, gaveUp>>

\* Faulty variant: only an abort closes the gate.
BeginInstallUnlessAborted ==
    /\ task \in Restores
    /\ ~aborted
    /\ Goes("working", "installing")
    /\ installing' = TRUE
    /\ UNCHANGED <<status, aborted, timer, passed, artifact, restored,
                   garbage, gaveUp>>

\* beginInstall: a restore of files passes before its deadline, or not.
BeginInstall ==
    /\ task \in Restores
    /\ ~passed /\ ~aborted
    /\ Goes("working", "installing")
    /\ installing' = TRUE
    /\ UNCHANGED <<status, aborted, timer, passed, artifact, restored,
                   garbage, gaveUp>>

\* A database's restore begins; no gate, and no signal, reaches it.
BeginDatabase ==
    /\ task \in Databases
    /\ Goes("working", "installing")
    /\ UNCHANGED <<status, aborted, timer, passed, installing, artifact,
                   restored, garbage, gaveUp>>

\* What the restore brought is in place.
Install ==
    /\ task \in Restores \cup Databases
    /\ Goes("installing", "made")
    /\ restored' = [restored EXCEPT ![task] = @ + 1]
    /\ UNCHANGED <<status, aborted, timer, passed, installing, artifact,
                   garbage, gaveUp>>

\* runResticForget: a snapshot is gone, its data still in the repository.
Forget ==
    /\ task \in Deletes
    /\ Goes("working", "made")
    /\ garbage' = TRUE
    /\ UNCHANGED <<status, aborted, timer, passed, installing, artifact,
                   restored, gaveUp>>

\* runResticPrune drops what no snapshot uses.
Prune ==
    /\ task \in Prunes
    /\ Goes("working", "made")
    /\ garbage' = FALSE
    /\ UNCHANGED <<status, aborted, timer, passed, installing, artifact,
                   restored, gaveUp>>

\* The work fails, on its own or because it was aborted: an archive goes,
\* files half swapped in are put back.
Break ==
    /\ at \in {"working", "installing"}
    /\ Goes(at, "failing")
    /\ artifact' = [t \in Creates |-> artifact[t] /\ t # task]
    /\ UNCHANGED <<status, aborted, timer, passed, installing, restored,
                   garbage, gaveUp>>

\* The task is over: its deadline stopped, its controller dropped.
Over ==
    /\ task' = None
    /\ at' = "none"
    /\ active' = FALSE
    /\ aborted' = FALSE
    /\ timer' = "off"
    /\ passed' = FALSE
    /\ installing' = FALSE

\* Faulty variant: the forgotten snapshot's data is left to the next delete.
OwesNoPrune(t) == FALSE

\* insertBackupPrune, unless one is waiting.
OwesPrune(t) == t \in Deletes /\ \A p \in Prunes : status[p] # "queued"

\* completeBackupTask, for a row that's still running.
Complete ==
    /\ at = "made"
    /\ status[task] = "running"
    /\ \/ /\ ~OwesPrune(task)
          /\ status' = [status EXCEPT ![task] = "succeeded"]
          /\ UNCHANGED born
       \/ /\ OwesPrune(task)
          /\ \E p \in Prunes :
               /\ status[p] = "none"
               /\ status' = [status EXCEPT ![task] = "succeeded", ![p] = "queued"]
               /\ born' = Append(born, p)
    /\ worker' = "checking"
    /\ Over
    /\ UNCHANGED <<refresh, wake, cancels, paused, artifact, history, bounds>>

\* Faulty variant: an archive nobody waits for is kept.
CompleteLateKeeping ==
    /\ Goes("made", "failing")
    /\ status[task] # "running"
    /\ UNCHANGED <<status, aborted, timer, passed, installing, artifact,
                   restored, garbage, gaveUp>>

\* One that isn't running any more: what was made is removed.
CompleteLate ==
    /\ Goes("made", "failing")
    /\ status[task] # "running"
    /\ artifact' = [t \in Creates |-> artifact[t] /\ t # task]
    /\ UNCHANGED <<status, aborted, timer, passed, installing, restored,
                   garbage, gaveUp>>

\* failBackupTask, which leaves a row that has ended.
Fail ==
    /\ at = "failing"
    /\ status' = [status EXCEPT
                    ![task] = IF @ = "running" THEN "failed" ELSE @]
    /\ gaveUp' = (gaveUp \/ task \in Deletes \cup Prunes)
    /\ worker' = "checking"
    /\ Over
    /\ UNCHANGED <<refresh, born, wake, cancels, paused, artifact, restored,
                   garbage, cut, bounds>>

\* returnBackupTask: back in line until the Relay is resumed.
PutBack ==
    /\ at = "paused"
    /\ status' = [status EXCEPT
                    ![task] = IF @ = "running" THEN "queued" ELSE @]
    /\ worker' = "asleep"
    /\ Over
    /\ UNCHANGED <<refresh, born, wake, cancels, paused, artifact, history,
                   bounds>>

-----------------------------------------------------------------------------
(***************************************************************************)
(* The deadline: it decides first, then writes the row.                    *)
(***************************************************************************)

Expire ==
    /\ timer = "on"
    /\ passed' = (passed \/ ~installing)
    /\ timer' = IF installing THEN "off" ELSE "fired"
    /\ UNCHANGED <<rows, wake, worker, task, at, active, aborted, installing,
                   cancels, paused, artifact, history, bounds>>

TimeOut ==
    /\ timer = "fired"
    /\ timer' = "off"
    /\ aborted' = (aborted \/ status[task] = "running")
    /\ status' = [status EXCEPT
                    ![task] = IF @ = "running" THEN "timed_out" ELSE @]
    /\ gaveUp' = (gaveUp \/ task \in Deletes \cup Prunes)
    /\ UNCHANGED <<refresh, born, wake, worker, task, at, active, passed,
                   installing, cancels, paused, artifact, restored, garbage,
                   cut, bounds>>

-----------------------------------------------------------------------------
(***************************************************************************)
(* Failures.                                                               *)
(***************************************************************************)

\* A statement of the worker's own fails: nothing catches it, and the
\* worker's fiber ends.
Die ==
    /\ errors < MaxErrors
    /\ worker = "claiming" \/ at \in {"registered", "paused", "failing"}
    /\ errors' = errors + 1
    /\ worker' = "dead"
    /\ Over
    /\ UNCHANGED <<rows, wake, cancels, paused, artifact, history, pauses,
                   stops>>

\* completeBackupTask fails: the task does, with what it made left there.
CompleteBreaks ==
    /\ errors < MaxErrors
    /\ at = "made"
    /\ errors' = errors + 1
    /\ at' = "failing"
    /\ cut' = cut \cup {task}
    /\ UNCHANGED <<rows, wake, worker, task, own, cancels, paused, artifact,
                   restored, garbage, gaveUp, pauses, stops>>

\* Faulty variant: a restore is requeued like the rest.
AfterRestartQueued(t, finished) ==
    IF finished /\ status[t] = "running" THEN "succeeded"
    ELSE IF status[t] = "running" THEN "queued" ELSE status[t]

\* A row as recovery leaves it: what a restore was swapping in is finished
\* and recorded, another restore that ran is failed, the rest is requeued.
AfterRestart(t, finished) ==
    IF status[t] # "running" THEN status[t]
    ELSE IF finished THEN "succeeded"
    ELSE IF t \in Restores \cup Databases THEN "failed"
    ELSE "queued"

\* The Relay stops, and starts again: recoverInterruptedRestores and
\* requeueInterruptedBackupTasks run before the worker does.
Restart ==
    /\ stops < MaxStops
    /\ stops' = stops + 1
    /\ \E finishes \in BOOLEAN :
         LET swapped == {t \in Restores : /\ finishes
                                          /\ t = task
                                          /\ at = "installing"}
         IN  /\ status' = [t \in Tasks |-> AfterRestart(t, t \in swapped)]
             /\ restored' = [t \in DOMAIN restored |->
                               restored[t] + IF t \in swapped THEN 1 ELSE 0]
    /\ refresh' = [t \in Tasks |-> \/ refresh[t]
                                   \/ status[t] = "running" /\ t \in Signed]
    /\ cut' = cut \cup {t \in Tasks : status[t] = "running" \/ t = task}
    /\ cancels' = [t \in Creates |->
                     IF cancels[t] = "written" THEN "none" ELSE cancels[t]]
    /\ wake' = TRUE
    /\ worker' = "asleep"
    /\ Over
    /\ UNCHANGED <<born, paused, artifact, garbage, gaveUp, pauses, errors>>

-----------------------------------------------------------------------------
TaskSteps ==
    \/ Register \/ Look \/ Grant \/ Withdraw \/ Refused
    \/ Archive \/ BeginInstall \/ BeginDatabase \/ Install \/ Forget \/ Prune
    \/ Break \/ Complete \/ CompleteLate \/ Fail \/ PutBack

WorkerSteps ==
    \/ Wake \/ Check \/ ClaimNone
    \/ \E t \in Tasks : Claim(t)

Next ==
    \/ \E t \in Asked : Enqueue(t)
    \/ \E t \in Creates : CancelRow(t) \/ CancelAbort(t)
    \/ Pause \/ Resume
    \/ WorkerSteps \/ TaskSteps
    \/ Expire \/ TimeOut
    \/ Die \/ CompleteBreaks \/ Restart

Spec == Init /\ [][Next]_vars

\* The worker's fiber keeps running, and what a task asks of Docker and
\* restic is answered in the end.
FairSpec == Spec /\ WF_vars(WorkerSteps) /\ WF_vars(TaskSteps)

-----------------------------------------------------------------------------
(***************************************************************************)
(* Properties.                                                             *)
(***************************************************************************)

\* A task the worker could take is never left with the worker asleep and
\* nothing to wake it: not by an enqueue that comes while it looks, nor a
\* task put back while the Relay is resumed, nor a restart.
NoLostTask ==
    Claimable # {} /\ ~paused /\ worker = "asleep" => wake

\* A restore of files and its deadline: one wins.  A restore recorded as
\* timed out put nothing in place, and one that put its data in place is
\* recorded so, unless the Relay stopped or couldn't write it meanwhile.
OneWins ==
    \A t \in Restores :
        /\ status[t] = "timed_out" => restored[t] = 0
        /\ restored[t] > 0 /\ task # t /\ t \notin cut
             => status[t] = "succeeded"

\* Once a cancel is answered, the task it stopped never starts: not even
\* when the worker had already claimed it.
CancelHolds ==
    [][\A t \in Creates :
         cancels[t] = "answered" /\ task = t /\ at # "working"
             => at' # "working"]_vars

\* The archive of a create that ended is there if it succeeded, and only
\* then: one that a cancel or a deadline overtook isn't kept.  A task cut
\* off by a restart, then cancelled in line, may leave its archive.
ArchiveMatchesRow ==
    \A t \in Creates :
        status[t] \in Ended /\ task # t =>
            /\ status[t] = "succeeded" => artifact[t]
            /\ status[t] # "succeeded" /\ t \notin cut => ~artifact[t]

\* Data no snapshot uses is owed a prune: one is waiting or has yet to
\* run, or the delete that forgot it has yet to complete, again after a
\* restart; unless a delete or prune failed.
PruneOwed ==
    garbage /\ ~gaveUp =>
        \/ \E t \in Prunes \cup Deletes : status[t] \in {"queued", "running"}
        \/ task \in Prunes \cup Deletes

\* Every task comes to an end, or waits for a resume or for fresh input,
\* unless a statement that failed ended the worker.
TaskEnds ==
    \A t \in Tasks :
        status[t] = "queued" ~>
            status[t] \in Ended \/ refresh[t] \/ paused \/ worker = "dead"

\* "it goes back in line and starts once the Relay is resumed".
StartsOnceResumed ==
    \A t \in Asked :
        status[t] = "queued" ~> status[t] # "queued" \/ refresh[t] \/ paused

\* "Each side decides synchronously, before it awaits anything, so exactly
\* one wins": of every restore.
OneWinsEverywhere ==
    \A t \in DOMAIN restored : status[t] = "timed_out" => restored[t] = 0
=============================================================================
