-------------------------- MODULE ProvisioningQueue --------------------------
(***************************************************************************)
(* The queue every new instance is provisioned through                     *)
(* (apps/relay/src/provisioning.ts ProvisioningManager), its rows          *)
(* (effect/state.ts relay_instance_provisioning_jobs) and the deletes that *)
(* discard a job (index.ts database.delete and app.delete).                *)
(*                                                                         *)
(* One worker starts a fiber per job it takes.  A fiber waits for its      *)
(* instance's lanes, which here only a delete of the same instance holds,  *)
(* or is refused by them: paused, or for another reason it tries again     *)
(* after.  Every yield of a fiber lets the others run.  The statement the  *)
(* worker takes a job with is its own: if that fails, the worker ends, and *)
(* the fibers it started with it, except what the lanes run apart from     *)
(* them (lanes.ts #run).                                                   *)
(***************************************************************************)
EXTENDS Integers, Sequences, FiniteSets

CONSTANTS
    Jobs,        \* jobs, each for an instance of its own
    Slots,       \* capacity.slots
    MaxRefused,  \* bound on refusals that aren't a pause
    MaxPauses,   \* bound on pauses
    MaxErrors,   \* bound on writes of SQLite, or cleanups, that fail
    MaxStops     \* bound on restarts of the Relay

ASSUME QueueConstants ==
    /\ IsFiniteSet(Jobs)
    /\ Slots \in Nat \ {0}
    /\ {MaxRefused, MaxPauses, MaxErrors, MaxStops} \subseteq Nat

VARIABLES
    status,    \* the job's row: its status ...
    attempt,   \* ... and attempt
    born,      \* the rows in the order they were made
    fiber,     \* the job's fiber that has it taken
    resting,   \* its earlier fibers, refused, that wait out their second
    wake,      \* whether the worker's queue holds a wake-up
    worker,    \* where the worker is, once dead for good
    recheck,   \* #recheckScheduled
    claiming,  \* the claims that found their row queued and go on
    paused,    \* lanes.paused
    discard,   \* a delete of the job's instance, holding its lanes
    made,      \* history: how often the job's create was started
    left,      \* history: whether something of a create is left over
    quiet,     \* history: jobs whose claim failed before it woke the worker,
               \* which hasn't woken up since
    refusals, pauses, errors, stops

rows == <<status, attempt, born>>
workerVars == <<fiber, resting, wake, worker, recheck>>
requests == <<claiming, discard>>
history == <<made, left, quiet>>
bounds == <<refusals, pauses, errors, stops>>
vars == <<rows, workerVars, requests, paused, history, bounds>>

\* The row's statuses, before it's made and after it's deleted.
Statuses ==
    {"none", "awaiting_claim", "queued", "running", "failed", "gone",
     "cancelled"}

Fibers ==
    {"none", "waiting", "making", "made", "broken", "paused", "refused"}

\* The states of a job's row, its fiber and its discard; no attempt is given
\* back that wasn't spent (returnProvisioningJob).
QueueTypeOK ==
    /\ status \in [Jobs -> Statuses]
    /\ attempt \in [Jobs -> Nat]
    /\ born \in Seq(Jobs)
    /\ fiber \in [Jobs -> Fibers]
    /\ resting \in [Jobs -> Nat]
    /\ wake \in BOOLEAN
    /\ worker \in {"asleep", "checking", "claiming", "dead"}
    /\ recheck \in BOOLEAN
    /\ claiming \subseteq Jobs
    /\ paused \in BOOLEAN
    /\ discard \in [Jobs -> {"none", "started", "cleaning", "cleaned"}]
    /\ made \in [Jobs -> Nat]
    /\ left \in [Jobs -> BOOLEAN]
    /\ quiet \subseteq Jobs
    /\ refusals \in 0..MaxRefused
    /\ pauses \in 0..MaxPauses
    /\ errors \in 0..MaxErrors
    /\ stops \in 0..MaxStops

Init ==
    /\ status = [j \in Jobs |-> "none"]
    /\ attempt = [j \in Jobs |-> 0]
    /\ born = <<>>
    /\ fiber = [j \in Jobs |-> "none"]
    /\ resting = [j \in Jobs |-> 0]
    /\ wake = TRUE
    /\ worker = "asleep"
    /\ recheck = FALSE
    /\ claiming = {}
    /\ paused = FALSE
    /\ discard = [j \in Jobs |-> "none"]
    /\ made = [j \in Jobs |-> 0]
    /\ left = [j \in Jobs |-> FALSE]
    /\ quiet = {}
    /\ refusals = 0
    /\ pauses = 0
    /\ errors = 0
    /\ stops = 0

\* #running, by fiber: 0 has the job taken, the others were refused and rest.
Running ==
    UNION {{<<j, n>> : n \in (IF fiber[j] = "none" THEN 1 ELSE 0)..resting[j]} :
              j \in Jobs}

-----------------------------------------------------------------------------
(***************************************************************************)
(* Requests.                                                               *)
(***************************************************************************)

\* prepare: the job waits for Hearth to claim it.
Prepare(j) ==
    /\ status[j] = "none"
    /\ status' = [status EXCEPT ![j] = "awaiting_claim"]
    /\ born' = Append(born, j)
    /\ UNCHANGED <<attempt, workerVars, requests, paused, history, bounds>>

\* claim queues it; a repeat finds it queued already.  Hearth makes one claim
\* of a job at a time.
Claim(j) ==
    /\ j \notin claiming
    /\ status[j] \in {"awaiting_claim", "queued"}
    /\ status' = [status EXCEPT ![j] = "queued"]
    /\ claiming' = claiming \cup {j}
    /\ UNCHANGED <<attempt, born, workerVars, paused, discard, history, bounds>>

\* Faulty variant: the worker isn't woken.
ClaimEndsQuietly(j) ==
    /\ j \in claiming
    /\ claiming' = claiming \ {j}
    /\ UNCHANGED <<rows, workerVars, paused, discard, history, bounds>>

\* With its placeholder rewritten, it wakes the worker and answers ...
ClaimEnds(j) ==
    /\ j \in claiming
    /\ claiming' = claiming \ {j}
    /\ wake' = TRUE
    /\ UNCHANGED <<rows, fiber, resting, worker, recheck, paused, discard,
                   history, bounds>>

\* ... and if that write fails, it doesn't.
ClaimFails(j) ==
    /\ errors < MaxErrors
    /\ j \in claiming
    /\ errors' = errors + 1
    /\ claiming' = claiming \ {j}
    /\ quiet' = quiet \cup {j}
    /\ UNCHANGED <<rows, workerVars, paused, discard, made, left, refusals,
                   pauses, stops>>

\* cancelProvisioningJob
Cancellable(j) == status[j] \in {"awaiting_claim", "queued", "failed"}

\* cancel drops a job that isn't taken.
Cancel(j) ==
    /\ Cancellable(j)
    /\ status' = [status EXCEPT ![j] = "cancelled"]
    /\ UNCHANGED <<attempt, born, workerVars, requests, paused, history,
                   bounds>>

\* A delete has the instance's lanes, once no create before it in line does.
StartDiscard(j) ==
    /\ discard[j] = "none"
    /\ status[j] \in {"awaiting_claim", "queued", "running", "failed"}
    /\ fiber[j] \in {"none", "paused", "refused"}
    /\ discard' = [discard EXCEPT ![j] = "started"]
    /\ UNCHANGED <<rows, workerVars, claiming, paused, history, bounds>>

\* Faulty variant: a job the worker has taken is withdrawn too.
MayWithdrawTaken(j) == status[j] \in {"awaiting_claim", "queued", "running"}

\* withdrawProvisioningJob
MayWithdraw(j) == status[j] \in {"awaiting_claim", "queued"}

\* Faulty variant: the job is dropped before what it made is removed.
WithdrawDropping(j) ==
    /\ discard[j] = "started"
    /\ LET drops == MayWithdraw(j) \/ status[j] = "failed" IN
       /\ status' = [status EXCEPT ![j] = IF drops THEN "gone" ELSE @]
       /\ discard' = [discard EXCEPT ![j] =
              IF drops THEN "cleaning" ELSE "none"]
    /\ UNCHANGED <<attempt, born, workerVars, claiming, paused, history,
                   bounds>>

\* discard fails the job first, so the worker never takes it, and is refused
\* for one the worker has taken.
Withdraw(j) ==
    /\ discard[j] = "started"
    /\ LET after == IF MayWithdraw(j) THEN "failed" ELSE status[j] IN
       /\ status' = [status EXCEPT ![j] = after]
       /\ discard' = [discard EXCEPT ![j] =
              IF after = "failed" THEN "cleaning" ELSE "none"]
    /\ UNCHANGED <<attempt, born, workerVars, claiming, paused, history,
                   bounds>>

\* What the create left is removed,
CleanUp(j) ==
    /\ discard[j] = "cleaning"
    /\ discard' = [discard EXCEPT ![j] = "cleaned"]
    /\ left' = [left EXCEPT ![j] = FALSE]
    /\ UNCHANGED <<rows, workerVars, claiming, paused, made, quiet, bounds>>

\* and only then the job is dropped.
DropJob(j) ==
    /\ discard[j] = "cleaned"
    /\ discard' = [discard EXCEPT ![j] = "none"]
    /\ status' = [status EXCEPT ![j] = IF Cancellable(j) THEN "gone" ELSE @]
    /\ UNCHANGED <<attempt, born, workerVars, claiming, paused, history,
                   bounds>>

\* Any of these fails: the delete does, and the job still shows what is left.
DiscardFails(j) ==
    /\ errors < MaxErrors
    /\ discard[j] # "none"
    /\ errors' = errors + 1
    /\ discard' = [discard EXCEPT ![j] = "none"]
    /\ UNCHANGED <<rows, workerVars, claiming, paused, history, refusals,
                   pauses, stops>>

-----------------------------------------------------------------------------
(***************************************************************************)
(* The worker.                                                             *)
(***************************************************************************)

WakeWorker ==
    /\ worker = "asleep"
    /\ wake
    /\ wake' = FALSE
    /\ worker' = "checking"
    /\ quiet' = {}
    /\ UNCHANGED <<rows, fiber, resting, recheck, requests, paused, made,
                   left, bounds>>

HasRoom == Cardinality(Running) < Slots

\* #drain looks whether there is room for another: not while paused, nor with
\* every slot taken, nor, beside another, on a busy host, which it checks
\* again in a moment.
Check ==
    /\ worker = "checking"
    /\ \/ /\ paused \/ ~HasRoom
          /\ worker' = "asleep"
          /\ UNCHANGED recheck
       \/ /\ ~paused /\ HasRoom /\ Running # {}
          /\ worker' = "asleep"
          /\ recheck' = TRUE
       \/ /\ ~paused /\ HasRoom
          /\ worker' = "claiming"
          /\ UNCHANGED recheck
    /\ UNCHANGED <<rows, fiber, resting, wake, requests, paused, history,
                   bounds>>

\* claimNextProvisioningJob: the rows that are queued, and the oldest.
Queue == {i \in DOMAIN born : status[born[i]] = "queued"}
Oldest(i) == i \in Queue /\ \A k \in Queue : i <= k

\* It takes the oldest and starts its fiber, or goes back to sleep.
TakeNext ==
    /\ worker = "claiming"
    /\ \/ /\ Queue = {}
          /\ worker' = "asleep"
          /\ UNCHANGED <<status, attempt, fiber>>
       \/ \E i \in DOMAIN born :
             /\ Oldest(i)
             /\ status' = [status EXCEPT ![born[i]] = "running"]
             /\ attempt' = [attempt EXCEPT ![born[i]] = @ + 1]
             /\ fiber' = [fiber EXCEPT ![born[i]] = "waiting"]
             /\ worker' = "checking"
    /\ UNCHANGED <<born, resting, wake, recheck, requests, paused, history,
                   bounds>>

\* claimNextProvisioningJob fails: nothing catches it, and the worker's fiber
\* ends, which interrupts the ones that wait for their lanes, or their second,
\* or put their job back.  What the lanes started goes on.
Die ==
    /\ errors < MaxErrors
    /\ worker = "claiming"
    /\ errors' = errors + 1
    /\ worker' = "dead"
    /\ fiber' = [j \in Jobs |->
           IF fiber[j] \in {"waiting", "paused", "refused"} THEN "none"
           ELSE fiber[j]]
    /\ resting' = [j \in Jobs |-> 0]
    /\ recheck' = FALSE
    /\ UNCHANGED <<rows, wake, requests, paused, history, refusals, pauses,
                   stops>>

\* #recheckLater
Recheck ==
    /\ recheck
    /\ recheck' = FALSE
    /\ wake' = TRUE
    /\ UNCHANGED <<rows, fiber, resting, worker, requests, paused, history,
                   bounds>>

-----------------------------------------------------------------------------
(***************************************************************************)
(* A job's fiber.                                                          *)
(***************************************************************************)

\* Its turn in the lanes comes.
StartMaking(j) ==
    /\ fiber[j] = "waiting"
    /\ ~paused
    /\ discard[j] = "none"
    /\ fiber' = [fiber EXCEPT ![j] = "making"]
    /\ made' = [made EXCEPT ![j] = @ + 1]
    /\ left' = [left EXCEPT ![j] = TRUE]
    /\ UNCHANGED <<rows, resting, wake, worker, recheck, requests, paused,
                   quiet, bounds>>

\* The lanes refuse it before it starts: paused, or busy, frozen or fenced.
Refuse(j) ==
    /\ fiber[j] = "waiting"
    /\ \/ /\ paused
          /\ fiber' = [fiber EXCEPT ![j] = "paused"]
          /\ UNCHANGED refusals
       \/ /\ refusals < MaxRefused
          /\ refusals' = refusals + 1
          /\ fiber' = [fiber EXCEPT ![j] = "refused"]
    /\ UNCHANGED <<rows, resting, wake, worker, recheck, requests, paused,
                   history, pauses, errors, stops>>

\* The fiber ends, and wakes the worker.
EndFiber(j) ==
    /\ fiber' = [fiber EXCEPT ![j] = "none"]
    /\ wake' = TRUE

AttemptBack(j) == attempt[j] - 1

\* returnProvisioningJob puts a refused job back in line; its fiber ends, or
\* first waits a second.
PutBack(j) ==
    /\ fiber[j] \in {"paused", "refused"}
    /\ status' = [status EXCEPT ![j] = "queued"]
    /\ attempt' = [attempt EXCEPT ![j] = AttemptBack(j)]
    /\ IF fiber[j] = "paused" THEN EndFiber(j) /\ UNCHANGED resting
       ELSE /\ fiber' = [fiber EXCEPT ![j] = "none"]
            /\ resting' = [resting EXCEPT ![j] = @ + 1]
            /\ UNCHANGED wake
    /\ UNCHANGED <<born, worker, recheck, requests, paused, history, bounds>>

\* The second is over.
Rest(j) ==
    /\ resting[j] > 0
    /\ resting' = [resting EXCEPT ![j] = @ - 1]
    /\ wake' = TRUE
    /\ UNCHANGED <<rows, fiber, worker, recheck, requests, paused, history,
                   bounds>>

\* The create ends, or fails and removes what it made.
Make(j) ==
    /\ fiber[j] = "making"
    /\ \/ /\ fiber' = [fiber EXCEPT ![j] = "made"]
          /\ UNCHANGED left
       \/ /\ fiber' = [fiber EXCEPT ![j] = "broken"]
          /\ left' = [left EXCEPT ![j] = FALSE]
    /\ UNCHANGED <<rows, resting, wake, worker, recheck, requests, paused,
                   made, quiet, bounds>>

\* completeProvisioningJob, failProvisioningJob: the job is done, and its row
\* goes, or shows the failure.
Record(j) ==
    /\ \/ /\ fiber[j] = "made"
          /\ status' = [status EXCEPT ![j] = "gone"]
          /\ left' = [left EXCEPT ![j] = FALSE]
       \/ /\ fiber[j] = "broken"
          /\ status' = [status EXCEPT ![j] = "failed"]
          /\ UNCHANGED left
    /\ EndFiber(j)
    /\ UNCHANGED <<attempt, born, resting, worker, recheck, requests, paused,
                   made, quiet, bounds>>

\* A write fails: one that a job is done is recorded as its failure instead;
\* after any other the row stays running until the Relay restarts.
RecordFails(j) ==
    /\ errors < MaxErrors
    /\ errors' = errors + 1
    /\ \/ /\ fiber[j] = "made"
          /\ fiber' = [fiber EXCEPT ![j] = "broken"]
          /\ UNCHANGED wake
       \/ /\ fiber[j] \in {"broken", "paused", "refused"}
          /\ EndFiber(j)
    /\ UNCHANGED <<rows, resting, worker, recheck, requests, paused, history,
                   refusals, pauses, stops>>

-----------------------------------------------------------------------------
(***************************************************************************)
(* What cuts across.                                                       *)
(***************************************************************************)

Pause ==
    /\ ~paused
    /\ pauses < MaxPauses
    /\ pauses' = pauses + 1
    /\ paused' = TRUE
    /\ UNCHANGED <<rows, workerVars, requests, history, refusals, errors,
                   stops>>

\* applyPauseHolds resumes the lanes and wakes the worker.
Resume ==
    /\ paused
    /\ paused' = FALSE
    /\ wake' = TRUE
    /\ UNCHANGED <<rows, fiber, resting, worker, recheck, requests, history,
                   bounds>>

\* Faulty variant: what was running is started over.
AfterRestartQueued(j) == IF status[j] = "running" THEN "queued" ELSE status[j]

\* requeueInterruptedProvisioningJobs
AfterRestart(j) == IF status[j] = "running" THEN "failed" ELSE status[j]

\* The Relay stops, and starts again on its rows.
Restart ==
    /\ stops < MaxStops
    /\ stops' = stops + 1
    /\ status' = [j \in Jobs |-> AfterRestart(j)]
    /\ fiber' = [j \in Jobs |-> "none"]
    /\ resting' = [j \in Jobs |-> 0]
    /\ wake' = TRUE
    /\ worker' = "asleep"
    /\ recheck' = FALSE
    /\ claiming' = {}
    /\ discard' = [j \in Jobs |-> "none"]
    /\ quiet' = {}
    /\ UNCHANGED <<attempt, born, paused, made, left, refusals, pauses, errors>>

-----------------------------------------------------------------------------
Next ==
    \/ \E j \in Jobs :
          \/ Prepare(j) \/ Claim(j) \/ ClaimEnds(j) \/ ClaimFails(j)
          \/ Cancel(j)
          \/ StartDiscard(j) \/ Withdraw(j) \/ CleanUp(j) \/ DropJob(j)
          \/ DiscardFails(j)
          \/ StartMaking(j) \/ Refuse(j) \/ PutBack(j) \/ Rest(j)
          \/ Make(j) \/ Record(j) \/ RecordFails(j)
    \/ WakeWorker \/ Check \/ TakeNext \/ Die \/ Recheck
    \/ Pause \/ Resume \/ Restart

Spec == Init /\ [][Next]_vars

\* The worker and the fibers run, claims and deletes end, and the Relay is
\* resumed.
FairSpec ==
    /\ Spec
    /\ WF_vars(WakeWorker) /\ WF_vars(Check) /\ WF_vars(TakeNext)
    /\ WF_vars(Recheck) /\ WF_vars(Resume)
    /\ \A j \in Jobs :
          /\ WF_vars(ClaimEnds(j))
          /\ WF_vars(StartMaking(j) \/ Refuse(j)) /\ WF_vars(PutBack(j))
          /\ WF_vars(Rest(j)) /\ WF_vars(Make(j)) /\ WF_vars(Record(j))
          /\ WF_vars(Withdraw(j)) /\ WF_vars(CleanUp(j)) /\ WF_vars(DropJob(j))

-----------------------------------------------------------------------------
(***************************************************************************)
(* Properties.                                                             *)
(***************************************************************************)
\* A queued job is never forgotten: while the worker sleeps with no wake-up
\* waiting, the Relay is paused, or something that runs or rests will wake it
\* (#drain, #recheckLater, resume), or every queued job is of a claim that will,
\* or that failed before it could (claim).
NoLostJob ==
    worker = "asleep" /\ ~wake =>
        \/ paused \/ recheck \/ Running # {}
        \/ \A i \in Queue : born[i] \in claiming \cup quiet

\* However often a job is refused and put back, and whatever stops meanwhile,
\* its create is started at most once: one that was cut off isn't run over
\* what it left (requeueInterruptedProvisioningJobs, returnProvisioningJob).
MadeOnce == \A j \in Jobs : made[j] <= 1

\* While a delete removes what a job made, nothing makes it again, and nothing
\* is about to (discard withdraws the job first).
DiscardAlone ==
    \A j \in Jobs : discard[j] \in {"cleaning", "cleaned"} => fiber[j] = "none"

\* What a create that was cut off left behind is still shown by its job, unless
\* that was cancelled outright (discard drops it last,
\* requeueInterruptedProvisioningJobs keeps it).
LeftoversShown ==
    \A j \in Jobs : left[j] => status[j] \in {"running", "failed", "cancelled"}

\* A job Hearth claimed is taken, however the Relay is paused and refuses
\* meanwhile, even one whose claim failed as soon as anything wakes the worker
\* (claim, run).  Two failed statements excuse it: the claim's own, until the
\* worker wakes up, and the worker's, until the Relay restarts.
ClaimedIsTaken ==
    \A j \in Jobs :
        status[j] = "queued" ~>
            status[j] # "queued" \/ j \in quiet \/ worker = "dead"

\* "Queued backups and provisioning jobs wait, and start once it's resumed":
\* all of them.
QueuedStart == \A j \in Jobs : status[j] = "queued" ~> status[j] # "queued"

\* The comment in #drain says a job that couldn't be recorded stays running
\* until the Relay restarts and puts it back: a restart puts back in line what
\* was running, rather than fail it (requeueInterruptedProvisioningJobs).
RestartPutsBack ==
    [][\A j \in Jobs :
          stops' # stops /\ status[j] = "running" => status'[j] = "queued"]_vars
=============================================================================
