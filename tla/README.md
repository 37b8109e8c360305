# Kiln operations: TLA+ models, checks and proofs

Kiln runs game servers, Apps and databases on hosts its users own. **Hearth**
(`apps/web`) is the control plane people use; a **Relay** (`apps/relay`) runs on
each host and makes the changes: it talks to Docker, keeps files, backups and
routes, and stores its state in SQLite. Everything that changes something, on
either side, is an *operation*: it takes locks in *operation lanes*, and a
change Hearth asks of a Relay is sent under an operation ID that the Relay keeps
in a journal. The lanes and the journal are the system's core: they decide that
two changes of one resource never run at once, that a lost connection never
makes a change twice, and that nothing waits forever. Around them stand the
parts that decide what is asked for and when: Hearth's durable operations and
their steps, pauses, the Relay's queues of new instances and of backups, and
the freezes a deletion puts on what it deletes.

This directory models those parts, checks them with TLC on small instances, and
proves their safety with TLAPS for every instance.

## Files

| Module | What it is |
|---|---|
| `LaneLocks` | lock modes, conflicts and the lock table (`packages/operations/src/locks.ts`) |
| `OperationLanes` | the lanes: admission, grants, cancels, pauses, fences (`lanes.ts`, `grants.ts`), and their properties |
| `LaneContract` | the abstract specification: what lanes promise whoever admits work |
| `GrantLoop` | the code's two grant loops turn by turn, compared with the pass `OperationLanes` states |
| `RelayJournal` | a request for a change on a Relay, from its frame to its row (`control-socket.ts`, the rows of `effect/state.ts`) |
| `RelayCommand` | a durable step of Hearth and its connection (`relay-command.ts`, `relay-connection.ts`), composed with `RelayJournal` |
| `CommandContract` | the abstract specification: what such a step promises its operation |
| `DurableOperations` | Hearth's durable operations: rows, lanes, workflows, restarts (`durable.ts`, `records.ts`, `startup.ts`) |
| `PauseHolds` | how Hearths pause a Relay, from a person's click to the Relay's lanes |
| `ProvisioningQueue` | the queue new instances are made through (`provisioning.ts`) |
| `BackupQueue` | the queue of backup tasks: creates, restores, deletes and prunes (`backups.ts`) |
| `StoppedApps` | the Apps a stopped backup stops and starts again (`backups.ts`, beside `index.ts`) |
| `ResourceFreezes` | the freeze of an App for its deletion, and its undo (`resource-freezes.ts`, `apps.ts`) |
| `OperationLanesProofs` | theorems: the lock table, the lanes, their contract |
| `RelayCommandProofs` | theorems: the journal, the command, its contract |
| `DurableOperationsProofs`, `PauseHoldsProofs`, `ProvisioningQueueProofs`, `BackupQueueProofs`, `StoppedAppsProofs`, `ResourceFreezesProofs` | the theorems of each |
| `MCLanes`, `MCNested`, `MCJournal`, `MCCommand`, `MCDurable`, `MCPause`, `MCProvisioning`, `MCBackups`, `MCStopped`, `MCFreezes` | instances for TLC; each `.cfg` is one run |

`PROJECT.json` has the components, the runs, the source lines of every
definition (`map`), the faulty variants the properties catch (`mutants`), the
hazards and the theorems. Definitions marked *Faulty variant* in a module are
those mutants: no specification uses them.

A run checks the properties its `.cfg` lists. The modules state a few more: a
type invariant each (`TypeOK`, `CommandTypeOK`, `DurableTypeOK`, ...), helpers
of the deeper ones (`NoLostJob`, `NoLostTask`, `LanesBackedByRow`,
`GenerationCounts`, `HandlersComplete`, `Exclusion`, `AdmissionOrder`), which hold
on the same instances, and the ones under *Differences met while modelling*,
which don't. Add one to the `.cfg`, as an INVARIANT or PROPERTY, to see it.

Check a run with `tlc -config MCLanes.cfg MCLanes`, the proofs of a module with
`tlapm OperationLanesProofs.tla`.

## Inventory

### Modelled, in whole or in part

**Operation lanes** (`packages/operations/src`). One instance in Hearth, one per
Relay. State: the queue `#waiting`, the queue `#nested`, the set `#active`, the
lock table `#held`, `#paused`, a generation per key (`#exclusiveStarts`).
Operations: `admit`, `run`, `runNested`, `continuation`, `cancel`, `setPaused`,
and the callbacks of a lookup of locks and of a finished piece of work. They
call back into their home as they grant: `refuse`, and each operation's own
`precondition`. Hard: every handler ends in a grant pass that may settle any
number of others; grants are withdrawn before they start; nested work waits for
locks while its parent holds others; `setPaused` iterates over a set its own
releases change. Correct when: conflicting operations never hold their locks at
once; the line keeps its order; nothing that could run is left waiting; the
table says exactly what is held; a pause leaves nothing about to start;
everything admitted ends.

**Relay lane refusals, freezes and restore fences** (`operation-lanes.ts`,
`resource-freezes.ts`, `backups/tar-restore-journal.ts`). A resource being
deleted is frozen and one being restored is fenced: the `refuse` hook turns away
every operation that touches it but the few that may. Correct when what was
admitted before the fence is refused too, as its turn comes. `OperationLanes`
has what the lanes see; `ResourceFreezes` has a freeze's row, the restart
policies it takes and gives back, and what a restart does with it. A freeze is
recorded before it is applied and lifted after its undo, so any failure or stop
in between must leave an App that can still be let go. A tar restore's own
journal is planned.

**Relay operation journal** (`apps/relay/src/control-socket.ts`, rows in
`effect/state.ts`). State: the requests of each session, `operations.running`
(claims), `operations.finished` (outcomes in memory), `operations.writes`
(outcomes on their way to disk), the table `relay_operations`, the journal's ID.
Operations: a request's frame, its claim, the journal's read, `startOperation`,
its turn, its end, `finishOperation`, a repeat, `operation.get`, a cancel or
deadline, the session's close, a pause, pruning, a restart, a rebuilt state.
Hard: the same change is sent again from another session while the first is at
any of these points; the process may die between any two of them; the outcome
is in memory before it is on disk; the row is kept a limited time. Correct when:
a change is started at most once, and every answer and lookup is true of it.

**Hearth relay commands** (`apps/web/src/operations/relay-command.ts`) **and the
connection they use** (`lib/relay-connection.ts`). State: the command stored
with its ID, day and journal; the request pending on the connection. Operations:
store, look up, send, wait, recover, another ID for a change that was withdrawn.
Hard: Hearth may stop, and the connection drop, between any two; a lookup races
the request's own deadline. Correct when: a command makes its change at most
once, across IDs and restarts of either side, and never reports what is not so.

**Hearth durable operations** (`apps/web/src/operations`). State: rows in MySQL,
the engine's stored steps, places in Hearth's lanes, queue keys. Operations:
queue, join, start, cancel, dispatch, run, sweep, restore. Hard: a statement may
be carried out and its answer lost; lanes and fibers die with the process while
rows do not; what joins an operation must be seen by it. Correct when: work runs
only with its lanes held, what was asked is run, and everything ends.

**Pause holds** (`index.ts` `applyPauseHolds`, `relay-connection.ts`). State: a
hold per Hearth in SQLite, `lanes.paused`, what each Hearth wants and was told.
Hard: holds are read, and then applied, by several requests at once; messages,
restarts and revocations come in between. Correct when: the lanes are paused
exactly while someone holds them, and a pause someone asked for arrives.

**Provisioning** (`provisioning.ts`). State: job rows, the fibers that have one
taken, slots. Operations: prepare, claim, cancel, discard, the worker, refusals,
outcomes. Hard: a delete of what is being made; a refusal that gives the attempt
back; a restart. Correct when: a claimed job is made once and never forgotten.

**Backups** (`backups.ts`). State: task rows, the worker's task, its controller,
deadline and gate; journals of stopped Apps. Operations: enqueue, cancel, claim,
run, deadline, complete, recover; stop and start Apps. Hard: cancels and
deadlines race the task; a stop cuts it off; people power Apps a backup stopped.
Correct when: exactly one of a task and its deadline wins, a restore is applied
once, archives match their rows, and every App runs again unless a person
decided otherwise.

### Not modelled yet

| Part | State, and what is hard |
|---|---|
| Tar restores (`backups/tar-restore-journal.ts`) | phases journalled on disk, rolled back or finished by the next start |
| Relay operations (`relay/src/operations`) | which nested work an operation's locks cover |
| Resource deletion, App deployments, server migrations | sequences of relay commands that may stop at any step |
| Schedules and power intents, crash recovery (`runtime-recovery.ts`) | an intent overruled while a start waits its turn; attempts, their limit and reset |
| Port allocations, transfer gate, snapshot deltas | pools and revisions: candidates for algorithm modules |

### Left out

Files, SFTP, terminals and desktops; Docker, proxy and network drivers; the
updater; archives and destinations of backups: I/O on a host, whose failures
show in the model as an operation that fails. Accounts and permissions:
sequential checks. Pages and UI, CLI, Bricks and Embers: presentation and data.

## The lanes

### Correspondence

A JavaScript handler runs to its end before anything else, so each method is one
action: `Admit` (`#admit` with the grant pass and the refusal of busy work),
`LookupSettles`, `LookupFails`, `Start` (the fiber's first step after its
grant), `Finish` (`#release`), `Abandon` (the caller of running nested work is
interrupted), `CancelWaiting`, `CancelGranted`, `Resume`. `setPaused(true)` is
`Pause` followed by one `WithdrawGranted` per turn of its loop, as every turn
runs a pass of its own; `withdrawing` holds what is left of the loop and no other
action may step until it is empty. The code walks a set in insertion order; the
model takes any order. The queues are the waiting operations by admission
number, `#active` those granted or running, and a lock list is a function from
keys to modes, as a normalised list has one lock per key.

`Grant` states a pass by its result: the sets of nested operations and of
operations in line whose locks are free, each defined by what is in the way of
it (`NestedFree`, `LineFree`). `GrantLoop` has the loops as they are written,
with the tables they carry, and shows that they agree.

`Fence`, `Unfence` and `GoStale` are the outside world the hooks read: a fence
goes up and comes down inside an operation that holds the resource whole; a
precondition ceases to hold while its operation waits.

Assumed of the code around the lanes: nested work names only the keys set apart
for it and is never started by an operation that holds one (the comment and use
of `withRoutesLock`, `index.ts:4850`); work refused when busy knows its locks;
`setPaused(true)` is called only when not paused, as `applyPauseHolds` does. No
caller uses `continuation` at this commit; it is modelled as the class defines
it.

### Runs

| Run | Instance | Question |
|---|---|---|
| `lanes_core` | 4 operations, a resource and a part of it, line of 2 | the lock table is exact, a pause leaves nothing about to start, nothing slips past a fence, generations and busy refusals are right, and the lanes implement their contract (exclusion and order included) |
| `lanes_nested` | 4 operations, a server and the routes, 5 kinds of request, line of 2 | with nested work, continuations and preconditions, nothing that could run is left waiting, and the loops of the code are the pass |
| `lanes_live` | 3 operations, `FairSpec` | everything admitted ends |

The state constraint of `lanes_core` (`OneWorkload`) keeps a behaviour to one of
two sets of requests: ordinary work with lookups, refusals and upkeep, or
freezes and restores with what they let through and turn away, the latter with
three operations: one that fences, one it turns away, and one behind that.
Mixing them meets no new pair of rules and multiplies the states by ten.

Bounds. Each operation is admitted once, in any order and with any of the run's
requests, so `Ops` bounds the length of a behaviour. Four are what the hardest
interleavings need: a holder, one waiting behind it, one behind that which a
withdrawal frees, and one that arrives meanwhile. Two keys suffice for a
resource and a part, or a resource and the routes; `MaxWaiting` is 2, so
that the limit is met. Liveness needs three: a parent, its nested work, and one
in line that wants both keys. Operations are interchangeable, so they are
symmetric in the first two runs.

Fairness (`FairSpec`): a granted operation's fiber is scheduled, a lookup settles
one way or the other, work ends once the nested work it waits for has, and
`setPaused` finishes its loop. The first and last are the runtime's; the
others say that the work itself ends, which the lanes rely on and cannot
enforce. Nobody is assumed to cancel, resume, abandon or lift a fence.

### Proofs

`OperationLanesProofs` proves `Spec => []LanesInv` for any operations, keys and
requests that satisfy the three assumptions of the module (finitely many
operations; parts of resources and nested keys are keys; how callers use the
lanes, above). `LanesInv` is the inductive invariant: types, `HeldMatchesActive`,
`Exclusion`, `AdmissionOrder`, `FenceHolds`, and three strengthenings.
`PlacesInOrder` (no two that wait share a place) is what makes "ahead in line"
an order; `FencesOnWholes` is needed because the hook looks a part's resource up
through `WholeOf`; `PauseWithdraws` carries `PausedQuiet` through the loop of
`setPaused`. The argument: one lemma says what a pass keeps, given what its
handler leaves behind, and every action is a change to the queues followed by a
pass, or leaves the holders alone. Exclusion through a pass rests on the lock
table being exact, which the first lemmas reduce to facts about cardinalities:
a table counts no holder exactly when nobody in the set holds the key, and
releasing one of a set leaves the table of the rest.

From it: `LanesTyped`, `LockTableExact`, `ConflictsExclude`, `LineInOrder`,
`FencesKept`, `PausesKept`, and the action property `GenerationsStable`.
`LanesImplementContract` says that every step of the lanes, seen through the
phases of its operations, is a step of `LaneContract` or leaves it unchanged.

`WakeupsNotLost` (`NoLostWakeup`) and `BusyHasReason` (`BusyOnlyWhenBlocked`)
need more than an invariant, as both are about what a pass has just done. Whoever a pass leaves
waiting had something in its way when the pass decided, and still has after it
(`PassWakes`): what was in its way waits on ahead of it, or was granted and
holds its locks. The pass of an arrival is the delicate one, since an operation
refused as busy leaves the line again: had it been in another's way, the other
would now wait for nothing. But that pass frees nobody else. Of those it freed,
take the earliest in line, which exists because places are natural numbers; it
had a reason to wait before the arrival, the arrival stands behind it, and so
the reason stood (`ArrivalFreesNoOther`). Of a refusal because the line is full,
the property counts for itself what waits for nobody granted before it
(`InNobodysName`) rather than use the guard's count (`WaitingOnTheirOwn`);
`lanes_core` has no nested work to tell them apart, so that half is the
theorem's (`CountedOutside`). `GenerationsCounted` says that
`exclusiveGeneration` counts what ran holding the key alone: only `Start` moves
a count, and what it counted keeps its locks on record.

Only model-checked: `AdmittedEnds` (fairness), `HandlersComplete` (`ENABLED`) and
`LoopsAgree` (a fold over the queue, whose result takes induction on its length).

## The journal

### Correspondence

A request goes through the stages `new`, `sent`, `arrived` (its frame is read, its
ticket taken), `reading` (it claimed its ID and reads the journal), `starting`
(the journal does not know it), `queued` (its row is there, it waits its turn),
`running`, `done`; a repeat of a live change is `waiting`. Between two stages the
code awaits, so anything may come in between; within one it does not.

| Code | Action |
|---|---|
| what is stored before a command's first send | `Store` |
| first send and resend of a command | `Send` |
| limits, invalid frames, revoked clients | `TurnAtDoor` |
| a frame for another journal | `JournalGone` |
| a frame taken: its ticket in the lanes | `Arrive` |
| `journaled`: abort and pause checks, then live, recent or claimed | `Enter`, `JoinLive`, `Claim` |
| `getOperation`, `startOperation`, either failing | `ReadJournal`, `StartRow`, `JournalFails` |
| the lane's turn, a refusal, the handler's end | `TurnComes`, `TurnedAway`, `Finish` |
| `settle`, `rememberOperation`, `repeat` | `Settle`, `Repeat` |
| `recordOutcome` in the background, its retries ending | `Write`, `GiveUpWrite` |
| expiry or eviction of an outcome in memory | `Lapse` |
| cancel or deadline; the session's close | `Abort`, `Drop` |
| pause and resume, pruning, restart, rebuilt state | `Pause`, `Resume`, `Prune`, `Restart`, `Rebuild` |
| `lookupOperation` | `Lookup` |

Abstractions. The lanes are one line in which every request conflicts with every
other (`ahead`): what they really do is `OperationLanes`. Every request has a
session of its own, so `Drop` closes any of them; several closing together are
several `Drop`s. Replies are kept or not, never read. Time is in days, as only
the retention and the resend window are compared; everything shorter (expiry of
memory, retries of a write, deadlines) may happen at any time. Three details of
`control-socket.ts` are left out: a request that takes no lanes stops at Hearth's
cancel without an answer (line 588; `Abort` lets it end and answer), the hook
before a change runs could throw with its row written (line 1183; `JournalFails`
only fails before the row), and the few operations a paused Relay lets through
(lines 951 to 953; `Enter` refuses every change). `ran`, `ranBy`
and `ended` are history: what was started, for whom, and how it went.

Assumed. A request reaches the journal, or its connection fails, within the
days between the resend window and the retention (the guard of `Tick`): one day
in the code, while deadlines are minutes. A restart loses no commit: the code
accepts that a host's power loss may (`synchronous = NORMAL`). Pairing a Relay again gives it
another ID, and a command is for one Relay ID: to `RelayCommand` the Relay is
then gone (`NoSuchRelay`).

### Runs

| Run | Instance | Question |
|---|---|---|
| `journal` | two sends of one change and a request that reuses its ID for another payload; retention of a day, none to resend; 3 days, one rebuild; `FairSpec` | never twice; lookups and answers are true; whatever is taken is answered or its session is gone |

Bounds. Three requests of one ID are a claim, a repeat and an intruder, each of
which may meet the others at any stage; IDs do not interact but through the line.
Days 0 to 2 let a row be written, sent again at the end of the window, just kept,
and pruned; `MaxJournal` 1 lets an ID outlive the journal it was sent to. The
constraint `DaysOrOthers` has days pass, the journal rebuilt, and the intruder or
a pause in separate behaviours. Restarts, lapses and failures are not bounded.

Fairness: weak, on `Serve(r)`, what the Relay's own fibers do for a request. It
includes that the work of a running change ends. Nothing is assumed of Hearth,
of the background writes or of anyone who resumes a Relay.

### Proofs

`RelayCommandProofs` proves `Spec => []JournalInv` for any requests, IDs and
payload digests, any retention and any shorter resend window
(`JournalConstants`; `Resend < Retention` is the relation between
`RESEND_WITHIN` and `relayOperationRetentionMs`). `NeverTwice` is not inductive.
That no second request of an ID gets past the journal needs: `Owned`, an ID is
claimed by exactly the request being made under it; `Addressed`, a request the
Relay took was sent to the journal it keeps; `Timely`, it arrives while a row of
its ID would still be kept; `Recorded`, a change that ran has its row until
nothing of its ID can arrive, and a running one has it as running; `Once`,
nothing ran while its request is still to start. `Told`, that memory, pending
writes and rows are each true of the change, carries the lookups. Types and core
are proved apart, each with one step per action; actions that settle a claim
share a lemma.

From it: `JournalTyped`, `ChangesRunOnce` (`NeverTwice`), `LookupsTrue`
(`LookupTruth`), `RunsAreRecorded` (`RunsRecorded`).

`AnswersTrue` (`AnswersTruth`) speaks of answers that outlive the row they were
read from, through pruning, restarts and a rebuilt journal. `Fits` says that an
outcome is right and stays so: a success has ended and cannot end otherwise, and
an ID of which one was said to be turned away is `Shut`: it has a row, or its
journal is gone or its time is past, and nothing of it is on its way to run.
`AnswersInv` is that everything kept or answered fits (`Kept`) and that what runs
is what ran last under its ID (`Lived`). `ShutStays` and `SuccessStays` show that
no step undoes either, by what a step may do to stages, rows and history, so a
step only has to account for what it adds. Only model-checked: `TakenEnds`
(fairness).

## The command

`RelayCommand` EXTENDS `RelayJournal`: a durable step of Hearth, its connection
and the Relay are one specification. `StoreCommand` is `relayCommand` storing an
ID, day and journal; `Ask` and `SendUnknown` are the lookup and send of `settle`;
`Decide` is what it makes of an answer; `HearAnswer`, `LoseConnection`,
`SettleUnsettled` and `GiveUpWaiting` are the connection's; `TryAnotherId` is the
new ID of a change that was withdrawn; `HearthRestart` runs the step again from
what it stored, while the requests of the Hearth that stopped are still on their
way. A cancel of such a request is `RelayJournal`'s `Abort`.

Abstractions. A lookup is one step, as SQLite's client is synchronous; so are the
age check and the send that follows it. A timeout or unknown outcome carries no
code, so `relayIsAway` asks again. Error codes of the Relay's answers that the
step treats alike are `unexpected`, and where the code says `unexpected` of one
that was refused or failed, `HearAnswer` keeps which of the two it was. Replies
too large to keep are left out.

`CommandContract` is what an operation relies on: the change begins at most once,
success is told only of one that succeeded, and one told as never having run
isn't made later either.

| Run | Instance | Question |
|---|---|---|
| `command` | two sends under a first ID, one under a second; retention of a day, none to resend; 3 days, one rebuild | what the step reports is true, rows outlive the changes they record, and the whole implements the contract |

Bounds: with a window of 0 days and a retention of 1, a request of the last
moment, a row that is just kept and one that is just gone all occur within days
0 to 2. The constraint `DaysOrChanges` has days pass under the first ID only, and
a rebuild or a pause on the first day only: the second ID is the same code again.
Restarts, drops and failures are not bounded. That a step ends
(`FairCommandSpec`, `CommandEnds`) holds on two requests and is not among the
runs: with three it takes TLC too long.

Proofs. `CommandRefinesJournal` proves `CommandSpec => Spec`: the step and its
connection never make the Relay do what `RelayJournal` doesn't allow, so every
theorem above holds of it. `CommandInv` adds, for any `MAX_WITHDRAWN`, that IDs
the step gave up are shut and later ones unused (`Tried`), and that what it heard
of its attempt, and what it says, fits (`Reported`). From both: `ReportsAreTrue`
(`ReportsTrue`), `CommandMadeOnce`, and `CommandImplementsContract`, that the
step, the connection and the Relay implement `CommandContract`. `RunsAreRecorded`,
proved of the journal, carries over. Only model-checked: `CommandEnds`.

## Durable operations

`DurableOperations` has the rows of MySQL, the engine's stored steps, Hearth's
lanes, and every fiber between them. `Ask` to `JoinNone` are
`queueDurableOperation` and `queueOperation`; `TakeTurn`, `Recheck`, `CheckReady`,
`StartWaiting`, `EndHold` are `takeTurn`; `CancelRow` and `CancelPlace` a cancel;
`Find` to `RecordFails` are `startDurableOperation`; `DispatchLoads`,
`DispatchExecutes`, `RecordExecution` are `dispatch`; `Begin`, `Act`, `Finish`,
`Close` a workflow; `RestoreRunning`, `RestoreWaiting`, `Open` the startup, in its
order; the `Sweep` actions its two sweeps. `Crash` ends every fiber and the
lanes. A statement in `FailAt` may fail; one in `LostAt` may be carried out and
its answer lost.

Abstractions. All operations change one resource, so the lanes are a line whose
head holds. How an operation ended is not told apart; its work is one step;
every recorded kind is one this Hearth runs. The five passes of
`queueOperation` are never all used within the bounds. Queueing under an
idempotency key is left out.

| Run | Instance | Question |
|---|---|---|
| `durable` | two asks under one key, two starts under one idempotency key, a fault, a restart | no work without its lanes; what was asked is done; a cancelled operation leaves the line |
| `durable_live` | an ask and a start, two faults, two restarts; `FairSpec` | every operation recorded ends or is cancelled |

`FailAt` and `LostAt` name the statements a run lets fail or go unanswered. In
`durable`, queueing, joining, the restore, a re-read, the two halves of a dispatch
and the record of a start may fail, and the answers to queueing, to either kind
of start and to a cancel may be lost; `durable_live` leaves out that queueing and
joining fail, and adds that the answer to the record of an end is lost.
`OneWorkload` lets two operations meet a fault or a restart, and an ask alone or
two starts alone both; `OneWorkloadAndLostStarts`, the constraint of `durable`,
lets two meet both where the fault was a lost answer to a start. The asks of
`durable` are interchangeable, and symmetric.

What the two properties of `durable` excuse, they name. An operation whose start
was recorded and the answer lost (`unheard`) gives its lanes up while its row says
running, so it may work beside another, and a restart may set it in line ahead
of one; `ActsAlone` says that of all the others no two work at once, and the one
at work is behind none but such. A cancelled operation whose cancel, or whose
re-read, got no answer (`missed`) stays in line until its turn, when it gives it
up; `CancelledLeaves` says that every other leaves. Both histories hold only what
this Hearth didn't hear: a restart, which reads the rows, clears `missed`, and
forgets an `unheard` start of the only operation that runs, which then gets its
lanes back.

Fairness: fibers run, the sweeps repeat, and what an operation needs to be ready
is there in the end. Nobody is assumed to ask, cancel or start.

Proofs, for any asks, starts, faults and restarts. `DurableInv` is types and:
queued operations are numbered as recorded and only they wait (`Numbered`); a
workflow works on what its row asked for as it started, and the row ends only
after it (`Flows`); an ask that was answered is in the row it was answered with
(`Homes`); until a Hearth has read what waits, it only holds what was running
(`Early`); what each place in line is for (`Placed`); whoever has a place that is
known has only that one (`Single`); and a cancelled operation that is in line
still, past its first place, is one the property excuses (`Leaving`).
`AsksAreRun` (`AskIsRun`) follows from `Flows` and `Homes`, whatever fails;
`CancelsLeave` (`CancelledLeaves`) from `Flows` and `Leaving`. `WorksAlone`
(`ActsAlone`) rests on `HolderInv`: of the operations recorded running only one
had its start answered, and it holds the lanes behind none but ones whose start
was not (`Held`). That stands through withdrawals because what holds the lanes
without being first was running when Hearth started and isn't re-read
(`Restored`), and whatever may still give up has no row, and whatever a cancel
withdraws is cancelled (`Unstarted`). Neither theorem assumes anything of what
fails or goes unanswered. Only model-checked: `EveryOperationEnds` (fairness).

## Pause holds

A Hearth stores whether a Relay is enabled (`SetEnabled`) and tells its connection
(`HoldPaused`), unless its call fails in between (`CallFails`); the connection
tells the Relay on connect, on change and while the Relay reports otherwise
(`Connect`, `Tell`, `HearAnswer`, `TellTimesOut`). The Relay stores the hold
(`TakeWrite`), reads all holds (`ReadHolds`, `ReadFails`) and sets its lanes
(`ApplyHolds`); `Revoke` and `CloseRevoked` are a revocation; snapshots report the
lanes (`PushSnapshot`).

Assumed: SQLite's reads are served and continued in order; what a dropped
connection still carries is read before anything on the next; the Relay serves
one write of a Hearth at a time. `server/relays.ts` admits one call of
`setPersistedRelayEnabled` for a Relay at a time, so a Hearth has at most one
between its two halves (`calls`).

Left out. A write whose own statement fails: it changes nothing and is told
again. What `applyPauseHolds` awaits after it set the lanes, resuming the workers
and refreshing the snapshot: `ApplyHolds` ends its request at once, or fails it.
`kiln-relay hearth revoke` beside a running Relay, which revokes in SQLite and
applies no holds (`index.ts:1410`): to the Relay, a revocation whose read fails.

| Run | Instance | Question |
|---|---|---|
| `pause` | two Hearths, one of which may be revoked; 2 changes of mind, one lost or timed out message, drop or restart, one failed call, read or refresh; `FairSpec` | the lanes follow the holds; no revoked Hearth leaves one; what a Hearth believes is so; the last word arrives, with the two excuses below |

Two Hearths are what makes reads interleave: one's hold is applied between the
other's read and its application. `AnyThree` lets any three of the changes, the
fault and the failure meet in a behaviour; revocations are always allowed.
Fairness: connections come back, loops go on, the Relay serves what it took.

`PauseArrives` excuses what the code never repairs by itself. A call that fails
once the change is stored leaves the connection telling what it told before
(`untold`), until the next change or a restart of that Hearth. A revocation that
couldn't read the holds leaves the lanes as they were (`RevokedUnread`), until
someone's write reads them or the Relay restarts. Both are listed below without
the excuse, as `TellsWhatIsStored` and `PauseLifts`.

Proofs, for any Hearths, changes, messages, faults and failures. `PausedAsHeld`
(`PausedMatchesHolds`, which asks that the last read of the holds didn't fail:
`misread`) rests on `Newest`: once every stored hold is being read, the newest read is right, and as
reads are applied in order it is the one that stands. That rests on every read
being of a request of its own (`OwnReads`). `NoHoldIsOrphaned` follows from
`TakeWrite` and `Revoke` alone.
`BeliefIsHeld` (`ToldIsHeld`) rests on what is still on its way: every write on
the wire of a Hearth that believes something says the same (`Believes`), and the
write it waits for is the last (`Awaits`). Only model-checked: `PauseArrives`
(fairness).

## Provisioning

`Prepare`, `Claim` to `ClaimFails`, `Cancel` and `StartDiscard` to `DiscardFails` are
what Hearth asks; `WakeWorker`, `Check`, `TakeNext`, `Die` and `Recheck` are the
worker; `StartMaking`, `Refuse`, `PutBack`, `Rest`, `Make`, `Record` and `RecordFails`
a job's fiber; `Pause`, `Resume` and `Restart` come from outside. The lanes are left
to `OperationLanes`: only a delete of the same instance, a pause, or a refusal to
try again after keeps a fiber from its turn.

A claim is two statements: the row is queued (`Claim`), its placeholder rewritten,
and only then is the worker woken (`ClaimEnds`), or never, if the second fails
(`ClaimFails`). The statement the worker takes a job with is its own, and nothing
catches it: if it fails the worker's fiber ends for good, with the fibers it
started but for what the lanes run (`Die`). A delete may fail at any of its
statements (`DiscardFails`).

| Run | Instance | Question |
|---|---|---|
| `provisioning` | two jobs, two slots; a refusal, a pause, an error and a restart; `FairSpec` | a create runs once, is never deleted while it is made, leaves nothing unseen; a claimed job is taken, with the two excuses below |

A job put back rests in its slot, so both slots are taken while a job is in
line. `TwoKinds` lets any two kinds of refusals, pauses, errors and restarts meet
in a behaviour; `Roles` makes one job the first and the only one deleted, and
has claims come one at a time. Fairness: claims, the worker and the fibers run,
deletes end, and a paused Relay is resumed.

`ClaimedIsTaken` names what it excuses: a job whose claim failed before it woke the
worker, until the worker next wakes up (`quiet`), and any job once the worker is
dead, until the Relay restarts. Without the excuses it is `QueuedStart`, below.

Proofs, for any jobs, slots, refusals, pauses, failures and restarts. That a
create isn't started over (`CreatesOnce`) rests on which fibers may still start
one, having made nothing (`Taken`), and on no row the worker may take again being
of a job ever started (`Fresh`). `DiscardsAlone` and `LeftoversStayShown` rest on
a job being out of the worker's reach while what it left is deleted
(`Discarding`). `JobsNotLost` (`NoLostJob`): while the worker sleeps with no wake-up
waiting, something will wake it, or whatever is queued is of a claim that will,
or that failed before it could. A dead worker is not asleep. Only model-checked: `ClaimedIsTaken`
(fairness).

## Backups

`BackupQueue` has the rows of tasks, the one worker and its task: `Claim`,
`Register`, `Look` (the read that catches a cancel from before the controller was
there), `Grant`, the work by kind, `Complete` or `Fail`; beside it `CancelRow` and
`CancelAbort`, and the deadline, which decides (`Expire`) and later writes
(`TimeOut`). `BeginInstall` is the gate a restore of files and its deadline both
pass. Two failures on top of a failure are left out: a failed swap whose rollback
fails too, and is finished by the next start while its row says failed
(`backup-restore.ts:92`; `Break` always rolls back), and a deadline whose own
write fails (`backups.ts:456`; `TimeOut` always writes). A statement that fails outside a task's own handling ends the worker
(`Die`). `Restart` requeues what may be repeated, fails the rest and finishes a
swap of files that had begun.

`StoppedApps` has the windows in which Apps are stopped: `Begin` journals what it
is about to stop, `Stop`, then an archive per member (`Leave`), then `Start` for
what is still owed (`StillOwed`: the revision of the App's power is still the one
journalled), and `Keep` rewrites the journal. `ChangePower` and `ApplyPower` are a
person's. Final backups, which restart nothing, and Apps that exit on their own
are left out.

| Run | Instance | Question |
|---|---|---|
| `backups` | a create beside a restore of files (two restarts); a signed create beside a restore of a database, or two deletes with their prunes (one restart); a pause, an error; `FairSpec` | one of a restore and its deadline wins; archives match their rows; prunes are owed; a cancel holds; every task ends |
| `stopped_apps` | three Apps, a backup of what two use, a batch of two members, a backup of the third's; a change of power, two failures, two restarts; `FairSpec` | a person's choice stands; nothing runs while copies are taken; what is owed a start is journalled and is started |

The tasks of different kinds meet only in the worker's queue, so pairs are
enough (`OneWorkload`). A task cut off by a restart and then cancelled in line
may leave its archive, as `ArchiveMatchesRow` says. Fairness is weak on what the
worker, its task and the windows do next: Docker and restic answer in the end.
Nobody is assumed to resume a Relay.

Proofs, for any tasks of each kind, pauses, failures and restarts. The four
properties share what the task in the worker's hand may be (`Hand`): its row is
running, or a cancel or its own deadline got there first, and the deadline never
passes once the gate is closed. `RestoreOrDeadline` (`OneWins`) adds how far a
restore must have come for its data to be in place (`Restoring`);
`ArchivesMatchRows` who may still remove an archive (`Archiving`);
`PrunesAreOwed` what a prune or delete cut off leaves (`Owing`); and the action
property `CancelsHold` (`CancelHolds`) which cancels a controller knows of
(`Cancelling`). `TasksNotLost` (`NoLostTask`) says that the worker never sleeps
beside a task it could take with nothing to wake it; a task is put back only
while a resume, which wakes it, is still to come (`Awake`).

For any Apps, windows, members, changes, failures and restarts, `ChoicesStand`
rests on what an entry with an App's present revision says of it (`Entered`):
nobody has stopped the App or is changing it. `CopiesAlwaysAgree` rests on who
holds an App's lane (`Lanes`) and how far a window has stopped its Apps
(`Stopping`); `OwedStaysJournalled` (`OwedStays`) on what a window has still to
start, or to stop (`Owing`). Only model-checked: `TaskEnds` and `StartedAgain`
(fairness).

## Freezes

`Freeze` records the row, tells the lanes (`Hold`), records each restart policy
before Docker is told to drop it (`Record`, `SetNo`), and stops the App
(`Quieted`); `Unfreeze` restores the policies, then lifts the row, then tells the
lanes; `Delete` removes the App and forgets the row; `Restart` reads the rows
before any work and `Reapply` quiets again. `Deploy` is what the lanes let
through only when nothing is frozen; what `apps.ts` does for one is a single step
here, as only the containers and policies it leaves matter. Every step may fail (`Fail`). One App is
modelled; freezes of game servers and databases record no undo.

| Run | Instance | Question |
|---|---|---|
| `freezes` | an App of two containers, two deletions, three failures, three restarts | no policy is lost; a deletion told it holds the App does; a frozen App stays quiet |

Proofs, for any deletions, containers, policies, failures and restarts.
`PoliciesKept` rests on the lanes' copy never being behind the row (`Copies`), on
what is recorded being the policy the App was deployed with (`Honest`), and on
every policy being given back before the row goes (`GivenBack`).
`ToldKeepsHolding` (`ToldHolds`) rests on nothing that lets go running while a
deletion counts on its freeze (`Promised`), `QuietStays` (`StaysQuiet`) on how far
quieting has come (`Quieter`). `LanesAreBacked`: what the lanes refuse work for, a
restart finds in the row.

## Differences met while modelling

Places where a comment or document and the code differ. Each has its property in
the module; on the instance named TLC finds it violated.

| Property (run) | What is said, and what the code does |
|---|---|
| `RefusalNamesBlocker` (`lanes_nested`) | A refusal names what is in its way (`lanes.ts:374`); held back by nested work that itself waits, it names nothing (`lanes.ts:361`). |
| `CancelledNeverRan` (`journal`) | A cancelled change that was running answers its real outcome (`docs/relay-operations.md:427`); one that then fails answers `request_cancelled` (`control-socket.ts:2388`). |
| `CancelledSaysSo` (`journal`) | The same line: one withdrawn before it ran answers `request_cancelled`; it answers `operation_withdrawn` (`control-socket.ts:2381`). |
| `FailedMeansFailed` (`journal`) | `failed` means it failed or was withdrawn (`docs/relay-operations.md:398`); a change that succeeded is looked up as `failed` after a repeat couldn't read the journal, until memory lapses (`control-socket.ts:1204`). |
| `RecoversWhenDone` (`command`) | A change that's done, whose reply is gone, is read back with `recover` (`relay-command.ts:62`); after a dropped connection the step ends as `result_unavailable` (`relay-connection.ts:2215`). |
| `PauseIsWaitedOut` (`command`) | A Relay that is paused is asked again (`relay-command.ts:145`); one looked up as turned away by a pause fails the step (`relay-command.ts:272`). |
| `PauseLifts` (`pause`) | The Relay is paused while any Hearth holds it, and revoking one clears its hold (`docs/relay-operations.md:468`); a revocation whose read of the holds fails leaves it paused with none (`index.ts:2796`). |
| `TellsWhatIsStored` (`pause`) | A pause or resume a Relay missed still arrives (`docs/relay-operations.md:470`); when the answer to the statement that stores it is lost, or the row can't be read back, the connection is never told, and keeps telling what it told before (`relay-registry.ts:1089`). |
| `QueuedStart` (`provisioning`) | Queued provisioning jobs start once the Relay is resumed (`docs/relay-operations.md:489`); one whose claim fails after its row is queued waits until something else wakes the worker (`provisioning.ts:228`), and a statement that fails as the worker takes a job ends it until a restart (`provisioning.ts:323`). |
| `RestartPutsBack` (`provisioning`) | A job that couldn't be recorded is put back as the Relay restarts (`provisioning.ts:340`); it is failed (`effect/state.ts:3651`). |
| `StartsOnceResumed` (`backups`) | A task withdrawn by a pause starts once the Relay is resumed (`backups.ts:540`); a statement that fails in the worker's loop ends the worker until a restart (`backups.ts:413`). |
| `OneWinsEverywhere` (`backups`) | Of a restore and its deadline exactly one wins (`backups.ts:441`); a database's restore passes no gate (`backups.ts:1722`). |
| `UnstartedStayJournaled` (`stopped_apps`) | Apps that won't start stay journaled (`backups.ts:1241`); a backup run again after a restart writes its journal anew without them (`backups.ts:1214`). |
| `KeptInStep` (`freezes`) | The lanes' freezes are kept in step with the rows (`resource-freezes.ts:47`); a read that fails after the row was written leaves a row the lanes don't know (`effect/state.ts:2756`). |
| `LocksHeldToTheEnd` (`durable_live`, no restarts) | An operation's locks are held until its workflow ends (`docs/hearth-operations.md:94`); when the answer to its start is lost, the retry changes no row and its lanes are given up (`durable.ts:456`). |

## Proved, and only model-checked

Proved for every value of the constants: every invariant the runs check, a few
they have no room for (`GenerationCounts`, `CommandOnce`, `LanesBackedByRow`,
`NoLostJob`, `NoLostTask`, `Exclusion`, `AdmissionOrder`), that the lanes and the
commands implement their contracts, that a command behaves as the journal
allows, and the action properties `GenerationStable`, `BusyOnlyWhenBlocked` and
`CancelHolds`. The theorems rest on the assumptions the
modules declare about their constants (`OpsAssumption`, `JournalConstants`, ...),
which TLC evaluates on every instance, and on nothing else. Bounds of the runs (`MaxFaults`, `MaxStops`,
...) are any natural numbers, and the state constraints play no part.

Only model-checked, on the instances above:

- what must eventually happen: `AdmittedEnds`, `TakenEnds`, `EveryOperationEnds`,
  `PauseArrives`, `ClaimedIsTaken`, `TaskEnds`, `StartedAgain`. The provers have no
  rule for fairness or `ENABLED`.
- `LoopsAgree`, that the code's loops are the pass `OperationLanes` states: it
  compares folds over a queue, which takes induction over its length, and the
  installed provers can't instantiate the induction theorems.

So the proofs about the lanes are of the pass as `Grant` states it. That it is
what the loops compute rests on that run.

State constraints cut off only what people, failures or restarts begin, never a
step fairness asks for, so the liveness properties are checked of every behaviour
within them.

## Plan

Next to model:

1. the tar restore's journal: its phases, their rollback, and the fence, under
   `OperationLanes` and the restart of `BackupQueue`;
2. Relay operations: an operation's locks cover the nested work it starts;
3. power intents and crash recovery (`runtime-recovery.ts`), beside `StoppedApps`;
4. deletion, deployments and migrations as sequences of `RelayCommand`s over
   `DurableOperations`;
5. the transfer gate, port allocations and snapshot deltas, as algorithm modules.

Next to prove: abstract specifications of pausing (the lanes are paused while
someone holds them), of the backup queue and of a frozen App, each implemented
by its module; then the same for each module that is added, its invariant first.
