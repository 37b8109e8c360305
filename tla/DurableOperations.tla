-------------------------- MODULE DurableOperations --------------------------
(***************************************************************************)
(* Hearth's durable operations (apps/web/src/operations/durable.ts,        *)
(* records.ts, startup.ts): each is a row in MySQL, a place in Hearth's    *)
(* lanes and a workflow.  A queued one (queueDurableOperation) is recorded *)
(* waiting and takes its turn in the lanes; what is asked under its key    *)
(* while it waits joins it.  A started one (startDurableOperation) takes   *)
(* its lanes first and is recorded running.  Either holds its lanes until  *)
(* its row ends, and a restarted Hearth takes the lanes of what was        *)
(* running back before it admits anything.                                 *)
(*                                                                         *)
(* The rows and what the workflow engine stores survive a restart; the     *)
(* lanes and every fiber do not.  All operations here change one resource, *)
(* so the lanes are one line, whose head holds the lock: the lanes' own    *)
(* rules are OperationLanes.  A statement of MySQL may fail (FailAt), or   *)
(* be carried out and its answer lost with the connection (LostAt).  How   *)
(* an operation ended (succeeded, failed, interrupted) is not told apart,  *)
(* its work is one step of its workflow, and every kind recorded is one    *)
(* this Hearth can run.                                                    *)
(***************************************************************************)
EXTENDS Naturals, Sequences, FiniteSets, SequencesExt

CONSTANTS
    Asks,        \* calls of queueDurableOperation, each with a key
    Keys,        \* the queue keys
    KeyOf,       \* the key of each ask
    Starters,    \* calls of startDurableOperation, under one idempotency key
    MaxQueued,   \* bound: operations queued, numbered as they are recorded
    FailAt,      \* the statements that may fail, nothing written
    LostAt,      \* the statements whose answer may be lost, all written
    MaxFaults,   \* bound: statements that fail or lose their answer
    MaxCrashes,  \* bound: restarts of Hearth
    none

Statements == {"queue", "join", "restore", "recheck", "record", "start",
               "cancel", "load", "execution", "finish"}

ASSUME DurableConstants ==
    /\ KeyOf \in [Asks -> Keys]
    /\ IsFiniteSet(Starters) /\ Starters \intersect (1..MaxQueued) = {}
    /\ FailAt \subseteq Statements /\ LostAt \subseteq Statements
    /\ MaxQueued \in Nat /\ MaxFaults \in Nat /\ MaxCrashes \in Nat

Queued == 1..MaxQueued
Ops == Queued \union Starters

VARIABLES
    row,        \* MySQL: the operation table
    flow,       \* the engine's store: how far each workflow is
    phase,      \* startup: closed, held, readmitting, open
    line,       \* the lanes: the places in line, the first one granted
    places,     \* queuedHolders
    turns,      \* queued operations whose request waits for lanesOpen
    swept,      \* waiting operations a sweep read and hasn't yet set in line
    unsure,     \* operations whose place is taken and row not yet re-read
    withdrawing,\* cancelled rows whose place isn't withdrawn yet
    asked,      \* dispatches begun: ids given to dispatch
    loaded,     \* dispatches that read the row running
    executed,   \* dispatches that started the workflow
    engine,     \* whether the workflow engine is built
    run,        \* what this Hearth runs of each workflow
    took,       \* the input each run read from its row
    did,        \* what each operation's work has acted on, over all its runs
    ask,        \* each call of queueDurableOperation
    home,       \* the operation whose ID each ask was answered with
    start,      \* each call of startDurableOperation
    ready,      \* whether what a queued operation needs is there
    unheard,    \* history: operations whose start was recorded, unanswered, till
                \* a restart finds one running alone
    missed,     \* history: cancelled operations whose cancel, or the re-read of
                \* their row, this Hearth had no answer to
    faults, crashes

stored == <<row, flow, did>>
lanes == <<phase, line, places, turns, swept, unsure, withdrawing>>
dispatching == <<asked, loaded, executed>>
workflows == <<engine, run, took>>
callers == <<ask, home, start>>
history == <<unheard, missed>>
others == <<ready, history, faults, crashes>>
vars == <<row, flow, did, lanes, dispatching, workflows, callers, others>>

-----------------------------------------------------------------------------
(* Rows and places *)

Rows == [state : {"absent", "waiting", "running", "ended", "cancelled"},
         key : Keys \union {none}, asks : SUBSET Asks, sent : BOOLEAN]

NoRow == [state |-> "absent", key |-> none, asks |-> {}, sent |-> FALSE]

With(state) == {o \in Ops : row[o].state = state}

(* Faulty variant: a key given up only as its operation ends.               *)
WaitingOrRunningUnder(key) ==
    {o \in Queued : row[o].state \in {"waiting", "running"} /\ row[o].key = key}

(* The operation waiting under a key: startWaitingOperation and the two     *)
(* endings give the key up.                                                 *)
WaitingUnder(key) == {o \in Queued : row[o].state = "waiting" /\ row[o].key = key}

(* The operation recorded under the starters' idempotency key, if any.      *)
Recorded == {s \in Starters : row[s].state # "absent"}

NextId == Cardinality({o \in Queued : row[o].state # "absent"}) + 1

(* A place in line: whose it is, the operation it holds the lanes for, and  *)
(* how far it is.                                                           *)
LinePlaces == [who : Ops, op : Ops,
               at : {"turn", "start", "record", "again", "hold"}]

Place(who, op, at) == [who |-> who, op |-> op, at |-> at]

Granted(who, at) == line # <<>> /\ Head(line).who = who /\ Head(line).at = at

(* ticket.cancel: one still waiting leaves the line; one granted stays.     *)
Withdraw(who) ==
    \/ \E i \in 2..Len(line) : line[i].who = who /\ line' = RemoveAt(line, i)
    \/ (\A i \in 2..Len(line) : line[i].who # who) /\ UNCHANGED line

(* A place's holder ended: the lanes grant the next one.                    *)
Leave ==
    /\ line' = Tail(line)
    /\ places' = places \ {Head(line).who}

(* What is still in line of the places of queuedHolders.                    *)
StillPlaced(newLine) == {o \in places : \E i \in DOMAIN newLine : newLine[i].who = o}

MayFail(statement) ==
    /\ statement \in FailAt /\ faults < MaxFaults
    /\ faults' = faults + 1

MayLose(statement) ==
    /\ statement \in LostAt /\ faults < MaxFaults
    /\ faults' = faults + 1

Answered == UNCHANGED faults

-----------------------------------------------------------------------------
(* queueDurableOperation, with a key *)

Ask(a) ==
    /\ ask[a] = "idle"
    /\ ask' = [ask EXCEPT ![a] = "inserting"]
    /\ UNCHANGED <<stored, lanes, dispatching, workflows, home, start, others>>

(* INSERT IGNORE: one is recorded waiting unless one waits under the key.   *)
InsertWaiting(a) ==
    /\ ask[a] = "inserting" /\ WaitingUnder(KeyOf[a]) = {}
    /\ NextId <= MaxQueued
    /\ row' = [row EXCEPT ![NextId] = [state |-> "waiting", key |-> KeyOf[a],
                                       asks |-> {a}, sent |-> FALSE]]
    /\ \/ /\ Answered
          /\ ask' = [ask EXCEPT ![a] = "answered"]
          /\ home' = [home EXCEPT ![a] = NextId]
          /\ turns' = turns \union {NextId}
       \/ /\ MayLose("queue")
          /\ ask' = [ask EXCEPT ![a] = "failed"]
          /\ UNCHANGED <<home, turns>>
    /\ UNCHANGED <<flow, did, phase, line, places, swept, unsure, withdrawing,
                   dispatching, workflows, start, ready, history, crashes>>

InsertIgnored(a) ==
    /\ ask[a] = "inserting" /\ WaitingUnder(KeyOf[a]) # {}
    /\ ask' = [ask EXCEPT ![a] = "joining"]
    /\ UNCHANGED <<stored, lanes, dispatching, workflows, home, start, others>>

(* The transaction that joins: the row found under the key is locked as     *)
(* starting it does.                                                        *)
Join(a) ==
    /\ ask[a] = "joining"
    /\ \E o \in WaitingUnder(KeyOf[a]) :
        /\ row' = [row EXCEPT ![o].asks = @ \union {a}]
        /\ home' = [home EXCEPT ![a] = o]
    /\ ask' = [ask EXCEPT ![a] = "answered"]
    /\ UNCHANGED <<flow, did, lanes, dispatching, workflows, start, others>>

(* Started as it was asked: another pass queues one behind it.              *)
JoinNone(a) ==
    /\ ask[a] = "joining" /\ WaitingUnder(KeyOf[a]) = {}
    /\ ask' = [ask EXCEPT ![a] = "inserting"]
    /\ UNCHANGED <<stored, lanes, dispatching, workflows, home, start, others>>

AskFails(a) ==
    /\ \/ ask[a] = "inserting" /\ MayFail("queue")
       \/ ask[a] = "joining" /\ MayFail("join")
    /\ ask' = [ask EXCEPT ![a] = "failed"]
    /\ UNCHANGED <<stored, lanes, dispatching, workflows, home, start, ready, history, crashes>>

-----------------------------------------------------------------------------
(* takeTurn *)

(* One place in line an operation: reserved in the step that finds none,    *)
(* and admitted as Hearth's own work.                                       *)
Reserve(o) ==
    IF o \in places
    THEN UNCHANGED <<line, places, unsure>>
    ELSE /\ line' = Append(line, Place(o, o, "turn"))
         /\ places' = places \union {o}
         /\ unsure' = unsure \union {o}

(* The request that queued it, once the lanes are open.                     *)
TakeTurn(o) ==
    /\ o \in turns /\ phase = "open"
    /\ turns' = turns \ {o}
    /\ Reserve(o)
    /\ UNCHANGED <<stored, phase, swept, withdrawing, dispatching, workflows,
                   callers, others>>

(* A sweep's next one is the oldest it read.                                *)
SweepNext(o) == o \in swept /\ \A p \in swept : o <= p

(* It takes its place, or is passed over when it has one.                   *)
SweepTakes(o) ==
    /\ SweepNext(o) /\ o \notin unsure
    /\ Reserve(o)
    /\ swept' = IF o \in places THEN swept \ {o} ELSE swept
    /\ UNCHANGED <<stored, phase, turns, withdrawing, dispatching, workflows,
                   callers, others>>

(* Faulty variant: the row isn't re-read.                                   *)
RecheckNever(o) ==
    /\ o \in unsure
    /\ unsure' = unsure \ {o}
    /\ swept' = IF SweepNext(o) THEN swept \ {o} ELSE swept
    /\ UNCHANGED <<stored, phase, line, places, turns, withdrawing, dispatching,
                   workflows, callers, others>>

(* The row re-read once its place is taken: one no longer waiting leaves.   *)
Recheck(o) ==
    /\ o \in unsure
    /\ unsure' = unsure \ {o}
    /\ swept' = IF SweepNext(o) THEN swept \ {o} ELSE swept
    /\ \/ /\ Answered
          /\ IF row[o].state = "waiting" THEN UNCHANGED line ELSE Withdraw(o)
          /\ places' = StillPlaced(line')
          /\ UNCHANGED missed
       \/ /\ MayFail("recheck")
          /\ missed' = missed \union ({o} \intersect With("cancelled"))
          /\ UNCHANGED <<line, places>>
    /\ UNCHANGED <<stored, phase, turns, withdrawing, dispatching, workflows,
                   callers, ready, unheard, crashes>>

(* Its turn has come: not ready, it gives its turn back, still waiting.     *)
CheckReady(o) ==
    /\ Granted(o, "turn")
    /\ IF ready
       THEN line' = [line EXCEPT ![1].at = "start"] /\ UNCHANGED places
       ELSE Leave
    /\ UNCHANGED <<stored, phase, turns, swept, unsure, withdrawing, dispatching,
                   workflows, callers, others>>

(* startWaitingOperation, tried until MySQL answers: a waiting row runs and *)
(* its workflow is dispatched; one no longer waiting gives its turn up.     *)
StartWaiting(o) ==
    /\ Granted(o, "start")
    /\ IF row[o].state = "waiting"
       THEN /\ row' = [row EXCEPT ![o].state = "running"]
            /\ \/ /\ Answered
                  /\ line' = [line EXCEPT ![1].at = "hold"]
                  /\ asked' = asked \union {o}
                  /\ UNCHANGED unheard
               \/ /\ MayLose("start")
                  /\ unheard' = unheard \union {o}
                  /\ UNCHANGED <<line, asked>>
            /\ UNCHANGED places
       ELSE Leave /\ UNCHANGED <<row, asked, unheard, faults>>
    /\ UNCHANGED <<flow, did, phase, turns, swept, unsure, withdrawing, loaded,
                   executed, workflows, callers, ready, missed, crashes>>

(* awaitOperationEnd returns, woken by the row's end or by its own watch.   *)
EndHold(o) ==
    /\ Granted(o, "hold") /\ row[Head(line).op].state # "running"
    /\ Leave
    /\ UNCHANGED <<stored, phase, turns, swept, unsure, withdrawing, dispatching,
                   workflows, callers, others>>

-----------------------------------------------------------------------------
(* cancelQueuedOperation *)

CancelRow(o) ==
    /\ row[o].state = "waiting"
    /\ row' = [row EXCEPT ![o].state = "cancelled"]
    /\ \/ /\ Answered
          /\ withdrawing' = withdrawing \union {o}
          /\ UNCHANGED missed
       \/ /\ MayLose("cancel")
          /\ missed' = missed \union {o}
          /\ UNCHANGED withdrawing
    /\ UNCHANGED <<flow, did, phase, line, places, turns, swept, unsure,
                   dispatching, workflows, callers, ready, unheard, crashes>>

CancelPlace(o) ==
    /\ o \in withdrawing
    /\ withdrawing' = withdrawing \ {o}
    /\ IF o \in places THEN Withdraw(o) ELSE UNCHANGED line
    /\ places' = StillPlaced(line')
    /\ UNCHANGED <<stored, phase, turns, swept, unsure, dispatching, workflows,
                   callers, others>>

-----------------------------------------------------------------------------
(* startDurableOperation, with an idempotency key *)

(* findOperation: one recorded under the key is returned.                   *)
Find(s) ==
    /\ start[s] = "idle"
    /\ start' = [start EXCEPT ![s] = IF Recorded = {} THEN "opening" ELSE "answered"]
    /\ UNCHANGED <<stored, lanes, dispatching, workflows, ask, home, others>>

(* awaitLanesOpen, then admitted: a change to a whole in its way refuses it.*)
Admit(s) ==
    /\ start[s] = "opening" /\ phase = "open"
    /\ \/ /\ line # <<>>
          /\ start' = [start EXCEPT ![s] = "refused"]
          /\ UNCHANGED line
       \/ /\ start' = [start EXCEPT ![s] = "lined"]
          /\ line' = Append(line, Place(s, s, IF line = <<>> THEN "record" ELSE "again"))
    /\ UNCHANGED <<stored, phase, places, turns, swept, unsure, withdrawing,
                   dispatching, workflows, ask, home, others>>

(* Told Hearth is still starting; or, in line, withdrawn when it waited as  *)
(* long as a person does or its caller gave up.                             *)
GiveUp(s) ==
    /\ \/ start[s] = "opening" /\ phase # "open" /\ UNCHANGED line
       \/ /\ start[s] = "lined" /\ \E i \in 2..Len(line) : line[i].who = s
          /\ Withdraw(s)
    /\ start' = [start EXCEPT ![s] = "refused"]
    /\ UNCHANGED <<stored, phase, places, turns, swept, unsure, withdrawing,
                   dispatching, workflows, ask, home, others>>

(* Its lanes are its: recorded running and its workflow dispatched, or one  *)
(* already recorded under the key is awaited.                               *)
Record(s) ==
    /\ Granted(s, "record") \/ Granted(s, "again")
    /\ start' = [start EXCEPT ![s] = "answered"]
    /\ IF Recorded = {}
       THEN /\ row' = [row EXCEPT ![s].state = "running"]
            /\ line' = [line EXCEPT ![1].at = "hold"]
            /\ asked' = asked \union {s}
       ELSE /\ \E found \in Recorded : line' = [line EXCEPT ![1] = Place(s, found, "hold")]
            /\ UNCHANGED <<row, asked>>
    /\ UNCHANGED <<flow, did, phase, places, turns, swept, unsure, withdrawing,
                   loaded, executed, workflows, ask, home, others>>

(* Not allowed any more once it has waited, or its INSERT failed: its lanes *)
(* are given up and its caller told.  Lost, the row is there all the same.  *)
RecordFails(s) ==
    /\ Granted(s, "record") \/ Granted(s, "again")
    /\ start' = [start EXCEPT ![s] = "refused"]
    /\ Leave
    /\ \/ Head(line).at = "again" /\ Answered /\ UNCHANGED <<row, unheard>>
       \/ MayFail("record") /\ UNCHANGED <<row, unheard>>
       \/ /\ Recorded = {} /\ MayLose("record")
          /\ row' = [row EXCEPT ![s].state = "running"]
          /\ unheard' = unheard \union {s}
    /\ UNCHANGED <<flow, did, phase, turns, swept, unsure, withdrawing,
                   dispatching, workflows, ask, home, ready, missed, crashes>>

-----------------------------------------------------------------------------
(* dispatch, and the workflow (the engine that stores and resumes it is     *)
(* external)                                                                *)

DispatchLoads(o) ==
    /\ o \in asked
    /\ asked' = asked \ {o}
    /\ \/ /\ Answered
          /\ loaded' = IF row[o].state = "running" THEN loaded \union {o} ELSE loaded
       \/ MayFail("load") /\ UNCHANGED loaded
    /\ UNCHANGED <<stored, lanes, executed, workflows, callers, ready, history, crashes>>

(* workflow.execute: one already started for the ID is found, not begun.    *)
DispatchExecutes(o) ==
    /\ o \in loaded
    /\ loaded' = loaded \ {o} /\ executed' = executed \union {o}
    /\ flow' = [flow EXCEPT ![o] = IF @ = "none" THEN "started" ELSE @]
    /\ engine' = TRUE
    /\ UNCHANGED <<row, did, lanes, asked, run, took, callers, others>>

RecordExecution(o) ==
    /\ o \in executed
    /\ executed' = executed \ {o}
    /\ \/ /\ row' = [row EXCEPT ![o].sent = TRUE]
          /\ Answered \/ MayLose("execution")
       \/ MayFail("execution") /\ UNCHANGED row
    /\ UNCHANGED <<flow, did, lanes, asked, loaded, workflows, callers, ready, history, crashes>>

(* The engine runs a workflow begun or cut off: its input is its row's,     *)
(* read on each run, and a step whose result is stored isn't run again.     *)
Begin(o) ==
    /\ engine /\ flow[o] \in {"started", "acted"} /\ run[o] = "off"
    /\ took' = [took EXCEPT ![o] = IF flow[o] = "started" THEN row[o].asks ELSE {}]
    /\ run' = [run EXCEPT ![o] = IF flow[o] = "started" THEN "acting" ELSE "finishing"]
    /\ UNCHANGED <<stored, lanes, dispatching, engine, callers, others>>

(* Its work, done and its result stored.                                    *)
Act(o) ==
    /\ run[o] = "acting"
    /\ did' = [did EXCEPT ![o] = @ \union took[o]]
    /\ flow' = [flow EXCEPT ![o] = "acted"]
    /\ run' = [run EXCEPT ![o] = "finishing"]
    /\ took' = [took EXCEPT ![o] = {}]
    /\ UNCHANGED <<row, lanes, dispatching, engine, callers, others>>

(* finishOperation, tried until MySQL answers: ending one already ended     *)
(* changes nothing.                                                         *)
Finish(o) ==
    /\ run[o] = "finishing"
    /\ row' = IF row[o].state \in {"running", "waiting"}
              THEN [row EXCEPT ![o].state = "ended"] ELSE row
    /\ \/ Answered /\ run' = [run EXCEPT ![o] = "closing"]
       \/ MayLose("finish") /\ UNCHANGED run
    /\ UNCHANGED <<flow, did, lanes, dispatching, engine, took, callers, ready, history, crashes>>

(* The step's and the workflow's ends stored.                               *)
Close(o) ==
    /\ run[o] = "closing"
    /\ run' = [run EXCEPT ![o] = "off"]
    /\ flow' = [flow EXCEPT ![o] = "done"]
    /\ UNCHANGED <<row, did, lanes, dispatching, engine, took, callers, others>>

-----------------------------------------------------------------------------
(* startOperationsEngine, and Hearth stopping *)

(* Faulty variant: only what had been dispatched takes its locks back.      *)
RestoreDispatched ==
    /\ phase = "closed"
    /\ line' = line \o SetToSeq({Place(o, o, "hold") : o \in {r \in With("running") : row[r].sent}})
    /\ phase' = "held"
    /\ UNCHANGED <<stored, places, turns, swept, unsure, withdrawing, dispatching,
                   workflows, callers, others>>

(* restoreLockingOperations: what a previous Hearth left running takes its  *)
(* locks back, all in one step once the rows are read.                      *)
RestoreRunning ==
    /\ phase = "closed"
    /\ line' = line \o SetToSeq({Place(o, o, "hold") : o \in With("running")})
    /\ phase' = "held"
    /\ UNCHANGED <<stored, places, turns, swept, unsure, withdrawing, dispatching,
                   workflows, callers, others>>

(* waitingOperations, oldest first; its failure starts the restore again.   *)
RestoreWaiting ==
    /\ phase = "held"
    /\ \/ /\ Answered
          /\ swept' = With("waiting")
          /\ phase' = "readmitting"
       \/ /\ MayFail("restore")
          /\ phase' = "closed"
          /\ UNCHANGED swept
    /\ UNCHANGED <<stored, line, places, turns, unsure, withdrawing, dispatching,
                   workflows, callers, ready, history, crashes>>

Open ==
    /\ phase = "readmitting" /\ swept = {}
    /\ phase' = "open"
    /\ UNCHANGED <<stored, line, places, turns, swept, unsure, withdrawing,
                   dispatching, workflows, callers, others>>

(* Every minute: those waiting without a place take one.                    *)
SweepWaiting ==
    /\ phase = "open" /\ swept = {}
    /\ swept' = With("waiting")
    /\ UNCHANGED <<stored, phase, line, places, turns, unsure, withdrawing,
                   dispatching, workflows, callers, others>>

(* Faulty variant: the sweep builds the engine and dispatches nothing.      *)
SweepNothing ==
    /\ phase = "open"
    /\ engine' = TRUE
    /\ UNCHANGED <<stored, lanes, dispatching, run, took, callers, others>>

(* Every minute: the engine is built, and those running whose workflow      *)
(* isn't known to have started are dispatched.                              *)
SweepUndispatched ==
    /\ phase = "open"
    /\ engine' = TRUE
    /\ asked' = asked \union {o \in With("running") : ~row[o].sent}
    /\ UNCHANGED <<stored, lanes, loaded, executed, run, took, callers, others>>

BecomeReady ==
    /\ ~ready
    /\ ready' = TRUE
    /\ UNCHANGED <<stored, lanes, dispatching, workflows, callers, history, faults,
                   crashes>>

(* Hearth stops: the lanes, its fibers and its calls go with it, and the    *)
(* next one starts with its lanes closed.                                   *)
Crash ==
    /\ crashes < MaxCrashes
    /\ crashes' = crashes + 1
    /\ phase' = "closed" /\ line' = <<>> /\ swept' = {}
    /\ places' = {} /\ turns' = {} /\ unsure' = {} /\ withdrawing' = {}
    /\ asked' = {} /\ loaded' = {} /\ executed' = {}
    /\ engine' = FALSE
    /\ run' = [o \in Ops |-> "off"] /\ took' = [o \in Ops |-> {}]
    /\ ask' = [a \in Asks |-> IF ask[a] \in {"inserting", "joining"} THEN "failed" ELSE ask[a]]
    /\ start' = [s \in Starters |-> IF start[s] \in {"opening", "lined"} THEN "refused" ELSE start[s]]
    /\ missed' = {}
    /\ unheard' = {o \in unheard : With("running") # {o}}
    /\ UNCHANGED <<stored, home, ready, faults>>

-----------------------------------------------------------------------------

Init ==
    /\ row = [o \in Ops |-> NoRow]
    /\ flow = [o \in Ops |-> "none"] /\ did = [o \in Ops |-> {}]
    /\ phase = "closed" /\ line = <<>> /\ swept = {}
    /\ places = {} /\ turns = {} /\ unsure = {} /\ withdrawing = {}
    /\ asked = {} /\ loaded = {} /\ executed = {}
    /\ engine = FALSE
    /\ run = [o \in Ops |-> "off"] /\ took = [o \in Ops |-> {}]
    /\ ask = [a \in Asks |-> "idle"] /\ home = [a \in Asks |-> none]
    /\ start = [s \in Starters |-> "idle"]
    /\ ready \in BOOLEAN
    /\ unheard = {} /\ missed = {}
    /\ faults = 0 /\ crashes = 0

QueueSteps(a) ==
    InsertWaiting(a) \/ InsertIgnored(a) \/ Join(a) \/ JoinNone(a) \/ AskFails(a)

TurnSteps(o) == TakeTurn(o) \/ Recheck(o) \/ CancelPlace(o)

HolderSteps ==
    \/ \E o \in Queued : CheckReady(o) \/ StartWaiting(o)
    \/ \E o \in Ops : EndHold(o)

StartSteps(s) == Admit(s) \/ GiveUp(s) \/ Record(s) \/ RecordFails(s)

WorkflowSteps(o) == Begin(o) \/ Act(o) \/ Finish(o) \/ Close(o)

Startup == RestoreRunning \/ RestoreWaiting \/ Open

Next ==
    \/ \E a \in Asks : Ask(a) \/ QueueSteps(a)
    \/ \E o \in Queued : TurnSteps(o) \/ CancelRow(o)
    \/ HolderSteps
    \/ \E s \in Starters : Find(s) \/ StartSteps(s)
    \/ \E o \in Ops : DispatchLoads(o) \/ DispatchExecutes(o) \/ RecordExecution(o)
    \/ \E o \in Ops : WorkflowSteps(o)
    \/ Startup \/ (\E o \in Queued : SweepTakes(o)) \/ SweepWaiting \/ SweepUndispatched
    \/ BecomeReady \/ Crash

Spec == Init /\ [][Next]_vars

(* Hearth's fibers are run and its sweeps repeat; what a queued operation   *)
(* needs is there in the end.  Nothing makes anyone ask, cancel or start    *)
(* anything, or Hearth stop.                                                *)
Fairness ==
    /\ \A a \in Asks : WF_vars(QueueSteps(a))
    /\ \A o \in Queued : WF_vars(Recheck(o))
    /\ WF_vars(HolderSteps)
    /\ \A s \in Starters : WF_vars(StartSteps(s))
    /\ \A o \in Ops :
        /\ WF_vars(DispatchLoads(o)) /\ WF_vars(DispatchExecutes(o))
        /\ WF_vars(WorkflowSteps(o))
    /\ WF_vars(Startup) /\ WF_vars(\E o \in Queued : SweepTakes(o)) /\ WF_vars(SweepWaiting)
    /\ WF_vars(SweepUndispatched) /\ WF_vars(BecomeReady)

FairSpec == Spec /\ Fairness

-----------------------------------------------------------------------------
(* Properties *)

(* The state is what the code's maps, rows and workflows can hold: only     *)
(* what was queued has a turn to wait for, or is read or withdrawn by it.   *)
DurableTypeOK ==
    /\ row \in [Ops -> Rows]
    /\ flow \in [Ops -> {"none", "started", "acted", "done"}]
    /\ did \in [Ops -> SUBSET Asks]
    /\ phase \in {"closed", "held", "readmitting", "open"}
    /\ line \in Seq(LinePlaces)
    /\ {places, turns, swept, unsure, withdrawing} \subseteq SUBSET Queued
    /\ {asked, loaded, executed} \subseteq SUBSET Ops
    /\ engine \in BOOLEAN
    /\ run \in [Ops -> {"off", "acting", "finishing", "closing"}]
    /\ took \in [Ops -> SUBSET Asks]
    /\ ask \in [Asks -> {"idle", "inserting", "joining", "answered", "failed"}]
    /\ home \in [Asks -> Queued \union {none}]
    /\ start \in [Starters -> {"idle", "opening", "lined", "answered", "refused"}]
    /\ ready \in BOOLEAN
    /\ unheard \subseteq Ops /\ missed \subseteq Queued
    /\ faults \in 0..MaxFaults /\ crashes \in 0..MaxCrashes

(* Its locks are held until the workflow ends, across restarts: no two ever *)
(* change the resource at once, and one at work is the one the lanes are    *)
(* granted to, whatever restarts, sweeps and late dispatches did.  Excused  *)
(* is only an operation whose start was recorded and the answer lost, which *)
(* gives its lanes up: until a restart takes them back for it, which may    *)
(* set it in line ahead of another that runs.                               *)
ActsAlone ==
    \A o \in Ops \ unheard : run[o] = "acting" =>
        /\ line # <<>> /\ Head(line).op \in {o} \union unheard
        /\ \A p \in Ops \ unheard : run[p] = "acting" => p = o

(* docs/hearth-operations.md: its locks are held until the workflow ends.   *)
(* Once the lanes are open a running operation is the one they are granted  *)
(* to.                                                                      *)
LocksHeldToTheEnd ==
    phase = "open" => \A o \in With("running") : line # <<>> /\ Head(line).op = o

(* What was asked is never dropped: an ask answered with an operation that  *)
(* has ended was part of the work that operation did, even when it joined   *)
(* as the operation was starting.                                           *)
AskIsRun == \A a \in Asks : ask[a] = "answered" /\ row[home[a]].state = "ended" => a \in did[home[a]]

(* A cancelled operation never starts, and leaves its place in line at      *)
(* once: one still in line is granted (and gives its turn up), or a cancel  *)
(* or a re-read that will withdraw it is under way, or this Hearth had no   *)
(* answer to the cancel, or to the re-read that would have seen it.         *)
CancelledLeaves ==
    \A o \in With("cancelled") :
        /\ flow[o] = "none"
        /\ \A i \in 2..Len(line) : line[i].who = o =>
               o \in withdrawing \union unsure \union missed

(* Every operation recorded ends: a queued one is set taking its turn and   *)
(* its workflow is started and resumed, through restarts and failed         *)
(* statements, until its row ends or is cancelled.                          *)
EveryOperationEnds ==
    \A o \in Ops : row[o].state \in {"waiting", "running"} ~> row[o].state \in {"ended", "cancelled"}

=============================================================================
