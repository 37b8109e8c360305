--------------------------- MODULE OperationLanes ---------------------------
(***************************************************************************)
(* The in-memory operation lanes (packages/operations/src/lanes.ts), the   *)
(* scheduler Hearth and every Relay admit their changes through.           *)
(*                                                                         *)
(* Every method of the class runs to its end on the one JavaScript thread, *)
(* so each is one action.  The exception is setPaused(true), whose loop    *)
(* over the granted operations runs a grant pass per turn: it is one step  *)
(* per turn, and nothing else may step while `withdrawing' is not empty.   *)
(*                                                                         *)
(* The two queues (#waiting, #nested) are the waiting operations in the    *)
(* order of their admission numbers, and #active is the set of those       *)
(* granted or running.                                                     *)
(***************************************************************************)
EXTENDS LaneLocks

CONSTANTS
    Ops,         \* the operations, each admitted at most once
    NoOp,        \* stands for no operation
    Requests,    \* what callers admit: a set of Request records
    WholeOf,     \* the whole resource each key is, or is a part of
    NestedKeys,  \* the keys taken from inside a running operation
    MaxWaiting   \* options.maxWaiting

Request ==
    [queue       : {"line", "nested", "continuation"},
     locks       : Plans,
     lookup      : BOOLEAN,        \* the locks are a promise of them
     whenBusy    : {"wait", "refuse", "person"},
     carriesOn   : BOOLEAN,        \* carriesOnWhilePaused
     conditional : BOOLEAN,        \* has a precondition
     exempt      : BOOLEAN,        \* the `refuse' hook always lets it run
     fences      : BOOLEAN]        \* the `refuse' hook turns others away
                                   \* from what it holds, once it says so

NoRequest ==
    [queue |-> "line", locks |-> NoLocks, lookup |-> FALSE,
     whenBusy |-> "wait", carriesOn |-> FALSE, conditional |-> FALSE,
     exempt |-> FALSE, fences |-> FALSE]

Names(plan) == {k \in Keys : plan[k] # "none"}

ASSUME OpsAssumption ==
    /\ IsFiniteSet(Ops)
    /\ NoOp \notin Ops

ASSUME KeysAssumption ==
    /\ WholeOf \in [Keys -> Keys]
    /\ NestedKeys \subseteq Keys
    /\ MaxWaiting \in Nat

\* How callers use the lanes: runNested takes no precondition; a nested plan
\* names only the keys set apart for it (lanes.ts:205); an operation refused
\* when busy knows its locks up front (lanes.ts:57).
ASSUME RequestsAssumption ==
    /\ Requests \subseteq Request
    /\ \A r \in Requests :
          /\ r.queue = "nested" => ~r.conditional
          /\ r.queue # "line" => Names(r.locks) \subseteq NestedKeys
          /\ r.lookup => r.whenBusy = "wait"

VARIABLES
    state,        \* Waiter.state; "idle" before it is admitted
    req,          \* what each operation was admitted with
    known,        \* those whose locks are not null
    locks,        \* Waiter.locks, NoLocks while they are null
    arrival,      \* the place in line
    admitted,     \* how many places were given out
    parent,       \* the running operation that waits for a nested one
    held,         \* #held
    paused,       \* #paused
    withdrawing,  \* those setPaused(true) has yet to release
    stale,        \* those whose precondition no longer holds
    fencedBy,     \* what the `refuse' hook keeps: who fenced a resource
    starts,       \* #exclusiveStarts
    outcome       \* how an operation ended

vars == <<state, req, known, locks, arrival, admitted, parent, held, paused,
          withdrawing, stale, fencedBy, starts, outcome>>

States == {"idle", "waiting", "granted", "running", "done"}

Outcomes == {"none", "finished", "cancelled", "paused", "refused",
             "superseded", "busy", "died"}

TypeOK ==
    /\ state \in [Ops -> States]
    /\ req \in [Ops -> Requests \cup {NoRequest}]
    /\ known \in SUBSET Ops
    /\ locks \in [Ops -> Plans]
    /\ arrival \in [Ops -> Nat]
    /\ admitted \in Nat
    /\ parent \in [Ops -> Ops \cup {NoOp}]
    /\ held \in [Keys -> Entry]
    /\ paused \in BOOLEAN
    /\ withdrawing \in SUBSET Ops
    /\ stale \in SUBSET Ops
    /\ fencedBy \in [Keys -> Ops \cup {NoOp}]
    /\ starts \in [Keys -> Nat]
    /\ outcome \in [Ops -> Outcomes]

Init ==
    /\ state = [o \in Ops |-> "idle"]
    /\ req = [o \in Ops |-> NoRequest]
    /\ known = {}
    /\ locks = [o \in Ops |-> NoLocks]
    /\ arrival = [o \in Ops |-> 0]
    /\ admitted = 0
    /\ parent = [o \in Ops |-> NoOp]
    /\ held = EmptyTable
    /\ paused = FALSE
    /\ withdrawing = {}
    /\ stale = {}
    /\ fencedBy = [k \in Keys |-> NoOp]
    /\ starts = [k \in Keys |-> 0]
    /\ outcome = [o \in Ops |-> "none"]

Live(st) == {o \in Ops : st[o] \in {"waiting", "granted", "running"}}

Active(st) == {o \in Ops : st[o] \in {"granted", "running"}}

\* Work that arrived on its own, which a pause, the limit and the `refuse'
\* hook apply to; nested work belongs to an operation already granted.
OnItsOwn(r) == r.queue # "nested"

(***************************************************************************)
(* The grant pass (#grant and selectGrants).  It runs last in a handler,   *)
(* so it reads the queues as the handler left them: `st' and `hd' are the  *)
(* states and the lock table before the pass, the other variables have     *)
(* their new values.                                                       *)
(***************************************************************************)
NestedQueue(st) == {o \in Ops : st[o] = "waiting" /\ req'[o].queue # "line"}

LineQueue(st) == {o \in Ops : st[o] = "waiting" /\ req'[o].queue = "line"}

Before(p, o) == arrival'[p] < arrival'[o]

\* Faulty variant: fences are only looked at when the operation is admitted.
VerdictIgnoringFences(o) == IF o \in stale THEN "superseded" ELSE "start"

\* What becomes of an operation whose locks are free: `refuse', for what
\* arrived on its own, then the precondition, may still turn it away.
Verdict(o) ==
    IF /\ OnItsOwn(req'[o])
       /\ ~req'[o].exempt
       /\ \E k \in Names(locks'[o]) : fencedBy[WholeOf[k]] # NoOp
      THEN "refused"
      ELSE IF o \in stale THEN "superseded" ELSE "start"

Starts(ops) == {o \in ops : Verdict(o) = "start"}

\* The nested operations whose locks are free when the pass reaches them:
\* they wait for holders only, those the pass has just started included.
NestedFree(st, hd, free) ==
    \A n \in NestedQueue(st) :
        n \in free <=>
            /\ n \in known'
            /\ ~TableConflicts(hd, locks'[n])
            /\ \A m \in Starts(free) :
                  Before(m, n) => ~PlansConflict(locks'[m], locks'[n])

\* Faulty variant: an operation waits for holders and for nested work, and
\* may overtake those ahead of it in line.
LineFreeOvertaking(st, hd, nested, free) ==
    \A f \in LineQueue(st) :
        f \in free <=>
            /\ f \in known'
            /\ ~TableConflicts(hd, locks'[f])
            /\ \A p \in (NestedQueue(st) \cup Starts(free)) \ {f} :
                  \/ p \in nested \ Starts(nested)
                  \/ Before(f, p)
                  \/ ~PlansConflict(locks'[p], locks'[f])

\* The operations in line whose locks are free: nothing holds them, and
\* nothing nested or ahead in line that still waits wants them.  One whose
\* locks are not known yet holds back itself and everything behind it.
LineFree(st, hd, nested, free) ==
    \A f \in LineQueue(st) :
        LET Ahead == {p \in LineQueue(st) : Before(p, f)}
        IN  f \in free <=>
                /\ Ahead \cup {f} \subseteq known'
                /\ ~TableConflicts(hd, locks'[f])
                /\ \A p \in NestedQueue(st) \cup Ahead :
                      \/ p \in (nested \cup free) \ Starts(nested \cup free)
                      \/ ~PlansConflict(locks'[p], locks'[f])

\* The states once those with free locks have started or been turned away.
AfterPass(st, free) ==
    [o \in Ops |-> IF o \notin free THEN st[o]
                   ELSE IF Verdict(o) = "start" THEN "granted" ELSE "done"]

\* #inTheWay and explainWait: the operations that hold a key `o' wants in
\* a conflicting mode, or wait for one ahead of it in its own queue.
Occupies(p, o, st) ==
    \/ p \in Active(st)
    \/ /\ st[p] = "waiting"
       /\ Before(p, o)
       /\ (req'[p].queue = "line") = (req'[o].queue = "line")

InTheWay(o, st) ==
    {pk \in Ops \X Keys :
        /\ Occupies(pk[1], o, st)
        /\ ConflictAt(locks'[pk[1]], locks'[o], pk[2])}

\* Faulty variant: refused without first seeing whether it was granted.
BusyRefusesUnasked(o, st) == req'[o].whenBusy = "refuse"

\* Whether an operation that did not start as it was admitted is refused.  A
\* person is refused by work on a whole, and waits behind work on a part.
BusyRefuses(o, st) ==
    /\ st[o] = "waiting"
    /\ \/ req'[o].whenBusy = "refuse"
       \/ /\ req'[o].whenBusy = "person"
          /\ \E pk \in InTheWay(o, st) : WholeOf[pk[2]] = pk[2]

\* One pass; then those of `arriving' that still wait may be refused as busy,
\* which runs no pass of its own.
Grant(st, hd, oc, arriving) ==
    \E nested \in SUBSET NestedQueue(st), line \in SUBSET LineQueue(st) :
        LET free == nested \cup line
            after == AfterPass(st, free)
            busy == {o \in arriving : BusyRefuses(o, after)}
        IN  /\ NestedFree(st, hd, nested)
            /\ LineFree(st, hd, nested, line)
            /\ state' = [o \in Ops |-> IF o \in busy THEN "done" ELSE after[o]]
            /\ held' = TakeAll(hd, Starts(free), locks')
            /\ outcome' = [o \in Ops |->
                              IF o \in busy THEN "busy"
                              ELSE IF o \in free \ Starts(free) THEN Verdict(o)
                              ELSE oc[o]]

-----------------------------------------------------------------------------
(***************************************************************************)
(* The operations of the class.                                            *)
(***************************************************************************)
WaitingOnTheirOwn == {o \in Ops : state[o] = "waiting" /\ OnItsOwn(req[o])}

\* Faulty variant: an operation nests a key it may hold already.
MayNestAnywhere(p) == state[p] = "running"

\* A nested operation is admitted from inside a running one, and never from
\* one that itself holds a key set apart for nesting (index.ts:4855).
MayNest(p) ==
    /\ state[p] = "running"
    /\ Names(locks[p]) \cap NestedKeys = {}

\* Faulty variant: only the limit is looked at.
AdmissionRefusedWhenFull(r) ==
    OnItsOwn(r) /\ Cardinality(WaitingOnTheirOwn) >= MaxWaiting

\* #admit refuses it: the lanes are paused, or too many wait already.
AdmissionRefused(r) ==
    /\ OnItsOwn(r)
    /\ \/ paused /\ ~r.carriesOn
       \/ Cardinality(WaitingOnTheirOwn) >= MaxWaiting

RefusedAs(r) == IF paused /\ ~r.carriesOn THEN "paused" ELSE "busy"

\* #admit
Admit(o, r, p) ==
    /\ withdrawing = {}
    /\ state[o] = "idle"
    /\ IF r.queue = "nested" THEN p \in Ops /\ MayNest(p) ELSE p = NoOp
    /\ req' = [req EXCEPT ![o] = r]
    /\ \/ /\ AdmissionRefused(r)
          /\ state' = [state EXCEPT ![o] = "done"]
          /\ outcome' = [outcome EXCEPT ![o] = RefusedAs(r)]
          /\ UNCHANGED <<known, locks, arrival, admitted, parent, held>>
       \/ /\ ~AdmissionRefused(r)
          /\ arrival' = [arrival EXCEPT ![o] = admitted + 1]
          /\ admitted' = admitted + 1
          /\ parent' = [parent EXCEPT ![o] = p]
          /\ known' = IF r.lookup THEN known ELSE known \cup {o}
          /\ locks' = IF r.lookup THEN locks
                                  ELSE [locks EXCEPT ![o] = r.locks]
          /\ Grant([state EXCEPT ![o] = "waiting"], held, outcome, {o})
    /\ UNCHANGED <<paused, withdrawing, stale, fencedBy, starts>>

\* onSuccess of the lookup of an operation's locks.
LookupSettles(o) ==
    /\ withdrawing = {}
    /\ state[o] = "waiting"
    /\ o \notin known
    /\ known' = known \cup {o}
    /\ locks' = [locks EXCEPT ![o] = req[o].locks]
    /\ UNCHANGED <<req, arrival, admitted, parent, paused, withdrawing, stale,
                   fencedBy, starts>>
    /\ Grant(state, held, outcome, {})

\* onFailure of the lookup: the operation dies.
LookupFails(o) ==
    /\ withdrawing = {}
    /\ state[o] = "waiting"
    /\ o \notin known
    /\ UNCHANGED <<req, known, locks, arrival, admitted, parent, paused,
                   withdrawing, stale, fencedBy, starts>>
    /\ Grant([state EXCEPT ![o] = "done"], held,
             [outcome EXCEPT ![o] = "died"], {})

\* Faulty variant: every key it holds is counted, shared ones too.
StartCountingShared(o) ==
    /\ withdrawing = {}
    /\ state[o] = "granted"
    /\ state' = [state EXCEPT ![o] = "running"]
    /\ starts' = [k \in Keys |-> IF k \in Names(locks[o])
                                   THEN starts[k] + 1 ELSE starts[k]]
    /\ UNCHANGED <<req, known, locks, arrival, admitted, parent, held, paused,
                   withdrawing, stale, fencedBy, outcome>>

\* #run, once its grant has come: it runs, counted for each key it holds
\* exclusively.
Start(o) ==
    /\ withdrawing = {}
    /\ state[o] = "granted"
    /\ state' = [state EXCEPT ![o] = "running"]
    /\ starts' = [k \in Keys |-> IF locks[o][k] = "exclusive"
                                   THEN starts[k] + 1 ELSE starts[k]]
    /\ UNCHANGED <<req, known, locks, arrival, admitted, parent, held, paused,
                   withdrawing, stale, fencedBy, outcome>>

\* #release, which ends an operation that holds its locks.
ReleaseAs(o, as) ==
    /\ UNCHANGED <<req, known, locks, arrival, admitted, parent, paused,
                   stale, fencedBy, starts>>
    /\ Grant([state EXCEPT ![o] = "done"], Release(held, locks[o]),
             [outcome EXCEPT ![o] = as], {})

\* The work ends, once the nested work it waits for has.
Finish(o) ==
    /\ withdrawing = {}
    /\ state[o] = "running"
    /\ \A c \in Live(state) : parent[c] # o
    /\ ReleaseAs(o, "finished")
    /\ UNCHANGED withdrawing

\* The caller of a nested operation that runs stops waiting for it: it runs
\* on, and keeps its locks.
Abandon(o) ==
    /\ withdrawing = {}
    /\ state[o] = "running"
    /\ parent[o] # NoOp
    /\ parent' = [parent EXCEPT ![o] = NoOp]
    /\ UNCHANGED <<state, req, known, locks, arrival, admitted, held, paused,
                   withdrawing, stale, fencedBy, starts, outcome>>

\* Faulty variant: what the withdrawn operation held back is not woken.
CancelWaitingQuietly(o) ==
    /\ withdrawing = {}
    /\ state[o] = "waiting"
    /\ state' = [state EXCEPT ![o] = "done"]
    /\ outcome' = [outcome EXCEPT ![o] = "cancelled"]
    /\ UNCHANGED <<req, known, locks, arrival, admitted, parent, held, paused,
                   withdrawing, stale, fencedBy, starts>>

\* #cancel of an operation that waits.
CancelWaiting(o) ==
    /\ withdrawing = {}
    /\ state[o] = "waiting"
    /\ UNCHANGED <<req, known, locks, arrival, admitted, parent, paused,
                   withdrawing, stale, fencedBy, starts>>
    /\ Grant([state EXCEPT ![o] = "done"], held,
             [outcome EXCEPT ![o] = "cancelled"], {})

\* #cancel of an operation granted and not yet started.
CancelGranted(o) ==
    /\ withdrawing = {}
    /\ state[o] = "granted"
    /\ ReleaseAs(o, "cancelled")
    /\ UNCHANGED withdrawing

\* What a pause withdraws of those in one state.
Withdrawn(s) ==
    {o \in Ops : state[o] = s /\ OnItsOwn(req[o]) /\ ~req[o].carriesOn}

\* setPaused(true), up to its first release: what waits is withdrawn.
Pause ==
    /\ withdrawing = {}
    /\ ~paused
    /\ paused' = TRUE
    /\ withdrawing' = Withdrawn("granted")
    /\ UNCHANGED <<req, known, locks, arrival, admitted, parent, stale,
                   fencedBy, starts>>
    /\ LET ended == Withdrawn("waiting")
           st == [o \in Ops |-> IF o \in ended THEN "done" ELSE state[o]]
           oc == [o \in Ops |-> IF o \in ended THEN "paused" ELSE outcome[o]]
       IN  IF Withdrawn("granted") = {}
             THEN Grant(st, held, oc, {})
             ELSE state' = st /\ outcome' = oc /\ held' = held

\* A turn of setPaused's loop: what was granted and has not started is
\* released.
WithdrawGranted(o) ==
    /\ o \in withdrawing
    /\ withdrawing' = withdrawing \ {o}
    /\ ReleaseAs(o, "paused")

\* setPaused(false)
Resume ==
    /\ withdrawing = {}
    /\ paused
    /\ paused' = FALSE
    /\ UNCHANGED <<state, req, known, locks, arrival, admitted, parent, held,
                   withdrawing, stale, fencedBy, starts, outcome>>

-----------------------------------------------------------------------------
(***************************************************************************)
(* What the lanes ask of their home as they grant: the `refuse' hook,      *)
(* which reads the freezes and restore fences of a Relay, and an           *)
(* operation's own precondition.                                           *)
(***************************************************************************)
\* An operation holding a resource whole puts up a fence.
Fence(o, k) ==
    /\ withdrawing = {}
    /\ state[o] = "running"
    /\ req[o].fences
    /\ WholeOf[k] = k
    /\ locks[o][k] = "exclusive"
    /\ fencedBy[k] = NoOp
    /\ fencedBy' = [fencedBy EXCEPT ![k] = o]
    /\ UNCHANGED <<state, req, known, locks, arrival, admitted, parent, held,
                   paused, withdrawing, stale, starts, outcome>>

\* One that a fence lets through, or that put it up, takes it down.
Unfence(o, k) ==
    /\ withdrawing = {}
    /\ state[o] = "running"
    /\ req[o].exempt \/ fencedBy[k] = o
    /\ locks[o][k] = "exclusive"
    /\ fencedBy[k] # NoOp
    /\ fencedBy' = [fencedBy EXCEPT ![k] = NoOp]
    /\ UNCHANGED <<state, req, known, locks, arrival, admitted, parent, held,
                   paused, withdrawing, stale, starts, outcome>>

\* What an operation's precondition reads changes under it.
GoStale(o) ==
    /\ withdrawing = {}
    /\ state[o] = "waiting"
    /\ req[o].conditional
    /\ o \notin stale
    /\ stale' = stale \cup {o}
    /\ UNCHANGED <<state, req, known, locks, arrival, admitted, parent, held,
                   paused, withdrawing, fencedBy, starts, outcome>>

LookupEnds(o) == LookupSettles(o) \/ LookupFails(o)

Next ==
    \/ \E o \in Ops, r \in Requests, p \in Ops \cup {NoOp} : Admit(o, r, p)
    \/ \E o \in Ops : LookupEnds(o)
    \/ \E o \in Ops : Start(o)
    \/ \E o \in Ops : Finish(o)
    \/ \E o \in Ops : Abandon(o)
    \/ \E o \in Ops : CancelWaiting(o)
    \/ \E o \in Ops : CancelGranted(o)
    \/ Pause
    \/ \E o \in Ops : WithdrawGranted(o)
    \/ Resume
    \/ \E o \in Ops, k \in Keys : Fence(o, k)
    \/ \E o \in Ops, k \in Keys : Unfence(o, k)
    \/ \E o \in Ops : GoStale(o)

Spec == Init /\ [][Next]_vars

(***************************************************************************)
(* A granted operation's fiber is scheduled, a lookup settles one way or   *)
(* the other, work ends once nothing it waits for is left, and a handler   *)
(* runs to its end.  Nothing is assumed of callers: nobody need cancel,    *)
(* resume, abandon or lift a fence.                                        *)
(***************************************************************************)
Fairness ==
    \A o \in Ops :
        /\ WF_vars(Start(o))
        /\ WF_vars(Finish(o))
        /\ WF_vars(LookupEnds(o))
        /\ WF_vars(WithdrawGranted(o))

FairSpec == Spec /\ Fairness
-----------------------------------------------------------------------------
(***************************************************************************)
(* Properties.                                                             *)
(***************************************************************************)
\* The lock table always says exactly what the granted and running operations
\* hold: no path that ends one (release, cancel, pause) leaks or drops a lock.
HeldMatchesActive == held = TakeAll(EmptyTable, Active(state), locks)

\* No two operations that hold their locks conflict, however they were let in.
Exclusion ==
    \A o, p \in Active(state) :
        o # p => ~PlansConflict(locks[o], locks[p])

\* In line, no operation holds its locks while one admitted before it waits
\* for conflicting ones, or waits to learn its own.
AdmissionOrder ==
    \A o \in Active(state), p \in Ops :
        /\ req[o].queue = "line"
        /\ req[p].queue = "line"
        /\ state[p] = "waiting"
        /\ arrival[p] < arrival[o]
        => p \in known /\ ~PlansConflict(locks[p], locks[o])

\* Places in line are given out in order, and no two that wait share one.
PlacesInOrder ==
    /\ \A o \in Ops : arrival[o] <= admitted
    /\ \A o, p \in Ops :
          o # p /\ state[o] = "waiting" /\ state[p] = "waiting"
              => arrival[o] # arrival[p]

\* What an operation in line waits behind: holders, nested work that waits,
\* and what is ahead of it in line.
Behind(o) ==
    {p \in Ops \ {o} :
        \/ p \in Active(state)
        \/ state[p] = "waiting" /\ req[p].queue # "line"
        \/ state[p] = "waiting" /\ arrival[p] < arrival[o]}

HasReasonToWait(o) ==
    \/ o \notin known
    \/ \E p \in IF req[o].queue = "line" THEN Behind(o) ELSE Active(state) :
          PlansConflict(locks[p], locks[o])
    \/ /\ req[o].queue = "line"
       /\ \E p \in Behind(o) : req[p].queue = "line" /\ p \notin known

\* Between handlers nothing waits that could run: every release, refusal,
\* withdrawal and lookup is followed by the pass that wakes what it freed.
NoLostWakeup ==
    withdrawing = {} =>
        \A o \in Ops : state[o] = "waiting" => HasReasonToWait(o)

\* Once setPaused(true) has returned, and until it is resumed, nothing that
\* arrived on its own waits or is about to start, but upkeep that carries on.
PausedQuiet ==
    paused /\ withdrawing = {} =>
        \A o \in Ops :
            state[o] \in {"waiting", "granted"} /\ OnItsOwn(req[o])
                => req[o].carriesOn

\* While a resource is fenced, nothing that arrived on its own holds it but
\* the operation that put up the fence and those a fence lets through.
FenceHolds ==
    \A k \in Keys, o \in Active(state) :
        /\ fencedBy[k] # NoOp
        /\ locks[o][k] # "none"
        /\ OnItsOwn(req[o])
        => req[o].exempt \/ fencedBy[k] = o

\* The inductive strengthening of the safety properties: fences stand on whole
\* resources only, and while paused, what a pause withdraws neither waits nor
\* is granted, but for those setPaused(true) is about to release.
FencesOnWholes == \A k \in Keys : fencedBy[k] # NoOp => WholeOf[k] = k

PauseWithdraws ==
    /\ \A o \in withdrawing : state[o] = "granted"
    /\ paused =>
          \A o \in Ops :
              OnItsOwn(req[o]) /\ ~req[o].carriesOn =>
                  /\ state[o] # "waiting"
                  /\ state[o] = "granted" => o \in withdrawing

LanesInv ==
    /\ TypeOK
    /\ PlacesInOrder
    /\ HeldMatchesActive
    /\ Exclusion
    /\ AdmissionOrder
    /\ FenceHolds
    /\ FencesOnWholes
    /\ PauseWithdraws

\* exclusiveGeneration counts the operations that ran holding the key alone,
\* and none that was refused or withdrawn after its grant.
GenerationCounts ==
    \A k \in Keys :
        starts[k] = Cardinality({o \in Ops :
                        /\ locks[o][k] = "exclusive"
                        /\ state[o] = "running" \/ outcome[o] = "finished"})

\* The generation of a key never moves under an operation that shares it, as
\* a writer to an open SFTP handle does: only between its operations.
GenerationStable ==
    [][\A o \in Ops, k \in Keys :
          state[o] = "running" /\ state'[o] = "running"
          /\ locks[o][k] = "shared" => starts'[k] = starts[k]]_vars

\* What waits for nobody granted before it.
InNobodysName == {o \in Ops : state[o] = "waiting" /\ parent[o] = NoOp}

\* An operation is refused as busy as it arrives only when the line is full,
\* whatever work waits inside others, or when it was asked for only if free
\* and something really is in its way.
BusyOnlyWhenBlocked ==
    [][\A o \in Ops :
          state[o] = "idle" /\ outcome'[o] = "busy" =>
              \/ Cardinality(InNobodysName) >= MaxWaiting
              \/ (req[o].whenBusy # "wait" /\ HasReasonToWait(o))']_vars

\* A refusal of work asked for only if free names what is in its way.
RefusalNamesBlocker ==
    [][\A o \in Ops :
          /\ state[o] = "idle"
          /\ outcome'[o] = "busy"
          /\ Cardinality(WaitingOnTheirOwn) < MaxWaiting
          => InTheWay(o, state') # {}]_vars

\* Whatever waits ends, run or turned away, though nothing in line is ever
\* overtaken and nested work waits while its parent holds its own locks.
AdmittedEnds ==
    \A o \in Ops : state[o] = "waiting" ~> state[o] = "done"

PhaseOf(s) ==
    IF s = "idle" THEN "new"
    ELSE IF s = "waiting" THEN "asking"
    ELSE IF s = "done" THEN "ended" ELSE "holding"

Contract ==
    INSTANCE LaneContract WITH
        phase   <- [o \in Ops |-> PhaseOf(state[o])],
        claim   <- locks,
        settled <- known,
        place   <- arrival,
        inLine  <- {o \in Ops : req[o].queue = "line"}

\* The lanes implement the contract callers rely on: seen through the phases
\* of its operations, every step is one LaneContract allows.
ImplementsContract == Contract!ContractSpec

=============================================================================
