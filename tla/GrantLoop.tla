------------------------------ MODULE GrantLoop ------------------------------
(***************************************************************************)
(* The grant pass as the code runs it: #grant's loop over the nested queue *)
(* and selectGrants' loop over the line, each carrying the tables it takes *)
(* locks in.  OperationLanes says which operations a pass frees; this      *)
(* module says that the loops free the same ones, and leave the same lock  *)
(* table, in every state the lanes reach.                                  *)
(***************************************************************************)
EXTENDS OperationLanes, SequencesExt

\* What the loops carry: #held, the keys already spoken for, and what became
\* of those whose locks were free.  `stopped' once an operation in line
\* whose locks are not known has ended the loop.
LoopStart(hd) ==
    [held |-> hd, blocked |-> EmptyTable, granted |-> {}, dropped |-> {},
     stopped |-> FALSE]

InQueueOrder(queue) == SetToSortSeq(queue, LAMBDA p, o : Before(p, o))

Block(run, w) ==
    [run EXCEPT !.blocked = TakeAll(@, {w} \cap known', locks')]

\* An operation whose locks are free is turned away, or takes them.
Settle(run, w) ==
    IF Verdict(w) = "start"
      THEN [run EXCEPT !.held = TakeAll(@, {w}, locks'),
                       !.granted = @ \cup {w}]
      ELSE [run EXCEPT !.dropped = @ \cup {w}]

\* Faulty variant: what a nested operation waits for holds nothing back.
NestedTurnUnblocked(run, w) ==
    IF w \notin known' \/ TableConflicts(run.held, locks'[w])
      THEN run
      ELSE Settle(run, w)

\* A turn of #grant's loop over #nested.
NestedTurn(run, w) ==
    IF w \notin known' \/ TableConflicts(run.held, locks'[w])
      THEN Block(run, w)
      ELSE Settle(run, w)

\* A turn of selectGrants' loop over #waiting.
LineTurn(run, w) ==
    IF run.stopped \/ w \notin known'
      THEN [run EXCEPT !.stopped = TRUE]
      ELSE IF \/ TableConflicts(run.held, locks'[w])
              \/ TableConflicts(run.blocked, locks'[w])
             THEN Block(run, w)
             ELSE Settle(run, w)

LoopPass(st, hd) ==
    FoldLeft(LineTurn,
             FoldLeft(NestedTurn, LoopStart(hd), InQueueOrder(NestedQueue(st))),
             InQueueOrder(LineQueue(st)))

StateAfterLoop(st, run) ==
    [o \in Ops |-> CASE o \in run.granted -> "granted"
                     [] o \in run.dropped -> "done"
                     [] OTHER             -> st[o]]

\* This step's pass, from `st' and `hd', is the one the loops run.
PassIsLoop(st, hd, arriving) ==
    LET run == LoopPass(st, hd)
        after == StateAfterLoop(st, run)
    IN  /\ held' = run.held
        /\ state' = [o \in Ops |->
                        IF o \in arriving /\ BusyRefuses(o, after)
                          THEN "done" ELSE after[o]]

-----------------------------------------------------------------------------
\* Whenever an operation is admitted, learns its locks or gives them up, what
\* the pass starts and turns away is what the code's two loops over the
\* queues do, and the table ends as they leave it.
LoopsAgree ==
    [][\A o \in Ops :
          /\ arrival'[o] # arrival[o] =>
                PassIsLoop([state EXCEPT ![o] = "waiting"], held, {o})
          /\ o \in known' \ known /\ arrival' = arrival =>
                PassIsLoop(state, held, {})
          /\ o \in Active(state) /\ state'[o] = "done" =>
                PassIsLoop([state EXCEPT ![o] = "done"],
                           Release(held, locks[o]), {})]_vars

\* There is always a pass to run: an operation that may finish, or be
\* withdrawn, always can, whatever waits behind it.
HandlersComplete ==
    \A o \in Ops :
        /\ /\ withdrawing = {}
           /\ state[o] = "running"
           /\ \A c \in Live(state) : parent[c] # o
           => ENABLED Finish(o)
        /\ withdrawing = {} /\ state[o] = "waiting" => ENABLED CancelWaiting(o)
        /\ o \in withdrawing => ENABLED WithdrawGranted(o)
=============================================================================
