---------------------------- MODULE RelayJournal ----------------------------
(***************************************************************************)
(* The Relay's journal of changes: how a control request for a change is   *)
(* taken, claims its operation ID, is recorded, waits its turn in the      *)
(* lanes, runs, and is remembered in memory and in SQLite, so that a       *)
(* repeat gets the first one's answer and a lookup the truth.              *)
(*                                                                         *)
(* apps/relay/src/control-socket.ts: the message handler, the socket's     *)
(* close, executeRequestEffect, lookupOperation, journaled, recordOutcome  *)
(* and the memory of recent operations; apps/relay/src/effect/state.ts:    *)
(* the rows; apps/relay/src/index.ts: what a restart does with them.       *)
(*                                                                         *)
(* An ID is (client, operationId).  Requests of one ID are the first send  *)
(* and everything sent again under it.  The lanes, modelled in             *)
(* OperationLanes, are one line here: every request of the model conflicts *)
(* with every other.                                                       *)
(***************************************************************************)
EXTENDS Integers

CONSTANTS
    Reqs,       \* control requests for a change, by frame
    NoReq,      \* no request
    Ids,        \* operation IDs
    Digests,    \* digests of an operation and its payload
    IdOf,       \* [Reqs -> Ids]
    DigestOf,   \* [Reqs -> Digests]
    Laned,      \* the requests whose operation takes locks
    Retention,  \* days a row is kept: relayOperationRetentionMs
    Resend,     \* days a change is sent again under its ID: RESEND_WITHIN
    MaxDay,     \* bound on the clock
    MaxJournal  \* bound on how often the Relay's state is rebuilt

ASSUME JournalConstants ==
    /\ NoReq \notin Reqs
    /\ IdOf \in [Reqs -> Ids]
    /\ DigestOf \in [Reqs -> Digests]
    /\ Laned \subseteq Reqs
    /\ Retention \in Nat
    /\ Resend \in Nat
    /\ Resend < Retention
    /\ MaxDay \in Nat
    /\ MaxJournal \in Nat

VARIABLES
    stage,      \* where each request is
    caller,     \* whether its sender still wants it, and can be answered
    answer,     \* what its sender was answered
    sentOn,     \* the day it was sent
    ticket,     \* its place in the lanes
    ahead,      \* the tickets before it in line
    paused,     \* whether the Relay is paused
    claim,      \* operations.running: the request that claimed an ID
    recent,     \* operations.finished: outcomes held in memory
    writes,     \* operations.writes: outcomes on their way to the journal
    row,        \* relay_operations
    journal,    \* the journal's ID
    day,        \* the clock
    firstSent,  \* per ID, the day stored before the first send
    sentTo,     \* per ID, the journal stored with it
    ran,        \* history: how often the change under an ID was started
    ranBy,      \* history: the request it was last started for
    ended       \* history: how the change itself ended

requests == <<stage, caller, answer, sentOn>>
lanes == <<ticket, ahead, paused>>
memory == <<claim, recent, writes>>
disk == <<row, journal>>
hearth == <<firstSent, sentTo>>
history == <<ran, ranBy, ended>>
vars == <<requests, lanes, memory, disk, hearth, history, day>>

-----------------------------------------------------------------------------
(***************************************************************************)
(* Types.                                                                  *)
(***************************************************************************)

\* RecordedOutcome with status "failed", by code: the change failed; it was
\* withdrawn from its lane; the lanes were paused; they were full; or it was
\* refused as its turn came (fenced, or its client no longer allowed).
Failures == {"failed", "withdrawn", "paused", "busy", "refused"}

\* RecordedOutcome: "reply" has its payload, "noReply" no longer has it.
Outcomes == {"reply", "noReply", "interrupted"} \cup Failures

\* What a request can be answered that isn't an outcome: another change has
\* its ID, it was cancelled, its journal is gone, the Relay is paused, or it
\* was turned away before it was taken.
Refusals == {"conflict", "cancelled", "journalChanged", "pausedNow", "door"}

\* A claimed request is in one of these; a lookup finds it running.
ClaimStages == {"reading", "starting", "queued", "running"}

\* A request on its way to the journal.
TakingStages == {"sent", "arrived", "reading", "starting"}

Stages == {"new", "waiting", "done"} \cup TakingStages \cup ClaimStages

NoMemory == [outcome |-> "none", digest |-> "none"]

NoRow == [status |-> "none", digest |-> "none", day |-> 0]

Memories == [outcome : Outcomes \cup {"none"}, digest : Digests \cup {"none"}]

Rows == [status : Outcomes \cup {"none", "running"},
         digest : Digests \cup {"none"}, day : 0..MaxDay]

TypeOK ==
    /\ stage \in [Reqs -> Stages]
    /\ caller \in [Reqs -> {"there", "aborted", "gone"}]
    /\ answer \in [Reqs -> Outcomes \cup Refusals \cup {"none"}]
    /\ sentOn \in [Reqs -> 0..MaxDay]
    /\ ticket \in [Reqs -> {"none", "free", "held", "withdrawn", "paused",
                            "busy"}]
    /\ ahead \in [Reqs -> SUBSET Reqs]
    /\ paused \in BOOLEAN
    /\ claim \in [Ids -> Reqs \cup {NoReq}]
    /\ recent \in [Ids -> Memories]
    /\ writes \in [Ids -> Outcomes \cup {"none"}]
    /\ row \in [Ids -> Rows]
    /\ journal \in 0..MaxJournal
    /\ day \in 0..MaxDay
    /\ firstSent \in [Ids -> -1..MaxDay]
    /\ sentTo \in [Ids -> 0..MaxJournal]
    /\ ran \in [Ids -> Nat]
    /\ ranBy \in [Ids -> Reqs \cup {NoReq}]
    /\ ended \in [Ids -> {"none", "succeeded", "failed"}]

Init ==
    /\ stage = [r \in Reqs |-> "new"]
    /\ caller = [r \in Reqs |-> "there"]
    /\ answer = [r \in Reqs |-> "none"]
    /\ sentOn = [r \in Reqs |-> 0]
    /\ ticket = [r \in Reqs |-> "none"]
    /\ ahead = [r \in Reqs |-> {}]
    /\ paused = FALSE
    /\ claim = [i \in Ids |-> NoReq]
    /\ recent = [i \in Ids |-> NoMemory]
    /\ writes = [i \in Ids |-> "none"]
    /\ row = [i \in Ids |-> NoRow]
    /\ journal = 0
    /\ day = 0
    /\ firstSent = [i \in Ids |-> -1]
    /\ sentTo = [i \in Ids |-> 0]
    /\ ran = [i \in Ids |-> 0]
    /\ ranBy = [i \in Ids |-> NoReq]
    /\ ended = [i \in Ids |-> "none"]

-----------------------------------------------------------------------------
(***************************************************************************)
(* What every ending does.                                                 *)
(***************************************************************************)

\* The tickets in line, the one that runs included.
InLine == {r \in Reqs : ticket[r] = "held"}

\* Tickets leave the line, and what waits behind them moves up.
LeaveLine(S) ==
    ahead' = [r \in Reqs |-> IF r \in S THEN {} ELSE ahead[r] \ S]

\* Requests end with the answers of f, the ones whose session closed with
\* none; whatever place in line they had is given up.
End(f) ==
    /\ stage' = [r \in Reqs |-> IF r \in DOMAIN f THEN "done" ELSE stage[r]]
    /\ answer' = [r \in Reqs |->
           IF r \in DOMAIN f /\ caller[r] # "gone" THEN f[r] ELSE answer[r]]
    /\ ticket' = [r \in Reqs |-> IF r \in DOMAIN f THEN "none" ELSE ticket[r]]
    /\ LeaveLine(DOMAIN f)
    /\ UNCHANGED <<caller, sentOn, paused>>

EndOne(r, a) == End([x \in {r} |-> a])

\* Faulty variant: the payload isn't compared.
RepeatByIdAlone(r, earlier) == earlier.outcome

\* repeat: the answer of a request whose ID an earlier one already used.
Repeat(r, earlier) ==
    IF earlier.digest = DigestOf[r] THEN earlier.outcome ELSE "conflict"

\* Repeats waiting on the request that claimed their ID.
Waiters(i) == {w \in Reqs : stage[w] = "waiting" /\ IdOf[w] = i}

\* settle and rememberOperation: the claim is dropped, the outcome remembered
\* (without its reply if that's large), and every repeat answered.
Settle(r, outcome, madeWith, remembered, own) ==
    LET i == IdOf[r]
        settled == [outcome |-> outcome, digest |-> madeWith]
    IN  /\ claim' = [claim EXCEPT ![i] = NoReq]
        /\ recent' = [recent EXCEPT ![i] = [settled EXCEPT
                                               !.outcome = remembered]]
        /\ End([w \in Waiters(i) \cup {r} |->
                   IF w = r THEN own ELSE Repeat(w, settled)])

\* controlFailureFor: a request no longer wanted is answered as cancelled,
\* unless the lanes or the journal say better.
FailureAnswer(r, why) ==
    IF caller[r] # "there" /\ why \in {"failed", "busy"}
    THEN "cancelled" ELSE why

\* recordedOutcome: running in the journal but not in this process.
RecordedOutcome(status) == IF status = "running" THEN "interrupted" ELSE status

\* Faulty variant: only what's in memory is asked.
LookupMemoryOnly(i) ==
    IF claim[i] # NoReq THEN "running"
    ELSE IF recent[i].outcome # "none" THEN recent[i].outcome
    ELSE "unknown"

\* lookupOperation, lookupFor: what operation.get answers.
Lookup(i) ==
    IF claim[i] # NoReq THEN "running"
    ELSE IF recent[i].outcome # "none" THEN recent[i].outcome
    ELSE IF row[i].status # "none" THEN RecordedOutcome(row[i].status)
    ELSE "unknown"

-----------------------------------------------------------------------------
(***************************************************************************)
(* Hearth, the wire, and the clock.                                        *)
(***************************************************************************)

\* relayCommand stores the ID, the day and the journal of its connection, which
\* may be one the Relay has since replaced, before the first send.
Store(i) ==
    /\ firstSent[i] = -1
    /\ firstSent' = [firstSent EXCEPT ![i] = day]
    /\ \E j \in 0..journal : sentTo' = [sentTo EXCEPT ![i] = j]
    /\ UNCHANGED <<requests, lanes, memory, disk, history, day>>

\* settle sends under the ID only within RESEND_WITHIN.
MayResend(i) == firstSent[i] # -1 /\ day - firstSent[i] <= Resend

Send(r) ==
    /\ stage[r] = "new"
    /\ MayResend(IdOf[r])
    /\ stage' = [stage EXCEPT ![r] = "sent"]
    /\ sentOn' = [sentOn EXCEPT ![r] = day]
    /\ UNCHANGED <<caller, answer, lanes, memory, disk, hearth, history, day>>

\* A day passes.  A request reaches the journal, or its connection fails,
\* within the days between RESEND_WITHIN and the retention.
Tick ==
    /\ day < MaxDay
    /\ \A r \in Reqs : stage[r] \in TakingStages =>
           day - sentOn[r] < Retention - Resend
    /\ day' = day + 1
    /\ UNCHANGED <<requests, lanes, memory, disk, hearth, history>>

-----------------------------------------------------------------------------
(***************************************************************************)
(* Taking a request.                                                       *)
(***************************************************************************)

\* Turned away before anything of it is kept: too many requests in flight, a
\* frame ID in use, an invalid plan or timeout, a client revoked or without
\* the permission.
TurnAtDoor(r) ==
    /\ stage[r] \in {"sent", "arrived"}
    /\ EndOne(r, "door")
    /\ UNCHANGED <<memory, disk, hearth, history, day>>

\* Sent for a journal this Relay no longer keeps.
JournalGone(r) ==
    /\ stage[r] = "sent"
    /\ sentTo[IdOf[r]] # journal
    /\ EndOne(r, "journalChanged")
    /\ UNCHANGED <<memory, disk, hearth, history, day>>

\* The request takes its place in line as its frame is read.
Arrive(r) ==
    /\ stage[r] = "sent"
    /\ sentTo[IdOf[r]] = journal
    /\ stage' = [stage EXCEPT ![r] = "arrived"]
    /\ \/ /\ r \notin Laned
          /\ ticket' = [ticket EXCEPT ![r] = "free"]
          /\ UNCHANGED ahead
       \/ /\ r \in Laned /\ ~paused
          /\ ticket' = [ticket EXCEPT ![r] = "held"]
          /\ ahead' = [ahead EXCEPT ![r] = InLine]
       \/ /\ r \in Laned
          /\ \E why \in {"paused", "busy"} :
                /\ (why = "paused") = paused
                /\ ticket' = [ticket EXCEPT ![r] = why]
          /\ UNCHANGED ahead
    /\ UNCHANGED <<caller, answer, sentOn, paused, memory, disk, hearth,
                   history, day>>

\* Faulty variant: the repeat keeps its place in line while it waits.
JoinLiveInLine(r) ==
    LET live == claim[IdOf[r]] IN
    IF stage[live] # "reading" /\ DigestOf[live] # DigestOf[r]
    THEN EndOne(r, "conflict") /\ UNCHANGED memory
    ELSE /\ stage' = [stage EXCEPT ![r] = "waiting"]
         /\ UNCHANGED <<caller, answer, sentOn, lanes, memory>>

\* A repeat of a change being made gives up its place in line and waits for
\* it, or learns at once that the ID is another change's.
JoinLive(r) ==
    LET live == claim[IdOf[r]] IN
    IF stage[live] # "reading" /\ DigestOf[live] # DigestOf[r]
    THEN EndOne(r, "conflict") /\ UNCHANGED memory
    ELSE /\ stage' = [stage EXCEPT ![r] = "waiting"]
         /\ ticket' = [ticket EXCEPT ![r] = "none"]
         /\ LeaveLine({r})
         /\ UNCHANGED <<caller, answer, sentOn, paused, memory>>

Claim(r) ==
    /\ claim' = [claim EXCEPT ![IdOf[r]] = r]
    /\ stage' = [stage EXCEPT ![r] = "reading"]
    /\ UNCHANGED <<caller, answer, sentOn, lanes, recent, writes>>

\* Faulty variant: only finished changes are looked for, not live ones.
EnterUnclaimed(r) ==
    LET i == IdOf[r] IN
    /\ stage[r] = "arrived"
    /\ IF caller[r] # "there" THEN EndOne(r, "cancelled") /\ UNCHANGED memory
       ELSE IF paused THEN EndOne(r, "pausedNow") /\ UNCHANGED memory
       ELSE IF recent[i].outcome # "none"
            THEN EndOne(r, Repeat(r, recent[i])) /\ UNCHANGED memory
       ELSE Claim(r)
    /\ UNCHANGED <<disk, hearth, history, day>>

\* Its client is known: refused if it was aborted or the Relay is paused,
\* else it joins, repeats or claims.
Enter(r) ==
    LET i == IdOf[r] IN
    /\ stage[r] = "arrived"
    /\ IF caller[r] # "there" THEN EndOne(r, "cancelled") /\ UNCHANGED memory
       ELSE IF paused THEN EndOne(r, "pausedNow") /\ UNCHANGED memory
       ELSE IF claim[i] # NoReq THEN JoinLive(r)
       ELSE IF recent[i].outcome # "none"
            THEN EndOne(r, Repeat(r, recent[i])) /\ UNCHANGED memory
       ELSE Claim(r)
    /\ UNCHANGED <<disk, hearth, history, day>>
-----------------------------------------------------------------------------
(***************************************************************************)
(* Making the change.                                                      *)
(***************************************************************************)

\* getOperation: an ID the journal knows is settled with what it says;
\* otherwise the request is the one that makes the change.
ReadJournal(r) ==
    LET i == IdOf[r]
        prior == [outcome |-> RecordedOutcome(row[i].status),
                  digest |-> row[i].digest]
    IN  /\ stage[r] = "reading"
        /\ IF row[i].status # "none"
           THEN /\ Settle(r, prior.outcome, prior.digest, prior.outcome,
                          Repeat(r, prior))
                /\ UNCHANGED writes
           ELSE /\ stage' = [stage EXCEPT ![r] = "starting"]
                /\ UNCHANGED <<caller, answer, sentOn, lanes, memory>>
        /\ UNCHANGED <<disk, hearth, history, day>>

\* Reading the journal, or recording the change in it, fails: the request
\* fails, and that is remembered under its ID.
JournalFails(r) ==
    /\ stage[r] \in {"reading", "starting"}
    /\ Settle(r, "failed", DigestOf[r], "failed", FailureAnswer(r, "failed"))
    /\ UNCHANGED <<writes, disk, hearth, history, day>>

\* startOperation: recorded as accepted before anything it does.
StartRow(r) ==
    LET i == IdOf[r] IN
    /\ stage[r] = "starting"
    /\ stage' = [stage EXCEPT ![r] = "queued"]
    /\ row' = IF row[i].status # "none" THEN row
              ELSE [row EXCEPT ![i] = [status |-> "running",
                                       digest |-> DigestOf[r], day |-> day]]
    /\ UNCHANGED <<caller, answer, sentOn, lanes, memory, journal, hearth,
                   history, day>>

\* Its turn in the lanes comes, at once for an operation without locks.
ItsTurn(r) ==
    \/ ticket[r] = "free"
    \/ ticket[r] = "held" /\ ahead[r] = {}

TurnComes(r) ==
    LET i == IdOf[r] IN
    /\ stage[r] = "queued"
    /\ ItsTurn(r)
    /\ stage' = [stage EXCEPT ![r] = "running"]
    /\ ran' = [ran EXCEPT ![i] = @ + 1]
    /\ ranBy' = [ranBy EXCEPT ![i] = r]
    /\ UNCHANGED <<caller, answer, sentOn, lanes, memory, disk, hearth, ended,
                   day>>

\* The change's outcome is remembered and its request answered; the journal
\* learns of it in the background.
Conclude(r, outcome, remembered, own) ==
    /\ Settle(r, outcome, DigestOf[r], remembered, own)
    /\ writes' = [writes EXCEPT ![IdOf[r]] = outcome]

\* The lanes turn it away before it runs.
TurnedAway(r) ==
    /\ stage[r] = "queued"
    /\ \E why \in {"withdrawn", "paused", "busy", "refused"} :
          /\ ticket[r] = why \/ (why = "refused" /\ r \in Laned /\ ItsTurn(r))
          /\ Conclude(r, why, why, FailureAnswer(r, why))
    /\ UNCHANGED <<disk, hearth, history, day>>

\* The change ends.  Its reply is answered in full and kept unless large.
Finish(r) ==
    LET i == IdOf[r] IN
    /\ stage[r] = "running"
    /\ \/ /\ \E remembered \in {"reply", "noReply"} :
                Conclude(r, "reply", remembered, "reply")
          /\ ended' = [ended EXCEPT ![i] = "succeeded"]
       \/ /\ Conclude(r, "failed", "failed", FailureAnswer(r, "failed"))
          /\ ended' = [ended EXCEPT ![i] = "failed"]
    /\ UNCHANGED <<disk, hearth, ran, ranBy, day>>

\* finishOperation: the journal keeps the outcome, never the reply.
Write(i) ==
    /\ writes[i] # "none"
    /\ row' = IF row[i].status = "none" THEN row
              ELSE [row EXCEPT ![i].status =
                       IF writes[i] = "reply" THEN "noReply" ELSE writes[i]]
    /\ writes' = [writes EXCEPT ![i] = "none"]
    /\ UNCHANGED <<requests, lanes, claim, recent, journal, hearth, history,
                   day>>

\* Every retry of the write failed.
GiveUpWrite(i) ==
    /\ writes[i] # "none"
    /\ writes' = [writes EXCEPT ![i] = "none"]
    /\ UNCHANGED <<requests, lanes, claim, recent, disk, hearth, history, day>>

\* An outcome in memory expires, or makes room for another.
Lapse(i) ==
    /\ recent[i].outcome # "none"
    /\ recent' = [recent EXCEPT ![i] = NoMemory]
    /\ UNCHANGED <<requests, lanes, claim, writes, disk, hearth, history, day>>

-----------------------------------------------------------------------------
(***************************************************************************)
(* What cuts across.                                                       *)
(***************************************************************************)

\* Hearth cancels a change, or its deadline passes: it leaves the line, and
\* nothing else stops.  A running one keeps its locks.
Abort(r) ==
    /\ stage[r] \in {"arrived", "waiting"} \cup ClaimStages
    /\ caller[r] = "there"
    /\ caller' = [caller EXCEPT ![r] = "aborted"]
    /\ IF ticket[r] = "held" /\ stage[r] # "running"
       THEN ticket' = [ticket EXCEPT ![r] = "withdrawn"] /\ LeaveLine({r})
       ELSE UNCHANGED <<ticket, ahead>>
    /\ UNCHANGED <<stage, answer, sentOn, paused, memory, disk, hearth,
                   history, day>>

\* The session closes.  A request not yet claimed stops, a claimed one goes
\* on without its session, withdrawn from the lanes unless it runs.
Drop(r) ==
    /\ stage[r] \notin {"new", "done"}
    /\ caller[r] # "gone"
    /\ caller' = [caller EXCEPT ![r] = "gone"]
    /\ IF stage[r] \in ClaimStages THEN UNCHANGED stage
       ELSE stage' = [stage EXCEPT ![r] = "done"]
    /\ ticket' = [ticket EXCEPT ![r] =
           IF stage[r] \notin ClaimStages THEN "none"
           ELSE IF @ = "held" /\ stage[r] # "running" THEN "withdrawn" ELSE @]
    /\ LeaveLine(IF stage[r] = "running" THEN {} ELSE {r})
    /\ UNCHANGED <<answer, sentOn, paused, memory, disk, hearth, history, day>>

\* The lanes turn away whatever hasn't started.
Pause ==
    LET idle == {r \in Reqs : ticket[r] = "held" /\ stage[r] # "running"} IN
    /\ ~paused
    /\ paused' = TRUE
    /\ ticket' = [r \in Reqs |-> IF r \in idle THEN "paused" ELSE ticket[r]]
    /\ LeaveLine(idle)
    /\ UNCHANGED <<requests, memory, disk, hearth, history, day>>

Resume ==
    /\ paused
    /\ paused' = FALSE
    /\ UNCHANGED <<requests, ticket, ahead, memory, disk, hearth, history, day>>

\* Faulty variant: a change still running is pruned by its age too.
ExpiredWhileRunning(record) ==
    record.status # "none" /\ record.day < day - Retention

\* pruneOperations.
Expired(record) ==
    record.status # "running" /\ record.day < day - Retention

Pruned(rows) == [i \in Ids |-> IF Expired(rows[i]) THEN NoRow ELSE rows[i]]

Prune ==
    /\ row' = Pruned(row)
    /\ row' # row
    /\ UNCHANGED <<requests, lanes, memory, journal, hearth, history, day>>

\* interruptRunningOperations.
Interrupted(rows) == [i \in Ids |->
    IF rows[i].status = "running"
    THEN [rows[i] EXCEPT !.status = "interrupted"] ELSE rows[i]]

\* The Relay stops: its sessions and all it held in memory are gone.
Stop ==
    /\ stage' = [r \in Reqs |-> IF stage[r] = "new" THEN "new" ELSE "done"]
    /\ caller' = [r \in Reqs |->
           IF stage[r] \in {"new", "done"} THEN caller[r] ELSE "gone"]
    /\ ticket' = [r \in Reqs |-> "none"]
    /\ ahead' = [r \in Reqs |-> {}]
    /\ claim' = [i \in Ids |-> NoReq]
    /\ recent' = [i \in Ids |-> NoMemory]
    /\ writes' = [i \in Ids |-> "none"]
    /\ UNCHANGED <<answer, sentOn, paused, hearth, history, day>>

\* It starts again on its state, by crash or by choice.
Restart ==
    /\ Stop
    /\ row' = Pruned(Interrupted(row))
    /\ UNCHANGED journal

\* It starts again on a state rebuilt from nothing, under a new journal.
Rebuild ==
    /\ journal < MaxJournal
    /\ Stop
    /\ row' = [i \in Ids |-> NoRow]
    /\ journal' = journal + 1

-----------------------------------------------------------------------------
\* What the Relay's own fibers do for a request.
Serve(r) ==
    \/ Enter(r) \/ ReadJournal(r) \/ JournalFails(r) \/ StartRow(r)
    \/ TurnComes(r) \/ TurnedAway(r) \/ Finish(r)

\* What Hearth does of its own.
HearthSteps ==
    \/ \E i \in Ids : Store(i)
    \/ \E r \in Reqs : Send(r)

\* Everything else: the Relay, the wire and the clock.
RelaySteps ==
    \/ \E r \in Reqs :
          \/ TurnAtDoor(r) \/ JournalGone(r) \/ Arrive(r)
          \/ Enter(r) \/ ReadJournal(r) \/ JournalFails(r) \/ StartRow(r)
          \/ TurnComes(r) \/ TurnedAway(r) \/ Finish(r)
          \/ Abort(r) \/ Drop(r)
    \/ \E i \in Ids : Write(i) \/ GiveUpWrite(i) \/ Lapse(i)
    \/ Tick \/ Pause \/ Resume \/ Prune \/ Restart \/ Rebuild

Next == HearthSteps \/ RelaySteps

Spec == Init /\ [][Next]_vars

\* The Relay's fibers run, and the work of a running change ends.
FairSpec == Spec /\ \A r \in Reqs : WF_vars(Serve(r))

-----------------------------------------------------------------------------
(***************************************************************************)
(* Properties.                                                             *)
(***************************************************************************)

\* The Relay never starts the change of one ID twice, however often it is
\* sent, and whatever drops, restarts or lapses in between (journaled).
NeverTwice == \A i \in Ids : ran[i] <= 1

\* Whether "unknown" is still believed: Hearth asks the journal it first
\* sent the change to, and sends it again only within RESEND_WITHIN.
Believed(i) == sentTo[i] = journal /\ MayResend(i)

\* What operation.get answers is true: an unknown change never ran, a
\* succeeded one did, and one the lanes turned away did not, so it can be
\* sent again under a new ID (lookupOperation, relay-command.ts settle).
LookupTruth ==
    \A i \in Ids :
        /\ Lookup(i) = "unknown" /\ Believed(i) => ran[i] = 0
        /\ Lookup(i) \in {"reply", "noReply"} => ended[i] = "succeeded"
        /\ Lookup(i) \in {"withdrawn", "paused", "busy", "refused"} =>
               ran[i] = 0

\* A request is answered with a success, or with having been turned away by
\* the lanes, only for a change that was its own, by its payload, and that
\* went so (repeat, settleRecorded).
AnswersTruth ==
    \A r \in Reqs :
        LET i == IdOf[r] IN
        /\ answer[r] \in {"reply", "noReply"} =>
               ended[i] = "succeeded" /\ DigestOf[ranBy[i]] = DigestOf[r]
        /\ answer[r] \in {"withdrawn", "paused", "busy", "refused"} =>
               ran[i] = 0

\* A request never runs unless its change is in the journal as running, so a
\* restart finds it interrupted rather than unknown (startOperation before
\* runInLane).
RunsRecorded ==
    \A r \in Reqs : stage[r] = "running" =>
        row[IdOf[r]] = [row[IdOf[r]] EXCEPT !.status = "running",
                                            !.digest = DigestOf[r]]

\* docs/relay-operations.md says a cancelled change answers
\* `request_cancelled` only if it was withdrawn before it ran: nothing that
\* ran is answered so (controlFailureFor).
CancelledNeverRan ==
    \A r \in Reqs : answer[r] = "cancelled" => ranBy[IdOf[r]] # r

\* docs/relay-operations.md says a cancelled change answers
\* `request_cancelled` if it was withdrawn before it ran: one that claimed
\* its ID is never answered with another code (controlFailureFor).
CancelledSaysSo ==
    \A r \in Reqs :
        caller[r] = "aborted" /\ answer[r] = "withdrawn" =>
            ranBy[IdOf[r]] = r

\* docs/relay-operations.md says a lookup answers `failed` for a change that
\* failed or was withdrawn before it ran (lookupOperation).
FailedMeansFailed ==
    \A i \in Ids : Lookup(i) = "failed" => ended[i] # "succeeded"

\* Every request the Relay took is answered or its session is gone: no repeat
\* waits on a claim that waits behind it in line (journaled gives up the
\* repeat's ticket, and every claim settles).
TakenEnds == \A r \in Reqs : stage[r] = "arrived" ~> stage[r] = "done"
=============================================================================
