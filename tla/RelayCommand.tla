---------------------------- MODULE RelayCommand ----------------------------
(***************************************************************************)
(* A change a durable operation of Hearth sends to a Relay as one of its   *)
(* steps (apps/web/src/operations/relay-command.ts), over a connection     *)
(* that may drop (apps/web/src/lib/relay-connection.ts), to the Relay of   *)
(* RelayJournal.                                                           *)
(*                                                                         *)
(* Every ID is one attempt of this one command.  What reaches the Relay is *)
(* RelayJournal's Store and Send; the requests of a Hearth that stopped,   *)
(* or whose connection dropped, are still on their way, and the Relay      *)
(* learns of their session's end, or of a cancel, whenever it does.        *)
(***************************************************************************)
EXTENDS RelayJournal

CONSTANTS
    MaxWithdrawn,  \* MAX_WITHDRAWN
    HasRecover     \* whether the caller gave a `recover'

ASSUME CommandConstants ==
    /\ MaxWithdrawn \in Nat
    /\ Ids = 0..MaxWithdrawn
    /\ HasRecover \in BOOLEAN

VARIABLES
    step,      \* where the step is
    attempt,   \* which attempt, and so which ID
    heard,     \* what a lookup answered, on its way back
    sent,      \* the request it waits for
    result     \* how the step ended

command == <<step, attempt, heard, sent, result>>

commandVars == <<vars, command>>

\* What operation.get can answer.
Lookups == Outcomes \cup {"unknown", "running", "journalChanged"}

\* How the step ends, by what its reply or error says: the reply, what
\* `recover' read back, or that the result is gone; how the change failed;
\* withdrawn too often; that nobody can say; or any other error.  The codes of
\* errors the Relay answers a send with become "unexpected" (asCommandError).
Results == {"none", "reply", "recovered", "resultGone", "withdrawn",
            "interrupted", "unknown", "unexpected"} \cup Failures

\* Where the step may be: it never tries more IDs than MAX_WITHDRAWN allows,
\* and it remembers a request only while it waits for one (relayCommand).
CommandTypeOK ==
    /\ step \in {"storing", "asking", "heard", "waiting", "unsettled", "ended"}
    /\ attempt \in Ids
    /\ heard \in Lookups \cup {"none"}
    /\ sent \in Reqs \cup {NoReq}
    /\ (sent # NoReq) = (step \in {"waiting", "unsettled"})
    /\ result \in Results

CommandInit ==
    /\ Init
    /\ step = "storing"
    /\ attempt = 0
    /\ heard = "none"
    /\ sent = NoReq
    /\ result = "none"

-----------------------------------------------------------------------------
\* The step ends; its result is stored.
EndWith(how) ==
    /\ step' = "ended"
    /\ result' = how
    /\ heard' = "none"
    /\ sent' = NoReq
    /\ UNCHANGED attempt

\* The step looks the change up, again if it did before.
AskAgain ==
    /\ step' = "asking"
    /\ heard' = "none"
    /\ sent' = NoReq
    /\ UNCHANGED <<attempt, result>>

\* The reply, which must be what the step expects of one.
Decoded == EndWith("reply") \/ EndWith("unexpected")

\* A change withdrawn before it ran is sent again under a new ID.
TryAnotherId ==
    IF attempt >= MaxWithdrawn THEN EndWith("withdrawn")
    ELSE /\ attempt' = attempt + 1
         /\ step' = "storing"
         /\ heard' = "none"
         /\ UNCHANGED <<sent, result>>

\* The stored activity that names the attempt's ID.
StoreCommand ==
    /\ step = "storing"
    /\ Store(attempt)
    /\ step' = "asking"
    /\ UNCHANGED <<attempt, heard, sent, result>>

\* The Relay is no longer one of Hearth's, or names no journal.
NoSuchRelay ==
    /\ step \in {"storing", "asking"}
    /\ EndWith("unexpected")
    /\ UNCHANGED vars

\* What the Relay answers a lookup of the attempt.
Answered(i) == IF sentTo[i] # journal THEN "journalChanged" ELSE Lookup(i)

\* settle asks the Relay how the change went.  An answer that's lost, or a
\* Relay that isn't connected, is asked again.
Ask ==
    /\ step = "asking"
    /\ heard' = Answered(attempt)
    /\ step' = "heard"
    /\ UNCHANGED <<vars, attempt, sent, result>>

\* Faulty variant: a change a restart cut off is sent again, as one that was
\* withdrawn is.
IsWithdrawnOrCutOff(outcome) == outcome \in {"withdrawn", "interrupted"}

\* operation_withdrawn
IsWithdrawn(outcome) == outcome = "withdrawn"

\* The Relay never saw it: sent, under the same ID, while the journal keeps
\* what it would find there.
SendUnknown ==
    /\ step = "heard"
    /\ heard = "unknown"
    /\ \/ \E r \in Reqs :
             /\ IdOf[r] = attempt
             /\ Send(r)
             /\ sent' = r
             /\ step' = "waiting"
             /\ heard' = "none"
             /\ UNCHANGED <<attempt, result>>
       \/ ~MayResend(attempt) /\ EndWith("unknown") /\ UNCHANGED vars

\* Every other answer of a lookup.
Decide ==
    /\ step = "heard"
    /\ heard # "unknown"
    /\ CASE heard = "running" -> AskAgain
         [] heard = "reply" -> Decoded
         [] heard = "noReply" ->
                IF HasRecover
                THEN EndWith("recovered") \/ EndWith("unexpected")
                ELSE EndWith("resultGone")
         [] IsWithdrawn(heard) -> TryAnotherId
         [] heard = "journalChanged" -> EndWith("unknown")
         [] OTHER -> EndWith(heard)
    /\ UNCHANGED vars

\* The Relay's answer arrives.  One that says to try again later, as
\* relayIsAway has it, asks how the change went; the rest are final.
HearAnswer ==
    /\ step = "waiting"
    /\ answer[sent] # "none"
    /\ CASE answer[sent] = "reply" -> Decoded
         [] answer[sent] = "noReply" -> EndWith("resultGone")
         [] answer[sent] \in {"withdrawn", "paused", "pausedNow", "busy"} ->
                AskAgain
         [] answer[sent] = "door" -> AskAgain \/ EndWith("unexpected")
         [] answer[sent] = "journalChanged" -> EndWith("unknown")
         [] answer[sent] \in {"conflict", "cancelled"} ->
                EndWith("unexpected")
         [] OTHER -> EndWith(answer[sent])
    /\ UNCHANGED vars

\* The connection drops, whether or not the Relay has answered: the change
\* waits to be looked up (#rejectPending).
LoseConnection ==
    /\ step = "waiting"
    /\ step' = "unsettled"
    /\ UNCHANGED <<vars, attempt, heard, sent, result>>

\* Faulty variant: a change the Relay hasn't heard of is reported as one that
\* didn't run, for good, though its send may still be on its way.
SettleUnsettledFinally ==
    LET outcome == Answered(attempt) IN
    /\ step = "unsettled"
    /\ outcome # "running"
    /\ CASE outcome = "reply" -> Decoded
         [] outcome = "noReply" -> EndWith("resultGone")
         [] outcome \in {"failed", "refused"} -> EndWith(outcome)
         [] outcome = "unknown" -> EndWith("refused")
         [] OTHER -> AskAgain
    /\ UNCHANGED vars

\* #settleUnsettled: the connection, back again, asks how the change went.
SettleUnsettled ==
    LET outcome == Answered(attempt) IN
    /\ step = "unsettled"
    /\ outcome # "running"
    /\ CASE outcome = "reply" -> Decoded
         [] outcome = "noReply" -> EndWith("resultGone")
         [] outcome \in {"failed", "refused"} -> EndWith(outcome)
         [] OTHER -> AskAgain
    /\ UNCHANGED vars

\* The request's time is up, or Hearth closed its connection: nobody knows how
\* it went, and the step asks.
GiveUpWaiting ==
    /\ step \in {"waiting", "unsettled"}
    /\ AskAgain
    /\ UNCHANGED vars

\* Hearth stops, and later runs the step again from what it stored.
HearthRestart ==
    /\ step \in {"heard", "waiting", "unsettled"}
    /\ AskAgain
    /\ UNCHANGED vars

CommandSteps ==
    \/ StoreCommand \/ NoSuchRelay \/ Ask \/ SendUnknown \/ Decide
    \/ HearAnswer \/ LoseConnection \/ SettleUnsettled \/ GiveUpWaiting
    \/ HearthRestart

CommandNext ==
    \/ CommandSteps
    \/ RelaySteps /\ UNCHANGED command

CommandSpec == CommandInit /\ [][CommandNext]_commandVars

\* The Relay serves what it took; the step goes on, and the request it waits
\* for has a deadline.  Hearth doesn't stop each time it has an answer.
FairCommandSpec ==
    /\ CommandSpec
    /\ \A r \in Reqs : WF_commandVars(Serve(r) /\ UNCHANGED command)
    /\ WF_commandVars(StoreCommand)
    /\ WF_commandVars(Ask)
    /\ WF_commandVars(GiveUpWaiting)
    /\ SF_commandVars(SendUnknown \/ Decide)

-----------------------------------------------------------------------------
(***************************************************************************)
(* Properties.                                                             *)
(***************************************************************************)
\* However often the step is cut off, its connection drops, the Relay
\* restarts, forgets or withdraws the change, it is made at most once: under
\* one ID, and once under it (relayCommand).
CommandOnce ==
    /\ NeverTwice
    /\ \A i, j \in Ids : ran[i] > 0 /\ ran[j] > 0 => i = j

\* What the step says of its change.
SaysDone == {"reply", "recovered", "resultGone"}
SaysNotRun == {"withdrawn", "paused", "busy", "refused"}

\* A step that says its change went through is right, and one that says it
\* never ran is right for good: nothing still on its way makes it later
\* (settle, #settleUnsettled).
ReportsTrue ==
    /\ result \in SaysDone => \E i \in Ids : ended[i] = "succeeded"
    /\ result \in SaysNotRun => \A i \in Ids : ran[i] = 0

\* A step ends, however often Hearth stops or its connection drops, unless
\* the Relay keeps never having heard of the change, sent as often as the
\* requests of this instance allow (settle).
CommandEnds ==
    <>(\/ step = "ended"
       \/ \A r \in Reqs : IdOf[r] = attempt => stage[r] # "new")

\* The comment of relayCommand says a change that's done, whose reply the
\* Relay no longer has, is read back with `recover'.
RecoversWhenDone == HasRecover => result # "resultGone"

\* The comment of retryWhileAway says a Relay that is paused is asked again:
\* the step never ends because of a pause.
PauseIsWaitedOut == result # "paused"

Made ==
    IF ~CommandOnce THEN "twice"
    ELSE IF \E i \in Ids : ended[i] = "succeeded" THEN "succeeded"
    ELSE IF \E i \in Ids : ended[i] = "failed" THEN "failed"
    ELSE IF \E i \in Ids : ran[i] > 0 THEN "begun" ELSE "no"

ToldOf(how) ==
    IF how = "none" THEN "nothing"
    ELSE IF how \in SaysDone THEN "succeeded"
    ELSE IF how \in SaysNotRun THEN "notRun" ELSE "trouble"

Contract ==
    INSTANCE CommandContract WITH made <- Made, told <- ToldOf(result)

\* The step, the connection and the Relay together do what durable operations
\* rely on.
ImplementsOnce == Contract!OnceSpec
=============================================================================
