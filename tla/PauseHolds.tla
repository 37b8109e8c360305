----------------------------- MODULE PauseHolds -----------------------------
(***************************************************************************)
(* How Hearths pause a Relay.                                              *)
(*                                                                         *)
(* Each Hearth keeps whether it wants the Relay paused, and its connection *)
(* tells the Relay on every connect, on every change, and again while the  *)
(* Relay reports otherwise (apps/web/src/lib/relay-connection.ts           *)
(* holdPaused, #tellPause and the loop #setState starts;                   *)
(* lib/relay-registry.ts setPersistedRelayEnabled).  The Relay keeps a     *)
(* hold per Hearth in SQLite and pauses its lanes while there is one       *)
(* (apps/relay/src/index.ts relay.pause.write, relay.clients.revoke,       *)
(* applyPauseHolds and startup; effect/state.ts).                          *)
(*                                                                         *)
(* The Relay reads the messages of a session in order and serves its reads *)
(* of SQLite in order; between two awaits anything else may run.           *)
(***************************************************************************)
EXTENDS Integers, SequencesExt

CONSTANTS
    Hearths,     \* paired Hearths
    Revocable,   \* the Hearths someone may revoke
    MaxChanges,  \* bound on how often someone pauses or resumes
    MaxWire,     \* bound on what a connection carries
    MaxFaults,   \* bound on timeouts, drops and restarts
    MaxErrors    \* bound on statements of either side that fail

ASSUME PauseConstants ==
    /\ Revocable \subseteq Hearths
    /\ {MaxChanges, MaxWire, MaxFaults, MaxErrors} \subseteq Nat

VARIABLES
    enabled,    \* per Hearth, the relay row's `enabled', negated: paused there
    calls,      \* Hearths that stored a change and haven't told the connection
    untold,     \* history: Hearths that never did, as the call failed
    wants,      \* #wantsPaused
    told,       \* #toldPaused
    conn,       \* whether it's connected and authenticated
    owes,       \* whether this connection still owes its first telling
    pending,    \* the write it waits for, holding the #pauseWrites permit
    reports,    \* what the Relay's last snapshot said
    wire,       \* the writes on their way
    holds,      \* relay_pause_holds
    revoked,    \* Hearths whose access was revoked
    serving,    \* per Hearth and kind of request, how far the Relay is with it
    reads,      \* holds read and not yet applied, oldest first
    paused,     \* lanes.paused
    misread,    \* history: whether the last read of the holds failed
    changes,    \* how often someone paused or resumed
    faults, errors

hearthVars ==
    <<enabled, calls, untold, wants, told, conn, owes, pending, reports>>
relayVars == <<holds, revoked, serving, reads, paused, misread>>
vars == <<hearthVars, wire, relayVars, changes, faults, errors>>

\* relay.pause.write and relay.clients.revoke, for a Hearth.
Requests == Hearths \X {"write", "revoke"}

\* What each side may hold of a pause: what a Hearth believes the Relay took is
\* a hold or its absence, never a stage of a write (#tellPause).
PauseTypeOK ==
    /\ enabled \in [Hearths -> BOOLEAN]
    /\ calls \subseteq Hearths
    /\ untold \subseteq Hearths
    /\ wants \in [Hearths -> BOOLEAN]
    /\ told \in [Hearths -> {"none", "paused", "resumed"}]
    /\ conn \in [Hearths -> BOOLEAN]
    /\ owes \in [Hearths -> BOOLEAN]
    /\ pending \in [Hearths -> {"none", "paused", "resumed"}]
    /\ reports \in [Hearths -> BOOLEAN]
    /\ wire \in [Hearths -> Seq({"paused", "resumed"})]
    /\ holds \subseteq Hearths
    /\ revoked \subseteq Hearths
    /\ serving \in [Requests -> {"idle", "stored", "read", "done", "failed"}]
    /\ reads \in Seq([for : Requests, paused : BOOLEAN])
    /\ paused \in BOOLEAN
    /\ misread \in BOOLEAN
    /\ changes \in 0..MaxChanges
    /\ faults \in 0..MaxFaults
    /\ errors \in 0..MaxErrors

Init ==
    /\ enabled = [h \in Hearths |-> FALSE]
    /\ calls = {}
    /\ untold = {}
    /\ wants = [h \in Hearths |-> FALSE]
    /\ told = [h \in Hearths |-> "none"]
    /\ conn = [h \in Hearths |-> FALSE]
    /\ owes = [h \in Hearths |-> FALSE]
    /\ pending = [h \in Hearths |-> "none"]
    /\ reports = [h \in Hearths |-> FALSE]
    /\ wire = [h \in Hearths |-> <<>>]
    /\ holds = {}
    /\ revoked = {}
    /\ serving = [q \in Requests |-> "idle"]
    /\ reads = <<>>
    /\ paused = FALSE
    /\ misread = FALSE
    /\ changes = 0
    /\ faults = 0
    /\ errors = 0

Word(p) == IF p THEN "paused" ELSE "resumed"

-----------------------------------------------------------------------------
(***************************************************************************)
(* Hearth.                                                                 *)
(***************************************************************************)

\* setPersistedRelayEnabled stores what someone asked for, in a lane of the
\* Relay's settings, which admits one such call at a time ...
SetEnabled(h, p) ==
    /\ changes < MaxChanges
    /\ h \notin calls
    /\ changes' = changes + 1
    /\ enabled' = [enabled EXCEPT ![h] = p]
    /\ calls' = calls \cup {h}
    /\ UNCHANGED <<untold, wants, told, conn, owes, pending, reports, wire,
                   relayVars, faults, errors>>

\* Faulty variant: what the Relay took before still counts.
HoldPausedKeepingTold(h) ==
    /\ h \in calls
    /\ calls' = calls \ {h}
    /\ untold' = untold \ {h}
    /\ wants' = [wants EXCEPT ![h] = enabled[h]]
    /\ UNCHANGED <<enabled, told, conn, owes, pending, reports, wire,
                   relayVars, changes, faults, errors>>

\* ... and, the row read back, tells the connection ...
HoldPaused(h) ==
    /\ h \in calls
    /\ calls' = calls \ {h}
    /\ untold' = untold \ {h}
    /\ wants' = [wants EXCEPT ![h] = enabled[h]]
    /\ told' = [told EXCEPT ![h] = IF @ = Word(enabled[h]) THEN @ ELSE "none"]
    /\ UNCHANGED <<enabled, conn, owes, pending, reports, wire, relayVars,
                   changes, faults, errors>>

\* ... or doesn't, as the answer to its statement is lost or the read fails.
CallFails(h) ==
    /\ errors < MaxErrors
    /\ h \in calls
    /\ errors' = errors + 1
    /\ calls' = calls \ {h}
    /\ untold' = untold \cup {h}
    /\ UNCHANGED <<enabled, wants, told, conn, owes, pending, reports, wire,
                   relayVars, changes, faults>>

\* The connection is authenticated; its loop tells the Relay first thing.
Connect(h) ==
    /\ ~conn[h]
    /\ h \notin revoked
    /\ conn' = [conn EXCEPT ![h] = TRUE]
    /\ owes' = [owes EXCEPT ![h] = TRUE]
    /\ UNCHANGED <<enabled, calls, untold, wants, told, pending, reports,
                   wire, relayVars, changes, faults, errors>>

\* Faulty variant: what the Relay reports is taken for this Hearth's own hold.
SettledByReport(h) == wants[h] = reports[h]

\* The Relay already took it: a pause it reports, or a resume.
Settled(h) ==
    /\ told[h] = Word(wants[h])
    /\ wants[h] => reports[h]

\* #tellPause, one write at a time: after a change, first thing on a
\* connection, and every PAUSE_RECHECK_MS.
Tell(h) ==
    /\ conn[h]
    /\ pending[h] = "none"
    /\ owes[h] \/ ~Settled(h)
    /\ Len(wire[h]) < MaxWire
    /\ pending' = [pending EXCEPT ![h] = Word(wants[h])]
    /\ wire' = [wire EXCEPT ![h] = Append(@, Word(wants[h]))]
    /\ owes' = [owes EXCEPT ![h] = FALSE]
    /\ UNCHANGED <<enabled, calls, untold, wants, told, conn, reports,
                   relayVars, changes, faults, errors>>

\* How the write ends, unless the Hearth has since changed its mind.
Heard(h, how) ==
    /\ told' = [told EXCEPT ![h] =
           IF pending[h] = Word(wants[h]) THEN how ELSE @]
    /\ pending' = [pending EXCEPT ![h] = "none"]

\* The Relay's answer to the write, or what a lookup says of it.
HearAnswer(h) ==
    /\ pending[h] # "none"
    /\ wire[h] = <<>>
    /\ serving[<<h, "write">>] \in {"done", "failed"}
    /\ Heard(h, IF serving[<<h, "write">>] = "done" THEN pending[h]
                ELSE "none")
    /\ serving' = [serving EXCEPT ![<<h, "write">>] = "idle"]
    /\ UNCHANGED <<enabled, calls, untold, wants, conn, owes, reports, wire,
                   holds, revoked, reads, paused, misread, changes, faults,
                   errors>>

\* Its time is up: the Relay may or may not take it.
TellTimesOut(h) ==
    /\ faults < MaxFaults
    /\ pending[h] # "none"
    /\ faults' = faults + 1
    /\ Heard(h, "none")
    /\ UNCHANGED <<enabled, calls, untold, wants, conn, owes, reports, wire,
                   relayVars, changes, errors>>

\* The connection drops.  What it still carries is lost, the oldest of it
\* perhaps read first; a write it waits for is looked up, and in the end given
\* up.
Disconnect(h) ==
    /\ faults < MaxFaults
    /\ conn[h]
    /\ faults' = faults + 1
    /\ conn' = [conn EXCEPT ![h] = FALSE]
    /\ wire' = [wire EXCEPT ![h] = <<>>]
    /\ IF wire[h] = <<>> THEN UNCHANGED <<told, pending>> ELSE Heard(h, "none")
    /\ UNCHANGED <<enabled, calls, untold, wants, owes, reports, relayVars,
                   changes, errors>>

\* Hearth stops, and starts again from what it stored.
HearthRestart(h) ==
    /\ faults < MaxFaults
    /\ faults' = faults + 1
    /\ conn' = [conn EXCEPT ![h] = FALSE]
    /\ wire' = [wire EXCEPT ![h] = <<>>]
    /\ calls' = calls \ {h}
    /\ untold' = untold \ {h}
    /\ wants' = [wants EXCEPT ![h] = enabled[h]]
    /\ told' = [told EXCEPT ![h] = "none"]
    /\ pending' = [pending EXCEPT ![h] = "none"]
    /\ UNCHANGED <<enabled, owes, reports, relayVars, changes, errors>>

-----------------------------------------------------------------------------
(***************************************************************************)
(* The Relay.                                                              *)
(***************************************************************************)

\* Faulty variant: the hold is stored for whoever asks.
HoldsUnchecked(h, word) ==
    IF word = "paused" THEN holds \cup {h} ELSE holds \ {h}

\* setPauseHold: a hold only while the Hearth is still paired.
HoldsAfter(h, word) ==
    IF word = "resumed" THEN holds \ {h}
    ELSE IF h \in revoked THEN holds ELSE holds \cup {h}

\* relay.pause.write stores the hold ...
TakeWrite(h) ==
    /\ wire[h] # <<>>
    /\ serving[<<h, "write">>] \in {"idle", "done", "failed"}
    /\ wire' = [wire EXCEPT ![h] = Tail(@)]
    /\ holds' = HoldsAfter(h, Head(wire[h]))
    /\ serving' = [serving EXCEPT ![<<h, "write">>] = "stored"]
    /\ UNCHANGED <<hearthVars, revoked, reads, paused, misread, changes,
                   faults, errors>>

\* ... relay.clients.revoke, from someone else, drops it with the access ...
Revoke(h) ==
    /\ h \in Revocable \ revoked
    /\ revoked' = revoked \cup {h}
    /\ holds' = holds \ {h}
    /\ serving' = [serving EXCEPT ![<<h, "revoke">>] = "stored"]
    /\ UNCHANGED <<hearthVars, wire, reads, paused, misread, changes, faults,
                   errors>>

\* ... and closes its session in a moment, or at its next message.
CloseRevoked(h) ==
    /\ h \in revoked
    /\ conn[h]
    /\ conn' = [conn EXCEPT ![h] = FALSE]
    /\ wire' = [wire EXCEPT ![h] = <<>>]
    /\ Heard(h, "none")
    /\ UNCHANGED <<enabled, calls, untold, wants, owes, reports, relayVars,
                   changes, faults, errors>>

\* applyPauseHolds reads the holds ...
ReadHolds(q) ==
    /\ serving[q] = "stored"
    /\ reads' = Append(reads, [for |-> q, paused |-> holds # {}])
    /\ serving' = [serving EXCEPT ![q] = "read"]
    /\ misread' = FALSE
    /\ UNCHANGED <<hearthVars, wire, holds, revoked, paused, changes, faults,
                   errors>>

\* ... or fails to, and the request with it ...
ReadFails(q) ==
    /\ errors < MaxErrors
    /\ serving[q] = "stored"
    /\ errors' = errors + 1
    /\ serving' = [serving EXCEPT ![q] = "failed"]
    /\ misread' = TRUE
    /\ UNCHANGED <<hearthVars, wire, holds, revoked, reads, paused, changes,
                   faults>>

\* Faulty variant: the newest read is applied first.
NextReadNewest == Len(reads)

\* Reads are answered in the order they were made.
NextRead == 1

\* ... and sets the lanes to match what it read.  After a change it wakes the
\* queues and refreshes the snapshot, which may fail, and the request with it.
ApplyHolds ==
    /\ reads # <<>>
    /\ LET read == reads[NextRead] IN
       /\ paused' = read.paused
       /\ \/ /\ serving' = [serving EXCEPT ![read.for] = "done"]
             /\ UNCHANGED errors
          \/ /\ errors < MaxErrors
             /\ read.paused # paused
             /\ errors' = errors + 1
             /\ serving' = [serving EXCEPT ![read.for] = "failed"]
    /\ reads' = RemoveAt(reads, NextRead)
    /\ UNCHANGED <<hearthVars, wire, holds, revoked, misread, changes, faults>>

\* The Relay's snapshot reaches a Hearth.
PushSnapshot(h) ==
    /\ conn[h]
    /\ reports[h] # paused
    /\ reports' = [reports EXCEPT ![h] = paused]
    /\ UNCHANGED <<enabled, calls, untold, wants, told, conn, owes, pending,
                   wire, relayVars, changes, faults, errors>>

\* Whether a write it waits for is lost if the Relay stops now: a lookup finds
\* one that ended.
Lost(h) ==
    /\ pending[h] # "none"
    /\ wire[h] # <<>> \/ serving[<<h, "write">>] # "done"

\* The Relay stops, and reads the holds before anything runs.
RelayRestart ==
    /\ faults < MaxFaults
    /\ faults' = faults + 1
    /\ paused' = (holds # {})
    /\ misread' = FALSE
    /\ reads' = <<>>
    /\ serving' = [q \in Requests |->
           IF serving[q] = "done" THEN "done" ELSE "idle"]
    /\ conn' = [h \in Hearths |-> FALSE]
    /\ wire' = [h \in Hearths |-> <<>>]
    /\ told' = [h \in Hearths |->
           IF Lost(h) /\ pending[h] = Word(wants[h]) THEN "none" ELSE told[h]]
    /\ pending' = [h \in Hearths |-> IF Lost(h) THEN "none" ELSE pending[h]]
    /\ UNCHANGED <<enabled, calls, untold, wants, owes, reports, holds,
                   revoked, changes, errors>>

-----------------------------------------------------------------------------
Next ==
    \/ \E h \in Hearths :
          \/ \E p \in BOOLEAN : SetEnabled(h, p)
          \/ HoldPaused(h) \/ CallFails(h)
          \/ Connect(h) \/ Tell(h) \/ HearAnswer(h)
          \/ TellTimesOut(h) \/ Disconnect(h) \/ HearthRestart(h)
          \/ TakeWrite(h) \/ Revoke(h) \/ CloseRevoked(h) \/ PushSnapshot(h)
    \/ \E q \in Requests : ReadHolds(q) \/ ReadFails(q)
    \/ ApplyHolds \/ RelayRestart

Spec == Init /\ [][Next]_vars

\* Hearth reconnects and its loop goes on; the Relay serves what it takes, and
\* sends snapshots.
FairSpec ==
    /\ Spec
    /\ \A h \in Hearths :
          /\ WF_vars(HoldPaused(h)) /\ WF_vars(Connect(h))
          /\ WF_vars(Tell(h)) /\ WF_vars(HearAnswer(h))
          /\ WF_vars(TakeWrite(h)) /\ WF_vars(CloseRevoked(h))
          /\ WF_vars(PushSnapshot(h))
    /\ \A q \in Requests : WF_vars(ReadHolds(q))
    /\ WF_vars(ApplyHolds)

-----------------------------------------------------------------------------
(***************************************************************************)
(* Properties.                                                             *)
(***************************************************************************)
\* Whenever nobody is between storing a hold and applying it, and unless the
\* last read of the holds failed, the lanes are paused exactly while a Hearth
\* holds them so (applyPauseHolds).
PausedMatchesHolds ==
    ~misread /\ (\A q \in Requests : serving[q] \notin {"stored", "read"}) =>
        paused = (holds # {})

\* A pause that raced its Hearth's revocation leaves no hold nobody could lift
\* (setPauseHold, revokeClient).
NoOrphanHold == holds \cap revoked = {}

\* What a Hearth believes the Relay took is what the Relay holds, connected or
\* not: confirmsPause shows people a pause on this alone (#tellPause).
ToldIsHeld ==
    \A h \in Hearths \ revoked :
        told[h] # "none" => told[h] = Word(h \in holds)

\* Whether a revocation couldn't read the holds, and nobody has read them since.
RevokedUnread ==
    misread /\ \E h \in revoked : serving[<<h, "revoke">>] = "failed"

\* A pause or resume a Relay missed still arrives: once nobody changes their
\* mind, it holds for each Hearth what that Hearth stored, and its lanes
\* follow, through lost messages, restarts and writes that fail (the loop
\* #setState starts).  Two failures excuse it until the next change or
\* restart: a Hearth whose own call failed after it stored the change goes on
\* telling what it told before, and after a revocation that couldn't read the
\* holds the lanes stay as they were.
PauseArrives ==
    <>[](/\ \A h \in Hearths \ revoked :
               /\ (h \in holds) = wants[h]
               /\ wants[h] = enabled[h] \/ h \in untold
         /\ paused = (holds # {}) \/ RevokedUnread)

\* docs/relay-operations.md says a Relay is paused while any Hearth holds it,
\* and that revoking a Hearth clears its hold: with no holds left, it's soon no
\* longer paused (relay.clients.revoke).
PauseLifts == (holds = {}) ~> (~paused \/ holds # {})

\* docs/relay-operations.md says Hearth tells a Relay when someone pauses or
\* resumes it, so one it missed still arrives: what Hearth keeps telling it is
\* what it stored (setPersistedRelayEnabled).
TellsWhatIsStored == <>[](\A h \in Hearths : wants[h] = enabled[h])
=============================================================================
