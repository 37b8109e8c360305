----------------------------- MODULE StoppedApps -----------------------------
(***************************************************************************)
(* The Apps that stopped backups stop and start again                      *)
(* (apps/relay/src/backups.ts #stopApps, #startApps, #restartStoppedApps   *)
(* and a batch's #stoppedWindow), beside people who start, stop, deploy    *)
(* and freeze Apps (index.ts notePowerChange, apps.ts quietForDeletion).   *)
(*                                                                         *)
(* A window is one stopped backup, or a batch of them; its members take an *)
(* archive each.  It holds its Apps' lifecycle lanes, as a person's change *)
(* does, so neither runs during the other.  The task that leads it names   *)
(* its journal, a file.                                                    *)
(***************************************************************************)
EXTENDS Integers, FiniteSets

CONSTANTS
    Apps,
    Windows,      \* stopped backups and batches, by the task that leads them
    Uses,         \* the Apps that use what a window backs up
    Batches,      \* the windows that are batches
    Members,      \* their backups
    MaxChanges,   \* bound on changes people make
    MaxFailures,  \* bound on starts, stops and journal writes that fail
    MaxStops      \* bound on restarts of the Relay

ASSUME StoppedConstants ==
    /\ IsFiniteSet(Apps)
    /\ Uses \in [Windows -> SUBSET Apps]
    /\ Batches \subseteq Windows
    /\ \A w \in Windows : IsFiniteSet(Members[w]) /\ Members[w] # {}
    /\ {MaxChanges, MaxFailures, MaxStops} \subseteq Nat

VARIABLES
    running,    \* whether the App runs
    revision,   \* relay_app_power_revisions
    person,     \* a person's change of it under way
    choice,     \* history: what a person last had it do, or failed to
    journal,    \* the Apps a window stopped, with the revision each had
    row,        \* the leading task: in line, running, or ended
    phase,      \* where the window is
    todo,       \* the Apps it's stopping or starting, still to come
    stopped,    \* those it stopped
    unstarted,  \* those that wouldn't start
    left,       \* its members that have their archive, or failed
    changes, failures, stops

power == <<running, revision, person, choice>>
window == <<row, phase, todo, stopped, unstarted, left>>
bounds == <<changes, failures, stops>>
vars == <<power, journal, window, bounds>>

\* An App and the revision of its power intent (StoppedApp).
Entries == [app : Apps, revision : Nat]

\* The states of windows and Apps; what is journalled, stopped or owed names
\* an App and a revision (#stopApps).
StoppedTypeOK ==
    /\ running \in [Apps -> BOOLEAN]
    /\ revision \in [Apps -> Nat]
    /\ person \in [Apps -> {"none", "start", "stop"}]
    /\ choice \in [Apps -> {"start", "stop", "unsure"}]
    /\ row \in [Windows -> {"queued", "running", "ended"}]
    /\ phase \in [Windows -> {"none", "stopping", "archiving", "undoing",
                              "starting", "recovering"}]
    /\ {journal, todo, stopped, unstarted} \subseteq [Windows -> SUBSET Entries]
    /\ left \in [Windows -> SUBSET UNION {Members[w] : w \in Windows}]
    /\ \A w \in Windows : left[w] \subseteq Members[w]
    /\ changes \in 0..MaxChanges
    /\ failures \in 0..MaxFailures
    /\ stops \in 0..MaxStops

Init ==
    /\ running = [a \in Apps |-> TRUE]
    /\ revision = [a \in Apps |-> 0]
    /\ person = [a \in Apps |-> "none"]
    /\ choice = [a \in Apps |-> "start"]
    /\ journal = [w \in Windows |-> {}]
    /\ row = [w \in Windows |-> "queued"]
    /\ phase = [w \in Windows |-> "none"]
    /\ todo = [w \in Windows |-> {}]
    /\ stopped = [w \in Windows |-> {}]
    /\ unstarted = [w \in Windows |-> {}]
    /\ left = [w \in Windows |-> {}]
    /\ changes = 0
    /\ failures = 0
    /\ stops = 0

\* Startup settles the journals before anything else is admitted.
Up == \A w \in Windows : phase[w] # "recovering"

\* No one else holds the App's lifecycle lane.
Free(a) ==
    /\ person[a] = "none"
    /\ \A w \in Windows : a \in Uses[w] => phase[w] = "none"

-----------------------------------------------------------------------------
(***************************************************************************)
(* People.                                                                 *)
(***************************************************************************)

\* A start, a stop, a deploy or a freeze notes the change first ...
ChangePower(a, to) ==
    /\ Up
    /\ Free(a)
    /\ changes < MaxChanges
    /\ changes' = changes + 1
    /\ revision' = [revision EXCEPT ![a] = @ + 1]
    /\ choice' = [choice EXCEPT ![a] = "unsure"]
    /\ person' = [person EXCEPT ![a] = to]
    /\ UNCHANGED <<running, journal, window, failures, stops>>

\* ... and then makes it.
ApplyPower(a) ==
    /\ person[a] # "none"
    /\ running' = [running EXCEPT ![a] = person[a] = "start"]
    /\ choice' = [choice EXCEPT ![a] = person[a]]
    /\ person' = [person EXCEPT ![a] = "none"]
    /\ UNCHANGED <<revision, journal, window, bounds>>

-----------------------------------------------------------------------------
(***************************************************************************)
(* A window.                                                               *)
(***************************************************************************)

\* The Apps it must stop, with the revision each has.
RunningEntries(w) ==
    {[app |-> a, revision |-> revision[a]] : a \in {a \in Uses[w] : running[a]}}

\* Faulty variant: the journal is left for when they have stopped.
JournalledLater(w, entries) == journal

\* #journalStoppedApps replaces what the task's journal held; with nothing
\* to stop, nothing is written.
Journalled(w, entries) ==
    IF entries = {} THEN journal ELSE [journal EXCEPT ![w] = entries]

\* Its turn in the lanes: #stopApps journals what runs.
Begin(w) ==
    /\ Up
    /\ row[w] = "queued"
    /\ \A a \in Uses[w] : Free(a)
    /\ row' = [row EXCEPT ![w] = "running"]
    /\ phase' = [phase EXCEPT ![w] = "stopping"]
    /\ todo' = [todo EXCEPT ![w] = RunningEntries(w)]
    /\ journal' = Journalled(w, RunningEntries(w))
    /\ UNCHANGED <<power, stopped, unstarted, left, bounds>>

\* The journal can't be written: the backup fails with nothing stopped.
BeginFails(w) ==
    /\ Up
    /\ row[w] = "queued"
    /\ \A a \in Uses[w] : Free(a)
    /\ failures < MaxFailures
    /\ failures' = failures + 1
    /\ row' = [row EXCEPT ![w] = "ended"]
    /\ UNCHANGED <<power, journal, phase, todo, stopped, unstarted, left,
                   changes, stops>>

Stop(w, e) ==
    /\ phase[w] = "stopping"
    /\ e \in todo[w]
    /\ running' = [running EXCEPT ![e.app] = FALSE]
    /\ todo' = [todo EXCEPT ![w] = @ \ {e}]
    /\ stopped' = [stopped EXCEPT ![w] = @ \cup {e}]
    /\ UNCHANGED <<revision, person, choice, journal, row, phase, unstarted,
                   left, bounds>>

\* One won't stop, or only in part: it starts again with those stopped.
StopFails(w, e) ==
    /\ phase[w] = "stopping"
    /\ e \in todo[w]
    /\ failures < MaxFailures
    /\ failures' = failures + 1
    /\ \E down \in BOOLEAN :
         running' = [running EXCEPT ![e.app] = @ /\ ~down]
    /\ phase' = [phase EXCEPT ![w] = "undoing"]
    /\ todo' = [todo EXCEPT ![w] = stopped[w] \cup {e}]
    /\ stopped' = [stopped EXCEPT ![w] = {}]
    /\ UNCHANGED <<revision, person, choice, journal, row, unstarted, left,
                   changes, stops>>

AllStopped(w) ==
    /\ phase[w] = "stopping"
    /\ todo[w] = {}
    /\ phase' = [phase EXCEPT ![w] = "archiving"]
    /\ UNCHANGED <<power, journal, row, todo, stopped, unstarted, left,
                   bounds>>

\* Faulty variant: the first member to leave closes the window.
LastLeft(w, gone) == gone # {}

\* finishIfLast
IsLast(w, gone) == gone = Members[w]

NothingToStart(w) == w \notin Batches /\ stopped[w] = {}

\* arrive or leave: a member has its archive, or failed, maybe while
\* another still stops the Apps for all.
Leave(w, m) ==
    /\ \/ phase[w] = "archiving"
       \/ phase[w] = "stopping" /\ left[w] \cup {m} # Members[w]
    /\ m \notin left[w]
    /\ ~ NothingToStart(w)
    /\ left' = [left EXCEPT ![w] = @ \cup {m}]
    /\ IF IsLast(w, left[w] \cup {m})
       THEN /\ phase' = [phase EXCEPT ![w] = "starting"]
            /\ todo' = [todo EXCEPT ![w] = stopped[w]]
       ELSE UNCHANGED <<phase, todo>>
    /\ UNCHANGED <<power, journal, row, stopped, unstarted, bounds>>

\* A single backup that stopped nothing ends without starting anything.
End(w) ==
    /\ phase[w] = "archiving"
    /\ NothingToStart(w)
    /\ phase' = [phase EXCEPT ![w] = "none"]
    /\ row' = [row EXCEPT ![w] = "ended"]
    /\ UNCHANGED <<power, journal, todo, stopped, unstarted, left, bounds>>

\* Faulty variant: a start is owed whatever people did since.
StillOwedAlways(e) == TRUE

\* #stillOwed: no one has changed the App's power since.
StillOwed(e) == revision[e.app] = e.revision

Starting(w) == phase[w] \in {"undoing", "starting", "recovering"}

\* #startApps and #restartStoppedApps: an App owed a start gets it ...
Start(w, e) ==
    /\ Starting(w)
    /\ e \in todo[w]
    /\ todo' = [todo EXCEPT ![w] = @ \ {e}]
    /\ running' = [running EXCEPT ![e.app] = @ \/ StillOwed(e)]
    /\ UNCHANGED <<revision, person, choice, journal, row, phase, stopped,
                   unstarted, left, bounds>>

\* ... or won't start, or its lane refuses it.
StartFails(w, e) ==
    /\ Starting(w)
    /\ e \in todo[w]
    /\ StillOwed(e)
    /\ failures < MaxFailures
    /\ failures' = failures + 1
    /\ todo' = [todo EXCEPT ![w] = @ \ {e}]
    /\ unstarted' = [unstarted EXCEPT ![w] = @ \cup {e}]
    /\ UNCHANGED <<power, journal, row, phase, stopped, left, changes, stops>>

\* #keepStoppedApps keeps those that wouldn't start.  A batch whose Apps
\* wouldn't stop then has every member leave its window, which starts and
\* keeps what it stopped: nothing.
Keep(w) ==
    /\ Starting(w)
    /\ todo[w] = {}
    /\ \/ journal' = [journal EXCEPT ![w] = unstarted[w]]
          /\ UNCHANGED failures
       \/ failures < MaxFailures       \* a write that fails is ignored
          /\ failures' = failures + 1
          /\ UNCHANGED journal
    /\ unstarted' = [unstarted EXCEPT ![w] = {}]
    /\ IF phase[w] = "undoing" /\ w \in Batches
       THEN /\ phase' = [phase EXCEPT ![w] = "starting"]
            /\ left' = [left EXCEPT ![w] = Members[w]]
            /\ UNCHANGED <<row, stopped>>
       ELSE /\ phase' = [phase EXCEPT ![w] = "none"]
            /\ row' = [row EXCEPT ![w] = IF @ = "running" THEN "ended" ELSE @]
            /\ stopped' = [stopped EXCEPT ![w] = {}]
            /\ left' = [left EXCEPT ![w] = {}]
    /\ UNCHANGED <<power, todo, changes, stops>>

-----------------------------------------------------------------------------
\* The Relay stops, and starts again: its journals are settled first, and
\* backups that ran are back in line.
Restart ==
    /\ stops < MaxStops
    /\ stops' = stops + 1
    /\ person' = [a \in Apps |-> "none"]
    /\ row' = [w \in Windows |-> IF row[w] = "running" THEN "queued" ELSE row[w]]
    /\ phase' = [w \in Windows |->
                   IF journal[w] = {} THEN "none" ELSE "recovering"]
    /\ todo' = journal
    /\ stopped' = [w \in Windows |-> {}]
    /\ unstarted' = [w \in Windows |-> {}]
    /\ left' = [w \in Windows |-> {}]
    /\ UNCHANGED <<running, revision, choice, journal, changes, failures>>

RelaySteps ==
    \/ \E a \in Apps : ApplyPower(a)
    \/ \E w \in Windows :
         \/ Begin(w) \/ AllStopped(w) \/ End(w) \/ Keep(w)
         \/ \E e \in todo[w] : Stop(w, e) \/ Start(w, e)
         \/ \E m \in Members[w] : Leave(w, m)

Next ==
    \/ RelaySteps
    \/ \E a \in Apps, to \in {"start", "stop"} : ChangePower(a, to)
    \/ \E w \in Windows :
         \/ BeginFails(w)
         \/ \E e \in todo[w] : StopFails(w, e) \/ StartFails(w, e)
    \/ Restart

Spec == Init /\ [][Next]_vars

\* The Relay keeps working through what it has begun.
FairSpec == Spec /\ WF_vars(RelaySteps)

-----------------------------------------------------------------------------
(***************************************************************************)
(* Properties.                                                             *)
(***************************************************************************)

\* What people chose stands: an App they stopped or froze is never started
\* by a backup that stopped it before, not even across restarts.
ChoiceStands == \A a \in Apps : running[a] => choice[a] # "stop"

\* While a window's archives are taken, nothing that uses what it backs up
\* runs, so the copies agree.
CopiesAgree ==
    \A w \in Windows :
        phase[w] \in {"archiving", "starting"} /\ left[w] # Members[w] =>
            \A a \in Uses[w] : ~running[a]

\* The backups that stop an App stop nothing else, and none is a batch.
StoppedAlone(a) ==
    \A w \in Windows : a \in Uses[w] => Uses[w] = {a} /\ w \notin Batches

\* An App people had running, and that doesn't run, is journalled with its
\* present revision, so wherever the Relay stops it's started again; where
\* backups stop it with others, until a stop, a start or a write fails.
OwedStays ==
    \A a \in Apps :
        choice[a] = "start" /\ ~running[a] /\ (failures = 0 \/ StoppedAlone(a)) =>
            \E w \in Windows :
                [app |-> a, revision |-> revision[a]] \in journal[w]

\* The same of every App, as the comment on #startApps says: "Those that
\* won't stay journaled, for the Relay to start when it next starts".
UnstartedStayJournaled ==
    \A a \in Apps :
        choice[a] = "start" /\ ~running[a] =>
            \E w \in Windows :
                [app |-> a, revision |-> revision[a]] \in journal[w]

\* An App stopped for a backup runs again in the end, unless people
\* changed its power meanwhile, whenever the Relay stops; or a stop, a
\* start or a write failed.
StartedAgain ==
    \A a \in Apps :
        choice[a] = "start" ~> running[a] \/ choice[a] # "start" \/ failures > 0
=============================================================================
