--------------------------- MODULE ResourceFreezes ---------------------------
(***************************************************************************)
(* The freeze of an App for its deletion (apps/relay/src/                  *)
(* resource-freezes.ts ResourceFreezes): its row (effect/state.ts          *)
(* relay_resource_freezes), what the lanes see of it in memory, and the    *)
(* App's containers, whose restart policies freezing takes and letting go  *)
(* gives back (apps.ts quietForDeletion, restoreRestartPolicies).          *)
(*                                                                         *)
(* freeze, unfreeze, app.delete and app.deploy take the App whole, so one  *)
(* of them runs at a time; each of its steps may fail, and the Relay may   *)
(* stop between any two.                                                   *)
(***************************************************************************)
EXTENDS Integers, FiniteSets

CONSTANTS
    Deletions,   \* deletions of the App that Hearth has begun
    Containers,  \* the App's containers
    Policies,    \* restart policies, "no" among them
    None,        \* no deletion
    MaxErrors,   \* bound on statements of SQLite and requests of Docker failing
    MaxStops     \* bound on restarts of the Relay, with its host or alone

ASSUME FreezeConstants ==
    /\ IsFiniteSet(Deletions) /\ IsFiniteSet(Containers)
    /\ "no" \in Policies /\ "gone" \notin Policies
    /\ None \notin Deletions
    /\ {MaxErrors, MaxStops} \subseteq Nat

VARIABLES
    policy,   \* the container's restart policy, or "gone"
    up,       \* whether the container runs
    row,      \* relay_resource_freezes: the deletion and the undo it holds
    frozen,   \* #frozen, as the lanes see it
    op,       \* what runs on the App: its name and deletion
    todo,     \* the containers it has still to see to
    asked,    \* the container whose change it recorded, and is to make
    chosen,   \* history: the policy the App was deployed with
    told,     \* history: deletions told it's frozen, that want it so still
    sound,    \* history: no quieting failed since the last began
    errors, stops

docker == <<policy, up>>
work == <<op, todo, asked>>
history == <<chosen, told, sound>>
bounds == <<errors, stops>>
vars == <<docker, row, frozen, work, history, bounds>>

\* What a freeze holds: its deletion, and policies to give back.
NoFreeze == [deletion |-> None, undo |-> {}]
Undo == [container : Containers, policy : Policies]
Freezes == [deletion : Deletions \cup {None}, undo : SUBSET Undo]
NoOp == [name |-> "none", deletion |-> None]

\* The states of the row, its copy and the operation in hand; a freeze that is
\* no deletion's has nothing to undo (unfreezeResource).
FreezeTypeOK ==
    /\ policy \in [Containers -> Policies \cup {"gone"}]
    /\ up \in [Containers -> BOOLEAN]
    /\ row \in Freezes /\ frozen \in Freezes
    /\ row.deletion = None => row.undo = {}
    /\ frozen.deletion = None => frozen.undo = {}
    /\ op \in [name : {"none", "record", "quiet", "restore", "lift",
                      "remove", "forget", "forgotten", "starting"},
              deletion : Deletions \cup {None}]
    /\ todo \subseteq Containers
    /\ asked \subseteq Containers
    /\ chosen \in [Containers -> Policies]
    /\ told \subseteq Deletions
    /\ sound \in BOOLEAN
    /\ errors \in 0..MaxErrors
    /\ stops \in 0..MaxStops

Init ==
    /\ chosen \in [Containers -> Policies]
    /\ policy = chosen
    /\ up = [c \in Containers |-> TRUE]
    /\ row = NoFreeze
    /\ frozen = NoFreeze
    /\ op = NoOp
    /\ todo = {}
    /\ asked = {}
    /\ told = {}
    /\ sound = FALSE
    /\ errors = 0
    /\ stops = 0

Idle == op = NoOp
Present == {c \in Containers : policy[c] # "gone"}

\* The operation goes on to its next part, or answers.
GoesTo(name) == op' = [op EXCEPT !.name = name]
Answers == op' = NoOp /\ todo' = {} /\ asked' = {}

-----------------------------------------------------------------------------
(***************************************************************************)
(* resource.freeze.                                                        *)
(***************************************************************************)

\* freezeResource: the row stays with the deletion that made it.
FreezeResource(d) ==
    /\ row' = IF row.deletion = None THEN [row EXCEPT !.deletion = d] ELSE row
    /\ op' = [name |-> "record", deletion |-> d]

Freeze(d) ==
    /\ Idle
    /\ FreezeResource(d)
    /\ UNCHANGED <<docker, frozen, todo, asked, history, bounds>>

\* The answer names the holder: another deletion's freeze is refused, this
\* one's is told to the lanes, and #apply begins.
Hold ==
    /\ op.name = "record"
    /\ row.deletion = op.deletion
    /\ frozen' = IF frozen.deletion = None
                 THEN [deletion |-> op.deletion, undo |-> {}]
                 ELSE frozen
    /\ GoesTo("quiet")
    /\ todo' = Present
    /\ sound' = TRUE
    /\ UNCHANGED <<docker, row, asked, chosen, told, bounds>>

Refuse ==
    /\ op.name = "record"
    /\ row.deletion # op.deletion
    /\ Answers
    /\ UNCHANGED <<docker, row, frozen, history, bounds>>

\* What was recorded first wins.
Recorded(undo, c) ==
    IF \E u \in undo : u.container = c
    THEN undo
    ELSE undo \cup {[container |-> c, policy |-> policy[c]]}

Quieting == op.name \in {"quiet", "starting"}

\* A container whose policy is "no" already needs nothing.
Skip(c) ==
    /\ Quieting
    /\ c \in todo
    /\ asked = {}
    /\ policy[c] = "no"
    /\ todo' = todo \ {c}
    /\ UNCHANGED <<docker, row, frozen, op, asked, history, bounds>>

\* Faulty variant: only the lanes' copy is kept.
RecordInMemory(c) ==
    /\ Quieting
    /\ c \in todo
    /\ asked = {}
    /\ policy[c] # "no"
    /\ frozen' = [frozen EXCEPT !.undo = Recorded(@, c)]
    /\ asked' = {c}
    /\ UNCHANGED <<docker, row, op, todo, history, bounds>>

\* Another's policy is kept in memory and in the row, before it's changed.
Record(c) ==
    /\ Quieting
    /\ c \in todo
    /\ asked = {}
    /\ policy[c] # "no"
    /\ frozen' = [frozen EXCEPT !.undo = Recorded(@, c)]
    /\ row' = [row EXCEPT !.undo = Recorded(frozen.undo, c)]
    /\ asked' = {c}
    /\ UNCHANGED <<docker, op, todo, history, bounds>>

\* setRestartPolicy(id, "no")
SetNo(c) ==
    /\ Quieting
    /\ c \in asked
    /\ policy' = [policy EXCEPT ![c] = "no"]
    /\ asked' = {}
    /\ todo' = todo \ {c}
    /\ UNCHANGED <<up, row, frozen, op, history, bounds>>

\* The App stops, and the freeze is answered; at startup, the Relay goes on.
Quieted ==
    /\ Quieting
    /\ todo = {}
    /\ up' = [c \in Containers |-> FALSE]
    /\ Answers
    /\ told' = IF op.name = "quiet" THEN told \cup {op.deletion} ELSE told
    /\ UNCHANGED <<policy, row, frozen, chosen, sound, bounds>>

-----------------------------------------------------------------------------
(***************************************************************************)
(* resource.unfreeze.                                                      *)
(***************************************************************************)

\* Faulty variant: whoever asks lets it go.
MayLetGoAny(d) == frozen.deletion # None

\* Only the deletion that holds it lets it go.
MayLetGo(d) == frozen.deletion = d

Unfreeze(d) ==
    /\ Idle
    /\ MayLetGo(d)
    /\ op' = [name |-> "restore", deletion |-> d]
    /\ todo' = {u.container : u \in frozen.undo}
    /\ told' = told \ {d}
    /\ sound' = FALSE
    /\ UNCHANGED <<docker, row, frozen, asked, chosen, bounds>>

\* Another is told whether it's frozen, and nothing more.
UnfreezeNothing(d) ==
    /\ Idle
    /\ ~MayLetGo(d)
    /\ told' = told \ {d}
    /\ UNCHANGED <<docker, row, frozen, work, chosen, sound, bounds>>

\* Each policy is given back; a container that's gone is passed over.
Restore(c) ==
    /\ op.name = "restore"
    /\ c \in todo
    /\ todo' = todo \ {c}
    /\ \E u \in frozen.undo :
         /\ u.container = c
         /\ policy' = [policy EXCEPT ![c] = IF @ = "gone" THEN @ ELSE u.policy]
    /\ UNCHANGED <<up, row, frozen, op, asked, history, bounds>>

\* unfreezeResource deletes the row, if it's this deletion's ...
Lift ==
    /\ op.name = "restore"
    /\ todo = {}
    /\ row' = IF row.deletion = op.deletion THEN NoFreeze ELSE row
    /\ GoesTo("lift")
    /\ UNCHANGED <<docker, frozen, todo, asked, history, bounds>>

\* ... and then the lanes are told.
LetGo ==
    /\ op.name = "lift"
    /\ frozen' = NoFreeze
    /\ Answers
    /\ UNCHANGED <<docker, row, history, bounds>>

-----------------------------------------------------------------------------
(***************************************************************************)
(* app.delete and app.deploy.                                              *)
(***************************************************************************)

\* apps.delete removes the containers; the freeze is forgotten after.
Delete ==
    /\ Idle
    /\ op' = [name |-> "remove", deletion |-> None]
    /\ told' = {}
    /\ UNCHANGED <<docker, row, frozen, todo, asked, chosen, sound, bounds>>

Remove ==
    /\ op.name = "remove"
    /\ policy' = [c \in Containers |-> "gone"]
    /\ up' = [c \in Containers |-> FALSE]
    /\ GoesTo("forget")
    /\ UNCHANGED <<row, frozen, todo, asked, history, bounds>>

\* forget: the row, then the lanes.
ForgetRow ==
    /\ op.name = "forget"
    /\ row' = NoFreeze
    /\ GoesTo("forgotten")
    /\ UNCHANGED <<docker, frozen, todo, asked, history, bounds>>

Forget ==
    /\ op.name = "forgotten"
    /\ frozen' = NoFreeze
    /\ Answers
    /\ UNCHANGED <<docker, row, history, bounds>>

\* refusal: a deploy may not run on a frozen App.
MayDeploy == frozen.deletion = None

\* A deployment, in one step: containers of its own, with the policies it's
\* deployed with (apps.ts deploy, #runDeployment).
Deploy(new) ==
    /\ Idle
    /\ MayDeploy
    /\ Present # {}
    /\ chosen' = new
    /\ policy' = new
    /\ up' = [c \in Containers |-> TRUE]
    /\ UNCHANGED <<row, frozen, work, told, sound, bounds>>

-----------------------------------------------------------------------------
(***************************************************************************)
(* Failures.                                                               *)
(***************************************************************************)

\* A step fails, and with it the operation.  At startup it's logged, and
\* the App stays frozen.  Telling the lanes can't fail.  The undo in memory
\* may be ahead of the row's.
Fail ==
    /\ errors < MaxErrors
    /\ op.name \notin {"none", "lift", "forgotten"}
    /\ errors' = errors + 1
    /\ \/ UNCHANGED frozen
       \/ \E c \in todo : /\ Quieting
                          /\ asked = {}
                          /\ policy[c] # "no"
                          /\ frozen' = [frozen EXCEPT !.undo = Recorded(@, c)]
    /\ sound' = (sound /\ ~Quieting)
    /\ Answers
    /\ UNCHANGED <<docker, row, chosen, told, stops>>

\* Faulty variant: what is frozen is only remembered.
ReapplyNothing == op' = NoOp /\ todo' = {}

\* reapply: a frozen App is quieted again before any work is admitted.
Reapply ==
    IF row.deletion = None
    THEN op' = NoOp /\ todo' = {}
    ELSE op' = [name |-> "starting", deletion |-> row.deletion]
         /\ todo' = Present

\* The Relay stops and starts again, alone or with its host: Docker then
\* starts every container whose policy has it do so.
Restart(reboot) ==
    /\ stops < MaxStops
    /\ stops' = stops + 1
    /\ up' = IF reboot
             THEN [c \in Containers |-> policy[c] \notin {"no", "gone"}]
             ELSE up
    /\ frozen' = row
    /\ asked' = {}
    /\ Reapply
    /\ sound' = TRUE
    /\ UNCHANGED <<policy, row, chosen, told, errors>>

Next ==
    \/ \E d \in Deletions : Freeze(d) \/ Unfreeze(d) \/ UnfreezeNothing(d)
    \/ Hold \/ Refuse \/ Quieted \/ Lift \/ LetGo
    \/ \E c \in Containers : Skip(c) \/ Record(c) \/ SetNo(c) \/ Restore(c)
    \/ Delete \/ Remove \/ ForgetRow \/ Forget
    \/ \E new \in [Containers -> Policies] : Deploy(new)
    \/ Fail
    \/ \E reboot \in BOOLEAN : Restart(reboot)

Spec == Init /\ [][Next]_vars

-----------------------------------------------------------------------------
(***************************************************************************)
(* Properties.                                                             *)
(***************************************************************************)

\* A restart policy freezing took is never lost: while a container's
\* differs from the one it was deployed with, the row holds that one,
\* whatever failed and wherever the Relay stopped.
PolicyKept ==
    \A c \in Present :
        policy[c] # chosen[c] =>
            [container |-> c, policy |-> chosen[c]] \in row.undo

\* A deletion told that the App is frozen for it holds it, in the row and
\* for the lanes, until it lets go or deletes the App: no restart and no
\* other deletion takes the freeze from it.
ToldHolds ==
    \A d \in told : row.deletion = d /\ frozen.deletion = d

\* What the lanes refuse work for is in the row, so no freeze is one that
\* a restart would drop: a deletion's final backup counts on it.
LanesBackedByRow ==
    frozen.deletion # None /\ op.name \notin {"lift", "forgotten"} =>
        row.deletion = frozen.deletion

\* Once quieted, a frozen App stays quiet: no container runs, none would
\* start with Docker, through restarts of the Relay and its host; until it
\* is let go, or quieting it again fails.
StaysQuiet ==
    Idle /\ frozen.deletion # None /\ sound =>
        \A c \in Present : policy[c] = "no" /\ ~up[c]

\* "Read from the Relay's state before any work is admitted, and kept in
\* step with it".
KeptInStep == Idle => frozen.deletion = row.deletion

=============================================================================
