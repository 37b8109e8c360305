------------------------ MODULE ResourceFreezesProofs ------------------------
(***************************************************************************)
(* Proofs about a frozen App, for any number of deletions, containers,     *)
(* restart policies, failures and restarts.                                *)
(*                                                                         *)
(* PolicyKept is not inductive.  That the policy to give back is in the    *)
(* row before it's taken rests on the lanes' copy never being behind the   *)
(* row (Copies), on what is recorded being the policy the App was deployed *)
(* with (Honest), and on giving every one of them back before the row goes *)
(* (GivenBack).  ToldHolds rests on which operations may run while a       *)
(* deletion counts on its freeze (Promised), StaysQuiet on how far         *)
(* quieting has come (Quieter).                                            *)
(***************************************************************************)
EXTENDS ResourceFreezes, TLAPS

\* The lanes' copy of the freeze and its row, and whose it is meanwhile.
Copies ==
    /\ row.undo \subseteq frozen.undo
    /\ LanesBackedByRow
    /\ op.name \in {"lift", "forgotten"} => row = NoFreeze
    /\ op.name \in {"quiet", "starting", "restore"} =>
           frozen.deletion = op.deletion
    /\ op.name \in {"record", "quiet", "starting", "restore"} =>
           op.deletion # None

\* A policy that's recorded is the one the App was deployed with.
Honest == \A u \in frozen.undo : u.policy = chosen[u.container]

\* The policies taken are in the row; those to take are recorded first, and
\* those given back are the App's own.
GivenBack ==
    /\ PolicyKept
    /\ \A c \in asked : [container |-> c, policy |-> chosen[c]] \in row.undo
    /\ asked # {} => Quieting
    /\ Quieting => todo \subseteq Present
    /\ op.name = "restore" =>
           \A c \in Present \ todo : policy[c] = chosen[c]
    /\ op.name \in {"forget", "forgotten"} => Present = {}

\* Nothing that lets go of the freeze runs while a deletion counts on it.
Promised ==
    /\ ToldHolds
    /\ op.name \in {"restore", "lift", "remove", "forget", "forgotten"} =>
           told = {}

\* What quieting has seen to is quiet, and stays so once it's done.
Quieter ==
    /\ Quieting => \A c \in Present \ todo : policy[c] = "no"
    /\ op.name \in {"restore", "lift"} => ~sound
    /\ ~Quieting /\ frozen.deletion # None /\ sound =>
           \A c \in Present : policy[c] = "no" /\ ~up[c]

FreezeInv ==
    FreezeTypeOK /\ Copies /\ Honest /\ GivenBack /\ Promised /\ Quieter






-----------------------------------------------------------------------------
\* The invariant holds before the first freeze.
LEMMA InitFreezeInv == Init => FreezeInv
  <1> SUFFICES ASSUME Init PROVE FreezeInv
    OBVIOUS
  <1> USE FreezeConstants DEF Init, NoFreeze, NoOp
  <1>1. FreezeTypeOK
    <2>1. policy \in [Containers -> Policies \cup {"gone"}]
      OBVIOUS
    <2>2. errors \in 0..MaxErrors /\ stops \in 0..MaxStops
      OBVIOUS
    <2>3. row \in Freezes /\ frozen \in Freezes
      BY DEF Freezes
    <2>4. QED
      BY <2>1, <2>2, <2>3 DEF FreezeTypeOK
  <1>2. Copies /\ Honest
    BY DEF Copies, Honest, LanesBackedByRow
  <1>3. GivenBack /\ Promised /\ Quieter
    BY DEF GivenBack, PolicyKept, Present, Quieting, Promised, ToldHolds, Quieter
  <1>4. QED
    BY <1>1, <1>2, <1>3 DEF FreezeInv

\* What is recorded for a container that's to be quieted: nothing that was
\* there is lost, and its policy is the one the App was deployed with.
LEMMA RecordedHonest ==
    ASSUME FreezeInv, Quieting, NEW c \in todo
    PROVE  /\ Recorded(frozen.undo, c) \in SUBSET Undo
           /\ frozen.undo \subseteq Recorded(frozen.undo, c)
           /\ [container |-> c, policy |-> chosen[c]] \in Recorded(frozen.undo, c)
           /\ \A u \in Recorded(frozen.undo, c) : u.policy = chosen[u.container]
  <1> USE DEF FreezeInv
  <1>1. /\ c \in Present /\ c \in Containers
        /\ chosen[c] \in Policies /\ policy[c] \in Policies
        /\ frozen.undo \subseteq Undo
    BY DEF GivenBack, FreezeTypeOK, Freezes, Present
  <1>2. CASE \E u \in frozen.undo : u.container = c
    <2>1. PICK u \in frozen.undo : u.container = c
      BY <1>2
    <2>2. u = [container |-> c, policy |-> chosen[c]]
      BY <1>1, <2>1 DEF Honest, Undo
    <2>3. QED
      BY <1>1, <1>2, <2>2 DEF Recorded, Honest
  <1>3. CASE ~\E u \in frozen.undo : u.container = c
    <2>1. [container |-> c, policy |-> chosen[c]] \notin row.undo
      BY <1>3 DEF Copies
    <2>2. policy[c] = chosen[c]
      BY <1>1, <2>1 DEF GivenBack, PolicyKept
    <2>3. QED
      BY <1>1, <1>3, <2>2 DEF Recorded, Honest, Undo
  <1>4. QED
    BY <1>2, <1>3

-----------------------------------------------------------------------------
\* Every step keeps the invariant.
LEMMA StepFreezeInv == FreezeInv /\ [Next]_vars => FreezeInv'
  <1> SUFFICES ASSUME FreezeInv, [Next]_vars PROVE FreezeInv'
    OBVIOUS
  <1> USE FreezeConstants DEF FreezeInv, docker, history, bounds, Quieting,
          Present, NoFreeze
  <1>1. ASSUME NEW d \in Deletions, Freeze(d) PROVE FreezeInv'
    <2> USE <1>1 DEF Freeze, FreezeResource, Idle, NoOp
    <2>1. FreezeTypeOK'
      BY DEF FreezeTypeOK, Freezes, Undo
    <2>2. Copies' /\ Honest'
      BY DEF FreezeTypeOK, Freezes, Undo, Copies, Honest,
         LanesBackedByRow
    <2>3. GivenBack'
      BY DEF FreezeTypeOK, Freezes, Undo, Copies, Honest, GivenBack,
         LanesBackedByRow, PolicyKept
    <2>4. Promised' /\ Quieter'
      BY DEF FreezeTypeOK, Freezes, Copies, LanesBackedByRow, GivenBack,
         Promised, ToldHolds, Quieter
    <2>5. QED
      BY <2>1, <2>2, <2>3, <2>4
  <1>2. ASSUME NEW d \in Deletions, Unfreeze(d) PROVE FreezeInv'
    <2> USE <1>2 DEF Unfreeze, MayLetGo, Idle, NoOp
    <2>0. \A u \in frozen.undo : u.container \in Containers
      BY DEF FreezeTypeOK, Freezes, Undo
    <2>1. FreezeTypeOK'
      <3>1. todo' \subseteq Containers
        BY <2>0
      <3>2. /\ UNCHANGED <<policy, up, row, frozen, asked, chosen, errors, stops>>
            /\ told' \subseteq told /\ sound' = FALSE
            /\ op' = [name |-> "restore", deletion |-> d]
        OBVIOUS
      <3> HIDE <1>2
      <3>3. QED
        BY <3>1, <3>2 DEF FreezeTypeOK, Freezes
    <2>2. Copies' /\ Honest'
      BY DEF FreezeTypeOK, Freezes, Undo, Copies, Honest,
         LanesBackedByRow
    <2>3. GivenBack'
      <3>1. \A c \in Present \ todo' : policy[c] = chosen[c]
        <4> TAKE c \in Present \ todo'
        <4>1. \A p : [container |-> c, policy |-> p] \notin frozen.undo
          OBVIOUS
        <4>2. QED
          BY <4>1 DEF GivenBack, PolicyKept, Copies
      <3>2. QED
        BY <3>1 DEF FreezeTypeOK, GivenBack, PolicyKept
    <2>4. Promised' /\ Quieter'
      BY DEF FreezeTypeOK, Freezes, Copies, LanesBackedByRow, GivenBack,
         Promised, ToldHolds, Quieter
    <2>5. QED
      BY <2>1, <2>2, <2>3, <2>4
  <1>3. ASSUME NEW d \in Deletions, UnfreezeNothing(d) PROVE FreezeInv'
    <2> USE <1>3 DEF UnfreezeNothing, MayLetGo, Idle, NoOp, work
    <2>1. FreezeTypeOK'
      BY DEF FreezeTypeOK, Freezes, Undo
    <2>2. Copies' /\ Honest'
      BY DEF FreezeTypeOK, Freezes, Undo, Copies, Honest,
         LanesBackedByRow
    <2>3. GivenBack'
      BY DEF FreezeTypeOK, Freezes, Undo, Copies, Honest, GivenBack,
         LanesBackedByRow, PolicyKept
    <2>4. Promised' /\ Quieter'
      BY DEF FreezeTypeOK, Freezes, Copies, LanesBackedByRow, GivenBack,
         Promised, ToldHolds, Quieter
    <2>5. QED
      BY <2>1, <2>2, <2>3, <2>4
  <1>4. ASSUME Hold PROVE FreezeInv'
    <2> USE <1>4 DEF Hold, GoesTo
    <2>1. FreezeTypeOK'
      BY DEF FreezeTypeOK, Freezes, Undo
    <2>2. Copies' /\ Honest'
      <3>1. row.deletion # None /\ row.deletion = op.deletion
        BY DEF Copies
      <3>2. CASE frozen.deletion = None
        BY <3>1, <3>2 DEF FreezeTypeOK, Freezes, Copies, Honest, LanesBackedByRow
      <3>3. CASE frozen.deletion # None
        BY <3>1, <3>3 DEF FreezeTypeOK, Freezes, Copies, Honest, LanesBackedByRow
      <3>4. QED
        BY <3>2, <3>3
    <2>3. GivenBack'
      BY DEF FreezeTypeOK, Freezes, Undo, Copies, Honest, GivenBack,
         LanesBackedByRow, PolicyKept
    <2>4. Promised' /\ Quieter'
      BY DEF FreezeTypeOK, Freezes, Copies, LanesBackedByRow, GivenBack,
         Promised, ToldHolds, Quieter
    <2>5. QED
      BY <2>1, <2>2, <2>3, <2>4
  <1>5. ASSUME Refuse PROVE FreezeInv'
    <2> USE <1>5 DEF Refuse, Answers, NoOp
    <2>1. FreezeTypeOK'
      BY DEF FreezeTypeOK, Freezes, Undo
    <2>2. Copies' /\ Honest'
      BY DEF FreezeTypeOK, Freezes, Undo, Copies, Honest,
         LanesBackedByRow
    <2>3. GivenBack'
      BY DEF FreezeTypeOK, Freezes, Undo, Copies, Honest, GivenBack,
         LanesBackedByRow, PolicyKept
    <2>4. Promised' /\ Quieter'
      BY DEF FreezeTypeOK, Freezes, Copies, LanesBackedByRow, GivenBack,
         Promised, ToldHolds, Quieter
    <2>5. QED
      BY <2>1, <2>2, <2>3, <2>4
  <1>6. ASSUME Quieted PROVE FreezeInv'
    <2> USE <1>6 DEF Quieted, Answers, NoOp
    <2>1. FreezeTypeOK'
      <3>1. op.name = "quiet" => op.deletion \in Deletions
        BY DEF FreezeTypeOK, Copies
      <3>2. QED
        BY <3>1 DEF FreezeTypeOK, Freezes, Undo
    <2>2. Copies' /\ Honest'
      BY DEF FreezeTypeOK, Freezes, Undo, Copies, Honest,
         LanesBackedByRow
    <2>3. GivenBack'
      BY DEF FreezeTypeOK, Freezes, Undo, Copies, Honest, GivenBack,
         LanesBackedByRow, PolicyKept
    <2>4. Promised' /\ Quieter'
      BY DEF FreezeTypeOK, Freezes, Copies, LanesBackedByRow, GivenBack,
         Promised, ToldHolds, Quieter
    <2>5. QED
      BY <2>1, <2>2, <2>3, <2>4
  <1>7. ASSUME Lift PROVE FreezeInv'
    <2> USE <1>7 DEF Lift, GoesTo
    <2>1. FreezeTypeOK'
      BY DEF FreezeTypeOK, Freezes, Undo
    <2>2. Copies' /\ Honest'
      BY DEF FreezeTypeOK, Freezes, Undo, Copies, Honest,
         LanesBackedByRow
    <2>3. GivenBack'
      <3>1. PolicyKept'
        BY DEF FreezeTypeOK, GivenBack, PolicyKept
      <3>2. asked' = {} 
        BY DEF FreezeTypeOK, GivenBack
      <3>3. QED
        BY <3>1, <3>2 DEF FreezeTypeOK, GivenBack
    <2>4. Promised' /\ Quieter'
      BY DEF FreezeTypeOK, Freezes, Copies, LanesBackedByRow, GivenBack,
         Promised, ToldHolds, Quieter
    <2>5. QED
      BY <2>1, <2>2, <2>3, <2>4
  <1>8. ASSUME LetGo PROVE FreezeInv'
    <2> USE <1>8 DEF LetGo, Answers, NoOp
    <2>1. FreezeTypeOK'
      BY DEF FreezeTypeOK, Freezes, Undo
    <2>2. Copies' /\ Honest'
      BY DEF FreezeTypeOK, Freezes, Undo, Copies, Honest,
         LanesBackedByRow
    <2>3. GivenBack'
      BY DEF FreezeTypeOK, Freezes, Undo, Copies, Honest, GivenBack,
         LanesBackedByRow, PolicyKept
    <2>4. Promised' /\ Quieter'
      BY DEF FreezeTypeOK, Freezes, Copies, LanesBackedByRow, GivenBack,
         Promised, ToldHolds, Quieter
    <2>5. QED
      BY <2>1, <2>2, <2>3, <2>4
  <1>9. ASSUME NEW c \in Containers, Skip(c) PROVE FreezeInv'
    <2> USE <1>9 DEF Skip
    <2>1. FreezeTypeOK'
      BY DEF FreezeTypeOK, Freezes, Undo
    <2>2. Copies' /\ Honest'
      BY DEF FreezeTypeOK, Freezes, Undo, Copies, Honest,
         LanesBackedByRow
    <2>3. GivenBack'
      BY DEF FreezeTypeOK, Freezes, Undo, Copies, Honest, GivenBack,
         LanesBackedByRow, PolicyKept
    <2>4. Promised' /\ Quieter'
      BY DEF FreezeTypeOK, Freezes, Copies, LanesBackedByRow, GivenBack,
         Promised, ToldHolds, Quieter
    <2>5. QED
      BY <2>1, <2>2, <2>3, <2>4
  <1>10. ASSUME NEW c \in Containers, Record(c) PROVE FreezeInv'
    <2> USE <1>10 DEF Record, Recorded
    <2>0. /\ Recorded(frozen.undo, c) \in SUBSET Undo
          /\ frozen.undo \subseteq Recorded(frozen.undo, c)
          /\ [container |-> c, policy |-> chosen[c]] \in Recorded(frozen.undo, c)
          /\ \A u \in Recorded(frozen.undo, c) : u.policy = chosen[u.container]
      BY RecordedHonest
    <2> HIDE DEF Recorded
    <2>1. FreezeTypeOK'
      BY <2>0 DEF FreezeTypeOK, Freezes, Copies, LanesBackedByRow
    <2>2. Copies' /\ Honest'
      BY <2>0 DEF FreezeTypeOK, Freezes, Copies, Honest, LanesBackedByRow
    <2>3. GivenBack'
      BY <2>0 DEF FreezeTypeOK, Freezes, Copies, GivenBack, PolicyKept
    <2>4. Promised' /\ Quieter'
      BY DEF FreezeTypeOK, Freezes, Copies, LanesBackedByRow, GivenBack,
         Promised, ToldHolds, Quieter
    <2>5. QED
      BY <2>1, <2>2, <2>3, <2>4
  <1>11. ASSUME NEW c \in Containers, SetNo(c) PROVE FreezeInv'
    <2> USE <1>11 DEF SetNo
    <2>1. FreezeTypeOK'
      BY DEF FreezeTypeOK, Freezes, Undo
    <2>2. Copies' /\ Honest'
      BY DEF FreezeTypeOK, Freezes, Undo, Copies, Honest,
         LanesBackedByRow
    <2>3. GivenBack'
      BY DEF FreezeTypeOK, Freezes, Undo, Copies, Honest, GivenBack,
         LanesBackedByRow, PolicyKept
    <2>4. Promised' /\ Quieter'
      BY DEF FreezeTypeOK, Freezes, Copies, LanesBackedByRow, GivenBack,
         Promised, ToldHolds, Quieter
    <2>5. QED
      BY <2>1, <2>2, <2>3, <2>4
  <1>12. ASSUME NEW c \in Containers, Restore(c) PROVE FreezeInv'
    <2> USE <1>12 DEF Restore
    <2>1. FreezeTypeOK'
      BY DEF FreezeTypeOK, Freezes, Undo
    <2>2. Copies' /\ Honest'
      BY DEF FreezeTypeOK, Freezes, Undo, Copies, Honest,
         LanesBackedByRow
    <2>3. GivenBack'
      BY DEF FreezeTypeOK, Freezes, Undo, Copies, Honest, GivenBack,
         LanesBackedByRow, PolicyKept
    <2>4. Promised' /\ Quieter'
      BY DEF FreezeTypeOK, Freezes, Copies, LanesBackedByRow, GivenBack,
         Promised, ToldHolds, Quieter
    <2>5. QED
      BY <2>1, <2>2, <2>3, <2>4
  <1>13. ASSUME Delete PROVE FreezeInv'
    <2> USE <1>13 DEF Delete, Idle, NoOp
    <2>1. FreezeTypeOK'
      BY DEF FreezeTypeOK, Freezes, Undo
    <2>2. Copies' /\ Honest'
      BY DEF FreezeTypeOK, Freezes, Undo, Copies, Honest,
         LanesBackedByRow
    <2>3. GivenBack'
      BY DEF FreezeTypeOK, Freezes, Undo, Copies, Honest, GivenBack,
         LanesBackedByRow, PolicyKept
    <2>4. Promised' /\ Quieter'
      BY DEF FreezeTypeOK, Freezes, Copies, LanesBackedByRow, GivenBack,
         Promised, ToldHolds, Quieter
    <2>5. QED
      BY <2>1, <2>2, <2>3, <2>4
  <1>14. ASSUME Remove PROVE FreezeInv'
    <2> USE <1>14 DEF Remove, GoesTo
    <2>1. FreezeTypeOK'
      BY DEF FreezeTypeOK, Freezes, Undo
    <2>2. Copies' /\ Honest'
      BY DEF FreezeTypeOK, Freezes, Undo, Copies, Honest,
         LanesBackedByRow
    <2>3. GivenBack'
      BY DEF FreezeTypeOK, Freezes, Undo, Copies, Honest, GivenBack,
         LanesBackedByRow, PolicyKept
    <2>4. Promised' /\ Quieter'
      BY DEF FreezeTypeOK, Freezes, Copies, LanesBackedByRow, GivenBack,
         Promised, ToldHolds, Quieter
    <2>5. QED
      BY <2>1, <2>2, <2>3, <2>4
  <1>15. ASSUME ForgetRow PROVE FreezeInv'
    <2> USE <1>15 DEF ForgetRow, GoesTo
    <2>1. FreezeTypeOK'
      BY DEF FreezeTypeOK, Freezes, Undo
    <2>2. Copies' /\ Honest'
      BY DEF FreezeTypeOK, Freezes, Undo, Copies, Honest,
         LanesBackedByRow
    <2>3. GivenBack'
      <3>1. PolicyKept'
        BY DEF FreezeTypeOK, GivenBack, PolicyKept
      <3>2. asked' = {} 
        BY DEF FreezeTypeOK, GivenBack
      <3>3. QED
        BY <3>1, <3>2 DEF FreezeTypeOK, GivenBack
    <2>4. Promised' /\ Quieter'
      BY DEF FreezeTypeOK, Freezes, Copies, LanesBackedByRow, GivenBack,
         Promised, ToldHolds, Quieter
    <2>5. QED
      BY <2>1, <2>2, <2>3, <2>4
  <1>16. ASSUME Forget PROVE FreezeInv'
    <2> USE <1>16 DEF Forget, Answers, NoOp
    <2>1. FreezeTypeOK'
      BY DEF FreezeTypeOK, Freezes, Undo
    <2>2. Copies' /\ Honest'
      BY DEF FreezeTypeOK, Freezes, Undo, Copies, Honest,
         LanesBackedByRow
    <2>3. GivenBack'
      BY DEF FreezeTypeOK, Freezes, Undo, Copies, Honest, GivenBack,
         LanesBackedByRow, PolicyKept
    <2>4. Promised' /\ Quieter'
      BY DEF FreezeTypeOK, Freezes, Copies, LanesBackedByRow, GivenBack,
         Promised, ToldHolds, Quieter
    <2>5. QED
      BY <2>1, <2>2, <2>3, <2>4
  <1>17. ASSUME NEW new \in [Containers -> Policies], Deploy(new) PROVE FreezeInv'
    <2> USE <1>17 DEF Deploy, Idle, NoOp, MayDeploy, work
    <2>1. FreezeTypeOK'
      BY DEF FreezeTypeOK, Freezes, Undo
    <2>2. Copies' /\ Honest'
      BY DEF FreezeTypeOK, Freezes, Undo, Copies, Honest,
         LanesBackedByRow
    <2>3. GivenBack'
      BY DEF FreezeTypeOK, Freezes, Undo, Copies, Honest, GivenBack,
         LanesBackedByRow, PolicyKept
    <2>4. Promised' /\ Quieter'
      BY DEF FreezeTypeOK, Freezes, Copies, LanesBackedByRow, GivenBack,
         Promised, ToldHolds, Quieter
    <2>5. QED
      BY <2>1, <2>2, <2>3, <2>4
  <1>18. ASSUME Fail PROVE FreezeInv'
    <2> USE <1>18 DEF Fail, Answers, NoOp, Recorded
    <2>0. /\ frozen' \in Freezes /\ frozen'.deletion = frozen.deletion
          /\ frozen.undo \subseteq frozen'.undo
          /\ \A u \in frozen'.undo : u.policy = chosen[u.container]
          /\ frozen.deletion = None => frozen'.undo = {}
      <3>1. CASE frozen' = frozen
        BY <3>1 DEF FreezeTypeOK, Honest
      <3>2. ASSUME NEW c \in todo, Quieting,
                   frozen' = [frozen EXCEPT !.undo = Recorded(@, c)]
            PROVE  /\ frozen' \in Freezes
                   /\ frozen'.deletion = frozen.deletion
                   /\ frozen'.undo = Recorded(frozen.undo, c)
                   /\ frozen.deletion # None
        <4>1. Recorded(frozen.undo, c) \in SUBSET Undo
          BY <3>2, RecordedHonest
        <4> HIDE DEF Recorded
        <4>2. QED
          BY <3>2, <4>1 DEF FreezeTypeOK, Freezes, Copies
      <3>3. CASE \E c \in todo :
                    /\ Quieting
                    /\ frozen' = [frozen EXCEPT !.undo = Recorded(@, c)]
        <4>1. PICK c \in todo :
                     /\ Quieting
                     /\ frozen' = [frozen EXCEPT !.undo = Recorded(@, c)]
          BY <3>3
        <4>2. /\ frozen.undo \subseteq Recorded(frozen.undo, c)
              /\ \A u \in Recorded(frozen.undo, c) :
                     u.policy = chosen[u.container]
          BY <4>1, RecordedHonest
        <4> HIDE DEF Recorded
        <4>3. QED
          BY <3>2, <4>1, <4>2
      <3>4. QED
        BY <3>1, <3>3
    <2> HIDE DEF Recorded
    <2>1. FreezeTypeOK'
      BY <2>0 DEF FreezeTypeOK
    <2>2. Copies' /\ Honest'
      BY <2>0 DEF FreezeTypeOK, Copies, Honest, LanesBackedByRow
    <2>3. GivenBack'
      BY <2>0 DEF FreezeTypeOK, GivenBack, PolicyKept
    <2>4. Promised' /\ Quieter'
      BY <2>0 DEF FreezeTypeOK, Promised, ToldHolds, Quieter
    <2>5. QED
      BY <2>1, <2>2, <2>3, <2>4
  <1>19. ASSUME NEW reboot \in BOOLEAN, Restart(reboot) PROVE FreezeInv'
    <2> USE <1>19 DEF Restart, Reapply, NoOp
    <2>1. FreezeTypeOK'
      BY DEF FreezeTypeOK, Freezes, Undo
    <2>2. Copies' /\ Honest'
      BY DEF FreezeTypeOK, Freezes, Undo, Copies, Honest,
         LanesBackedByRow
    <2>3. GivenBack'
      BY DEF FreezeTypeOK, Freezes, Undo, Copies, Honest, GivenBack,
         LanesBackedByRow, PolicyKept
    <2>4. Promised' /\ Quieter'
      BY DEF FreezeTypeOK, Freezes, Copies, LanesBackedByRow, GivenBack,
         Promised, ToldHolds, Quieter
    <2>5. QED
      BY <2>1, <2>2, <2>3, <2>4
  <1>20. CASE UNCHANGED vars
    BY <1>20 DEF vars, work, FreezeTypeOK, Copies, LanesBackedByRow, Honest,
       GivenBack, PolicyKept, Promised, ToldHolds, Quieter
  <1>21. QED
    BY <1>1, <1>2, <1>3, <1>4, <1>5, <1>6, <1>7, <1>8, <1>9, <1>10, <1>11,
       <1>12, <1>13, <1>14, <1>15, <1>16, <1>17, <1>18, <1>19, <1>20 DEF Next

-----------------------------------------------------------------------------
(***************************************************************************)
(* Theorems.                                                               *)
(***************************************************************************)

\* The inductive invariant of the freeze: the row, the lanes' copy of it and
\* the containers' policies agree as far as freezing and letting go have come.
THEOREM FreezeInvariant == Spec => []FreezeInv
  <1>1. Init => FreezeInv
    BY InitFreezeInv
  <1>2. FreezeInv /\ [Next]_vars => FreezeInv'
    BY StepFreezeInv
  <1>3. QED
    BY <1>1, <1>2, PTL DEF Spec

\* The row, the lanes' copy and the operation in hand keep to their types,
\* and a freeze that is no deletion's has nothing to undo.
THEOREM FreezeTypes == Spec => []FreezeTypeOK
  <1>1. FreezeInv => FreezeTypeOK
    BY DEF FreezeInv
  <1>2. QED
    BY <1>1, FreezeInvariant, PTL

\* No restart policy that freezing took is lost: the row holds it until the
\* container has it back, wherever quieting or letting go stops.
THEOREM PoliciesKept == Spec => []PolicyKept
  <1>1. FreezeInv => PolicyKept
    BY DEF FreezeInv, GivenBack
  <1>2. QED
    BY <1>1, FreezeInvariant, PTL

\* A deletion told that the App is frozen for it holds the freeze until it
\* lets go or deletes the App.
THEOREM ToldKeepsHolding == Spec => []ToldHolds
  <1>1. FreezeInv => ToldHolds
    BY DEF FreezeInv, Promised
  <1>2. QED
    BY <1>1, FreezeInvariant, PTL

\* What the lanes refuse work for, a restart finds in the row.
THEOREM LanesAreBacked == Spec => []LanesBackedByRow
  <1>1. FreezeInv => LanesBackedByRow
    BY DEF FreezeInv, Copies
  <1>2. QED
    BY <1>1, FreezeInvariant, PTL

\* Once it's quieted, a frozen App stays quiet through restarts of the Relay
\* and its host.
THEOREM QuietStays == Spec => []StaysQuiet
  <1>1. FreezeInv => StaysQuiet
    BY DEF FreezeInv, Quieter, StaysQuiet, Quieting, Idle, NoOp
  <1>2. QED
    BY <1>1, FreezeInvariant, PTL

=============================================================================
