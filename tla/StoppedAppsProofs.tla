-------------------------- MODULE StoppedAppsProofs --------------------------
(***************************************************************************)
(* Proofs about the Apps that stopped backups stop and start again, for    *)
(* any number of Apps, windows, members, changes, failures and restarts.   *)
(*                                                                         *)
(* None of the three properties is inductive.  That a person's choice      *)
(* stands rests on what an entry with an App's present revision says of it *)
(* (Entered); that copies agree on who holds an App's lane (Lanes) and on  *)
(* how far a window has stopped its Apps (Stopping); that an App owed a    *)
(* start stays journalled on what a window has still to start (Owing).     *)
(***************************************************************************)
EXTENDS StoppedApps, TLAPS

\* The Apps a window keeps, in its journal and in memory.
Kept(w) == journal[w] \cup todo[w] \cup stopped[w] \cup unstarted[w]

\* An entry that no one's change has overtaken is of an App that nobody has
\* stopped, or is changing.
Entered ==
    \A w \in Windows : \A e \in Kept(w) :
        /\ e.app \in Uses[w]
        /\ e.revision <= revision[e.app]
        /\ StillOwed(e) => choice[e.app] # "stop" /\ person[e.app] = "none"

\* An App's lane is held by one window, or by a person; at startup, by the
\* windows that are settled.
Lanes ==
    /\ \A v, w \in Windows :
           v # w /\ phase[v] \notin {"none", "recovering"} /\ phase[w] # "none" =>
               Uses[v] \cap Uses[w] = {}
    /\ \A a \in Apps : person[a] # "none" =>
           \A w \in Windows : a \in Uses[w] => phase[w] = "none"

\* What a window has stopped, and has still to stop.
Stopping ==
    \A w \in Windows :
        /\ phase[w] = "stopping" =>
               \A a \in Uses[w] : running[a] => \E e \in todo[w] : e.app = a
        /\ phase[w] = "archiving" =>
               todo[w] = {} /\ \A a \in Uses[w] : ~running[a]
        /\ phase[w] = "starting" => left[w] = Members[w]
        /\ phase[w] = "undoing" => failures > 0
        /\ phase[w] \in {"stopping", "archiving"} =>
               \A e \in todo[w] \cup stopped[w] : e \in journal[w] /\ StillOwed(e)
        /\ phase[w] = "none" => stopped[w] = {}

\* An App that is owed a start whatever failed.
Watched(a) == failures = 0 \/ StoppedAlone(a)

\* The entry's App is down, and a window is to start it.
Owed(e) ==
    /\ StillOwed(e)
    /\ choice[e.app] = "start"
    /\ ~running[e.app]
    /\ Watched(e.app)

\* What a window that is starting its Apps has still to start.
ToStart ==
    \A w \in Windows : Starting(w) =>
        \A e \in journal[w] : Owed(e) => e \in todo[w] \cup unstarted[w]

\* Until it begins to, its journal holds all it stops, or it stops nothing.
ToStop ==
    \A w \in Windows : phase[w] \in {"stopping", "archiving"} =>
        \/ journal[w] = todo[w] \cup stopped[w]
        \/ /\ todo[w] \cup stopped[w] = {}
           /\ failures = 0 => journal[w] = {}

\* Without a failure nothing is left to start once a window ends.
Settled ==
    \A w \in Windows : failures = 0 =>
        /\ unstarted[w] = {}
        /\ phase[w] = "none" => journal[w] = {}

\* What is owed a start is journalled.
Owing == OwedStays /\ ToStart /\ ToStop /\ Settled

StoppedInv ==
    /\ StoppedTypeOK
    /\ ChoiceStands
    /\ Entered
    /\ Lanes
    /\ Stopping
    /\ Owing

-----------------------------------------------------------------------------
\* The invariant holds before the first backup.
LEMMA InitStoppedInv == Init => StoppedInv
  <1> SUFFICES ASSUME Init PROVE StoppedInv
    OBVIOUS
  <1> USE StoppedConstants DEF Init
  <1>1. StoppedTypeOK
    <2>1. changes \in 0..MaxChanges /\ failures \in 0..MaxFailures /\ stops \in 0..MaxStops
      OBVIOUS
    <2>2. QED
      BY <2>1 DEF StoppedTypeOK
  <1>2. ChoiceStands /\ Entered /\ Lanes /\ Stopping
    BY DEF ChoiceStands, Entered, Kept, Lanes, Stopping
  <1>3. Owing
    BY DEF Owing, OwedStays, ToStart, ToStop, Settled, Starting
  <1>4. QED
    BY <1>1, <1>2, <1>3 DEF StoppedInv

\* The entries a window journals: the Apps that run, of those it stops, with
\* the revision each has.
LEMMA RunningEntriesAre ==
    ASSUME StoppedTypeOK, NEW w \in Windows
    PROVE  /\ RunningEntries(w) \in SUBSET Entries
           /\ \A e \in RunningEntries(w) :
                  e.app \in Uses[w] /\ running[e.app] /\ e.revision = revision[e.app]
           /\ \A a \in Uses[w] : running[a] =>
                  [app |-> a, revision |-> revision[a]] \in RunningEntries(w)
  <1>1. Uses[w] \subseteq Apps
    BY StoppedConstants
  <1>2. \A a \in Apps : revision[a] \in Nat
    BY DEF StoppedTypeOK
  <1>3. QED
    BY <1>1, <1>2 DEF RunningEntries, Entries

-----------------------------------------------------------------------------
\* Every step keeps the invariant.
LEMMA StepStoppedInv == StoppedInv /\ [Next]_vars => StoppedInv'
  <1> SUFFICES ASSUME StoppedInv, [Next]_vars PROVE StoppedInv'
    OBVIOUS
  <1> USE StoppedConstants DEF StoppedInv, power, window, bounds, StillOwed
  <1>1. ASSUME NEW a \in Apps, NEW to \in {"start", "stop"}, ChangePower(a, to)
        PROVE  StoppedInv'
    <2> USE <1>1 DEF ChangePower, Up, Free
    <2>1. StoppedTypeOK'
      BY DEF StoppedTypeOK, Entries
    <2>2. ChoiceStands'
      BY DEF StoppedTypeOK, Entries, ChoiceStands, Entered, Kept
    <2>3. Entered'
      BY DEF StoppedTypeOK, Entries, ChoiceStands, Entered, Kept, Lanes
    <2>4. Lanes'
      BY DEF StoppedTypeOK, Lanes
    <2>5. Stopping'
      BY DEF StoppedTypeOK, Entries, Stopping, Lanes, Entered, Kept
    <2>6. OwedStays' /\ ToStart'
      BY DEF StoppedTypeOK, Entries, Owing, OwedStays, ToStart, Starting,
         Owed, Watched, Stopping, Lanes, Entered, Kept
    <2>7. ToStop' /\ Settled'
      BY DEF StoppedTypeOK, Entries, Owing, ToStop, Settled, Stopping
    <2>8. QED
      BY <2>1, <2>2, <2>3, <2>4, <2>5, <2>6, <2>7 DEF Owing
  <1>2. ASSUME NEW a \in Apps, ApplyPower(a) PROVE StoppedInv'
    <2> USE <1>2 DEF ApplyPower
    <2>1. StoppedTypeOK'
      BY DEF StoppedTypeOK, Entries
    <2>2. ChoiceStands'
      BY DEF StoppedTypeOK, Entries, ChoiceStands, Entered, Kept
    <2>3. Entered'
      BY DEF StoppedTypeOK, Entries, ChoiceStands, Entered, Kept, Lanes
    <2>4. Lanes'
      BY DEF StoppedTypeOK, Lanes
    <2>5. Stopping'
      BY DEF StoppedTypeOK, Entries, Stopping, Lanes, Entered, Kept
    <2>6. OwedStays' /\ ToStart'
      <3>0. \A v \in Windows : \A f \in journal[v] :
                f \in Entries /\ f.app \in Apps /\ f.app \in Uses[v]
        BY DEF StoppedTypeOK, Entries, Entered, Kept
      <3>1. /\ \A b \in Apps : choice'[b] = "start" /\ ~running'[b] =>
                   choice[b] = "start" /\ ~running[b]
            /\ UNCHANGED <<revision, journal, phase, todo, unstarted, failures>>
        BY DEF StoppedTypeOK
      <3> HIDE <1>2
      <3>2. OwedStays'
        BY <3>1 DEF Owing, OwedStays
      <3>3. ToStart'
        BY <3>0, <3>1 DEF Owing, ToStart, Starting, Owed, Watched
      <3>4. QED
        BY <3>2, <3>3
    <2>7. ToStop' /\ Settled'
      BY DEF StoppedTypeOK, Entries, Owing, ToStop, Settled, Stopping
    <2>8. QED
      BY <2>1, <2>2, <2>3, <2>4, <2>5, <2>6, <2>7 DEF Owing
  <1>3. ASSUME NEW w \in Windows, Begin(w) PROVE StoppedInv'
    <2> USE <1>3 DEF Begin, Up, Free, Journalled
    <2> DEFINE R == RunningEntries(w)
    <2>0. /\ R \in SUBSET Entries
          /\ \A e \in R : e.app \in Uses[w] /\ running[e.app] /\ StillOwed(e)
          /\ \A a \in Uses[w] : running[a] =>
                 [app |-> a, revision |-> revision[a]] \in R
      BY RunningEntriesAre
    <2> HIDE DEF R
    <2>9. /\ todo' = [todo EXCEPT ![w] = R]
          /\ journal' = IF R = {} THEN journal ELSE [journal EXCEPT ![w] = R]
          /\ \A v \in Windows \ {w} :
                 /\ todo'[v] = todo[v] /\ journal'[v] = journal[v]
                 /\ phase'[v] = phase[v]
          /\ todo'[w] = R /\ journal'[w] = (IF R = {} THEN journal[w] ELSE R)
          /\ phase'[w] = "stopping"
      BY DEF R, StoppedTypeOK
    <2>10. stopped[w] = {} /\ (failures = 0 => journal[w] = {})
      <3>1. CASE Uses[w] = {}
        BY <3>1 DEF Entered, Kept
      <3>2. CASE Uses[w] # {}
        BY <3>2 DEF Stopping, Owing, Settled
      <3>3. QED
        BY <3>1, <3>2
    <2>1. StoppedTypeOK'
      BY <2>0, <2>9 DEF StoppedTypeOK
    <2>2. ChoiceStands'
      BY DEF StoppedTypeOK, Entries, ChoiceStands, Entered, Kept
    <2>3. Entered'
      <3>1. \A e \in R : choice[e.app] # "stop" /\ person[e.app] = "none"
        BY <2>0 DEF ChoiceStands
      <3>2. Kept(w)' \subseteq R \cup Kept(w)
        BY <2>9 DEF Kept
      <3>3. \A v \in Windows \ {w} : Kept(v)' = Kept(v)
        BY <2>9 DEF Kept
      <3>4. UNCHANGED <<revision, choice, person>>
        OBVIOUS
      <3>5. \A e \in R : e.revision <= revision[e.app]
        BY <2>0 DEF StoppedTypeOK, Entries
      <3> HIDE <1>3 DEF Kept
      <3>6. QED
        BY <2>0, <3>1, <3>2, <3>3, <3>4, <3>5 DEF Entered
    <2>4. Lanes'
      BY DEF StoppedTypeOK, Lanes
    <2>5. Stopping'
      <3>1. UNCHANGED <<running, revision, stopped, left, failures>>
        OBVIOUS
      <3> HIDE <1>3
      <3>2. \A a \in Uses[w] : running[a] => \E e \in R : e.app = a
        BY <2>0
      <3>3. \A e \in todo'[w] \cup stopped'[w] : e \in journal'[w] /\ StillOwed(e)'
        BY <2>0, <2>9, <2>10, <3>1
      <3>4. QED
        BY <2>9, <3>1, <3>2, <3>3 DEF Stopping
    <2>6. OwedStays' /\ ToStart'
      <3>1. UNCHANGED <<running, revision, choice, unstarted, failures>>
        OBVIOUS
      <3>2. OwedStays'
        <4> SUFFICES ASSUME NEW a \in Apps, choice[a] = "start", ~running[a],
                            failures = 0 \/ StoppedAlone(a)
                     PROVE  \E v \in Windows :
                                [app |-> a, revision |-> revision[a]] \in journal'[v]
          BY <3>1 DEF OwedStays
        <4>1. PICK v \in Windows :
                     [app |-> a, revision |-> revision[a]] \in journal[v]
          BY DEF Owing, OwedStays
        <4>2. CASE v # w
          BY <2>9, <4>1, <4>2
        <4>3. CASE v = w
          <5>1. a \in Uses[w]
            BY <4>1, <4>3 DEF Entered, Kept
          <5>2. StoppedAlone(a)
            BY <2>10, <4>1, <4>3
          <5>3. \A e \in R : e.app = a
            BY <2>0, <5>1, <5>2 DEF StoppedAlone
          <5>4. R = {}
            BY <2>0, <5>3
          <5>5. QED
            BY <2>9, <4>1, <4>3, <5>4
        <4>4. QED
          BY <4>2, <4>3
      <3> HIDE <1>3
      <3>3. ToStart'
        BY <2>9, <3>1 DEF Owing, ToStart, Starting, Owed, Watched
      <3>4. QED
        BY <3>2, <3>3
    <2>7. ToStop' /\ Settled'
      <3>1. UNCHANGED <<stopped, unstarted, failures>>
        OBVIOUS
      <3> HIDE <1>3
      <3>2. QED
        BY <2>9, <2>10, <3>1 DEF Owing, ToStop, Settled
    <2>8. QED
      BY <2>1, <2>2, <2>3, <2>4, <2>5, <2>6, <2>7 DEF Owing
  <1>4. ASSUME NEW w \in Windows, BeginFails(w) PROVE StoppedInv'
    <2> USE <1>4 DEF BeginFails, Free
    <2>1. StoppedTypeOK'
      BY DEF StoppedTypeOK, Entries
    <2>2. ChoiceStands'
      BY DEF StoppedTypeOK, Entries, ChoiceStands, Entered, Kept
    <2>3. Entered'
      BY DEF StoppedTypeOK, Entries, ChoiceStands, Entered, Kept, Lanes
    <2>4. Lanes'
      BY DEF StoppedTypeOK, Lanes
    <2>5. Stopping'
      BY DEF StoppedTypeOK, Entries, Stopping, Lanes, Entered, Kept
    <2>6. OwedStays' /\ ToStart'
      BY DEF StoppedTypeOK, Entries, Owing, OwedStays, ToStart, Starting,
         Owed, Watched, Stopping, Lanes, Entered, Kept
    <2>7. ToStop' /\ Settled'
      BY DEF StoppedTypeOK, Entries, Owing, ToStop, Settled, Stopping
    <2>8. QED
      BY <2>1, <2>2, <2>3, <2>4, <2>5, <2>6, <2>7 DEF Owing
  <1>5. ASSUME NEW w \in Windows, NEW e \in todo[w], Stop(w, e)
        PROVE  StoppedInv'
    <2> USE <1>5 DEF Stop
    <2>1. StoppedTypeOK'
      BY DEF StoppedTypeOK, Entries
    <2>2. ChoiceStands'
      BY DEF StoppedTypeOK, Entries, ChoiceStands, Entered, Kept
    <2>3. Entered'
      BY DEF StoppedTypeOK, Entries, ChoiceStands, Entered, Kept, Lanes
    <2>4. Lanes'
      BY DEF StoppedTypeOK, Lanes
    <2>5. Stopping'
      BY DEF StoppedTypeOK, Entries, Stopping, Lanes, Entered, Kept
    <2>6. OwedStays' /\ ToStart'
      BY DEF StoppedTypeOK, Entries, Owing, OwedStays, ToStart, Starting,
         Owed, Watched, Stopping, Lanes, Entered, Kept
    <2>7. ToStop' /\ Settled'
      BY DEF StoppedTypeOK, Entries, Owing, ToStop, Settled, Stopping
    <2>8. QED
      BY <2>1, <2>2, <2>3, <2>4, <2>5, <2>6, <2>7 DEF Owing
  <1>6. ASSUME NEW w \in Windows, NEW e \in todo[w], StopFails(w, e)
        PROVE  StoppedInv'
    <2> USE <1>6 DEF StopFails
    <2>1. StoppedTypeOK'
      BY DEF StoppedTypeOK, Entries
    <2>2. ChoiceStands'
      BY DEF StoppedTypeOK, Entries, ChoiceStands, Entered, Kept
    <2>3. Entered'
      BY DEF StoppedTypeOK, Entries, ChoiceStands, Entered, Kept, Lanes
    <2>4. Lanes'
      BY DEF StoppedTypeOK, Lanes
    <2>5. Stopping'
      BY DEF StoppedTypeOK, Entries, Stopping, Lanes, Entered, Kept
    <2>6. OwedStays' /\ ToStart'
      <3>0. \A v \in Windows : \A f \in journal[v] :
                f \in Entries /\ f.app \in Apps /\ f.app \in Uses[v]
        BY DEF StoppedTypeOK, Entries, Entered, Kept
      <3>1. /\ e \in journal[w] /\ StillOwed(e)
            /\ failures' # 0
        BY DEF Stopping, StoppedTypeOK
      <3>2. /\ \A b \in Apps \ {e.app} : running'[b] = running[b]
            /\ UNCHANGED <<revision, choice, journal, unstarted>>
            /\ \A v \in Windows \ {w} : phase'[v] = phase[v] /\ todo'[v] = todo[v]
            /\ e \in todo'[w] /\ phase[w] = "stopping"
        BY DEF StoppedTypeOK
      <3> HIDE <1>6
      <3>3. e = [app |-> e.app, revision |-> revision[e.app]]
        BY <3>0, <3>1 DEF Entries
      <3>4. OwedStays'
        BY <3>1, <3>2, <3>3 DEF Owing, OwedStays
      <3>5. ASSUME NEW v \in Windows, Starting(v)', NEW f \in journal'[v], Owed(f)'
            PROVE  f \in todo'[v] \cup unstarted'[v]
        <4>1. StoppedAlone(f.app) /\ StillOwed(f) /\ f \in journal[v]
          BY <3>1, <3>2, <3>5 DEF Owed, Watched, StoppedAlone
        <4>2. CASE v = w
          <5>1. f.app = e.app
            BY <3>0, <3>1, <4>1, <4>2 DEF StoppedAlone
          <5>2. f = e
            BY <3>0, <3>3, <4>1, <5>1 DEF Entries
          <5>3. QED
            BY <3>2, <4>2, <5>2
        <4>3. CASE v # w
          <5>1. f.app # e.app
            BY <3>0, <3>1, <3>2, <3>5, <4>1, <4>3 DEF Lanes, Starting
          <5>2. Owed(f)
            BY <3>0, <3>1, <3>2, <3>5, <4>1, <5>1 DEF Owed, Watched
          <5>3. QED
            BY <3>2, <3>5, <4>1, <4>3, <5>2 DEF Owing, ToStart, Starting
        <4>4. QED
          BY <4>2, <4>3
      <3>6. QED
        BY <3>4, <3>5 DEF ToStart
    <2>7. ToStop' /\ Settled'
      BY DEF StoppedTypeOK, Entries, Owing, ToStop, Settled, Stopping
    <2>8. QED
      BY <2>1, <2>2, <2>3, <2>4, <2>5, <2>6, <2>7 DEF Owing
  <1>7. ASSUME NEW w \in Windows, AllStopped(w) PROVE StoppedInv'
    <2> USE <1>7 DEF AllStopped
    <2>1. StoppedTypeOK'
      BY DEF StoppedTypeOK, Entries
    <2>2. ChoiceStands'
      BY DEF StoppedTypeOK, Entries, ChoiceStands, Entered, Kept
    <2>3. Entered'
      BY DEF StoppedTypeOK, Entries, ChoiceStands, Entered, Kept, Lanes
    <2>4. Lanes'
      BY DEF StoppedTypeOK, Lanes
    <2>5. Stopping'
      BY DEF StoppedTypeOK, Entries, Stopping, Lanes, Entered, Kept
    <2>6. OwedStays' /\ ToStart'
      BY DEF StoppedTypeOK, Entries, Owing, OwedStays, ToStart, Starting,
         Owed, Watched, Stopping, Lanes, Entered, Kept
    <2>7. ToStop' /\ Settled'
      BY DEF StoppedTypeOK, Entries, Owing, ToStop, Settled, Stopping
    <2>8. QED
      BY <2>1, <2>2, <2>3, <2>4, <2>5, <2>6, <2>7 DEF Owing
  <1>8. ASSUME NEW w \in Windows, NEW m \in Members[w], Leave(w, m)
        PROVE  StoppedInv'
    <2> USE <1>8 DEF Leave, IsLast, NothingToStart
    <2>0. /\ \A v \in Windows \ {w} :
                 phase'[v] = phase[v] /\ todo'[v] = todo[v] /\ left'[v] = left[v]
          /\ \/ /\ phase[w] = "archiving" /\ phase'[w] = "starting"
                /\ todo'[w] = stopped[w] /\ left'[w] = Members[w]
             \/ phase' = phase /\ todo' = todo /\ phase[w] # "starting"
      BY DEF StoppedTypeOK
    <2>1. StoppedTypeOK'
      BY DEF StoppedTypeOK, Entries
    <2>2. ChoiceStands'
      BY DEF StoppedTypeOK, Entries, ChoiceStands, Entered, Kept
    <2>3. Entered'
      BY DEF StoppedTypeOK, Entries, ChoiceStands, Entered, Kept, Lanes
    <2>4. Lanes'
      BY DEF StoppedTypeOK, Lanes
    <2>5. Stopping'
      <3>1. UNCHANGED <<running, revision, journal, stopped, failures>>
        OBVIOUS
      <3> HIDE <1>8
      <3>2. QED
        BY <2>0, <3>1 DEF Stopping
    <2>6. OwedStays' /\ ToStart'
      <3>0. \A v \in Windows : \A f \in journal[v] :
                f \in Entries /\ f.app \in Apps /\ f.app \in Uses[v]
        BY DEF StoppedTypeOK, Entries, Entered, Kept
      <3>1. /\ UNCHANGED <<power, journal, stopped, unstarted, failures>>
            /\ w \in Batches \/ stopped[w] # {}
        OBVIOUS
      <3> HIDE <1>8
      <3>2. OwedStays'
        BY <3>1 DEF Owing, OwedStays
      <3>3. ASSUME NEW f \in journal[w], Owed(f), phase[w] = "archiving"
            PROVE  f \in stopped[w]
        <4>1. failures = 0 \/ w \notin Batches
          BY <3>0, <3>3 DEF Owed, Watched, StoppedAlone
        <4>2. todo[w] = {}
          BY <3>3 DEF Stopping
        <4>3. QED
          BY <3>1, <3>3, <4>1, <4>2 DEF Owing, ToStop
      <3>4. \A f : Owed(f)' <=> Owed(f)
        BY <3>1 DEF Owed, Watched, StoppedAlone
      <3>5. ToStart'
        BY <2>0, <3>1, <3>3, <3>4 DEF Owing, ToStart, Starting
      <3>6. QED
        BY <3>2, <3>5
    <2>7. ToStop' /\ Settled'
      BY DEF StoppedTypeOK, Entries, Owing, ToStop, Settled, Stopping
    <2>8. QED
      BY <2>1, <2>2, <2>3, <2>4, <2>5, <2>6, <2>7 DEF Owing
  <1>9. ASSUME NEW w \in Windows, End(w) PROVE StoppedInv'
    <2> USE <1>9 DEF End, NothingToStart
    <2>1. StoppedTypeOK'
      BY DEF StoppedTypeOK, Entries
    <2>2. ChoiceStands'
      BY DEF StoppedTypeOK, Entries, ChoiceStands, Entered, Kept
    <2>3. Entered'
      BY DEF StoppedTypeOK, Entries, ChoiceStands, Entered, Kept, Lanes
    <2>4. Lanes'
      BY DEF StoppedTypeOK, Lanes
    <2>5. Stopping'
      BY DEF StoppedTypeOK, Entries, Stopping, Lanes, Entered, Kept
    <2>6. OwedStays' /\ ToStart'
      BY DEF StoppedTypeOK, Entries, Owing, OwedStays, ToStart, Starting,
         Owed, Watched, Stopping, Lanes, Entered, Kept
    <2>7. ToStop' /\ Settled'
      BY DEF StoppedTypeOK, Entries, Owing, ToStop, Settled, Stopping
    <2>8. QED
      BY <2>1, <2>2, <2>3, <2>4, <2>5, <2>6, <2>7 DEF Owing
  <1>10. ASSUME NEW w \in Windows, NEW e \in todo[w], Start(w, e)
        PROVE  StoppedInv'
    <2> USE <1>10 DEF Start, Starting
    <2>1. StoppedTypeOK'
      BY DEF StoppedTypeOK, Entries
    <2>2. ChoiceStands'
      BY DEF StoppedTypeOK, Entries, ChoiceStands, Entered, Kept
    <2>3. Entered'
      BY DEF StoppedTypeOK, Entries, ChoiceStands, Entered, Kept, Lanes
    <2>4. Lanes'
      BY DEF StoppedTypeOK, Lanes
    <2>5. Stopping'
      BY DEF StoppedTypeOK, Entries, Stopping, Lanes, Entered, Kept
    <2>6. OwedStays' /\ ToStart'
      <3>0. \A v \in Windows : \A f \in journal[v] :
                f \in Entries /\ f.app \in Apps /\ f.app \in Uses[v]
        BY DEF StoppedTypeOK, Entries, Entered, Kept
      <3>1. /\ \A b \in Apps : running[b] => running'[b]
            /\ StillOwed(e) /\ e.app \in Apps => running'[e.app]
            /\ UNCHANGED <<revision, choice, journal, phase, unstarted, failures>>
            /\ \A v \in Windows \ {w} : todo'[v] = todo[v]
            /\ todo'[w] = todo[w] \ {e}
        BY DEF StoppedTypeOK
      <3> HIDE <1>10
      <3>2. OwedStays'
        BY <3>1 DEF Owing, OwedStays
      <3>3. \A v \in Windows : \A f \in journal[v] :
                Owed(f)' => Owed(f) /\ f # e
        BY <3>0, <3>1 DEF Owed, Watched, StoppedAlone
      <3>4. ToStart'
        BY <3>1, <3>3 DEF Owing, ToStart, Starting
      <3>5. QED
        BY <3>2, <3>4
    <2>7. ToStop' /\ Settled'
      BY DEF StoppedTypeOK, Entries, Owing, ToStop, Settled, Stopping
    <2>8. QED
      BY <2>1, <2>2, <2>3, <2>4, <2>5, <2>6, <2>7 DEF Owing
  <1>11. ASSUME NEW w \in Windows, NEW e \in todo[w], StartFails(w, e)
        PROVE  StoppedInv'
    <2> USE <1>11 DEF StartFails, Starting
    <2>1. StoppedTypeOK'
      BY DEF StoppedTypeOK, Entries
    <2>2. ChoiceStands'
      BY DEF StoppedTypeOK, Entries, ChoiceStands, Entered, Kept
    <2>3. Entered'
      BY DEF StoppedTypeOK, Entries, ChoiceStands, Entered, Kept, Lanes
    <2>4. Lanes'
      BY DEF StoppedTypeOK, Lanes
    <2>5. Stopping'
      BY DEF StoppedTypeOK, Entries, Stopping, Lanes, Entered, Kept
    <2>6. OwedStays' /\ ToStart'
      BY DEF StoppedTypeOK, Entries, Owing, OwedStays, ToStart, Starting,
         Owed, Watched, Stopping, Lanes, Entered, Kept
    <2>7. ToStop' /\ Settled'
      BY DEF StoppedTypeOK, Entries, Owing, ToStop, Settled, Stopping
    <2>8. QED
      BY <2>1, <2>2, <2>3, <2>4, <2>5, <2>6, <2>7 DEF Owing
  <1>12. ASSUME NEW w \in Windows, Keep(w) PROVE StoppedInv'
    <2> USE <1>12 DEF Keep, Starting
    <2>1. StoppedTypeOK'
      BY DEF StoppedTypeOK, Entries
    <2>2. ChoiceStands'
      BY DEF StoppedTypeOK, Entries, ChoiceStands, Entered, Kept
    <2>3. Entered'
      BY DEF StoppedTypeOK, Entries, ChoiceStands, Entered, Kept, Lanes
    <2>4. Lanes'
      BY DEF StoppedTypeOK, Lanes
    <2>5. Stopping'
      BY DEF StoppedTypeOK, Entries, Stopping, Lanes, Entered, Kept
    <2>6. OwedStays' /\ ToStart'
      <3>0. \A v \in Windows : \A f \in journal[v] \cup unstarted[v] :
                f \in Entries /\ f.app \in Apps /\ f.app \in Uses[v]
        BY DEF StoppedTypeOK, Entries, Entered, Kept
      <3>1. /\ \A v \in Windows \ {w} : /\ journal'[v] = journal[v]
                                       /\ unstarted'[v] = unstarted[v]
                                       /\ phase'[v] = phase[v]
            /\ journal'[w] = unstarted[w] \/ journal'[w] = journal[w]
            /\ todo[w] = {} /\ Starting(w)
        BY DEF StoppedTypeOK
      <3>2. \/ phase'[w] = "none"
            \/ phase'[w] = "starting" /\ phase[w] = "undoing" /\ w \in Batches
        BY DEF StoppedTypeOK
      <3>3. failures' = 0 => failures = 0
        BY DEF StoppedTypeOK
      <3>4. UNCHANGED <<power, todo>>
        OBVIOUS
      <3> HIDE <1>12
      <3>5. \A f : Owed(f)' => Owed(f)
        BY <3>3, <3>4 DEF Owed, Watched, StoppedAlone
      <3>6. ASSUME NEW a \in Apps, choice[a] = "start", ~running[a],
                   failures' = 0 \/ StoppedAlone(a)
            PROVE  \E v \in Windows :
                       [app |-> a, revision |-> revision[a]] \in journal'[v]
        <4>1. PICK v \in Windows :
                     [app |-> a, revision |-> revision[a]] \in journal[v]
          BY <3>3, <3>6 DEF Owing, OwedStays
        <4>2. v = w => [app |-> a, revision |-> revision[a]] \in unstarted[w]
          BY <3>1, <3>3, <3>6, <4>1 DEF Owing, ToStart, Owed, Watched
        <4>3. QED
          BY <3>1, <4>1, <4>2
      <3>7. OwedStays'
        BY <3>4, <3>6 DEF OwedStays, StoppedAlone
      <3>8. ASSUME NEW f \in journal'[w], phase'[w] = "starting"
            PROVE  ~Owed(f)'
        <4>1. w \in Batches /\ failures > 0
          BY <3>2, <3>8 DEF Stopping
        <4>2. f.app \in Uses[w]
          BY <3>0, <3>1, <3>8
        <4>3. ~Owed(f)
          BY <4>1, <4>2 DEF Owed, Watched, StoppedAlone, StoppedTypeOK
        <4>4. QED
          BY <3>5, <4>3
      <3>9. ToStart'
        BY <3>1, <3>2, <3>4, <3>5, <3>8 DEF Owing, ToStart, Starting
      <3>10. QED
        BY <3>7, <3>9
    <2>7. ToStop' /\ Settled'
      BY DEF StoppedTypeOK, Entries, Owing, ToStop, Settled, Stopping
    <2>8. QED
      BY <2>1, <2>2, <2>3, <2>4, <2>5, <2>6, <2>7 DEF Owing
  <1>13. ASSUME Restart PROVE StoppedInv'
    <2> USE <1>13 DEF Restart
    <2>1. StoppedTypeOK'
      BY DEF StoppedTypeOK, Entries
    <2>2. ChoiceStands'
      BY DEF StoppedTypeOK, Entries, ChoiceStands, Entered, Kept
    <2>3. Entered'
      BY DEF StoppedTypeOK, Entries, ChoiceStands, Entered, Kept, Lanes
    <2>4. Lanes'
      BY DEF StoppedTypeOK, Lanes
    <2>5. Stopping'
      BY DEF StoppedTypeOK, Entries, Stopping, Lanes, Entered, Kept
    <2>6. OwedStays' /\ ToStart'
      BY DEF StoppedTypeOK, Entries, Owing, OwedStays, ToStart, Starting,
         Owed, Watched, Stopping, Lanes, Entered, Kept
    <2>7. ToStop' /\ Settled'
      BY DEF StoppedTypeOK, Entries, Owing, ToStop, Settled, Stopping
    <2>8. QED
      BY <2>1, <2>2, <2>3, <2>4, <2>5, <2>6, <2>7 DEF Owing
  <1>14. CASE UNCHANGED vars
    BY <1>14 DEF vars, StoppedTypeOK, ChoiceStands, Entered, Kept, Lanes, Stopping,
       Owing, OwedStays, ToStart, ToStop, Settled, Starting, Owed, Watched
  <1>15. QED
    BY <1>1, <1>2, <1>3, <1>4, <1>5, <1>6, <1>7, <1>8, <1>9, <1>10,
       <1>11, <1>12, <1>13, <1>14 DEF Next, RelaySteps

-----------------------------------------------------------------------------
(***************************************************************************)
(* Theorems.                                                               *)
(***************************************************************************)

\* The inductive invariant of stopped backups: journals, windows, lanes and
\* people's choices agree.
THEOREM StoppedInvariant == Spec => []StoppedInv
  <1>1. Init => StoppedInv
    BY InitStoppedInv
  <1>2. StoppedInv /\ [Next]_vars => StoppedInv'
    BY StepStoppedInv
  <1>3. QED
    BY <1>1, <1>2, PTL DEF Spec

\* Windows and Apps keep to their types.
THEOREM StoppedTypes == Spec => []StoppedTypeOK
  <1>1. StoppedInv => StoppedTypeOK
    BY DEF StoppedInv
  <1>2. QED
    BY <1>1, StoppedInvariant, PTL

\* No backup starts an App that people stopped or froze since (#stillOwed).
THEOREM ChoicesStand == Spec => []ChoiceStands
  <1>1. StoppedInv => ChoiceStands
    BY DEF StoppedInv
  <1>2. QED
    BY <1>1, StoppedInvariant, PTL

\* Nothing that uses what a window backs up runs until the last of its
\* members has its archive (finishIfLast).
THEOREM CopiesAlwaysAgree == Spec => []CopiesAgree
  <1>1. StoppedInv => CopiesAgree
    BY DEF StoppedInv, Stopping, CopiesAgree
  <1>2. QED
    BY <1>1, StoppedInvariant, PTL

\* An App that is owed a start stays journalled, wherever the Relay stops
\* (#journalStoppedApps, #keepStoppedApps).
THEOREM OwedStaysJournalled == Spec => []OwedStays
  <1>1. StoppedInv => OwedStays
    BY DEF StoppedInv, Owing
  <1>2. QED
    BY <1>1, StoppedInvariant, PTL

=============================================================================
