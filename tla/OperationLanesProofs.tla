------------------------ MODULE OperationLanesProofs ------------------------
(***************************************************************************)
(* Proofs about the operation lanes, for any set of operations, keys and   *)
(* requests.  Lemmas about the lock table come first.  One lemma then says *)
(* what a grant pass keeps; every action changes the queues and then makes *)
(* a pass, or leaves the holders alone.  Then the lanes implement          *)
(* LaneContract.  Then no wakeup is lost: what a pass leaves waiting has   *)
(* a reason to, and the pass of an arrival frees nothing else, since what  *)
(* waited had a reason before it.  Last, what exclusiveGeneration counts.  *)
(***************************************************************************)
EXTENDS OperationLanes, TLAPS, FiniteSetTheorems, WellFoundedInduction

-----------------------------------------------------------------------------
(***************************************************************************)
(* The lock table: what it holds after operations have taken and released  *)
(* their locks, for any finite set of operations.                          *)
(***************************************************************************)

\* Conflicting is symmetric, so it does not matter who came first.
LEMMA ConflictSymmetric ==
    ASSUME NEW p, NEW q
    PROVE  PlansConflict(p, q) <=> PlansConflict(q, p)
  BY DEF PlansConflict, ConflictAt

\* Those who share a key are a finite set, so they can be counted.
LEMMA SharersFinite ==
    ASSUME NEW S, IsFiniteSet(S), NEW lk, NEW k
    PROVE  /\ IsFiniteSet(Sharers(S, lk, k))
           /\ Cardinality(Sharers(S, lk, k)) \in Nat
           /\ Cardinality(Sharers(S, lk, k)) > 0
                <=> \E o \in S : lk[o][k] = "shared"
  <1>1. Sharers(S, lk, k) \in SUBSET S
    BY DEF Sharers
  <1>2. IsFiniteSet(Sharers(S, lk, k))
    BY <1>1, FS_Subset
  <1>3. Cardinality(Sharers(S, lk, k)) \in Nat
    BY <1>2, FS_CardinalityType
  <1>4. Sharers(S, lk, k) = {} <=> ~\E o \in S : lk[o][k] = "shared"
    BY DEF Sharers
  <1>5. Cardinality(Sharers(S, lk, k)) = 0 <=> Sharers(S, lk, k) = {}
    BY <1>2, FS_EmptySet
  <1>6. QED
    BY <1>2, <1>3, <1>4, <1>5

\* What a table that some operations took their locks in holds of a key.
LEMMA EntryOf ==
    ASSUME NEW S, IsFiniteSet(S), NEW lk, NEW k \in Keys
    PROVE  /\ TakeAll(EmptyTable, S, lk)[k]
                = [exclusive |-> TakenAlone(S, lk, k),
                   shared |-> Cardinality(Sharers(S, lk, k))]
           /\ TakenAlone(S, lk, k) \in BOOLEAN
  <1>1. Cardinality(Sharers(S, lk, k)) \in Nat
    BY SharersFinite
  <1>2. EmptyTable[k] = [exclusive |-> FALSE, shared |-> 0]
    BY DEF EmptyTable, NotHeld
  <1>3. TakenAlone(S, lk, k) \in BOOLEAN
    BY Zenon DEF TakenAlone
  <1>4. (FALSE \/ TakenAlone(S, lk, k)) = TakenAlone(S, lk, k)
    BY <1>3
  <1>5. QED
    BY <1>1, <1>2, <1>3, <1>4 DEF TakeAll

\* Nobody's locks are none.
LEMMA TakeNone ==
    ASSUME NEW lk
    PROVE  TakeAll(EmptyTable, {}, lk) = EmptyTable
  <1>1. ASSUME NEW k \in Keys
        PROVE  TakeAll(EmptyTable, {}, lk)[k] = EmptyTable[k]
    <2>1. IsFiniteSet({}) /\ Cardinality({}) = 0
      BY FS_EmptySet
    <2>2. Sharers({}, lk, k) = {} /\ TakenAlone({}, lk, k) = FALSE
      BY DEF Sharers, TakenAlone
    <2>3. TakeAll(EmptyTable, {}, lk)[k]
            = [exclusive |-> TakenAlone({}, lk, k),
               shared |-> Cardinality(Sharers({}, lk, k))]
      BY <2>1, EntryOf
    <2>4. QED
      BY <2>1, <2>2, <2>3 DEF EmptyTable, NotHeld
  <1>2. QED
    BY <1>1 DEF TakeAll, EmptyTable

\* Taking locks keeps the table well formed.
LEMMA TakeAllType ==
    ASSUME NEW S, IsFiniteSet(S), NEW lk
    PROVE  TakeAll(EmptyTable, S, lk) \in [Keys -> Entry]
  <1>1. ASSUME NEW k \in Keys
        PROVE  TakeAll(EmptyTable, S, lk)[k] \in Entry
    <2>1. /\ TakeAll(EmptyTable, S, lk)[k]
               = [exclusive |-> TakenAlone(S, lk, k),
                  shared |-> Cardinality(Sharers(S, lk, k))]
          /\ TakenAlone(S, lk, k) \in BOOLEAN
      BY EntryOf
    <2>2. Cardinality(Sharers(S, lk, k)) \in Nat
      BY SharersFinite
    <2>3. QED
      BY <2>1, <2>2 DEF Entry
  <1>2. QED
    BY <1>1 DEF TakeAll

\* What a table says of a plan: it conflicts exactly when one of the
\* operations that took their locks does.
LEMMA TableFaithful ==
    ASSUME NEW S, IsFiniteSet(S), NEW lk, \A o \in S : lk[o] \in Plans,
           NEW plan \in Plans
    PROVE  TableConflicts(TakeAll(EmptyTable, S, lk), plan)
             <=> \E o \in S : PlansConflict(lk[o], plan)
  <1> DEFINE T == TakeAll(EmptyTable, S, lk)
  <1>1. ASSUME NEW k \in Keys
        PROVE  /\ T[k].exclusive <=> \E o \in S : lk[o][k] = "exclusive"
               /\ T[k].shared > 0 <=> \E o \in S : lk[o][k] = "shared"
    <2>1. T[k] = [exclusive |-> TakenAlone(S, lk, k),
                  shared |-> Cardinality(Sharers(S, lk, k))]
      BY EntryOf
    <2>2. /\ T[k].exclusive = TakenAlone(S, lk, k)
          /\ T[k].shared = Cardinality(Sharers(S, lk, k))
      BY <2>1
    <2>3. T[k].exclusive <=> \E o \in S : lk[o][k] = "exclusive"
      BY <2>2 DEF TakenAlone
    <2>4. T[k].shared > 0 <=> \E o \in S : lk[o][k] = "shared"
      BY <2>2, SharersFinite
    <2>5. QED
      BY <2>3, <2>4
  <1> HIDE DEF T
  <1>2. \A o \in S, k \in Keys :
           ConflictAt(lk[o], plan, k) <=>
              \/ plan[k] # "none" /\ lk[o][k] = "exclusive"
              \/ plan[k] = "exclusive" /\ lk[o][k] = "shared"
    BY DEF ConflictAt, Plans, Modes
  <1>3. TableConflicts(T, plan) <=> \E o \in S : PlansConflict(lk[o], plan)
    BY <1>1, <1>2 DEF TableConflicts, PlansConflict
  <1>4. QED
    BY <1>3 DEF T

\* Taking the locks of two disjoint sets, one after the other, takes those
\* of their union.
LEMMA TakeAllUnion ==
    ASSUME NEW S, NEW R, IsFiniteSet(S), IsFiniteSet(R), S \cap R = {},
           NEW lk
    PROVE  TakeAll(TakeAll(EmptyTable, S, lk), R, lk)
             = TakeAll(EmptyTable, S \cup R, lk)
  <1> DEFINE T == TakeAll(EmptyTable, S, lk)
  <1>0. IsFiniteSet(S \cup R)
    BY FS_Union
  <1>1. ASSUME NEW k \in Keys
        PROVE  TakeAll(T, R, lk)[k] = TakeAll(EmptyTable, S \cup R, lk)[k]
    <2>1. Cardinality(Sharers(S \cup R, lk, k))
            = Cardinality(Sharers(S, lk, k)) + Cardinality(Sharers(R, lk, k))
      <3>1. /\ Sharers(S \cup R, lk, k)
                 = Sharers(S, lk, k) \cup Sharers(R, lk, k)
            /\ Sharers(S, lk, k) \cap Sharers(R, lk, k) = {}
        BY DEF Sharers
      <3>2. /\ IsFiniteSet(Sharers(S, lk, k))
            /\ IsFiniteSet(Sharers(R, lk, k))
            /\ Cardinality(Sharers(S, lk, k)) \in Nat
            /\ Cardinality(Sharers(R, lk, k)) \in Nat
        BY SharersFinite
      <3>3. Cardinality(Sharers(S, lk, k) \cup Sharers(R, lk, k))
              = Cardinality(Sharers(S, lk, k))
                + Cardinality(Sharers(R, lk, k))
                - Cardinality(Sharers(S, lk, k) \cap Sharers(R, lk, k))
        BY <3>2, FS_Union
      <3>4. Cardinality(Sharers(S, lk, k) \cap Sharers(R, lk, k)) = 0
        BY <3>1, FS_EmptySet
      <3>5. Cardinality(Sharers(S \cup R, lk, k))
              = Cardinality(Sharers(S, lk, k) \cup Sharers(R, lk, k))
        BY <3>1
      <3>6. QED
        BY <3>2, <3>3, <3>4, <3>5
    <2>0. T[k] = [exclusive |-> TakenAlone(S, lk, k),
                  shared |-> Cardinality(Sharers(S, lk, k))]
      BY EntryOf
    <2>2. (T[k].exclusive \/ TakenAlone(R, lk, k))
            = TakenAlone(S \cup R, lk, k)
      <3>1. T[k].exclusive = TakenAlone(S, lk, k)
        BY <2>0
      <3>2. QED
        BY <3>1 DEF TakenAlone
    <2>3. T[k].shared = Cardinality(Sharers(S, lk, k))
      BY <2>0
    <2>4. TakeAll(T, R, lk)[k]
            = [exclusive |-> TakenAlone(S \cup R, lk, k),
               shared |-> Cardinality(Sharers(S \cup R, lk, k))]
      BY <2>1, <2>2, <2>3 DEF TakeAll
    <2>5. QED
      BY <1>0, <2>4, EntryOf
  <1>2. QED
    BY <1>1 DEF TakeAll

\* Releasing the locks of one operation, of a set none of which conflict,
\* leaves what the others took.
LEMMA ReleaseOne ==
    ASSUME NEW S, IsFiniteSet(S), NEW lk, \A o \in S : lk[o] \in Plans,
           \A o, p \in S : o # p => ~PlansConflict(lk[o], lk[p]),
           NEW x \in S
    PROVE  Release(TakeAll(EmptyTable, S, lk), lk[x])
             = TakeAll(EmptyTable, S \ {x}, lk)
  <1> DEFINE T == TakeAll(EmptyTable, S, lk)
  <1>0. IsFiniteSet(S \ {x})
    BY FS_RemoveElement
  <1>1. ASSUME NEW k \in Keys
        PROVE  Release(T, lk[x])[k] = TakeAll(EmptyTable, S \ {x}, lk)[k]
    <2> DEFINE alone == TakenAlone(S, lk, k)
               sharing == Cardinality(Sharers(S, lk, k))
    <2>1. T[k] = [exclusive |-> alone, shared |-> sharing] /\ sharing \in Nat
          /\ alone \in BOOLEAN
      BY EntryOf, SharersFinite
    <2>2. TakeAll(EmptyTable, S \ {x}, lk)[k]
            = [exclusive |-> TakenAlone(S \ {x}, lk, k),
               shared |-> Cardinality(Sharers(S \ {x}, lk, k))]
      BY <1>0, EntryOf
    <2>3. Cardinality(Sharers(S \ {x}, lk, k))
            = IF lk[x][k] = "shared" THEN sharing - 1 ELSE sharing
      <3>1. Sharers(S \ {x}, lk, k) = Sharers(S, lk, k) \ {x}
        BY DEF Sharers
      <3>2. x \in Sharers(S, lk, k) <=> lk[x][k] = "shared"
        BY DEF Sharers
      <3>3. IsFiniteSet(Sharers(S, lk, k))
        BY SharersFinite
      <3>4. QED
        BY <3>1, <3>2, <3>3, FS_RemoveElement
    <2>4. lk[x][k] \in Modes
      BY DEF Plans
    <2>5. Release(T, lk[x])[k] =
             IF lk[x][k] = "none" \/ T[k] = NotHeld
               THEN T[k]
               ELSE [exclusive |-> lk[x][k] # "exclusive" /\ alone,
                     shared |-> IF lk[x][k] = "shared" THEN sharing - 1
                                                        ELSE sharing]
      BY <2>1 DEF Release
    <2>6. CASE lk[x][k] = "none"
      <3>1. TakenAlone(S \ {x}, lk, k) = alone
        BY <2>6 DEF TakenAlone
      <3>2. QED
        BY <2>1, <2>2, <2>3, <2>5, <2>6, <3>1
    <2>7. CASE lk[x][k] = "shared"
      <3>1. TakenAlone(S \ {x}, lk, k) = alone
        BY <2>7 DEF TakenAlone
      <3>2. sharing > 0
        BY <2>7, SharersFinite
      <3>3. T[k] # NotHeld
        BY <2>1, <3>2 DEF NotHeld
      <3>4. (lk[x][k] # "exclusive" /\ alone) = alone
        BY <2>1, <2>7
      <3>5. QED
        BY <2>1, <2>2, <2>3, <2>5, <2>7, <3>1, <3>3, <3>4
    <2>8. CASE lk[x][k] = "exclusive"
      <3>1. \A o \in S \ {x} : lk[o][k] = "none"
        BY <2>8 DEF PlansConflict, ConflictAt
      <3>2. TakenAlone(S \ {x}, lk, k) = FALSE /\ alone
        BY <2>8, <3>1 DEF TakenAlone
      <3>3. T[k] # NotHeld
        BY <2>1, <3>2 DEF NotHeld
      <3>4. (lk[x][k] # "exclusive" /\ alone) = FALSE
        BY <2>8
      <3>5. QED
        BY <2>1, <2>2, <2>3, <2>5, <2>8, <3>2, <3>3, <3>4
    <2>9. QED
      BY <2>4, <2>6, <2>7, <2>8 DEF Modes
  <1>2. QED
    BY <1>1 DEF Release, TakeAll

-----------------------------------------------------------------------------
(***************************************************************************)
(* The safety properties, for given states rather than the current ones.   *)
(***************************************************************************)
ExclusionIn(st, lk) ==
    \A o, p \in Active(st) : o # p => ~PlansConflict(lk[o], lk[p])

OrderIn(st, rq, kn, lk, ar) ==
    \A o \in Active(st), p \in Ops :
        /\ rq[o].queue = "line"
        /\ rq[p].queue = "line"
        /\ st[p] = "waiting"
        /\ ar[p] < ar[o]
        => p \in kn /\ ~PlansConflict(lk[p], lk[o])

DistinctIn(st, ar) ==
    \A o, p \in Ops :
        o # p /\ st[o] = "waiting" /\ st[p] = "waiting" => ar[o] # ar[p]

\* What a pass needs of what its handler leaves behind.
PassReady(st, hd, oc, arriving) ==
    /\ st \in [Ops -> States]
    /\ oc \in [Ops -> Outcomes]
    /\ arriving \in SUBSET Ops
    /\ locks' \in [Ops -> Plans]
    /\ arrival' \in [Ops -> Nat]
    /\ hd = TakeAll(EmptyTable, Active(st), locks')
    /\ ExclusionIn(st, locks')
    /\ OrderIn(st, req', known', locks', arrival')
    /\ DistinctIn(st, arrival')

\* What a pass does: it only ends or starts operations that wait, starts
\* none it should turn away, and keeps the safety properties.
PassDone(st) ==
    /\ state' \in [Ops -> States]
    /\ outcome' \in [Ops -> Outcomes]
    /\ held' \in [Keys -> Entry]
    /\ \A o \in Ops :
          \/ state'[o] = st[o]
          \/ st[o] = "waiting" /\ state'[o] = "done"
          \/ st[o] = "waiting" /\ state'[o] = "granted" /\ Verdict(o) = "start"
    /\ \A o \in Ops : st[o] = "waiting" /\ state'[o] = "granted" => o \in known'
    /\ HeldMatchesActive'
    /\ Exclusion'
    /\ AdmissionOrder'

\* Finitely many operations hold locks.
LEMMA ActiveFinite ==
    ASSUME NEW st
    PROVE  IsFiniteSet(Active(st))
  <1>1. Active(st) \in SUBSET Ops
    BY DEF Active
  <1>2. QED
    BY <1>1, OpsAssumption, FS_Subset

\* The grant pass keeps the safety properties, whatever handler it ends.
LEMMA PassKeepsSafety ==
    ASSUME NEW st, NEW hd, NEW oc, NEW arriving,
           PassReady(st, hd, oc, arriving),
           Grant(st, hd, oc, arriving)
    PROVE  PassDone(st)
  <1> USE DEF PassReady
  <1>1. PICK nested \in SUBSET NestedQueue(st), line \in SUBSET LineQueue(st) :
          LET free == nested \cup line
              after == AfterPass(st, free)
              busy == {o \in arriving : BusyRefuses(o, after)}
          IN  /\ NestedFree(st, hd, nested)
              /\ LineFree(st, hd, nested, line)
              /\ state' = [o \in Ops |-> IF o \in busy THEN "done" ELSE after[o]]
              /\ held' = TakeAll(hd, Starts(free), locks')
              /\ outcome' = [o \in Ops |->
                                IF o \in busy THEN "busy"
                                ELSE IF o \in free \ Starts(free) THEN Verdict(o)
                                ELSE oc[o]]
    BY DEF Grant
  <1> DEFINE free == nested \cup line
             after == AfterPass(st, free)
             busy == {o \in arriving : BusyRefuses(o, after)}
  <1>2. /\ NestedFree(st, hd, nested)
        /\ LineFree(st, hd, nested, line)
        /\ state' = [o \in Ops |-> IF o \in busy THEN "done" ELSE after[o]]
        /\ held' = TakeAll(hd, Starts(free), locks')
        /\ outcome' = [o \in Ops |->
                          IF o \in busy THEN "busy"
                          ELSE IF o \in free \ Starts(free) THEN Verdict(o)
                          ELSE oc[o]]
    BY <1>1
  <1>3. free \subseteq Ops /\ \A o \in free : st[o] = "waiting"
    BY DEF NestedQueue, LineQueue
  <1>4. \A o \in Ops : Verdict(o) \in {"start", "refused", "superseded"}
    BY DEF Verdict
  <1>5. \A o \in Ops : after[o] = IF o \notin free THEN st[o]
                                  ELSE IF Verdict(o) = "start" THEN "granted"
                                  ELSE "done"
    BY DEF AfterPass
  <1>6. \A o \in busy : after[o] = "waiting"
    BY DEF BusyRefuses
  <1> HIDE DEF free, after, busy
  <1>7. \A o \in Ops :
          /\ o \in busy => st[o] = "waiting" /\ state'[o] = "done"
          /\ o \in Starts(free) => st[o] = "waiting" /\ state'[o] = "granted"
          /\ o \in free \ Starts(free) => st[o] = "waiting" /\ state'[o] = "done"
          /\ o \notin free \cup busy => state'[o] = st[o]
    BY <1>2, <1>3, <1>5, <1>6 DEF Starts
  <1>8. Starts(free) \subseteq free
    BY DEF Starts
  <1>9. /\ state' \in [Ops -> States]
        /\ \A o \in Ops :
             \/ state'[o] = st[o]
             \/ st[o] = "waiting" /\ state'[o] = "done"
             \/ st[o] = "waiting" /\ state'[o] = "granted" /\ Verdict(o) = "start"
    <2>1. \A o \in Starts(free) : Verdict(o) = "start"
      BY DEF Starts
    <2>2. \A o \in Ops :
             \/ state'[o] = st[o]
             \/ st[o] = "waiting" /\ state'[o] = "done"
             \/ st[o] = "waiting" /\ state'[o] = "granted" /\ Verdict(o) = "start"
      BY <1>7, <2>1
    <2>3. \A o \in Ops : state'[o] \in States
      BY <2>2 DEF States
    <2>4. QED
      BY <1>2, <2>2, <2>3
  <1>10. outcome' \in [Ops -> Outcomes]
    <2>1. \A o \in free \ Starts(free) : Verdict(o) \in Outcomes
      BY <1>3, <1>4 DEF Starts, Outcomes
    <2>2. QED
      BY <1>2, <2>1 DEF Outcomes
  <1>11. Active(state') = Active(st) \cup Starts(free)
    BY <1>3, <1>7, <1>8 DEF Active
  <1>12. Active(st) \cap Starts(free) = {}
    BY <1>3, <1>8 DEF Active
  <1>13. held' = TakeAll(EmptyTable, Active(state'), locks')
    <2>1. IsFiniteSet(Active(st))
      BY ActiveFinite
    <2>2. IsFiniteSet(Starts(free))
      BY <1>3, <1>8, OpsAssumption, FS_Subset
    <2>3. QED
      BY <1>2, <1>11, <1>12, <2>1, <2>2, TakeAllUnion
  <1>14. held' \in [Keys -> Entry]
    BY <1>13, ActiveFinite, TakeAllType
  <1>15. \A a \in Active(st), f \in free : ~PlansConflict(locks'[a], locks'[f])
    <2> SUFFICES ASSUME NEW f \in free
                 PROVE  ~\E a \in Active(st) : PlansConflict(locks'[a], locks'[f])
      OBVIOUS
    <2>1. ~TableConflicts(hd, locks'[f])
      BY <1>2 DEF NestedFree, LineFree, free
    <2>2. locks'[f] \in Plans /\ \A a \in Active(st) : locks'[a] \in Plans
      BY <1>3 DEF Active
    <2>3. QED
      BY <2>1, <2>2, ActiveFinite, TableFaithful
  <1>16. \A f, g \in Starts(free) : f # g => ~PlansConflict(locks'[f], locks'[g])
    <2>1. ASSUME NEW f \in Starts(free), NEW g \in Starts(free), Before(f, g)
          PROVE  ~PlansConflict(locks'[f], locks'[g])
      <3>1. CASE f \in line /\ g \in nested
        <4>1. g \in NestedQueue(st) /\ g \notin free \ Starts(free)
          BY <3>1, <2>1
        <4>2. \/ g \in free \ Starts(free)
              \/ ~PlansConflict(locks'[g], locks'[f])
          BY <1>2, <3>1, <4>1 DEF LineFree, free
        <4>3. QED
          BY <4>1, <4>2, ConflictSymmetric
      <3>2. CASE g \in line
        <4>1. f \in NestedQueue(st) \cup {p \in LineQueue(st) : Before(p, g)}
          BY <1>8, <2>1 DEF free
        <4>2. f \notin free \ Starts(free)
          BY <2>1
        <4>3. \/ f \in free \ Starts(free)
              \/ ~PlansConflict(locks'[f], locks'[g])
          BY <1>2, <3>2, <4>1 DEF LineFree, free
        <4>4. QED
          BY <4>2, <4>3
      <3>3. CASE f \in nested /\ g \in nested
        <4>1. f \in Starts(nested)
          BY <2>1, <3>3 DEF Starts
        <4>2. QED
          BY <1>2, <2>1, <3>3, <4>1 DEF NestedFree
      <3>4. QED
        BY <1>8, <3>1, <3>2, <3>3 DEF free
    <2>2. ASSUME NEW f \in Starts(free), NEW g \in Starts(free), f # g
          PROVE  Before(f, g) \/ Before(g, f)
      <3>1. /\ f \in Ops /\ g \in Ops /\ st[f] = "waiting" /\ st[g] = "waiting"
        BY <1>3, <1>8
      <3>2. arrival'[f] # arrival'[g] /\ arrival'[f] \in Nat /\ arrival'[g] \in Nat
        BY <2>2, <3>1 DEF DistinctIn
      <3>3. QED
        BY <3>2 DEF Before
    <2>3. QED
      BY <2>1, <2>2, ConflictSymmetric
  <1>17. ExclusionIn(state', locks')
    BY <1>11, <1>8, <1>15, <1>16, ConflictSymmetric DEF ExclusionIn
  <1>18. OrderIn(state', req', known', locks', arrival')
    <2> SUFFICES ASSUME NEW o \in Active(state'), NEW p \in Ops,
                        req'[o].queue = "line", req'[p].queue = "line",
                        state'[p] = "waiting", arrival'[p] < arrival'[o]
                 PROVE  p \in known' /\ ~PlansConflict(locks'[p], locks'[o])
      BY DEF OrderIn
    <2>1. st[p] = "waiting" /\ p \notin free
      BY <1>3, <1>7, <1>9
    <2>2. CASE o \in Active(st)
      BY <2>1, <2>2 DEF OrderIn
    <2>3. CASE o \in Starts(free)
      <3>1. o \in line
        BY <1>8, <2>3 DEF free, NestedQueue
      <3>2. p \in {q \in LineQueue(st) : Before(q, o)}
        BY <2>1 DEF LineQueue, Before
      <3>3. /\ p \in known'
            /\ p \in (nested \cup line) \ Starts(nested \cup line)
               \/ ~PlansConflict(locks'[p], locks'[o])
        BY <1>2, <3>1, <3>2 DEF LineFree
      <3>4. QED
        BY <2>1, <3>3 DEF free
    <2>4. QED
      BY <1>11, <2>2, <2>3
  <1>19. HeldMatchesActive' /\ Exclusion' /\ AdmissionOrder'
    BY <1>13, <1>17, <1>18
    DEF HeldMatchesActive, Exclusion, AdmissionOrder, ExclusionIn, OrderIn, Active
  <1>20. \A o \in Ops : st[o] = "waiting" /\ state'[o] = "granted" => o \in known'
    <2>1. free \subseteq known'
      BY <1>2 DEF NestedFree, LineFree, free
    <2>2. QED
      BY <1>7, <1>8, <2>1
  <1>21. QED
    BY <1>9, <1>10, <1>14, <1>19, <1>20 DEF PassDone

-----------------------------------------------------------------------------
(***************************************************************************)
(* A handler that leaves the queues in order, and then runs a pass, keeps  *)
(* the whole invariant.                                                    *)
(***************************************************************************)
\* The type of what a pass does not touch.
RestTyped ==
    /\ req' \in [Ops -> Requests \cup {NoRequest}]
    /\ known' \in SUBSET Ops
    /\ locks' \in [Ops -> Plans]
    /\ arrival' \in [Ops -> Nat]
    /\ admitted' \in Nat
    /\ parent' \in [Ops -> Ops \cup {NoOp}]
    /\ paused' \in BOOLEAN
    /\ withdrawing' \in SUBSET Ops
    /\ stale' \in SUBSET Ops
    /\ fencedBy' = fencedBy
    /\ starts' \in [Keys -> Nat]

FencesIn(st) ==
    \A k \in Keys, o \in Active(st) :
        /\ fencedBy[k] # NoOp
        /\ locks'[o][k] # "none"
        /\ OnItsOwn(req'[o])
        => req'[o].exempt \/ fencedBy[k] = o

PauseIn(st) ==
    /\ \A o \in withdrawing' : st[o] = "granted"
    /\ paused' =>
          \A o \in Ops :
              OnItsOwn(req'[o]) /\ ~req'[o].carriesOn =>
                  /\ st[o] # "waiting"
                  /\ st[o] = "granted" => o \in withdrawing'

HandlerLeaves(st, hd, oc, arriving) ==
    /\ PassReady(st, hd, oc, arriving)
    /\ RestTyped
    /\ \A o \in Ops : arrival'[o] <= admitted'
    /\ FencesIn(st)
    /\ PauseIn(st)

\* A handler that leaves things in order and ends with a pass keeps LanesInv.
LEMMA HandlerThenPass ==
    ASSUME LanesInv, NEW st, NEW hd, NEW oc, NEW arriving,
           HandlerLeaves(st, hd, oc, arriving),
           Grant(st, hd, oc, arriving)
    PROVE  LanesInv'
  <1>1. PassReady(st, hd, oc, arriving) /\ RestTyped /\ FencesIn(st) /\ PauseIn(st)
        /\ \A o \in Ops : arrival'[o] <= admitted'
    BY DEF HandlerLeaves
  <1>2. PassDone(st)
    BY <1>1, PassKeepsSafety
  <1>3. \A o \in Ops :
          \/ state'[o] = st[o]
          \/ st[o] = "waiting" /\ state'[o] = "done"
          \/ st[o] = "waiting" /\ state'[o] = "granted" /\ Verdict(o) = "start"
    BY <1>2 DEF PassDone
  <1>4. TypeOK'
    BY <1>1, <1>2 DEF PassDone, RestTyped, TypeOK, LanesInv
  <1>5. PlacesInOrder'
    <2>1. DistinctIn(st, arrival')
      BY <1>1 DEF PassReady
    <2>2. \A o \in Ops : state'[o] = "waiting" => st[o] = "waiting"
      BY <1>3
    <2>3. QED
      BY <1>1, <2>1, <2>2 DEF PlacesInOrder, DistinctIn
  <1>6. HeldMatchesActive' /\ Exclusion' /\ AdmissionOrder'
    BY <1>2 DEF PassDone
  <1>7. FencesOnWholes'
    BY <1>1 DEF RestTyped, FencesOnWholes, LanesInv
  <1>8. FenceHolds'
    <2> SUFFICES ASSUME NEW k \in Keys, NEW o \in Active(state'),
                        fencedBy[k] # NoOp, locks'[o][k] # "none",
                        OnItsOwn(req'[o])
                 PROVE  req'[o].exempt \/ fencedBy[k] = o
      BY <1>1 DEF FenceHolds, RestTyped, Active
    <2>1. o \in Ops
      BY DEF Active
    <2>2. CASE state'[o] = st[o]
      <3>1. o \in Active(st)
        BY <2>1, <2>2 DEF Active
      <3>2. QED
        BY <1>1, <3>1 DEF FencesIn
    <2>3. CASE Verdict(o) = "start"
      <3>1. k \in Names(locks'[o]) /\ WholeOf[k] = k
        BY DEF Names, FencesOnWholes, LanesInv
      <3>2. QED
        BY <2>3, <3>1 DEF Verdict
    <2>4. QED
      BY <1>3, <2>1, <2>2, <2>3 DEF Active
  <1>9. PauseWithdraws'
    <2>1. withdrawing' \subseteq Ops
      BY <1>1 DEF RestTyped
    <2>2. \A o \in withdrawing' : state'[o] = "granted"
      BY <1>1, <1>3, <2>1 DEF PauseIn
    <2>3. ASSUME paused', NEW o \in Ops, OnItsOwn(req'[o]), ~req'[o].carriesOn
          PROVE  state'[o] # "waiting"
                 /\ (state'[o] = "granted" => o \in withdrawing')
      BY <1>1, <1>3, <2>3 DEF PauseIn
    <2>4. QED
      BY <2>2, <2>3 DEF PauseWithdraws
  <1>10. QED
    BY <1>4, <1>5, <1>6, <1>7, <1>8, <1>9 DEF LanesInv

-----------------------------------------------------------------------------
(***************************************************************************)
(* The handlers, by what they do to the queues.                            *)
(***************************************************************************)
Frame == UNCHANGED <<req, known, locks, arrival, admitted, parent, stale,
                     fencedBy, starts>>

\* Ending some of those that wait leaves things in order, paused or not.
LEMMA EndingLeaves ==
    ASSUME LanesInv, Frame, NEW st \in [Ops -> States],
           NEW oc \in [Ops -> Outcomes],
           \A o \in Ops : st[o] = state[o] \/ (state[o] = "waiting" /\ st[o] = "done"),
           paused' \in BOOLEAN, withdrawing' \in SUBSET Ops, PauseIn(st)
    PROVE  HandlerLeaves(st, held, oc, {})
  <1>1. Active(st) = Active(state)
    BY DEF Active
  <1>2. \A o \in Ops : st[o] = "waiting" => state[o] = "waiting"
    OBVIOUS
  <1>3. RestTyped
    BY DEF RestTyped, Frame, LanesInv, TypeOK
  <1>4. held = TakeAll(EmptyTable, Active(st), locks')
    BY <1>1 DEF LanesInv, HeldMatchesActive, Frame
  <1>5. ExclusionIn(st, locks')
    BY <1>1 DEF LanesInv, Exclusion, ExclusionIn, Frame
  <1>6. OrderIn(st, req', known', locks', arrival')
    BY <1>1, <1>2 DEF LanesInv, AdmissionOrder, OrderIn, Frame
  <1>7. DistinctIn(st, arrival')
    BY <1>2 DEF LanesInv, PlacesInOrder, DistinctIn, Frame
  <1>8. PassReady(st, held, oc, {})
    BY <1>3, <1>4, <1>5, <1>6, <1>7 DEF PassReady, RestTyped
  <1>9. FencesIn(st)
    BY <1>1 DEF LanesInv, FenceHolds, FencesIn, Frame
  <1>10. \A o \in Ops : arrival'[o] <= admitted'
    BY DEF LanesInv, PlacesInOrder, Frame
  <1>11. QED
    BY <1>3, <1>8, <1>9, <1>10 DEF HandlerLeaves

\* Releasing one that is granted or runs leaves things in order.
LEMMA ReleasingLeaves ==
    ASSUME LanesInv, Frame, NEW x \in Active(state),
           NEW oc \in [Ops -> Outcomes],
           paused' = paused, withdrawing' = withdrawing \ {x}
    PROVE  HandlerLeaves([state EXCEPT ![x] = "done"],
                         Release(held, locks[x]), oc, {})
  <1> DEFINE st == [state EXCEPT ![x] = "done"]
  <1>1. x \in Ops /\ state \in [Ops -> States] /\ st \in [Ops -> States]
    BY DEF Active, LanesInv, TypeOK, States
  <1>2. Active(st) = Active(state) \ {x}
    BY <1>1 DEF Active
  <1>3. \A o \in Ops : st[o] = IF o = x THEN "done" ELSE state[o]
    BY <1>1
  <1> HIDE DEF st
  <1>4. RestTyped
    BY DEF RestTyped, Frame, LanesInv, TypeOK
  <1>5. Release(held, locks[x]) = TakeAll(EmptyTable, Active(st), locks')
    <2>1. \A o \in Active(state) : locks[o] \in Plans
      BY DEF LanesInv, TypeOK, Active
    <2>2. \A o, p \in Active(state) : o # p => ~PlansConflict(locks[o], locks[p])
      BY DEF LanesInv, Exclusion
    <2>3. held = TakeAll(EmptyTable, Active(state), locks)
      BY DEF LanesInv, HeldMatchesActive
    <2>4. Release(TakeAll(EmptyTable, Active(state), locks), locks[x])
            = TakeAll(EmptyTable, Active(state) \ {x}, locks)
      BY <2>1, <2>2, ActiveFinite, ReleaseOne
    <2>5. QED
      BY <1>2, <2>3, <2>4 DEF Frame
  <1>6. ExclusionIn(st, locks')
    BY <1>2 DEF LanesInv, Exclusion, ExclusionIn, Frame
  <1>7. OrderIn(st, req', known', locks', arrival')
    BY <1>2, <1>3 DEF LanesInv, AdmissionOrder, OrderIn, Frame
  <1>8. DistinctIn(st, arrival')
    BY <1>3 DEF LanesInv, PlacesInOrder, DistinctIn, Frame
  <1>9. PassReady(st, Release(held, locks[x]), oc, {})
    BY <1>1, <1>4, <1>5, <1>6, <1>7, <1>8 DEF PassReady, RestTyped
  <1>10. FencesIn(st)
    BY <1>2 DEF LanesInv, FenceHolds, FencesIn, Frame
  <1>11. PauseIn(st)
    <2>1. \A o \in withdrawing' : st[o] = "granted"
      <3>1. withdrawing \subseteq Ops /\ \A o \in withdrawing : state[o] = "granted"
        BY DEF LanesInv, PauseWithdraws, TypeOK
      <3>2. QED
        BY <1>3, <3>1
    <2>2. ASSUME paused', NEW o \in Ops, OnItsOwn(req'[o]), ~req'[o].carriesOn
          PROVE  st[o] # "waiting" /\ (st[o] = "granted" => o \in withdrawing')
      <3>1. paused
        BY <2>2
      <3>2. state[o] # "waiting" /\ (state[o] = "granted" => o \in withdrawing)
        BY <2>2, <3>1 DEF LanesInv, PauseWithdraws, Frame
      <3>3. QED
        BY <1>3, <3>2
    <2>3. QED
      BY <2>1, <2>2 DEF PauseIn
  <1>12. \A o \in Ops : arrival'[o] <= admitted'
    BY DEF LanesInv, PlacesInOrder, Frame
  <1>13. HandlerLeaves(st, Release(held, locks[x]), oc, {})
    BY <1>4, <1>9, <1>10, <1>11, <1>12 DEF HandlerLeaves
  <1>14. QED
    BY <1>13 DEF st

-----------------------------------------------------------------------------
(***************************************************************************)
(* LanesInv is inductive.                                                  *)
(***************************************************************************)
LEMMA InitEstablishes == Init => LanesInv
  <1> SUFFICES ASSUME Init PROVE LanesInv
    OBVIOUS
  <1> USE DEF Init
  <1>1. Active(state) = {}
    BY DEF Active
  <1>2. TypeOK
    <2>1. NoLocks \in Plans
      BY DEF NoLocks, Plans, Modes
    <2>2. EmptyTable \in [Keys -> Entry]
      BY DEF EmptyTable, NotHeld, Entry
    <2>3. QED
      BY <2>1, <2>2 DEF TypeOK, States, Outcomes
  <1>3. HeldMatchesActive
    BY <1>1, TakeNone DEF HeldMatchesActive
  <1>4. PlacesInOrder
    BY DEF PlacesInOrder
  <1>5. Exclusion /\ AdmissionOrder /\ FenceHolds
    BY <1>1 DEF Exclusion, AdmissionOrder, FenceHolds
  <1>6. FencesOnWholes /\ PauseWithdraws
    BY DEF FencesOnWholes, PauseWithdraws
  <1>7. QED
    BY <1>2, <1>3, <1>4, <1>5, <1>6 DEF LanesInv

\* An admission that is turned away at once changes no queue.
LEMMA AdmitRefusedKeeps ==
    ASSUME LanesInv, NEW o \in Ops, NEW r \in Requests, withdrawing = {},
           state[o] = "idle",
           req' = [req EXCEPT ![o] = r],
           state' = [state EXCEPT ![o] = "done"],
           outcome' = [outcome EXCEPT ![o] = RefusedAs(r)],
           UNCHANGED <<known, locks, arrival, admitted, parent, held, paused,
                       withdrawing, stale, fencedBy, starts>>
    PROVE  LanesInv'
  <1>1. /\ \A p \in Ops : state'[p] = IF p = o THEN "done" ELSE state[p]
        /\ \A p \in Ops \ {o} : req'[p] = req[p]
    BY DEF LanesInv, TypeOK
  <1>2. Active(state') = Active(state) /\ o \notin Active(state')
    BY <1>1 DEF Active
  <1>3. TypeOK'
    <2>1. RefusedAs(r) \in Outcomes
      BY DEF RefusedAs, Outcomes
    <2>2. QED
      BY <2>1 DEF LanesInv, TypeOK, States
  <1>4. PlacesInOrder'
    BY <1>1 DEF LanesInv, PlacesInOrder
  <1>5. HeldMatchesActive'
    BY <1>2 DEF LanesInv, HeldMatchesActive
  <1>6. Exclusion'
    BY <1>2 DEF LanesInv, Exclusion
  <1>7. AdmissionOrder'
    <2> SUFFICES ASSUME NEW a \in Active(state'), NEW p \in Ops,
                        req'[a].queue = "line", req'[p].queue = "line",
                        state'[p] = "waiting", arrival'[p] < arrival'[a]
                 PROVE  p \in known' /\ ~PlansConflict(locks'[p], locks'[a])
      BY DEF AdmissionOrder, Active
    <2>1. a \in Active(state) /\ a \in Ops \ {o} /\ p \in Ops \ {o}
          /\ state[p] = "waiting"
      BY <1>1, <1>2 DEF Active
    <2>2. QED
      BY <1>1, <2>1 DEF LanesInv, AdmissionOrder
  <1>8. FenceHolds'
    <2> SUFFICES ASSUME NEW k \in Keys, NEW a \in Active(state'),
                        fencedBy[k] # NoOp, locks[a][k] # "none",
                        OnItsOwn(req'[a])
                 PROVE  req'[a].exempt \/ fencedBy[k] = a
      BY DEF FenceHolds, Active
    <2>1. a \in Active(state) /\ req'[a] = req[a]
      BY <1>1, <1>2 DEF Active
    <2>2. QED
      BY <2>1 DEF LanesInv, FenceHolds
  <1>9. FencesOnWholes'
    BY DEF LanesInv, FencesOnWholes
  <1>10. PauseWithdraws'
    <2>1. ASSUME paused, NEW p \in Ops, OnItsOwn(req'[p]), ~req'[p].carriesOn
          PROVE  state'[p] # "waiting" /\ state'[p] # "granted"
      BY <1>1, <2>1 DEF LanesInv, PauseWithdraws
    <2>2. paused' = paused /\ withdrawing' = {}
      OBVIOUS
    <2>3. QED
      BY <2>1, <2>2 DEF PauseWithdraws
  <1>11. QED
    BY <1>3, <1>4, <1>5, <1>6, <1>7, <1>8, <1>9, <1>10 DEF LanesInv

\* An admission that takes its place in line leaves things in order.
LEMMA AdmitLeaves ==
    ASSUME LanesInv, NEW o \in Ops, NEW r \in Requests, NEW p \in Ops \cup {NoOp},
           withdrawing = {}, state[o] = "idle", ~AdmissionRefused(r),
           req' = [req EXCEPT ![o] = r],
           arrival' = [arrival EXCEPT ![o] = admitted + 1],
           admitted' = admitted + 1,
           parent' = [parent EXCEPT ![o] = p],
           known' = IF r.lookup THEN known ELSE known \cup {o},
           locks' = IF r.lookup THEN locks ELSE [locks EXCEPT ![o] = r.locks],
           UNCHANGED <<paused, withdrawing, stale, fencedBy, starts>>
    PROVE  HandlerLeaves([state EXCEPT ![o] = "waiting"], held, outcome, {o})
  <1> DEFINE st == [state EXCEPT ![o] = "waiting"]
  <1>1. /\ st \in [Ops -> States]
        /\ \A q \in Ops : st[q] = IF q = o THEN "waiting" ELSE state[q]
    BY DEF LanesInv, TypeOK, States
  <1> HIDE DEF st
  <1>2. r.locks \in Plans
    BY RequestsAssumption DEF Request
  <1>3. RestTyped
    <2>1. locks' \in [Ops -> Plans] /\ known' \in SUBSET Ops
      BY <1>2 DEF LanesInv, TypeOK
    <2>2. arrival' \in [Ops -> Nat] /\ admitted' \in Nat
      BY DEF LanesInv, TypeOK
    <2>3. QED
      BY <2>1, <2>2 DEF LanesInv, TypeOK, RestTyped
  <1>4. \A q \in Ops \ {o} :
          /\ locks'[q] = locks[q]
          /\ q \in known' <=> q \in known
          /\ req'[q] = req[q]
          /\ arrival'[q] = arrival[q]
    BY DEF LanesInv, TypeOK
  <1>5. arrival'[o] = admitted + 1 /\ req'[o] = r
    BY DEF LanesInv, TypeOK
  <1>6. \A q \in Ops : arrival[q] \in Nat /\ arrival[q] <= admitted
    BY DEF LanesInv, TypeOK, PlacesInOrder
  <1>7. admitted \in Nat
    BY DEF LanesInv, TypeOK
  <1>8. Active(st) = Active(state) /\ o \notin Active(st) /\ Active(st) \subseteq Ops
    BY <1>1 DEF Active
  <1>9. held = TakeAll(EmptyTable, Active(st), locks')
    <2>1. \A k \in Keys : /\ Sharers(Active(st), locks', k)
                               = Sharers(Active(st), locks, k)
                          /\ TakenAlone(Active(st), locks', k)
                               = TakenAlone(Active(st), locks, k)
      BY <1>4, <1>8 DEF Sharers, TakenAlone
    <2>2. TakeAll(EmptyTable, Active(st), locks')
            = TakeAll(EmptyTable, Active(st), locks)
      BY <2>1 DEF TakeAll
    <2>3. QED
      BY <1>8, <2>2 DEF LanesInv, HeldMatchesActive
  <1>10. ExclusionIn(st, locks')
    BY <1>4, <1>8 DEF LanesInv, Exclusion, ExclusionIn
  <1>11. OrderIn(st, req', known', locks', arrival')
    <2> SUFFICES ASSUME NEW a \in Active(st), NEW q \in Ops,
                        req'[a].queue = "line", req'[q].queue = "line",
                        st[q] = "waiting", arrival'[q] < arrival'[a]
                 PROVE  q \in known' /\ ~PlansConflict(locks'[q], locks'[a])
      BY DEF OrderIn
    <2>1. a \in Ops \ {o} /\ a \in Active(state)
      BY <1>8
    <2>2. q # o
      BY <1>4, <1>5, <1>6, <1>7, <2>1
    <2>3. state[q] = "waiting"
      BY <1>1, <2>2
    <2>4. QED
      BY <1>4, <2>1, <2>2, <2>3 DEF LanesInv, AdmissionOrder
  <1>12. DistinctIn(st, arrival')
    <2> SUFFICES ASSUME NEW a \in Ops, NEW q \in Ops, a # q,
                        st[a] = "waiting", st[q] = "waiting"
                 PROVE  arrival'[a] # arrival'[q]
      BY DEF DistinctIn
    <2>1. CASE a = o \/ q = o
      BY <1>4, <1>5, <1>6, <1>7, <2>1
    <2>2. CASE a # o /\ q # o
      BY <1>1, <1>4, <2>2 DEF LanesInv, PlacesInOrder
    <2>3. QED
      BY <2>1, <2>2
  <1>13. PassReady(st, held, outcome, {o})
    <2>1. outcome \in [Ops -> Outcomes]
      BY DEF LanesInv, TypeOK
    <2>2. QED
      BY <1>1, <1>3, <1>9, <1>10, <1>11, <1>12, <2>1 DEF PassReady, RestTyped
  <1>14. FencesIn(st)
    <2> SUFFICES ASSUME NEW k \in Keys, NEW a \in Active(st),
                        fencedBy[k] # NoOp, locks'[a][k] # "none",
                        OnItsOwn(req'[a])
                 PROVE  req'[a].exempt \/ fencedBy[k] = a
      BY DEF FencesIn
    <2>1. a \in Active(state) /\ req'[a] = req[a] /\ locks'[a] = locks[a]
      BY <1>4, <1>8
    <2>2. QED
      BY <2>1 DEF LanesInv, FenceHolds
  <1>15. PauseIn(st)
    <2>1. ASSUME paused, NEW q \in Ops, OnItsOwn(req'[q]), ~req'[q].carriesOn
          PROVE  st[q] # "waiting" /\ st[q] # "granted"
      <3>1. q # o
        BY <1>5, <2>1 DEF AdmissionRefused
      <3>2. QED
        BY <1>1, <1>4, <2>1, <3>1 DEF LanesInv, PauseWithdraws
    <2>2. paused' = paused /\ withdrawing' = {}
      OBVIOUS
    <2>3. QED
      BY <2>1, <2>2 DEF PauseIn
  <1>16. \A q \in Ops : arrival'[q] <= admitted'
    BY <1>4, <1>5, <1>6, <1>7
  <1>17. HandlerLeaves(st, held, outcome, {o})
    BY <1>3, <1>13, <1>14, <1>15, <1>16 DEF HandlerLeaves
  <1>18. QED
    BY <1>17 DEF st

\* Learning the locks of an operation that waits leaves things in order:
\* nothing behind it in line can hold any, since it held back everything.
LEMMA LookupLeaves ==
    ASSUME LanesInv, NEW o \in Ops, withdrawing = {},
           state[o] = "waiting", o \notin known,
           known' = known \cup {o},
           locks' = [locks EXCEPT ![o] = req[o].locks],
           UNCHANGED <<req, arrival, admitted, parent, paused, withdrawing,
                       stale, fencedBy, starts>>
    PROVE  HandlerLeaves(state, held, outcome, {})
  <1>1. req[o].locks \in Plans
    <2>1. NoRequest.locks \in Plans
      BY DEF NoRequest, NoLocks, Plans, Modes
    <2>2. \A r \in Requests : r.locks \in Plans
      BY RequestsAssumption DEF Request
    <2>3. req[o] \in Requests \cup {NoRequest}
      BY DEF LanesInv, TypeOK
    <2>4. QED
      BY <2>1, <2>2, <2>3
  <1>2. RestTyped
    BY <1>1 DEF LanesInv, TypeOK, RestTyped
  <1>3. \A q \in Ops \ {o} : locks'[q] = locks[q] /\ (q \in known' <=> q \in known)
    BY DEF LanesInv, TypeOK
  <1>4. o \notin Active(state) /\ Active(state) \subseteq Ops
    BY DEF Active
  <1>5. held = TakeAll(EmptyTable, Active(state), locks')
    <2>1. \A k \in Keys : /\ Sharers(Active(state), locks', k)
                               = Sharers(Active(state), locks, k)
                          /\ TakenAlone(Active(state), locks', k)
                               = TakenAlone(Active(state), locks, k)
      BY <1>3, <1>4 DEF Sharers, TakenAlone
    <2>2. TakeAll(EmptyTable, Active(state), locks')
            = TakeAll(EmptyTable, Active(state), locks)
      BY <2>1 DEF TakeAll
    <2>3. QED
      BY <2>2 DEF LanesInv, HeldMatchesActive
  <1>6. ExclusionIn(state, locks')
    BY <1>3, <1>4 DEF LanesInv, Exclusion, ExclusionIn
  <1>7. OrderIn(state, req', known', locks', arrival')
    <2> SUFFICES ASSUME NEW a \in Active(state), NEW q \in Ops,
                        req[a].queue = "line", req[q].queue = "line",
                        state[q] = "waiting", arrival[q] < arrival[a]
                 PROVE  q \in known' /\ ~PlansConflict(locks'[q], locks'[a])
      BY DEF OrderIn
    <2>1. q \in known /\ ~PlansConflict(locks[q], locks[a])
      BY DEF LanesInv, AdmissionOrder
    <2>2. q # o
      BY <2>1
    <2>3. QED
      BY <1>3, <1>4, <2>1, <2>2
  <1>8. DistinctIn(state, arrival')
    BY DEF LanesInv, PlacesInOrder, DistinctIn
  <1>9. PassReady(state, held, outcome, {})
    BY <1>2, <1>5, <1>6, <1>7, <1>8 DEF LanesInv, TypeOK, PassReady, RestTyped
  <1>10. FencesIn(state)
    BY <1>3, <1>4 DEF LanesInv, FenceHolds, FencesIn
  <1>11. PauseIn(state)
    BY DEF LanesInv, PauseWithdraws, PauseIn
  <1>12. \A q \in Ops : arrival'[q] <= admitted'
    BY DEF LanesInv, PlacesInOrder
  <1>13. QED
    BY <1>2, <1>9, <1>10, <1>11, <1>12 DEF HandlerLeaves

\* What a pause withdraws, it has withdrawn still when one that waits ends.
LEMMA EndOnePause ==
    ASSUME LanesInv, NEW o \in Ops, state[o] = "waiting", Frame,
           UNCHANGED <<paused, withdrawing>>, NEW st,
           \A q \in Ops : st[q] = IF q = o THEN "done" ELSE state[q]
    PROVE  PauseIn(st)
  <1>1. \A q \in withdrawing' : st[q] = "granted"
    BY DEF LanesInv, PauseWithdraws, TypeOK
  <1>2. ASSUME paused', NEW q \in Ops, OnItsOwn(req'[q]), ~req'[q].carriesOn
        PROVE  st[q] # "waiting" /\ (st[q] = "granted" => q \in withdrawing')
    <2>1. paused
      BY <1>2
    <2>2. state[q] # "waiting" /\ (state[q] = "granted" => q \in withdrawing)
      BY <1>2, <2>1 DEF LanesInv, PauseWithdraws, Frame
    <2>3. QED
      BY <2>2
  <1>3. QED
    BY <1>1, <1>2 DEF PauseIn

\* Ending one operation that waits, outside a pause, leaves things in order.
LEMMA EndOneLeaves ==
    ASSUME LanesInv, NEW o \in Ops, NEW as \in Outcomes, state[o] = "waiting",
           Frame, UNCHANGED <<paused, withdrawing>>
    PROVE  HandlerLeaves([state EXCEPT ![o] = "done"], held,
                         [outcome EXCEPT ![o] = as], {})
  <1> DEFINE st == [state EXCEPT ![o] = "done"]
             oc == [outcome EXCEPT ![o] = as]
  <1>1. /\ st \in [Ops -> States] /\ oc \in [Ops -> Outcomes]
        /\ \A q \in Ops : st[q] = IF q = o THEN "done" ELSE state[q]
    BY DEF LanesInv, TypeOK, States
  <1> HIDE DEF st, oc
  <1>2. \A q \in Ops : st[q] = state[q] \/ (state[q] = "waiting" /\ st[q] = "done")
    BY <1>1
  <1>3. PauseIn(st)
    BY <1>1, EndOnePause
  <1>4. HandlerLeaves(st, held, oc, {})
    <2>1. paused' \in BOOLEAN /\ withdrawing' \in SUBSET Ops
      BY DEF LanesInv, TypeOK
    <2>2. QED
      BY <1>1, <1>2, <1>3, <2>1, EndingLeaves
  <1>5. QED
    BY <1>4 DEF st, oc

\* Ending one operation that waits, outside a pause, and then running a pass.
LEMMA EndOneKeeps ==
    ASSUME LanesInv, NEW o \in Ops, NEW as \in Outcomes, state[o] = "waiting",
           Frame, UNCHANGED <<paused, withdrawing>>,
           Grant([state EXCEPT ![o] = "done"], held,
                 [outcome EXCEPT ![o] = as], {})
    PROVE  LanesInv'
  BY EndOneLeaves, HandlerThenPass

\* Releasing one that is granted or runs, as a pass then finds it.
LEMMA ReleaseLeaves ==
    ASSUME LanesInv, NEW o \in Active(state), NEW as \in Outcomes,
           ReleaseAs(o, as), withdrawing' = withdrawing \ {o}
    PROVE  HandlerLeaves([state EXCEPT ![o] = "done"], Release(held, locks[o]),
                         [outcome EXCEPT ![o] = as], {})
  <1>1. Frame /\ paused' = paused
    BY DEF ReleaseAs, Frame
  <1>2. [outcome EXCEPT ![o] = as] \in [Ops -> Outcomes]
    BY DEF LanesInv, TypeOK
  <1>3. QED
    BY <1>1, <1>2, ReleasingLeaves

\* Releasing one that is granted or runs, and then running a pass.
LEMMA ReleaseKeeps ==
    ASSUME LanesInv, NEW o \in Active(state), NEW as \in Outcomes,
           ReleaseAs(o, as), withdrawing' = withdrawing \ {o}
    PROVE  LanesInv'
  BY ReleaseLeaves, HandlerThenPass DEF ReleaseAs

\* setPaused(true) leaves nothing it should withdraw but what it is about to.
LEMMA PausingPause ==
    ASSUME LanesInv, Pause
    PROVE  PauseIn([o \in Ops |-> IF o \in Withdrawn("waiting")
                                    THEN "done" ELSE state[o]])
  <1> DEFINE st == [o \in Ops |-> IF o \in Withdrawn("waiting")
                                    THEN "done" ELSE state[o]]
  <1>1. req' = req /\ withdrawing' = Withdrawn("granted")
    BY DEF Pause
  <1>2. \A o \in withdrawing' : st[o] = "granted"
    BY <1>1 DEF Withdrawn
  <1>3. ASSUME NEW o \in Ops, OnItsOwn(req'[o]), ~req'[o].carriesOn
        PROVE  st[o] # "waiting" /\ (st[o] = "granted" => o \in withdrawing')
    BY <1>1, <1>3 DEF Withdrawn
  <1>4. QED
    BY <1>2, <1>3 DEF PauseIn

\* setPaused(true) leaves things in order.
LEMMA PauseLeaves ==
    ASSUME LanesInv, Pause
    PROVE  HandlerLeaves([o \in Ops |-> IF o \in Withdrawn("waiting")
                                          THEN "done" ELSE state[o]],
                         held,
                         [o \in Ops |-> IF o \in Withdrawn("waiting")
                                          THEN "paused" ELSE outcome[o]], {})
  <1> DEFINE ended == Withdrawn("waiting")
             st == [o \in Ops |-> IF o \in ended THEN "done" ELSE state[o]]
             oc == [o \in Ops |-> IF o \in ended THEN "paused" ELSE outcome[o]]
  <1>1. Frame /\ paused' = TRUE /\ withdrawing' = Withdrawn("granted")
    BY DEF Pause, Frame
  <1>2. /\ st \in [Ops -> States] /\ oc \in [Ops -> Outcomes]
        /\ \A o \in Ops : st[o] = state[o] \/ (state[o] = "waiting" /\ st[o] = "done")
    BY DEF LanesInv, TypeOK, States, Outcomes, Withdrawn
  <1>3. PauseIn(st)
    BY PausingPause
  <1> HIDE DEF st, oc, ended
  <1>4. HandlerLeaves(st, held, oc, {})
    <2>1. paused' \in BOOLEAN /\ withdrawing' \in SUBSET Ops
      BY <1>1 DEF Withdrawn
    <2>2. QED
      BY <1>1, <1>2, <1>3, <2>1, EndingLeaves
  <1>5. QED
    BY <1>4 DEF st, oc, ended

\* setPaused(true), up to its first release.
LEMMA PauseKeeps ==
    ASSUME LanesInv, Pause
    PROVE  LanesInv'
  <1> DEFINE ended == Withdrawn("waiting")
             st == [o \in Ops |-> IF o \in ended THEN "done" ELSE state[o]]
             oc == [o \in Ops |-> IF o \in ended THEN "paused" ELSE outcome[o]]
  <1>1. /\ Withdrawn("granted") = {} => Grant(st, held, oc, {})
        /\ Withdrawn("granted") # {} => state' = st /\ outcome' = oc /\ held' = held
    BY DEF Pause
  <1>2. /\ st \in [Ops -> States] /\ oc \in [Ops -> Outcomes]
    BY DEF LanesInv, TypeOK, States, Outcomes
  <1>3. PauseIn(st)
    BY PausingPause
  <1>4. HandlerLeaves(st, held, oc, {})
    BY PauseLeaves
  <1> HIDE DEF st, oc, ended
  <1>5. CASE Withdrawn("granted") = {}
    BY <1>1, <1>4, <1>5, HandlerThenPass
  <1>6. CASE Withdrawn("granted") # {}
    <2>1. state' = st /\ outcome' = oc /\ held' = held
      BY <1>1, <1>6
    <2>2. TypeOK'
      BY <1>2, <1>4, <2>1 DEF HandlerLeaves, RestTyped, TypeOK, LanesInv
    <2>3. PlacesInOrder' /\ HeldMatchesActive' /\ Exclusion' /\ AdmissionOrder'
      BY <1>4, <2>1
      DEF HandlerLeaves, PassReady, DistinctIn, ExclusionIn, OrderIn, Active,
          PlacesInOrder, HeldMatchesActive, Exclusion, AdmissionOrder
    <2>4. FenceHolds' /\ FencesOnWholes'
      BY <1>4, <2>1 DEF HandlerLeaves, RestTyped, FencesIn, FenceHolds,
                        FencesOnWholes, Active, LanesInv
    <2>5. PauseWithdraws'
      BY <1>3, <2>1 DEF PauseIn, PauseWithdraws
    <2>6. QED
      BY <2>2, <2>3, <2>4, <2>5 DEF LanesInv
  <1>7. QED
    BY <1>5, <1>6

\* The steps that leave the queues, the holders and the fences alone.
LEMMA QuietKeeps ==
    ASSUME LanesInv,
           UNCHANGED <<state, req, known, locks, arrival, admitted, held, outcome,
                       withdrawing, fencedBy>>,
           parent' \in [Ops -> Ops \cup {NoOp}], stale' \in SUBSET Ops,
           paused' \in BOOLEAN, paused' => paused, starts' \in [Keys -> Nat]
    PROVE  LanesInv'
  <1>1. TypeOK'
    BY DEF LanesInv, TypeOK
  <1>2. PlacesInOrder' /\ HeldMatchesActive' /\ Exclusion' /\ AdmissionOrder'
    BY DEF LanesInv, PlacesInOrder, HeldMatchesActive, Exclusion,
           AdmissionOrder, Active
  <1>3. FenceHolds' /\ FencesOnWholes'
    BY DEF LanesInv, FenceHolds, FencesOnWholes, Active
  <1>4. PauseWithdraws'
    BY DEF LanesInv, PauseWithdraws
  <1>5. QED
    BY <1>1, <1>2, <1>3, <1>4 DEF LanesInv

\* Starting a granted operation: it held its locks before, and holds them now.
LEMMA StartKeeps ==
    ASSUME LanesInv, NEW o \in Ops, Start(o)
    PROVE  LanesInv'
  <1>1. /\ state[o] = "granted" /\ withdrawing = {}
        /\ state' = [state EXCEPT ![o] = "running"]
        /\ UNCHANGED <<req, known, locks, arrival, admitted, parent, held, paused,
                       withdrawing, stale, fencedBy, outcome>>
    BY DEF Start
  <1>2. \A p \in Ops : state'[p] = IF p = o THEN "running" ELSE state[p]
    BY <1>1 DEF LanesInv, TypeOK
  <1>3. Active(state') = Active(state)
    BY <1>1, <1>2 DEF Active
  <1>4. starts' \in [Keys -> Nat]
    BY DEF Start, LanesInv, TypeOK
  <1>5. TypeOK'
    BY <1>1, <1>4 DEF LanesInv, TypeOK, States
  <1>6. PlacesInOrder'
    BY <1>1, <1>2 DEF LanesInv, PlacesInOrder
  <1>7. HeldMatchesActive' /\ Exclusion'
    BY <1>1, <1>3 DEF LanesInv, HeldMatchesActive, Exclusion
  <1>8. AdmissionOrder'
    BY <1>1, <1>2, <1>3 DEF LanesInv, AdmissionOrder
  <1>9. FenceHolds' /\ FencesOnWholes'
    BY <1>1, <1>3 DEF LanesInv, FenceHolds, FencesOnWholes
  <1>10. PauseWithdraws'
    BY <1>1, <1>2 DEF LanesInv, PauseWithdraws
  <1>11. QED
    BY <1>5, <1>6, <1>7, <1>8, <1>9, <1>10 DEF LanesInv

\* A fence goes up over a whole resource its operation holds alone, so what
\* is already granted beside it names the resource in no mode at all.
LEMMA FenceKeeps ==
    ASSUME LanesInv, NEW o \in Ops, NEW k \in Keys,
           Fence(o, k) \/ Unfence(o, k)
    PROVE  LanesInv'
  <1>1. UNCHANGED <<state, req, known, locks, arrival, admitted, parent, held,
                    paused, withdrawing, stale, starts, outcome>>
    BY DEF Fence, Unfence
  <1>2. o \in Active(state) /\ locks[o][k] = "exclusive"
    BY DEF Fence, Unfence, Active
  <1>3. fencedBy' \in [Keys -> Ops \cup {NoOp}]
        /\ \A j \in Keys \ {k} : fencedBy'[j] = fencedBy[j]
    BY DEF Fence, Unfence, LanesInv, TypeOK
  <1>4. fencedBy'[k] # NoOp => fencedBy'[k] = o /\ WholeOf[k] = k
    BY DEF Fence, Unfence, LanesInv, TypeOK
  <1>5. TypeOK'
    BY <1>1, <1>3 DEF LanesInv, TypeOK
  <1>6. PlacesInOrder' /\ HeldMatchesActive' /\ Exclusion' /\ AdmissionOrder'
    BY <1>1 DEF LanesInv, PlacesInOrder, HeldMatchesActive, Exclusion,
                AdmissionOrder, Active
  <1>7. FencesOnWholes'
    BY <1>3, <1>4 DEF LanesInv, FencesOnWholes
  <1>8. FenceHolds'
    <2> SUFFICES ASSUME NEW j \in Keys, NEW a \in Active(state),
                        fencedBy'[j] # NoOp, locks[a][j] # "none",
                        OnItsOwn(req[a])
                 PROVE  req[a].exempt \/ fencedBy'[j] = a
      BY <1>1 DEF FenceHolds, Active
    <2>1. CASE j # k
      BY <1>3, <2>1 DEF LanesInv, FenceHolds
    <2>2. CASE j = k
      <3>1. a # o => PlansConflict(locks[o], locks[a])
        BY <1>2, <2>2 DEF PlansConflict, ConflictAt
      <3>2. a = o
        BY <1>2, <3>1 DEF LanesInv, Exclusion
      <3>3. QED
        BY <1>4, <2>2, <3>2
    <2>3. QED
      BY <2>1, <2>2
  <1>9. PauseWithdraws'
    BY <1>1 DEF LanesInv, PauseWithdraws
  <1>10. QED
    BY <1>5, <1>6, <1>7, <1>8, <1>9 DEF LanesInv

\* Every step keeps LanesInv.
LEMMA StepKeeps == LanesInv /\ [Next]_vars => LanesInv'
  <1> SUFFICES ASSUME LanesInv, [Next]_vars PROVE LanesInv'
    OBVIOUS
  <1>1. ASSUME NEW o \in Ops, NEW r \in Requests, NEW p \in Ops \cup {NoOp},
               Admit(o, r, p)
        PROVE  LanesInv'
    <2>1. CASE AdmissionRefused(r)
      BY <1>1, <2>1, AdmitRefusedKeeps DEF Admit
    <2>2. CASE ~AdmissionRefused(r)
      <3>1. HandlerLeaves([state EXCEPT ![o] = "waiting"], held, outcome, {o})
        BY <1>1, <2>2, AdmitLeaves DEF Admit
      <3>2. Grant([state EXCEPT ![o] = "waiting"], held, outcome, {o})
        BY <1>1, <2>2 DEF Admit
      <3>3. QED
        BY <3>1, <3>2, HandlerThenPass
    <2>3. QED
      BY <2>1, <2>2
  <1>2. ASSUME NEW o \in Ops, LookupSettles(o) PROVE LanesInv'
    <2>1. HandlerLeaves(state, held, outcome, {})
      BY <1>2, LookupLeaves DEF LookupSettles
    <2>2. QED
      BY <1>2, <2>1, HandlerThenPass DEF LookupSettles
  <1>3. ASSUME NEW o \in Ops, LookupFails(o) PROVE LanesInv'
    <2>1. "died" \in Outcomes
      BY DEF Outcomes
    <2>2. QED
      BY <1>3, <2>1, EndOneKeeps DEF LookupFails, Frame
  <1>4. ASSUME NEW o \in Ops, Start(o) PROVE LanesInv'
    BY <1>4, StartKeeps
  <1>5. ASSUME NEW o \in Ops, Finish(o) PROVE LanesInv'
    <2>1. "finished" \in Outcomes /\ o \in Active(state)
          /\ withdrawing' = withdrawing \ {o} /\ ReleaseAs(o, "finished")
      BY <1>5 DEF Outcomes, Finish, Active
    <2>2. QED
      BY <2>1, ReleaseKeeps
  <1>6. ASSUME NEW o \in Ops, Abandon(o) PROVE LanesInv'
    <2>1. /\ parent' \in [Ops -> Ops \cup {NoOp}] /\ stale' \in SUBSET Ops
          /\ paused' \in BOOLEAN /\ starts' \in [Keys -> Nat]
      BY <1>6 DEF Abandon, LanesInv, TypeOK
    <2>2. QED
      BY <1>6, <2>1, QuietKeeps DEF Abandon
  <1>7. ASSUME NEW o \in Ops, CancelWaiting(o) PROVE LanesInv'
    <2>1. "cancelled" \in Outcomes
      BY DEF Outcomes
    <2>2. QED
      BY <1>7, <2>1, EndOneKeeps DEF CancelWaiting, Frame
  <1>8. ASSUME NEW o \in Ops, CancelGranted(o) PROVE LanesInv'
    <2>1. "cancelled" \in Outcomes /\ o \in Active(state)
          /\ withdrawing' = withdrawing \ {o} /\ ReleaseAs(o, "cancelled")
      BY <1>8 DEF Outcomes, CancelGranted, Active
    <2>2. QED
      BY <2>1, ReleaseKeeps
  <1>9. CASE Pause
    BY <1>9, PauseKeeps
  <1>10. ASSUME NEW o \in Ops, WithdrawGranted(o) PROVE LanesInv'
    <2>1. "paused" \in Outcomes /\ o \in Active(state)
          /\ withdrawing' = withdrawing \ {o} /\ ReleaseAs(o, "paused")
      BY <1>10 DEF Outcomes, WithdrawGranted, Active, LanesInv, PauseWithdraws
    <2>2. QED
      BY <2>1, ReleaseKeeps
  <1>11. CASE Resume
    <2>1. /\ parent' \in [Ops -> Ops \cup {NoOp}] /\ stale' \in SUBSET Ops
          /\ paused' \in BOOLEAN /\ starts' \in [Keys -> Nat]
          /\ paused' => paused
      BY <1>11 DEF Resume, LanesInv, TypeOK
    <2>2. QED
      BY <1>11, <2>1, QuietKeeps DEF Resume
  <1>12. ASSUME NEW o \in Ops, NEW k \in Keys, Fence(o, k) \/ Unfence(o, k)
         PROVE  LanesInv'
    BY <1>12, FenceKeeps
  <1>13. ASSUME NEW o \in Ops, GoStale(o) PROVE LanesInv'
    <2>1. /\ parent' \in [Ops -> Ops \cup {NoOp}] /\ stale' \in SUBSET Ops
          /\ paused' \in BOOLEAN /\ starts' \in [Keys -> Nat]
      BY <1>13 DEF GoStale, LanesInv, TypeOK
    <2>2. QED
      BY <1>13, <2>1, QuietKeeps DEF GoStale
  <1>14. CASE UNCHANGED vars
    <2>1. /\ parent' \in [Ops -> Ops \cup {NoOp}] /\ stale' \in SUBSET Ops
          /\ paused' \in BOOLEAN /\ starts' \in [Keys -> Nat]
      BY <1>14 DEF vars, LanesInv, TypeOK
    <2>2. QED
      BY <1>14, <2>1, QuietKeeps DEF vars
  <1>15. QED
    BY <1>1, <1>2, <1>3, <1>4, <1>5, <1>6, <1>7, <1>8, <1>9, <1>10, <1>11,
       <1>12, <1>13, <1>14 DEF Next, LookupEnds

\* The invariant holds throughout, for every set of operations, keys and
\* requests.
THEOREM LanesInvariant == Spec => []LanesInv
  BY InitEstablishes, StepKeeps, PTL DEF Spec

\* Type correctness of the lanes.
THEOREM LanesTyped == Spec => []TypeOK
  BY LanesInvariant, PTL DEF LanesInv

\* The lock table never leaks or loses a lock.
THEOREM LockTableExact == Spec => []HeldMatchesActive
  BY LanesInvariant, PTL DEF LanesInv

\* Conflicting operations never hold their locks at once.
THEOREM ConflictsExclude == Spec => []Exclusion
  BY LanesInvariant, PTL DEF LanesInv

\* Conflicting work in line takes its locks in admission order.
THEOREM LineInOrder == Spec => []AdmissionOrder
  BY LanesInvariant, PTL DEF LanesInv

\* Nothing starts on a fenced resource but what a fence lets through.
THEOREM FencesKept == Spec => []FenceHolds
  BY LanesInvariant, PTL DEF LanesInv

\* A pause leaves nothing waiting or about to start but upkeep.
THEOREM PausesKept == Spec => []PausedQuiet
  <1>1. LanesInv => PausedQuiet
    BY DEF LanesInv, PauseWithdraws, PausedQuiet
  <1>2. QED
    BY <1>1, LanesInvariant, PTL

\* The generation of a key never moves under an operation that shares it.
THEOREM GenerationsStable == Spec => GenerationStable
  <1> DEFINE Stable == \A o \in Ops, k \in Keys :
                          state[o] = "running" /\ state'[o] = "running"
                          /\ locks[o][k] = "shared" => starts'[k] = starts[k]
  <1>1. LanesInv /\ [Next]_vars => [Stable]_vars
    <2> SUFFICES ASSUME LanesInv, Next, NEW o \in Ops, NEW k \in Keys,
                        state[o] = "running", locks[o][k] = "shared"
                 PROVE  starts'[k] = starts[k]
      BY DEF Stable
    <2>1. ASSUME NEW p \in Ops, Start(p) PROVE starts'[k] = starts[k]
      <3>1. p # o /\ p \in Active(state) /\ o \in Active(state)
        BY <2>1 DEF Start, Active
      <3>2. ~PlansConflict(locks[p], locks[o])
        BY <3>1 DEF LanesInv, Exclusion
      <3>3. locks[p][k] # "exclusive"
        BY <3>2 DEF PlansConflict, ConflictAt
      <3>4. QED
        BY <2>1, <3>3 DEF Start
    <2>2. starts' = starts \/ \E p \in Ops : Start(p)
      BY DEF Next, Admit, LookupEnds, LookupSettles, LookupFails, Finish,
             ReleaseAs, Abandon, CancelWaiting, CancelGranted, Pause,
             WithdrawGranted, Resume, Fence, Unfence, GoStale
    <2>3. QED
      BY <2>1, <2>2
  <1>2. QED
    BY <1>1, LanesInvariant, PTL DEF Spec, GenerationStable

-----------------------------------------------------------------------------
(***************************************************************************)
(* The refinement of LaneContract.  What an operation may do in one step is *)
(* shown once for each handler; the order and the exclusion the contract   *)
(* asks for are the invariants after the step.                             *)
(***************************************************************************)

\* How an operation's state may change in one step.
Advances(s, t) ==
    \/ s = t
    \/ s = "idle" /\ t \in {"waiting", "granted", "done"}
    \/ s = "waiting" /\ t \in {"granted", "done"}
    \/ s = "granted" /\ t \in {"running", "done"}
    \/ s = "running" /\ t = "done"

\* What any step does to the operations it finds, and to one that arrives.
StepShape ==
    /\ known \subseteq known'
    /\ \A o \in Ops :
          /\ Advances(state[o], state'[o])
          /\ state[o] # "idle" =>
                /\ arrival'[o] = arrival[o]
                /\ req'[o] = req[o]
                /\ o \in known => locks'[o] = locks[o]
          /\ state[o] = "idle" /\ state'[o] \in {"waiting", "granted"} =>
                \A p \in Ops \ {o} : arrival'[p] < arrival'[o]
          /\ state[o] \in {"idle", "waiting"} /\ state'[o] = "granted" =>
                o \in known'

\* A handler that ends some operations and then runs a pass.
LEMMA EndingShape ==
    ASSUME LanesInv, NEW st, PassDone(st), Frame,
           \A o \in Ops : st[o] = state[o]
                          \/ (st[o] = "done" /\ state[o] # "idle" /\ state[o] # "done")
    PROVE  StepShape
  <1>1. \A o \in Ops : state[o] \in States
    BY DEF LanesInv, TypeOK
  <1>2. \A o \in Ops :
          \/ state'[o] = st[o]
          \/ st[o] = "waiting" /\ state'[o] = "done"
          \/ st[o] = "waiting" /\ state'[o] = "granted" /\ o \in known'
    BY DEF PassDone
  <1>3. QED
    BY <1>1, <1>2 DEF StepShape, Advances, Frame, States

\* An admission that takes its place in line and then runs a pass.
LEMMA AdmitShape ==
    ASSUME LanesInv, NEW o \in Ops, NEW r \in Requests, state[o] = "idle",
           PassDone([state EXCEPT ![o] = "waiting"]),
           req' = [req EXCEPT ![o] = r],
           arrival' = [arrival EXCEPT ![o] = admitted + 1],
           known' = IF r.lookup THEN known ELSE known \cup {o},
           locks' = IF r.lookup THEN locks ELSE [locks EXCEPT ![o] = r.locks]
    PROVE  StepShape
  <1> DEFINE st == [state EXCEPT ![o] = "waiting"]
  <1>1. \A p \in Ops : st[p] = IF p = o THEN "waiting" ELSE state[p]
    BY DEF LanesInv, TypeOK
  <1>2. \A p \in Ops :
          \/ state'[p] = st[p]
          \/ st[p] = "waiting" /\ state'[p] = "done"
          \/ st[p] = "waiting" /\ state'[p] = "granted" /\ p \in known'
    BY DEF PassDone
  <1> HIDE DEF st
  <1>3. \A p \in Ops \ {o} :
          /\ arrival'[p] = arrival[p] /\ req'[p] = req[p] /\ locks'[p] = locks[p]
          /\ arrival'[p] < arrival'[o]
    BY DEF LanesInv, TypeOK, PlacesInOrder
  <1>4. known \subseteq known'
    OBVIOUS
  <1>5. ASSUME NEW p \in Ops
        PROVE  /\ Advances(state[p], state'[p])
               /\ state[p] # "idle" => p # o
               /\ state[p] = "idle" /\ state'[p] \in {"waiting", "granted"} => p = o
               /\ state[p] \in {"idle", "waiting"} /\ state'[p] = "granted"
                    => p \in known'
    BY <1>1, <1>2 DEF Advances
  <1>6. QED
    BY <1>3, <1>4, <1>5 DEF StepShape

\* Every step has that shape.
LEMMA EveryStepShape == LanesInv /\ Next => StepShape
  <1> SUFFICES ASSUME LanesInv, Next PROVE StepShape
    OBVIOUS
  <1> USE DEF HandlerLeaves
  <1>0. \A o \in Ops : state[o] \in States
    BY DEF LanesInv, TypeOK
  <1>1. ASSUME NEW o \in Ops, NEW r \in Requests, NEW p \in Ops \cup {NoOp},
               Admit(o, r, p)
        PROVE  StepShape
    <2>1. CASE AdmissionRefused(r)
      <3>1. /\ state[o] = "idle" /\ req' = [req EXCEPT ![o] = r]
            /\ state' = [state EXCEPT ![o] = "done"]
            /\ UNCHANGED <<known, locks, arrival>>
        BY <1>1, <2>1 DEF Admit
      <3>2. \A q \in Ops : /\ state'[q] = IF q = o THEN "done" ELSE state[q]
                           /\ q # o => req'[q] = req[q]
        BY <3>1 DEF LanesInv, TypeOK
      <3>3. QED
        BY <3>1, <3>2 DEF StepShape, Advances
    <2>2. CASE ~AdmissionRefused(r)
      <3>1. HandlerLeaves([state EXCEPT ![o] = "waiting"], held, outcome, {o})
        BY <1>1, <2>2, AdmitLeaves DEF Admit
      <3>2. Grant([state EXCEPT ![o] = "waiting"], held, outcome, {o})
        BY <1>1, <2>2 DEF Admit
      <3>3. PassDone([state EXCEPT ![o] = "waiting"])
        BY <3>1, <3>2, PassKeepsSafety
      <3>4. QED
        BY <1>1, <2>2, <3>3, AdmitShape DEF Admit
    <2>3. QED
      BY <2>1, <2>2
  <1>2. ASSUME NEW o \in Ops, LookupSettles(o) PROVE StepShape
    <2>1. HandlerLeaves(state, held, outcome, {})
      BY <1>2, LookupLeaves DEF LookupSettles
    <2>2. PassDone(state)
      BY <1>2, <2>1, PassKeepsSafety DEF LookupSettles
    <2>3. \A p \in Ops :
            \/ state'[p] = state[p]
            \/ state[p] = "waiting" /\ state'[p] = "done"
            \/ state[p] = "waiting" /\ state'[p] = "granted" /\ p \in known'
      BY <2>2 DEF PassDone
    <2>4. /\ UNCHANGED <<req, arrival>> /\ known' = known \cup {o}
          /\ o \notin known
          /\ \A p \in Ops \ {o} : locks'[p] = locks[p]
      BY <1>2 DEF LookupSettles, LanesInv, TypeOK
    <2>5. QED
      BY <2>3, <2>4 DEF StepShape, Advances
  <1>3. ASSUME NEW o \in Ops, NEW as \in Outcomes, state[o] = "waiting", Frame,
               UNCHANGED <<paused, withdrawing>>,
               Grant([state EXCEPT ![o] = "done"], held,
                     [outcome EXCEPT ![o] = as], {})
        PROVE  StepShape
    <2> DEFINE st == [state EXCEPT ![o] = "done"]
               oc == [outcome EXCEPT ![o] = as]
    <2>1. /\ st \in [Ops -> States] /\ oc \in [Ops -> Outcomes]
          /\ \A q \in Ops : st[q] = IF q = o THEN "done" ELSE state[q]
      BY DEF LanesInv, TypeOK, States
    <2>2. Grant(st, held, oc, {})
      BY <1>3
    <2> HIDE DEF st, oc
    <2>3. \A q \in Ops : st[q] = state[q]
                         \/ (state[q] = "waiting" /\ st[q] = "done")
      BY <1>3, <2>1
    <2>4. PauseIn(st)
      BY <1>3, <2>1, EndOnePause
    <2>5. paused' \in BOOLEAN /\ withdrawing' \in SUBSET Ops
      BY <1>3 DEF LanesInv, TypeOK
    <2>6. PassReady(st, held, oc, {})
      BY <1>3, <2>1, <2>3, <2>4, <2>5, EndingLeaves
    <2>7. PassDone(st)
      BY <2>2, <2>6, PassKeepsSafety
    <2>8. QED
      BY <1>3, <2>3, <2>7, EndingShape
  <1>4. ASSUME NEW o \in Active(state), NEW as \in Outcomes,
               ReleaseAs(o, as), withdrawing' = withdrawing \ {o}
        PROVE  StepShape
    <2> DEFINE st == [state EXCEPT ![o] = "done"]
               oc == [outcome EXCEPT ![o] = as]
    <2>1. Frame /\ paused' = paused /\ Grant(st, Release(held, locks[o]), oc, {})
      BY <1>4 DEF ReleaseAs, Frame
    <2>2. oc \in [Ops -> Outcomes] /\ o \in Ops
      BY DEF LanesInv, TypeOK, Active
    <2>3. \A q \in Ops : st[q] = IF q = o THEN "done" ELSE state[q]
      BY <2>2 DEF LanesInv, TypeOK
    <2>4. HandlerLeaves(st, Release(held, locks[o]), oc, {})
      BY <1>4, <2>1, <2>2, ReleasingLeaves
    <2> HIDE DEF st, oc
    <2>5. PassDone(st)
      BY <2>1, <2>4, PassKeepsSafety
    <2>6. state[o] # "idle" /\ state[o] # "done"
      BY DEF Active
    <2>7. QED
      BY <2>1, <2>3, <2>5, <2>6, EndingShape
  <1>5. CASE Pause
    <2> DEFINE ended == Withdrawn("waiting")
               st == [o \in Ops |-> IF o \in ended THEN "done" ELSE state[o]]
               oc == [o \in Ops |-> IF o \in ended THEN "paused" ELSE outcome[o]]
    <2>1. /\ Frame /\ paused' = TRUE /\ withdrawing' = Withdrawn("granted")
          /\ Withdrawn("granted") = {} => Grant(st, held, oc, {})
          /\ Withdrawn("granted") # {} => state' = st
      BY <1>5 DEF Pause, Frame
    <2>2. /\ st \in [Ops -> States] /\ oc \in [Ops -> Outcomes]
          /\ \A o \in Ops : st[o] = state[o]
                            \/ (state[o] = "waiting" /\ st[o] = "done")
      BY DEF LanesInv, TypeOK, States, Outcomes, Withdrawn
    <2>3. PauseIn(st)
      BY <1>5, PausingPause
    <2> HIDE DEF st, oc, ended
    <2>4. CASE Withdrawn("granted") = {}
      <3>1. paused' \in BOOLEAN /\ withdrawing' \in SUBSET Ops
        BY <2>1 DEF Withdrawn
      <3>2. PassReady(st, held, oc, {})
        BY <2>1, <2>2, <2>3, <3>1, EndingLeaves
      <3>3. PassDone(st)
        BY <2>1, <2>4, <3>2, PassKeepsSafety
      <3>4. QED
        BY <2>1, <2>2, <3>3, EndingShape
    <2>5. CASE Withdrawn("granted") # {}
      BY <2>1, <2>2, <2>5 DEF Frame, StepShape, Advances
    <2>6. QED
      BY <2>4, <2>5
  <1>6. ASSUME NEW o \in Ops, Start(o) PROVE StepShape
    <2>1. /\ state[o] = "granted" /\ state' = [state EXCEPT ![o] = "running"]
          /\ UNCHANGED <<req, known, locks, arrival>>
      BY <1>6 DEF Start
    <2>2. \A q \in Ops : state'[q] = IF q = o THEN "running" ELSE state[q]
      BY <2>1 DEF LanesInv, TypeOK
    <2>3. QED
      BY <2>1, <2>2 DEF StepShape, Advances
  <1>7. CASE UNCHANGED <<state, req, known, locks, arrival>>
    BY <1>7 DEF StepShape, Advances
  <1>8. ASSUME NEW o \in Ops, LookupFails(o) \/ CancelWaiting(o) PROVE StepShape
    <2>1. "died" \in Outcomes /\ "cancelled" \in Outcomes
      BY DEF Outcomes
    <2>2. QED
      BY <1>3, <1>8, <2>1 DEF LookupFails, CancelWaiting, Frame
  <1>9. ASSUME NEW o \in Ops,
               Finish(o) \/ CancelGranted(o) \/ WithdrawGranted(o)
        PROVE  StepShape
    <2>1. o \in Active(state) /\ withdrawing' = withdrawing \ {o}
      BY <1>9 DEF Finish, CancelGranted, WithdrawGranted, Active, LanesInv,
                  PauseWithdraws
    <2>2. \E as \in Outcomes : ReleaseAs(o, as)
      BY <1>9 DEF Finish, CancelGranted, WithdrawGranted, Outcomes
    <2>3. QED
      BY <1>4, <2>1, <2>2
  <1>10. \/ \E o \in Ops, r \in Requests, p \in Ops \cup {NoOp} : Admit(o, r, p)
         \/ \E o \in Ops : LookupSettles(o)
         \/ \E o \in Ops : LookupFails(o) \/ CancelWaiting(o)
         \/ \E o \in Ops : Finish(o) \/ CancelGranted(o) \/ WithdrawGranted(o)
         \/ Pause
         \/ \E o \in Ops : Start(o)
         \/ UNCHANGED <<state, req, known, locks, arrival>>
    BY DEF Next, LookupEnds, Abandon, Resume, Fence, Unfence, GoStale
  <1>11. QED
    BY <1>1, <1>2, <1>5, <1>6, <1>7, <1>8, <1>9, <1>10

\* Nothing has happened yet in either.
LEMMA InitImplements == Init => Contract!ContractInit
  <1> SUFFICES ASSUME Init PROVE Contract!ContractInit
    OBVIOUS
  <1>1. locks \in [Ops -> Plans]
    BY DEF Init, NoLocks, Plans, Modes
  <1>2. [o \in Ops |-> PhaseOf(state[o])] = [o \in Ops |-> "new"]
    BY DEF Init, PhaseOf
  <1>3. known = {} /\ arrival = [o \in Ops |-> 0]
    BY DEF Init
  <1>4. QED
    BY <1>1, <1>2, <1>3
    DEF Contract!ContractInit, Contract!Plans, Contract!Modes, Plans, Modes

\* Each step of the lanes is a step of the contract.
LEMMA StepImplements ==
    ASSUME LanesInv, LanesInv', Next
    PROVE  Contract!ContractNext
  <1> DEFINE ph(s) == [o \in Ops |-> PhaseOf(s[o])]
             line == {o \in Ops : req[o].queue = "line"}
  <1>1. StepShape
    BY EveryStepShape
  <1>2. \A o \in Ops : state[o] \in States /\ state'[o] \in States
    BY DEF LanesInv, TypeOK
  <1>3. \A s \in States :
          /\ PhaseOf(s) = "new" <=> s = "idle"
          /\ PhaseOf(s) = "asking" <=> s = "waiting"
          /\ PhaseOf(s) = "holding" <=> s \in {"granted", "running"}
          /\ PhaseOf(s) = "ended" <=> s = "done"
    BY DEF PhaseOf, States
  <1>4. ASSUME NEW o \in Ops
        PROVE  \/ PhaseOf(state'[o]) = PhaseOf(state[o])
               \/ <<PhaseOf(state[o]), PhaseOf(state'[o])>> \in Contract!Forward
    <2>1. Advances(state[o], state'[o])
      BY <1>1 DEF StepShape
    <2>2. QED
      BY <2>1 DEF Advances, PhaseOf, Contract!Forward
  <1>5. ASSUME NEW o \in Ops, PhaseOf(state[o]) # "new"
        PROVE  /\ arrival'[o] = arrival[o]
               /\ (o \in line') = (o \in line)
               /\ o \in known => locks'[o] = locks[o]
    <2>1. state[o] # "idle"
      BY <1>2, <1>3, <1>5
    <2>2. /\ arrival'[o] = arrival[o] /\ req'[o] = req[o]
          /\ o \in known => locks'[o] = locks[o]
      BY <1>1, <2>1 DEF StepShape
    <2>3. QED
      BY <2>2
  <1>6. ASSUME NEW o \in Ops, PhaseOf(state[o]) = "new",
               PhaseOf(state'[o]) \in {"asking", "holding"}
        PROVE  \A p \in Ops \ {o} : arrival'[p] < arrival'[o]
    <2>1. state[o] = "idle" /\ state'[o] \in {"waiting", "granted", "running"}
      BY <1>2, <1>3, <1>6
    <2>2. Advances(state[o], state'[o])
      BY <1>1 DEF StepShape
    <2>3. state'[o] \in {"waiting", "granted"}
      BY <2>1, <2>2 DEF Advances
    <2>4. QED
      BY <1>1, <2>1, <2>3 DEF StepShape
  <1>7. ASSUME NEW o \in Ops, PhaseOf(state[o]) # "holding",
               PhaseOf(state'[o]) = "holding"
        PROVE  /\ o \in known'
               /\ o \in line' =>
                    \A p \in line' :
                       PhaseOf(state'[p]) = "asking" /\ arrival'[p] < arrival'[o]
                         => p \in known' /\ ~PlansConflict(locks'[p], locks'[o])
    <2>1. state[o] \notin {"granted", "running"} /\ state'[o] \in {"granted", "running"}
      BY <1>2, <1>3, <1>7
    <2>2. Advances(state[o], state'[o])
      BY <1>1 DEF StepShape
    <2>3. state[o] \in {"idle", "waiting"} /\ state'[o] = "granted"
      BY <2>1, <2>2 DEF Advances
    <2>4. o \in known'
      BY <1>1, <2>3 DEF StepShape
    <2>5. ASSUME o \in line', NEW p \in line',
                 PhaseOf(state'[p]) = "asking", arrival'[p] < arrival'[o]
          PROVE  p \in known' /\ ~PlansConflict(locks'[p], locks'[o])
      <3>1. /\ p \in Ops /\ req'[p].queue = "line" /\ req'[o].queue = "line"
            /\ state'[p] = "waiting" /\ o \in Active(state')
        BY <1>2, <1>3, <2>3, <2>5 DEF Active
      <3>2. AdmissionOrder'
        BY DEF LanesInv
      <3>3. QED
        BY <2>5, <3>1, <3>2 DEF AdmissionOrder, Active
    <2>6. QED
      BY <2>4, <2>5
  <1>8. ASSUME NEW o \in Ops, NEW p \in Ops, o # p,
               PhaseOf(state'[o]) = "holding", PhaseOf(state'[p]) = "holding"
        PROVE  ~PlansConflict(locks'[o], locks'[p])
    <2>1. o \in Active(state') /\ p \in Active(state')
      BY <1>2, <1>3, <1>8 DEF Active
    <2>2. Exclusion'
      BY DEF LanesInv
    <2>3. QED
      BY <1>8, <2>1, <2>2 DEF Exclusion, Active
  <1>9. known \subseteq known'
    BY <1>1 DEF StepShape
  <1>10. \A p, q : Contract!PlansConflict(p, q) <=> PlansConflict(p, q)
    BY DEF Contract!PlansConflict, Contract!ConflictAt, PlansConflict, ConflictAt
  <1>11. QED
    BY <1>4, <1>5, <1>6, <1>7, <1>8, <1>9, <1>10
    DEF Contract!ContractNext, Contract!Kept, Contract!InTurn, Contract!Compatible

\* The operation lanes implement the contract their callers rely on.
THEOREM LanesImplementContract == Spec => ImplementsContract
  <1>1. LanesInv /\ LanesInv' /\ [Next]_vars
          => [Contract!ContractNext]_(Contract!contractVars)
    <2>1. ASSUME LanesInv, LanesInv', Next PROVE Contract!ContractNext
      BY <2>1, StepImplements
    <2>2. ASSUME UNCHANGED vars PROVE UNCHANGED Contract!contractVars
      BY <2>2 DEF vars, Contract!contractVars
    <2>3. QED
      BY <2>1, <2>2
  <1>2. QED
    BY <1>1, InitImplements, LanesInvariant, PTL
    DEF Spec, ImplementsContract, Contract!ContractSpec

-----------------------------------------------------------------------------
(***************************************************************************)
(* No wakeup is lost.                                                      *)
(***************************************************************************)
\* A reason to wait stands as long as those that wait or hold their locks go
\* on doing so, with the locks and the places they had.
LEMMA ReasonStays ==
    ASSUME NEW o \in Ops, state[o] = "waiting", HasReasonToWait(o),
           \A p \in Ops :
               /\ state[p] = "waiting" => state'[p] = "waiting"
               /\ p \in Active(state) => p \in Active(state')
               /\ p \in Active(state) \cup {q \in Ops : state[q] = "waiting"} =>
                      /\ UNCHANGED <<req[p], locks[p], arrival[p]>>
                      /\ p \in known' <=> p \in known
    PROVE  HasReasonToWait(o)'
  <1>1. \A p \in Behind(o) : p \in Behind(o)' /\ locks'[p] = locks[p]
            /\ req'[p] = req[p] /\ (p \in known' <=> p \in known)
    BY DEF Behind, Active
  <1>2. \A p \in Active(state) : p \in Active(state') /\ locks'[p] = locks[p]
    BY DEF Active
  <1>3. req'[o] = req[o] /\ locks'[o] = locks[o] /\ (o \in known' <=> o \in known)
    OBVIOUS
  <1>4. CASE o \notin known
    BY <1>3, <1>4 DEF HasReasonToWait
  <1>5. CASE \E p \in IF req[o].queue = "line" THEN Behind(o) ELSE Active(state) :
                 PlansConflict(locks[p], locks[o])
    BY <1>1, <1>2, <1>3, <1>5 DEF HasReasonToWait
  <1>6. CASE /\ req[o].queue = "line"
             /\ \E p \in Behind(o) : req[p].queue = "line" /\ p \notin known
    BY <1>1, <1>3, <1>6 DEF HasReasonToWait
  <1>7. QED
    BY <1>4, <1>5, <1>6 DEF HasReasonToWait

\* What a pass leaves waiting has a reason to wait, in what the pass found or
\* in what it started.
LEMMA LeftHasReason ==
    ASSUME NEW st, NEW hd, NEW oc, NEW arriving,
           PassReady(st, hd, oc, arriving),
           NEW nested \in SUBSET NestedQueue(st),
           NEW line \in SUBSET LineQueue(st),
           NestedFree(st, hd, nested), LineFree(st, hd, nested, line),
           NEW o \in Ops, st[o] = "waiting", o \notin nested \cup line,
           state'[o] \notin {"granted", "running"},
           \A p \in Ops \ {o} : state'[p] = AfterPass(st, nested \cup line)[p]
    PROVE  HasReasonToWait(o)'
  <1> DEFINE free == nested \cup line
  <1>1. \A p \in Ops \ {o} :
            /\ p \notin free => state'[p] = st[p]
            /\ p \in Starts(free) => p \in Active(state')
    BY DEF AfterPass, Starts, Active
  <1>2. \A p \in Active(st) : p \in Active(state') /\ p # o /\ p \in Ops
    <2>1. \A p \in Active(st) : p \notin free /\ p # o /\ p \in Ops
      BY DEF Active, NestedQueue, LineQueue
    <2>2. QED
      BY <1>1, <2>1 DEF Active
  <1>3. ASSUME TableConflicts(hd, locks'[o])
        PROVE  \E p \in Active(state') : PlansConflict(locks'[p], locks'[o])
    <2>1. hd = TakeAll(EmptyTable, Active(st), locks') /\ locks'[o] \in Plans
          /\ \A p \in Active(st) : locks'[p] \in Plans
      BY <1>2 DEF PassReady
    <2>2. \E p \in Active(st) : PlansConflict(locks'[p], locks'[o])
      BY <1>3, <2>1, ActiveFinite, TableFaithful
    <2>3. QED
      BY <1>2, <2>2
  <1>4. \A p \in Active(state') : p \in Behind(o)'
    BY DEF Behind, Active
  <1>5. CASE req'[o].queue # "line"
    <2>1. o \in NestedQueue(st) /\ o \notin nested
      BY <1>5 DEF NestedQueue
    <2>2. \/ o \notin known'
          \/ TableConflicts(hd, locks'[o])
          \/ \E m \in Starts(nested) :
                 Before(m, o) /\ PlansConflict(locks'[m], locks'[o])
      BY <2>1 DEF NestedFree
    <2>3. \A m \in Starts(nested) : m \in Active(state')
      <3>1. \A m \in Starts(nested) : m \in Starts(free) /\ m \in Ops \ {o}
        BY DEF Starts, NestedQueue
      <3>2. QED
        BY <1>1, <3>1
    <2>4. QED
      BY <1>3, <1>5, <2>2, <2>3 DEF HasReasonToWait
  <1>6. CASE req'[o].queue = "line"
    <2> DEFINE Ahead == {p \in LineQueue(st) : Before(p, o)}
    <2>1. o \in LineQueue(st) /\ o \notin line
      BY <1>6 DEF LineQueue
    <2>2. \/ ~(Ahead \cup {o} \subseteq known')
          \/ TableConflicts(hd, locks'[o])
          \/ \E p \in NestedQueue(st) \cup Ahead :
                 /\ p \notin free \ Starts(free)
                 /\ PlansConflict(locks'[p], locks'[o])
      BY <2>1 DEF LineFree
    <2>3. o \notin Ahead /\ o \notin NestedQueue(st)
      <3>1. arrival'[o] \in Nat
        BY DEF PassReady
      <3>2. QED
        BY <1>6, <3>1 DEF Before, NestedQueue
    <2>4. ASSUME NEW p \in NestedQueue(st) \cup Ahead,
                 p \notin free \ Starts(free)
          PROVE  p \in Behind(o)'
      <3>1. p \in Ops \ {o} /\ st[p] = "waiting"
        BY <2>3 DEF NestedQueue, LineQueue
      <3>2. CASE p \in Starts(free)
        BY <1>1, <1>4, <3>1, <3>2
      <3>3. CASE p \notin free
        <4>1. state'[p] = "waiting"
          BY <1>1, <3>1, <3>3
        <4>2. req'[p].queue # "line" \/ arrival'[p] < arrival'[o]
          BY DEF NestedQueue, Before
        <4>3. QED
          BY <3>1, <4>1, <4>2 DEF Behind
      <3>4. QED
        BY <2>4, <3>2, <3>3
    <2>5. ASSUME NEW p \in Ahead, p \notin known'
          PROVE  p \in Behind(o)' /\ req'[p].queue = "line"
      <3>1. p \notin free
        BY <2>5 DEF NestedFree, LineFree
      <3>2. QED
        BY <2>4, <3>1 DEF LineQueue
    <2>6. CASE ~(Ahead \cup {o} \subseteq known')
      BY <1>6, <2>5, <2>6 DEF HasReasonToWait
    <2>7. CASE TableConflicts(hd, locks'[o])
      BY <1>3, <1>4, <1>6, <2>7 DEF HasReasonToWait
    <2>8. CASE \E p \in NestedQueue(st) \cup Ahead :
                   /\ p \notin free \ Starts(free)
                   /\ PlansConflict(locks'[p], locks'[o])
      BY <1>6, <2>4, <2>8 DEF HasReasonToWait
    <2>9. QED
      BY <2>2, <2>6, <2>7, <2>8
  <1>7. QED
    BY <1>5, <1>6

\* A pass at which nothing arrives leaves nothing waiting without a reason.
LEMMA PassWakes ==
    ASSUME NEW st, NEW hd, NEW oc, HandlerLeaves(st, hd, oc, {}),
           Grant(st, hd, oc, {}), NEW o \in Ops, state'[o] = "waiting"
    PROVE  HasReasonToWait(o)'
  <1>1. PICK nested \in SUBSET NestedQueue(st), line \in SUBSET LineQueue(st) :
          /\ NestedFree(st, hd, nested)
          /\ LineFree(st, hd, nested, line)
          /\ state' = [p \in Ops |-> IF p \in {}
                                       THEN "done"
                                       ELSE AfterPass(st, nested \cup line)[p]]
    BY DEF Grant
  <1>2. \A p \in Ops : state'[p] = AfterPass(st, nested \cup line)[p]
    BY <1>1
  <1>3. st[o] = "waiting" /\ o \notin nested \cup line
    BY <1>2 DEF AfterPass
  <1>4. QED
    BY <1>1, <1>2, <1>3, LeftHasReason DEF HandlerLeaves

\* Of operations that have places in line, one comes first.
LEMMA Earliest ==
    ASSUME NEW S, S # {}, NEW D, S \subseteq D, NEW place \in [D -> Nat]
    PROVE  \E x \in S : \A y \in S : ~(place[y] < place[x])
  <1> DEFINE R == {ss \in Nat \X Nat : ss[1] < ss[2]}
             T == {place[x] : x \in S}
  <1>1. IsWellFoundedOn(R, Nat)
    BY NatLessThanWellFounded DEF OpToRel
  <1>2. T \subseteq Nat /\ T # {}
    OBVIOUS
  <1> HIDE DEF R
  <1>3. \E n \in T : \A m \in T : <<m, n>> \notin R
    <2> HIDE DEF T
    <2> QED
      BY <1>1, <1>2, WFMin
  <1>4. QED
    BY <1>2, <1>3 DEF R

\* What an admission takes its place in line with.
TakesPlace(o, r, p) ==
    /\ withdrawing = {}
    /\ state[o] = "idle"
    /\ ~AdmissionRefused(r)
    /\ req' = [req EXCEPT ![o] = r]
    /\ arrival' = [arrival EXCEPT ![o] = admitted + 1]
    /\ admitted' = admitted + 1
    /\ parent' = [parent EXCEPT ![o] = p]
    /\ known' = IF r.lookup THEN known ELSE known \cup {o}
    /\ locks' = IF r.lookup THEN locks ELSE [locks EXCEPT ![o] = r.locks]
    /\ UNCHANGED <<paused, withdrawing, stale, fencedBy, starts>>

\* The pass an admission ends with frees nothing but what arrives: all else
\* has the reason to wait it had.
LEMMA ArrivalFreesNoOther ==
    ASSUME LanesInv, Active(state) \subseteq known,
           NEW x \in Ops, NEW r \in Requests,
           NEW p \in Ops \cup {NoOp}, TakesPlace(x, r, p),
           \A o \in Ops : state[o] = "waiting" => HasReasonToWait(o),
           NEW st, st = [state EXCEPT ![x] = "waiting"],
           NEW nested \in SUBSET NestedQueue(st),
           NEW line \in SUBSET LineQueue(st),
           NestedFree(st, held, nested), LineFree(st, held, nested, line)
    PROVE  nested \cup line \subseteq {x}
  <1> USE DEF TakesPlace
  <1>1. \A q \in Ops \ {x} :
          /\ st[q] = state[q]
          /\ locks'[q] = locks[q]
          /\ q \in known' <=> q \in known
          /\ req'[q] = req[q]
          /\ arrival'[q] = arrival[q]
    BY DEF LanesInv, TypeOK
  <1>2. state[x] = "idle" /\ st[x] = "waiting"
    BY DEF LanesInv, TypeOK
  <1>3. Active(state) \subseteq Ops \ {x}
    BY <1>2 DEF Active
  <1>4. ASSUME NEW q \in Ops \ {x}, ~TableConflicts(held, locks'[q])
        PROVE  \A a \in Active(state) : ~PlansConflict(locks[a], locks[q])
    <2>1. /\ held = TakeAll(EmptyTable, Active(state), locks)
          /\ locks[q] \in Plans
          /\ \A a \in Active(state) : locks[a] \in Plans
      BY <1>3 DEF LanesInv, HeldMatchesActive, TypeOK
    <2>2. ~TableConflicts(held, locks[q])
      BY <1>1, <1>4
    <2>3. QED
      BY <2>1, <2>2, ActiveFinite, TableFaithful
  <1>5. nested \subseteq {x}
    <2> SUFFICES ASSUME NEW q \in nested, q # x PROVE FALSE
      OBVIOUS
    <2>1. q \in Ops \ {x} /\ st[q] = "waiting" /\ req'[q].queue # "line"
          /\ q \in NestedQueue(st)
      BY DEF NestedQueue
    <2>2. q \in known' /\ ~TableConflicts(held, locks'[q])
      BY <2>1 DEF NestedFree
    <2>3. q \in known /\ state[q] = "waiting" /\ req[q].queue # "line"
      BY <1>1, <2>1, <2>2
    <2>4. \E a \in Active(state) : PlansConflict(locks[a], locks[q])
      BY <2>1, <2>3 DEF HasReasonToWait
    <2>5. QED
      BY <1>4, <2>1, <2>2, <2>4
  <1>6. line \subseteq {x}
    <2> SUFFICES ASSUME line \ {x} # {} PROVE FALSE
      OBVIOUS
    <2>1. line \ {x} \subseteq Ops /\ arrival \in [Ops -> Nat]
      BY DEF LineQueue, LanesInv, TypeOK
    <2>2. PICK f \in line \ {x} : \A g \in line \ {x} : ~(arrival[g] < arrival[f])
      BY <2>1, Earliest
    <2> DEFINE Ahead == {g \in LineQueue(st) : Before(g, f)}
    <2>3. f \in Ops \ {x} /\ f \in LineQueue(st) /\ state[f] = "waiting"
          /\ req[f].queue = "line"
      BY <1>1, <2>1 DEF LineQueue
    <2>4. /\ Ahead \cup {f} \subseteq known'
          /\ ~TableConflicts(held, locks'[f])
          /\ \A g \in NestedQueue(st) \cup Ahead :
                \/ g \in (nested \cup line) \ Starts(nested \cup line)
                \/ ~PlansConflict(locks'[g], locks'[f])
      BY <2>3 DEF LineFree
    <2>5. ASSUME NEW g \in Ops \ {x}, state[g] = "waiting",
                 req[g].queue = "line", arrival[g] < arrival[f]
          PROVE  /\ g \in known
                 /\ ~PlansConflict(locks[g], locks[f])
      <3>1. g \in Ahead
        BY <1>1, <2>3, <2>5 DEF LineQueue, Before
      <3>2. g \notin line
        BY <2>2, <2>5
      <3>3. g \notin nested
        BY <1>5, <2>5
      <3>4. QED
        BY <1>1, <2>3, <2>4, <3>1, <3>2, <3>3
    <2>6. ASSUME NEW g \in Ops \ {x}, state[g] = "waiting",
                 req[g].queue # "line"
          PROVE  ~PlansConflict(locks[g], locks[f])
      <3>1. g \in NestedQueue(st)
        BY <1>1, <2>6 DEF NestedQueue
      <3>2. g \notin nested \cup line
        BY <1>1, <1>5, <2>6 DEF LineQueue
      <3>3. QED
        BY <1>1, <2>3, <2>4, <3>1, <3>2
    <2>7. \A a \in Active(state) : ~PlansConflict(locks[a], locks[f])
      BY <1>4, <2>3, <2>4
    <2>8. f \in known
      BY <1>1, <2>3, <2>4
    <2>9. \A g \in Behind(f) : ~PlansConflict(locks[g], locks[f])
                               /\ (req[g].queue = "line" => g \in known)
      BY <1>2, <2>5, <2>6, <2>7 DEF Behind
    <2>10. QED
      BY <2>3, <2>8, <2>9 DEF HasReasonToWait
  <1>7. QED
    BY <1>5, <1>6

\* An admission that takes its place: what waited goes on waiting for what it
\* did, and what arrives waits, or is refused as busy, for a reason.
LEMMA ArrivalWakes ==
    ASSUME LanesInv, Active(state) \subseteq known,
           NEW x \in Ops, NEW r \in Requests,
           NEW p \in Ops \cup {NoOp}, TakesPlace(x, r, p),
           \A o \in Ops : state[o] = "waiting" => HasReasonToWait(o),
           Grant([state EXCEPT ![x] = "waiting"], held, outcome, {x})
    PROVE  /\ \A o \in Ops : state'[o] = "waiting" => HasReasonToWait(o)'
           /\ outcome'[x] # outcome[x] /\ outcome'[x] = "busy"
                  => (req[x].whenBusy # "wait" /\ HasReasonToWait(x))'
  <1> DEFINE st == [state EXCEPT ![x] = "waiting"]
  <1>1. PassReady(st, held, outcome, {x})
    BY AdmitLeaves DEF HandlerLeaves, TakesPlace
  <1>2. /\ \A o \in Ops : st[o] = IF o = x THEN "waiting" ELSE state[o]
        /\ state[x] = "idle"
    BY DEF LanesInv, TypeOK, TakesPlace
  <1>3. Grant(st, held, outcome, {x}) /\ st = [state EXCEPT ![x] = "waiting"]
    OBVIOUS
  <1> HIDE DEF st
  <1>4. PICK nested \in SUBSET NestedQueue(st), line \in SUBSET LineQueue(st) :
          LET free == nested \cup line
              after == AfterPass(st, free)
              busy == {o \in {x} : BusyRefuses(o, after)}
          IN  /\ NestedFree(st, held, nested)
              /\ LineFree(st, held, nested, line)
              /\ state' = [o \in Ops |-> IF o \in busy THEN "done" ELSE after[o]]
              /\ outcome' = [o \in Ops |->
                                IF o \in busy THEN "busy"
                                ELSE IF o \in free \ Starts(free) THEN Verdict(o)
                                ELSE outcome[o]]
    BY <1>3 DEF Grant
  <1> DEFINE free == nested \cup line
             after == AfterPass(st, free)
  <1>5. free \subseteq {x}
    BY <1>3, <1>4, ArrivalFreesNoOther
  <1>6. /\ \A o \in Ops : after[o] = IF o \notin free THEN st[o]
                                     ELSE IF Verdict(o) = "start" THEN "granted"
                                     ELSE "done"
        /\ \A o \in Ops \ {x} : state'[o] = after[o]
        /\ state'[x] \in {after[x], "done"}
        /\ outcome'[x] = "busy" /\ outcome[x] # "busy"
               => after[x] = "waiting" /\ req'[x].whenBusy # "wait"
    BY <1>4 DEF AfterPass, BusyRefuses, Verdict
  <1> HIDE DEF after
  <1>7. ASSUME x \notin free, state'[x] \in {"waiting", "done"}
        PROVE  HasReasonToWait(x)'
    <2>1. state'[x] \notin {"granted", "running"} /\ st[x] = "waiting"
      BY <1>2, <1>7
    <2>2. \A o \in Ops \ {x} : state'[o] = AfterPass(st, nested \cup line)[o]
      BY <1>6 DEF after
    <2>3. NestedFree(st, held, nested) /\ LineFree(st, held, nested, line)
      BY <1>4
    <2>4. QED
      BY <1>1, <1>7, <2>1, <2>2, <2>3, LeftHasReason
  <1>8. ASSUME NEW o \in Ops, state'[o] = "waiting"
        PROVE  HasReasonToWait(o)'
    <2>1. CASE o = x
      BY <1>2, <1>6, <1>7, <1>8, <2>1
    <2>2. CASE o # x
      <3>1. \A q \in Ops \ {x} : state'[q] = state[q]
        BY <1>2, <1>5, <1>6
      <3>2. state[o] = "waiting" /\ HasReasonToWait(o)
        BY <1>8, <2>2, <3>1
      <3>3. \A q \in Ops \ {x} :
                /\ UNCHANGED <<req[q], locks[q], arrival[q]>>
                /\ q \in known' <=> q \in known
        BY DEF TakesPlace, LanesInv, TypeOK
      <3>4. x \notin Active(state) /\ state[x] # "waiting"
        BY <1>2 DEF Active
      <3>5. Active(state) \subseteq Active(state')
        BY <3>1, <3>4 DEF Active
      <3>6. QED
        BY <3>1, <3>2, <3>3, <3>4, <3>5, ReasonStays DEF Active
    <2>3. QED
      BY <2>1, <2>2
  <1>9. ASSUME outcome'[x] # outcome[x], outcome'[x] = "busy"
        PROVE  (req[x].whenBusy # "wait" /\ HasReasonToWait(x))'
    <2>1. after[x] = "waiting" /\ req'[x].whenBusy # "wait"
      BY <1>6, <1>9
    <2>2. x \notin free
      BY <1>6, <2>1
    <2>3. QED
      BY <1>6, <1>7, <2>1, <2>2
  <1>10. QED
    BY <1>8, <1>9

\* What is admitted is no longer to arrive.
LEMMA AdmittedMoves ==
    ASSUME LanesInv, NEW o \in Ops, NEW r \in Requests,
           NEW p \in Ops \cup {NoOp}, Admit(o, r, p)
    PROVE  state'[o] # "idle"
  <1>1. CASE AdmissionRefused(r)
    BY <1>1 DEF Admit, LanesInv, TypeOK
  <1>2. CASE ~AdmissionRefused(r)
    <2> DEFINE st == [state EXCEPT ![o] = "waiting"]
    <2>1. HandlerLeaves(st, held, outcome, {o})
      BY <1>2, AdmitLeaves DEF Admit
    <2>2. Grant(st, held, outcome, {o}) /\ st[o] = "waiting"
      BY <1>2 DEF Admit, LanesInv, TypeOK
    <2> HIDE DEF st
    <2>3. PassDone(st)
      BY <2>1, <2>2, PassKeepsSafety DEF HandlerLeaves
    <2>4. QED
      BY <2>2, <2>3 DEF PassDone
  <1>3. QED
    BY <1>1, <1>2

\* Besides LanesInv: what holds its locks knows them, and what has yet to
\* arrive has no outcome.
WakeInv ==
    /\ LanesInv
    /\ Active(state) \subseteq known
    /\ \A o \in Ops : state[o] = "idle" => outcome[o] = "none"
    /\ \A o \in Ops : state[o] = "idle" \/ OnItsOwn(req[o]) => parent[o] = NoOp
    /\ NoLostWakeup

\* A pass leaves what has yet to arrive alone.
LEMMA PassLeavesIdle ==
    ASSUME NEW st, NEW hd, NEW oc, NEW arriving, Grant(st, hd, oc, arriving),
           NEW o \in Ops, st[o] = "idle"
    PROVE  outcome'[o] = oc[o]
  BY DEF Grant, AfterPass, BusyRefuses, NestedQueue, LineQueue

\* Only its own admission gives an outcome to what has yet to arrive.
LEMMA IdleUntilAdmitted ==
    ASSUME LanesInv, Next, NEW o \in Ops, state[o] = "idle"
    PROVE  \/ outcome'[o] = outcome[o]
           \/ \E r \in Requests, p \in Ops \cup {NoOp} : Admit(o, r, p)
  <1> USE DEF LanesInv, TypeOK
  <1>1. ASSUME NEW q \in Ops, NEW r \in Requests, NEW p \in Ops \cup {NoOp},
               Admit(q, r, p), q # o
        PROVE  outcome'[o] = outcome[o]
    <2>1. CASE AdmissionRefused(r)
      BY <1>1, <2>1 DEF Admit
    <2>2. CASE ~AdmissionRefused(r)
      <3> DEFINE st == [state EXCEPT ![q] = "waiting"]
      <3>1. Grant(st, held, outcome, {q})
        BY <1>1, <2>2 DEF Admit
      <3>2. st[o] = "idle"
        BY <1>1
      <3> HIDE DEF st
      <3>3. QED
        BY <3>1, <3>2, PassLeavesIdle
    <2>3. QED
      BY <2>1, <2>2
  <1>2. ASSUME NEW q \in Ops, NEW hd, NEW as, state[q] # "idle",
               Grant([state EXCEPT ![q] = "done"], hd,
                     [outcome EXCEPT ![q] = as], {})
        PROVE  outcome'[o] = outcome[o]
    <2> DEFINE st == [state EXCEPT ![q] = "done"]
               oc == [outcome EXCEPT ![q] = as]
    <2>1. st[o] = "idle" /\ oc[o] = outcome[o] /\ Grant(st, hd, oc, {})
      BY <1>2
    <2> HIDE DEF st, oc
    <2>2. QED
      BY <2>1, PassLeavesIdle
  <1>3. ASSUME NEW q \in Ops, LookupSettles(q) PROVE outcome'[o] = outcome[o]
    BY <1>3, PassLeavesIdle DEF LookupSettles
  <1>4. ASSUME NEW q \in Ops, LookupFails(q) \/ CancelWaiting(q)
        PROVE  outcome'[o] = outcome[o]
    BY <1>2, <1>4 DEF LookupFails, CancelWaiting
  <1>5. ASSUME NEW q \in Ops,
               Finish(q) \/ CancelGranted(q) \/ WithdrawGranted(q)
        PROVE  outcome'[o] = outcome[o]
    <2>1. state[q] # "idle"
      BY <1>5 DEF Finish, CancelGranted, WithdrawGranted, PauseWithdraws
    <2>2. \E as : ReleaseAs(q, as)
      BY <1>5 DEF Finish, CancelGranted, WithdrawGranted
    <2>3. QED
      BY <1>2, <2>1, <2>2 DEF ReleaseAs
  <1>6. ASSUME Pause PROVE outcome'[o] = outcome[o]
    <2> DEFINE ended == Withdrawn("waiting")
               st == [q \in Ops |-> IF q \in ended THEN "done" ELSE state[q]]
               oc == [q \in Ops |-> IF q \in ended THEN "paused" ELSE outcome[q]]
    <2>1. st[o] = "idle" /\ oc[o] = outcome[o]
      BY DEF Withdrawn
    <2>2. Grant(st, held, oc, {}) \/ outcome' = oc
      BY <1>6 DEF Pause
    <2> HIDE DEF st, oc
    <2>3. QED
      BY <2>1, <2>2, PassLeavesIdle
  <1>7. ASSUME \/ \E q \in Ops : Start(q) \/ Abandon(q) \/ GoStale(q)
               \/ \E q \in Ops, k \in Keys : Fence(q, k) \/ Unfence(q, k)
               \/ Resume
        PROVE  outcome'[o] = outcome[o]
    BY <1>7 DEF Start, Abandon, GoStale, Fence, Unfence, Resume
  <1>8. QED
    BY <1>1, <1>3, <1>4, <1>5, <1>6, <1>7 DEF Next, LookupEnds

\* What waits on its own waits in nobody's name.
LEMMA CountedOutside ==
    ASSUME WakeInv
    PROVE  Cardinality(WaitingOnTheirOwn) >= MaxWaiting
               => Cardinality(InNobodysName) >= MaxWaiting
  <1>1. WaitingOnTheirOwn \subseteq InNobodysName
    BY DEF WakeInv, WaitingOnTheirOwn, InNobodysName
  <1>2. IsFiniteSet(InNobodysName)
    BY OpsAssumption, FS_Subset DEF InNobodysName
  <1>3. /\ Cardinality(WaitingOnTheirOwn) <= Cardinality(InNobodysName)
        /\ IsFiniteSet(WaitingOnTheirOwn)
    BY <1>1, <1>2, FS_Subset
  <1>4. Cardinality(WaitingOnTheirOwn) \in Nat /\ Cardinality(InNobodysName) \in Nat
    BY <1>2, <1>3, FS_CardinalityType
  <1>5. QED
    BY <1>3, <1>4, KeysAssumption

\* An admission, whatever becomes of it.
LEMMA AdmitWakes ==
    ASSUME WakeInv, NEW o \in Ops, NEW r \in Requests,
           NEW p \in Ops \cup {NoOp}, Admit(o, r, p)
    PROVE  /\ \A q \in Ops : state'[q] = "waiting" => HasReasonToWait(q)'
           /\ outcome'[o] = "busy" =>
                  \/ Cardinality(InNobodysName) >= MaxWaiting
                  \/ (req[o].whenBusy # "wait" /\ HasReasonToWait(o))'
  <1>1. withdrawing = {} /\ state[o] = "idle" /\ outcome[o] # "busy"
    BY DEF WakeInv, Admit
  <1>2. \A q \in Ops : state[q] = "waiting" => HasReasonToWait(q)
    BY <1>1 DEF WakeInv, NoLostWakeup
  <1>3. CASE AdmissionRefused(r)
    <2>1. /\ state' = [state EXCEPT ![o] = "done"]
          /\ req' = [req EXCEPT ![o] = r]
          /\ outcome' = [outcome EXCEPT ![o] = RefusedAs(r)]
          /\ UNCHANGED <<known, locks, arrival>>
      BY <1>3 DEF Admit
    <2>2. \A q \in Ops \ {o} : state'[q] = state[q] /\ req'[q] = req[q]
      BY <2>1 DEF WakeInv, LanesInv, TypeOK
    <2>3. state'[o] = "done" /\ o \notin Active(state)
      BY <1>1, <2>1 DEF Active, WakeInv, LanesInv, TypeOK
    <2>4. ASSUME NEW q \in Ops, state'[q] = "waiting"
          PROVE  HasReasonToWait(q)'
      <3>1. state[q] = "waiting" /\ HasReasonToWait(q)
        BY <1>2, <2>2, <2>3, <2>4
      <3>2. Active(state) \subseteq Active(state')
        BY <2>2, <2>3 DEF Active
      <3>3. QED
        BY <1>1, <2>1, <2>2, <2>3, <3>1, <3>2, ReasonStays DEF Active
    <2>5. outcome'[o] = "busy" => Cardinality(InNobodysName) >= MaxWaiting
      <3>1. outcome'[o] = "busy" => Cardinality(WaitingOnTheirOwn) >= MaxWaiting
        BY <1>3, <2>1 DEF RefusedAs, AdmissionRefused, WakeInv, LanesInv, TypeOK
      <3>2. QED
        BY <3>1, CountedOutside
    <2>6. QED
      BY <2>4, <2>5
  <1>4. CASE ~AdmissionRefused(r)
    <2>1. TakesPlace(o, r, p)
      BY <1>4 DEF Admit, TakesPlace
    <2>2. Grant([state EXCEPT ![o] = "waiting"], held, outcome, {o})
      BY <1>4 DEF Admit
    <2>3. QED
      BY <1>1, <1>2, <2>1, <2>2, ArrivalWakes DEF WakeInv
  <1>5. QED
    BY <1>3, <1>4

\* Every step ends with nothing waiting that could run, but for a pause that
\* still has granted operations to release.
LEMMA StepWakes ==
    ASSUME WakeInv, Next, withdrawing' = {}, NEW o \in Ops,
           state'[o] = "waiting"
    PROVE  HasReasonToWait(o)'
  <1>0. LanesInv
    BY DEF WakeInv
  <1>1. ASSUME NEW q \in Ops, NEW r \in Requests, NEW p \in Ops \cup {NoOp},
               Admit(q, r, p)
        PROVE  HasReasonToWait(o)'
    BY <1>1, AdmitWakes
  <1>2. ASSUME NEW q \in Ops, LookupSettles(q) PROVE HasReasonToWait(o)'
    <2>1. HandlerLeaves(state, held, outcome, {})
      BY <1>0, <1>2, LookupLeaves DEF LookupSettles
    <2>2. QED
      BY <1>2, <2>1, PassWakes DEF LookupSettles
  <1>3. ASSUME NEW q \in Ops, LookupFails(q) PROVE HasReasonToWait(o)'
    <2>1. HandlerLeaves([state EXCEPT ![q] = "done"], held,
                        [outcome EXCEPT ![q] = "died"], {})
      BY <1>0, <1>3, EndOneLeaves DEF LookupFails, Frame, Outcomes
    <2>2. QED
      BY <1>3, <2>1, PassWakes DEF LookupFails
  <1>4. ASSUME NEW q \in Ops, CancelWaiting(q) PROVE HasReasonToWait(o)'
    <2>1. HandlerLeaves([state EXCEPT ![q] = "done"], held,
                        [outcome EXCEPT ![q] = "cancelled"], {})
      BY <1>0, <1>4, EndOneLeaves DEF CancelWaiting, Frame, Outcomes
    <2>2. QED
      BY <1>4, <2>1, PassWakes DEF CancelWaiting
  <1>5. ASSUME NEW q \in Ops,
               Finish(q) \/ CancelGranted(q) \/ WithdrawGranted(q)
        PROVE  HasReasonToWait(o)'
    <2>1. q \in Active(state) /\ withdrawing' = withdrawing \ {q}
      BY <1>0, <1>5 DEF Finish, CancelGranted, WithdrawGranted, LanesInv,
         PauseWithdraws, Active
    <2>2. PICK as \in Outcomes : ReleaseAs(q, as)
      BY <1>5 DEF Finish, CancelGranted, WithdrawGranted, Outcomes
    <2>3. HandlerLeaves([state EXCEPT ![q] = "done"], Release(held, locks[q]),
                        [outcome EXCEPT ![q] = as], {})
      BY <1>0, <2>1, <2>2, ReleaseLeaves
    <2>4. QED
      BY <2>2, <2>3, PassWakes DEF ReleaseAs
  <1>6. ASSUME Pause PROVE HasReasonToWait(o)'
    <2>1. Grant([q \in Ops |-> IF q \in Withdrawn("waiting")
                                 THEN "done" ELSE state[q]],
                held,
                [q \in Ops |-> IF q \in Withdrawn("waiting")
                                 THEN "paused" ELSE outcome[q]], {})
      BY <1>6 DEF Pause
    <2>2. QED
      BY <1>0, <1>6, <2>1, PauseLeaves, PassWakes
  <1>7. ASSUME \/ \E q \in Ops : Abandon(q) \/ GoStale(q)
               \/ \E q \in Ops, k \in Keys : Fence(q, k) \/ Unfence(q, k)
               \/ Resume
        PROVE  HasReasonToWait(o)'
    <2>1. UNCHANGED <<state, req, known, locks, arrival>> /\ withdrawing = {}
      BY <1>7 DEF Abandon, GoStale, Fence, Unfence, Resume
    <2>2. HasReasonToWait(o)
      BY <2>1 DEF WakeInv, NoLostWakeup
    <2>3. QED
      BY <2>1, <2>2 DEF HasReasonToWait, Behind, Active
  <1>8. ASSUME NEW q \in Ops, Start(q) PROVE HasReasonToWait(o)'
    <2>1. /\ state[q] = "granted" /\ withdrawing = {}
          /\ state' = [state EXCEPT ![q] = "running"]
          /\ UNCHANGED <<req, known, locks, arrival>>
      BY <1>8 DEF Start
    <2>2. \A p \in Ops : state'[p] = IF p = q THEN "running" ELSE state[p]
      BY <1>0, <2>1 DEF LanesInv, TypeOK
    <2>3. Active(state) \subseteq Active(state')
      BY <2>1, <2>2 DEF Active
    <2>4. state[o] = "waiting" /\ HasReasonToWait(o)
      BY <2>1, <2>2 DEF WakeInv, NoLostWakeup
    <2>5. QED
      BY <2>1, <2>2, <2>3, <2>4, ReasonStays
  <1>9. QED
    BY <1>1, <1>2, <1>3, <1>4, <1>5, <1>6, <1>7, <1>8 DEF Next, LookupEnds

\* Every step keeps it: what waits after one has a reason to.
LEMMA WakeInvKept == WakeInv /\ [Next]_vars => WakeInv'
  <1> SUFFICES ASSUME WakeInv, [Next]_vars PROVE WakeInv'
    OBVIOUS
  <1>1. LanesInv'
    BY StepKeeps DEF WakeInv
  <1>2. CASE UNCHANGED vars
    BY <1>1, <1>2 DEF vars, WakeInv, NoLostWakeup, HasReasonToWait, Behind,
       Active
  <1>3. CASE Next
    <2>1. StepShape
      BY <1>3, EveryStepShape DEF WakeInv
    <2>2. \A o \in Ops : state[o] \in States
      BY DEF WakeInv, LanesInv, TypeOK
    <2>3. Active(state') \subseteq known'
      <3>1. ASSUME NEW o \in Active(state'), o \notin Active(state)
            PROVE  o \in known'
        <4>1. o \in Ops /\ state[o] \in {"idle", "waiting", "done"}
          BY <2>2, <3>1 DEF Active, States
        <4>2. state[o] \in {"idle", "waiting"} /\ state'[o] = "granted"
          BY <2>1, <3>1, <4>1 DEF StepShape, Advances, Active
        <4>3. QED
          BY <2>1, <4>1, <4>2 DEF StepShape
      <3>2. QED
        BY <2>1, <3>1 DEF WakeInv, StepShape
    <2>4. ASSUME NEW o \in Ops, state'[o] = "idle"
          PROVE  outcome'[o] = "none"
      <3>1. state[o] = "idle"
        BY <2>1, <2>4 DEF StepShape, Advances
      <3>2. ASSUME NEW r \in Requests, NEW p \in Ops \cup {NoOp},
                   Admit(o, r, p)
            PROVE  FALSE
        BY <2>4, <3>2, AdmittedMoves DEF WakeInv
      <3>3. QED
        BY <1>3, <3>1, <3>2, IdleUntilAdmitted DEF WakeInv
    <2>5. NoLostWakeup'
      BY <1>3, StepWakes DEF NoLostWakeup
    <2>6. ASSUME NEW o \in Ops, state'[o] = "idle" \/ OnItsOwn(req'[o])
          PROVE  parent'[o] = NoOp
      <3>1. state'[o] = "idle" => state[o] = "idle"
        BY <2>1 DEF StepShape, Advances
      <3>2. parent \in [Ops -> Ops \cup {NoOp}] /\ req \in [Ops -> Requests \cup {NoRequest}]
        BY DEF WakeInv, LanesInv, TypeOK
      <3>3. CASE UNCHANGED <<req, parent>>
        BY <2>6, <3>1, <3>3 DEF WakeInv
      <3>4. CASE \E q \in Ops : Abandon(q)
        BY <2>6, <3>1, <3>2, <3>4 DEF WakeInv, Abandon
      <3>5. ASSUME NEW q \in Ops, NEW r \in Requests, NEW p \in Ops \cup {NoOp},
                   Admit(q, r, p)
            PROVE  parent'[o] = NoOp
        <4>1. /\ state[q] = "idle" /\ req' = [req EXCEPT ![q] = r]
              /\ parent' = parent \/ parent' = [parent EXCEPT ![q] = p]
              /\ OnItsOwn(r) => p = NoOp
          BY <3>5 DEF Admit, OnItsOwn
        <4>2. CASE o # q
          BY <2>6, <3>1, <3>2, <4>1, <4>2 DEF WakeInv
        <4>3. CASE o = q
          <5>1. parent[q] = NoOp
            BY <4>1 DEF WakeInv
          <5>2. state'[q] # "idle"
            BY <3>5, AdmittedMoves DEF WakeInv
          <5>3. QED
            BY <2>6, <3>2, <4>1, <4>3, <5>1, <5>2
        <4>4. QED
          BY <4>2, <4>3
      <3>6. \/ UNCHANGED <<req, parent>>
            \/ \E q \in Ops : Abandon(q)
            \/ \E q \in Ops, r \in Requests, p \in Ops \cup {NoOp} : Admit(q, r, p)
        BY <1>3 DEF Next, LookupEnds, LookupSettles, LookupFails, Start, Finish,
           ReleaseAs, CancelWaiting, CancelGranted, WithdrawGranted, Pause,
           Resume, GoStale, Fence, Unfence
      <3>7. QED
        BY <3>3, <3>4, <3>5, <3>6
    <2>7. QED
      BY <1>1, <2>3, <2>4, <2>5, <2>6 DEF WakeInv, Active
  <1>4. QED
    BY <1>2, <1>3

\* Between handlers nothing waits that could run (the pass at the end of each).
THEOREM WakeupsNotLost == Spec => []NoLostWakeup
  <1>1. Init => WakeInv
    BY InitEstablishes DEF WakeInv, NoLostWakeup, Init, Active
  <1>2. WakeInv => NoLostWakeup
    BY DEF WakeInv
  <1>3. QED
    BY <1>1, <1>2, WakeInvKept, PTL DEF Spec

\* An operation is refused as it arrives only when the line is full, work
\* inside others left out, or when it was asked for only if free and something
\* really is in its way.
THEOREM BusyHasReason == Spec => BusyOnlyWhenBlocked
  <1> DEFINE Blocked == \A o \in Ops :
                           state[o] = "idle" /\ outcome'[o] = "busy" =>
                               \/ Cardinality(InNobodysName) >= MaxWaiting
                               \/ (req[o].whenBusy # "wait" /\ HasReasonToWait(o))'
  <1>1. WakeInv /\ [Next]_vars => [Blocked]_vars
    <2> SUFFICES ASSUME WakeInv, Next, NEW o \in Ops,
                        state[o] = "idle", outcome'[o] = "busy"
                 PROVE  \/ Cardinality(InNobodysName) >= MaxWaiting
                        \/ (req[o].whenBusy # "wait" /\ HasReasonToWait(o))'
      OBVIOUS
    <2>1. outcome[o] # "busy"
      BY DEF WakeInv
    <2>2. PICK r \in Requests, p \in Ops \cup {NoOp} : Admit(o, r, p)
      BY <2>1, IdleUntilAdmitted DEF WakeInv
    <2>3. QED
      BY <2>2, AdmitWakes
  <1>2. Init => WakeInv
    BY InitEstablishes DEF WakeInv, NoLostWakeup, Init, Active
  <1>3. QED
    BY <1>1, <1>2, WakeInvKept, PTL DEF Spec, BusyOnlyWhenBlocked

-----------------------------------------------------------------------------
(***************************************************************************)
(* What a generation counts: only Start moves one, and an operation it     *)
(* counted keeps its locks on record to its end and after.                 *)
(***************************************************************************)

\* An operation counts for a key it ran holding alone.
Ran(o, k) ==
    /\ locks[o][k] = "exclusive"
    /\ state[o] = "running" \/ outcome[o] = "finished"

\* What makes the count inductive: what finished is done, whatever else ends it.
CountInv ==
    /\ WakeInv
    /\ \A o \in Ops : outcome[o] = "finished" => state[o] = "done"
    /\ GenerationCounts

\* A pass runs nothing, and ends only what waits.
LEMMA PassLeavesStarted ==
    ASSUME NEW st, NEW hd, NEW oc, NEW arriving, Grant(st, hd, oc, arriving),
           NEW o \in Ops
    PROVE  /\ st[o] # "waiting" => state'[o] = st[o] /\ outcome'[o] = oc[o]
           /\ st[o] = "waiting" =>
                  /\ state'[o] # "running"
                  /\ outcome'[o] \in {oc[o], "busy", "refused", "superseded"}
  <1>1. PICK nested \in SUBSET NestedQueue(st), line \in SUBSET LineQueue(st) :
          LET free == nested \cup line
              after == AfterPass(st, free)
              busy == {q \in arriving : BusyRefuses(q, after)}
          IN  /\ state' = [q \in Ops |-> IF q \in busy THEN "done" ELSE after[q]]
              /\ outcome' = [q \in Ops |->
                                IF q \in busy THEN "busy"
                                ELSE IF q \in free \ Starts(free) THEN Verdict(q)
                                ELSE oc[q]]
    BY DEF Grant
  <1> DEFINE free == nested \cup line
             after == AfterPass(st, free)
  <1>2. /\ o \in free => st[o] = "waiting"
        /\ after[o] = IF o \notin free THEN st[o]
                      ELSE IF Verdict(o) = "start" THEN "granted" ELSE "done"
        /\ BusyRefuses(o, after) => after[o] = "waiting"
    BY DEF NestedQueue, LineQueue, AfterPass, BusyRefuses
  <1>3. o \in free \ Starts(free) => Verdict(o) \in {"refused", "superseded"}
    BY DEF Starts, Verdict
  <1> HIDE DEF after
  <1>4. QED
    BY <1>1, <1>2, <1>3 DEF after

\* What a pass does to the count, for what its handler left behind.
LEMMA PassCounts ==
    ASSUME CountInv, NEW st, NEW hd, NEW oc, NEW arriving,
           Grant(st, hd, oc, arriving), NEW o \in Ops,
           \/ st[o] = state[o] /\ oc[o] = outcome[o]
           \/ st[o] # "running" /\ state[o] # "running"
              /\ oc[o] # "finished" /\ outcome[o] # "finished"
           \/ st[o] = "done" /\ state[o] = "running" /\ oc[o] = "finished"
    PROVE  /\ (state'[o] = "running" \/ outcome'[o] = "finished")
                 <=> (state[o] = "running" \/ outcome[o] = "finished")
           /\ outcome'[o] = "finished" => state'[o] = "done"
  BY PassLeavesStarted DEF CountInv

\* What every step but a start does to the count.
StillCounted(o) ==
    /\ (state'[o] = "running" \/ outcome'[o] = "finished")
          <=> (state[o] = "running" \/ outcome[o] = "finished")
    /\ outcome'[o] = "finished" => state'[o] = "done"

\* No step but a start counts an operation, or stops counting one.
LEMMA OnlyStartsCount ==
    ASSUME CountInv, Next, NEW o \in Ops, \A q \in Ops : ~Start(q)
    PROVE  StillCounted(o)
  <1> USE DEF StillCounted
  <1>0. LanesInv /\ state \in [Ops -> States] /\ outcome \in [Ops -> Outcomes]
    BY DEF CountInv, WakeInv, LanesInv, TypeOK
  <1>1. ASSUME NEW q \in Ops, NEW hd, NEW as \in Outcomes, state[q] # "done",
               as = "finished" <=> state[q] = "running",
               Grant([state EXCEPT ![q] = "done"], hd,
                     [outcome EXCEPT ![q] = as], {})
        PROVE  StillCounted(o)
    <2> DEFINE st == [state EXCEPT ![q] = "done"]
               oc == [outcome EXCEPT ![q] = as]
    <2>1. /\ st[o] = IF o = q THEN "done" ELSE state[o]
          /\ oc[o] = IF o = q THEN as ELSE outcome[o]
          /\ Grant(st, hd, oc, {})
      BY <1>0, <1>1
    <2>2. outcome[q] # "finished"
      BY <1>1 DEF CountInv
    <2> HIDE DEF st, oc
    <2>3. \/ st[o] = state[o] /\ oc[o] = outcome[o]
          \/ st[o] # "running" /\ state[o] # "running"
             /\ oc[o] # "finished" /\ outcome[o] # "finished"
          \/ st[o] = "done" /\ state[o] = "running" /\ oc[o] = "finished"
      BY <1>1, <2>1, <2>2
    <2>4. Grant(st, hd, oc, {})
      BY <2>1
    <2>5. QED
      BY <2>3, <2>4, PassCounts
  <1>2. ASSUME NEW q \in Ops, NEW r \in Requests, NEW p \in Ops \cup {NoOp},
               Admit(q, r, p)
        PROVE  StillCounted(o)
    <2>1. state[q] = "idle" /\ outcome[q] = "none"
      BY <1>2 DEF Admit, CountInv, WakeInv
    <2>2. CASE AdmissionRefused(r)
      <3>1. /\ state' = [state EXCEPT ![q] = "done"]
            /\ outcome' = [outcome EXCEPT ![q] = RefusedAs(r)]
        BY <1>2, <2>2 DEF Admit
      <3>2. RefusedAs(r) # "finished"
        BY DEF RefusedAs
      <3>3. QED
        BY <1>0, <2>1, <3>1, <3>2 DEF CountInv
    <2>3. CASE ~AdmissionRefused(r)
      <3> DEFINE st == [state EXCEPT ![q] = "waiting"]
      <3>1. Grant(st, held, outcome, {q})
        BY <1>2, <2>3 DEF Admit
      <3>2. st[o] = IF o = q THEN "waiting" ELSE state[o]
        BY <1>0
      <3> HIDE DEF st
      <3>3. QED
        BY <2>1, <3>1, <3>2, PassCounts
    <2>4. QED
      BY <2>2, <2>3
  <1>3. ASSUME NEW q \in Ops, LookupSettles(q) PROVE StillCounted(o)
    BY <1>3, PassCounts DEF LookupSettles
  <1>4. ASSUME NEW q \in Ops, LookupFails(q) \/ CancelWaiting(q)
        PROVE  StillCounted(o)
    BY <1>1, <1>4 DEF LookupFails, CancelWaiting, Outcomes
  <1>5. ASSUME NEW q \in Ops,
               Finish(q) \/ CancelGranted(q) \/ WithdrawGranted(q)
        PROVE  StillCounted(o)
    <2>1. CASE Finish(q)
      BY <1>1, <2>1 DEF Finish, ReleaseAs, Outcomes
    <2>2. CASE CancelGranted(q)
      BY <1>1, <2>2 DEF CancelGranted, ReleaseAs, Outcomes
    <2>3. CASE WithdrawGranted(q)
      <3>1. state[q] = "granted"
        BY <1>0, <2>3 DEF WithdrawGranted, LanesInv, PauseWithdraws
      <3>2. QED
        BY <1>1, <2>3, <3>1 DEF WithdrawGranted, ReleaseAs, Outcomes
    <2>4. QED
      BY <1>5, <2>1, <2>2, <2>3
  <1>6. ASSUME Pause PROVE StillCounted(o)
    <2> DEFINE ended == Withdrawn("waiting")
               st == [q \in Ops |-> IF q \in ended THEN "done" ELSE state[q]]
               oc == [q \in Ops |-> IF q \in ended THEN "paused" ELSE outcome[q]]
    <2>1. \/ st[o] = state[o] /\ oc[o] = outcome[o]
          \/ /\ st[o] = "done" /\ oc[o] = "paused"
             /\ state[o] = "waiting" /\ outcome[o] # "finished"
      BY DEF Withdrawn, CountInv
    <2>2. Grant(st, held, oc, {}) \/ (state' = st /\ outcome' = oc)
      BY <1>6 DEF Pause
    <2> HIDE DEF st, oc
    <2>3. CASE Grant(st, held, oc, {})
      BY <2>1, <2>3, PassCounts
    <2>4. CASE state' = st /\ outcome' = oc
      BY <2>1, <2>4 DEF CountInv
    <2>5. QED
      BY <2>2, <2>3, <2>4
  <1>7. ASSUME \/ \E q \in Ops : Abandon(q) \/ GoStale(q)
               \/ \E q \in Ops, k \in Keys : Fence(q, k) \/ Unfence(q, k)
               \/ Resume
        PROVE  StillCounted(o)
    BY <1>7 DEF Abandon, GoStale, Fence, Unfence, Resume, CountInv
  <1>8. QED
    BY <1>2, <1>3, <1>4, <1>5, <1>6, <1>7 DEF Next, LookupEnds

\* Only a start moves a generation, and what has been counted keeps the locks
\* it was counted for.
LEMMA CountKeeps == CountInv /\ [Next]_vars => CountInv'
  <1> SUFFICES ASSUME CountInv, [Next]_vars PROVE CountInv'
    OBVIOUS
  <1> DEFINE S(k) == {o \in Ops : Ran(o, k)}
  <1>1. WakeInv' /\ LanesInv
    BY WakeInvKept DEF CountInv, WakeInv
  <1>2. \A k \in Keys : starts[k] = Cardinality(S(k)) /\ IsFiniteSet(S(k))
    BY OpsAssumption, FS_Subset DEF CountInv, GenerationCounts, Ran
  <1>3. CASE UNCHANGED vars
    BY <1>1, <1>3 DEF CountInv, GenerationCounts, vars
  <1>4. ASSUME NEW x \in Ops, Start(x) PROVE CountInv'
    <2>1. /\ state[x] = "granted" /\ outcome[x] # "finished"
          /\ locks' = locks /\ outcome' = outcome
          /\ \A o \in Ops : state'[o] = IF o = x THEN "running" ELSE state[o]
      BY <1>1, <1>4 DEF Start, CountInv, LanesInv, TypeOK
    <2>2. ASSUME NEW k \in Keys
          PROVE  starts'[k] = Cardinality(S(k)')
      <3>1. x \notin S(k)
        BY <2>1 DEF Ran
      <3>2. CASE locks[x][k] = "exclusive"
        <4>1. starts'[k] = starts[k] + 1
          BY <1>4, <3>2 DEF Start
        <4>2. S(k)' = S(k) \cup {x}
          BY <2>1, <3>2 DEF Ran
        <4>3. QED
          BY <1>2, <3>1, <4>1, <4>2, FS_AddElement
      <3>3. CASE locks[x][k] # "exclusive"
        <4>1. starts'[k] = starts[k]
          BY <1>4, <3>3 DEF Start
        <4>2. S(k)' = S(k)
          BY <2>1, <3>3 DEF Ran
        <4>3. QED
          BY <1>2, <4>1, <4>2
      <3>4. QED
        BY <3>2, <3>3
    <2>3. GenerationCounts'
      BY <2>2 DEF GenerationCounts, Ran
    <2>4. QED
      BY <1>1, <2>1, <2>3 DEF CountInv
  <1>5. ASSUME Next, \A q \in Ops : ~Start(q) PROVE CountInv'
    <2>1. \A o \in Ops : StillCounted(o)
      BY <1>5, OnlyStartsCount
    <2>2. starts' = starts
      BY <1>5 DEF Next, LookupEnds, Admit, LookupSettles, LookupFails, Finish,
         ReleaseAs, Abandon, CancelWaiting, CancelGranted, Pause,
         WithdrawGranted, Resume, Fence, Unfence, GoStale
    <2>3. ASSUME NEW o \in Ops, state[o] = "running" \/ outcome[o] = "finished"
          PROVE  locks'[o] = locks[o]
      <3>1. \/ locks' = locks
            \/ \E q \in Ops : /\ state[q] \in {"idle", "waiting"}
                              /\ \E plan : locks' = [locks EXCEPT ![q] = plan]
        BY <1>5 DEF Next, LookupEnds, Admit, LookupSettles, LookupFails, Finish,
           ReleaseAs, Abandon, CancelWaiting, CancelGranted, Pause,
           WithdrawGranted, Resume, Fence, Unfence, GoStale
      <3>2. state[o] \notin {"idle", "waiting"}
        BY <2>3 DEF CountInv
      <3>3. QED
        BY <1>1, <3>1, <3>2 DEF LanesInv, TypeOK
    <2>4. \A k \in Keys : S(k)' = S(k)
      BY <2>1, <2>3 DEF StillCounted, Ran
    <2>5. GenerationCounts'
      <3>1. \A k \in Keys : starts'[k] = Cardinality(S(k)')
        BY <1>2, <2>2, <2>4
      <3>2. QED
        BY <3>1 DEF GenerationCounts, Ran
    <2>6. QED
      BY <1>1, <2>1, <2>5 DEF CountInv, StillCounted
  <1>6. QED
    BY <1>3, <1>4, <1>5

\* exclusiveGeneration counts the operations that ran holding the key alone,
\* and none that was refused or withdrawn after its grant (#run).
THEOREM GenerationsCounted == Spec => []GenerationCounts
  <1>1. Init => CountInv
    <2> SUFFICES ASSUME Init PROVE CountInv
      OBVIOUS
    <2>1. WakeInv
      BY InitEstablishes DEF WakeInv, NoLostWakeup, Init, Active
    <2>2. \A k \in Keys : {o \in Ops : Ran(o, k)} = {}
      BY DEF Init, Ran
    <2>3. GenerationCounts
      BY <2>2, FS_EmptySet DEF GenerationCounts, Init, Ran
    <2>4. QED
      BY <2>1, <2>3 DEF CountInv, Init
  <1>2. CountInv => GenerationCounts
    BY DEF CountInv
  <1>3. QED
    BY <1>1, <1>2, CountKeeps, PTL DEF Spec
=============================================================================
