------------------------------ MODULE LaneLocks ------------------------------
(***************************************************************************)
(* Lock keys, lock modes and the lock table of the operation lanes         *)
(* (packages/operations/src/locks.ts), shared by Hearth's lanes and by     *)
(* every Relay's.                                                          *)
(*                                                                         *)
(* An operation's locks, once normalized, hold at most one mode per key,   *)
(* so a lock list is a total function from keys to a mode, "none" for a    *)
(* key it does not name.                                                   *)
(***************************************************************************)
EXTENDS Integers, FiniteSets

CONSTANT Keys   \* the lane keys: resources, and parts of resources

Modes == {"none", "shared", "exclusive"}

Plans == [Keys -> Modes]

NoLocks == [k \in Keys |-> "none"]

(***************************************************************************)
(* Two plans conflict on a key both name, unless both share it.            *)
(***************************************************************************)
ConflictAt(p, q, k) ==
    /\ p[k] # "none"
    /\ q[k] # "none"
    /\ "exclusive" \in {p[k], q[k]}

PlansConflict(p, q) == \E k \in Keys : ConflictAt(p, q, k)

(***************************************************************************)
(* The table of held locks.  A key nobody holds, which the code drops from *)
(* its map, is an entry with no holder at all.                             *)
(***************************************************************************)
Entry == [exclusive : BOOLEAN, shared : Nat]

NotHeld == [exclusive |-> FALSE, shared |-> 0]

EmptyTable == [k \in Keys |-> NotHeld]

\* LockTable.conflicts, for any of a plan's locks.
TableConflicts(table, plan) ==
    \E k \in Keys :
        \/ plan[k] # "none" /\ table[k].exclusive
        \/ plan[k] = "exclusive" /\ table[k].shared > 0

\* The operations of a set that share a key, and whether one has it alone.
Sharers(ops, locks, k) == {o \in ops : locks[o][k] = "shared"}

TakenAlone(ops, locks, k) == \E o \in ops : locks[o][k] = "exclusive"

\* LockTable.take, once for each operation of a set.
TakeAll(table, ops, locks) ==
    [k \in Keys |->
        [exclusive |-> table[k].exclusive \/ TakenAlone(ops, locks, k),
         shared    |-> table[k].shared + Cardinality(Sharers(ops, locks, k))]]

\* Faulty variant: a shared lock is dropped with the exclusive ones.
ReleaseForgetsShared(table, plan) ==
    [k \in Keys |->
        IF plan[k] = "none" \/ table[k] = NotHeld
          THEN table[k]
          ELSE [exclusive |-> plan[k] # "exclusive" /\ table[k].exclusive,
                shared    |-> table[k].shared]]

\* LockTable.release.
Release(table, plan) ==
    [k \in Keys |->
        IF plan[k] = "none" \/ table[k] = NotHeld
          THEN table[k]
          ELSE [exclusive |-> plan[k] # "exclusive" /\ table[k].exclusive,
                shared    |-> IF plan[k] = "shared" THEN table[k].shared - 1
                                                    ELSE table[k].shared]]
==============================================================================
