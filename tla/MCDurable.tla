------------------------------ MODULE MCDurable ------------------------------
(* Small instances of DurableOperations: asks under one key, calls that    *)
(* start an operation under one idempotency key, all on one resource.      *)
EXTENDS DurableOperations, TLC

CONSTANTS first, second, third, app, site

OneKey == [a \in Asks |-> app]

AnyAsk == Permutations(Asks)

Begun == {a \in Asks : ask[a] # "idle"}
Started == {s \in Starters : start[s] # "idle"}

(* State constraint: two asks, or an ask beside a start, meet one fault or  *)
(* restart; an ask, or two starts, alone meet as many as the bounds allow.  *)
OneWorkload ==
    \/ /\ Started = {} \/ Cardinality(Started \union Begun) <= 2
       /\ faults + crashes <= 1
    \/ Begun = {}
    \/ Cardinality(Begun) = 1 /\ Started = {}

(* State constraint: the same, and a lost answer to a start beside another  *)
(* operation meets a restart too.                                           *)
OneWorkloadAndLostStarts ==
    OneWorkload \/ (unheard # {} /\ Cardinality(Started \union Begun) <= 2)
=============================================================================
