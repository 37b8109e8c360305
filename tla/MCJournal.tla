----------------------------- MODULE MCJournal -----------------------------
(***************************************************************************)
(* Two sends of one change and a third request that reuses its ID for      *)
(* something else.                                                         *)
(***************************************************************************)
EXTENDS RelayJournal, TLC

CONSTANTS first, again, other

MCIdOf == [r \in Reqs |-> "id"]

MCDigestOf == [r \in Reqs |-> IF r = other THEN "theirs" ELSE "ours"]

\* State constraint: days pass, and the journal is rebuilt, apart from one
\* another, from pauses, and from the request that isn't the change's.
DaysOrOthers ==
    /\ stage[other] # "new" \/ paused => day = 0 /\ journal = 0
    /\ journal = 1 => day = 0
=============================================================================
