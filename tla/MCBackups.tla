----------------------------- MODULE MCBackups -----------------------------
(***************************************************************************)
(* A few backup tasks of each kind.                                        *)
(***************************************************************************)
EXTENDS BackupQueue, TLC

CONSTANTS nightly, manual, files, dump, expired, older, sweep, sweep2, none

Only(w) == \A t \in Asked : status[t] # "none" => t \in w

\* State constraint: which tasks are asked for beside one another, and how
\* often the Relay restarts meanwhile.
OneWorkload ==
    \/ Only({nightly, files})
    \/ stops <= 1 /\ (Only({manual, dump}) \/ Only({expired, older}))
=============================================================================
