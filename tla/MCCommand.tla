----------------------------- MODULE MCCommand -----------------------------
(***************************************************************************)
(* A command that may be withdrawn once: two sends under its first ID, one *)
(* under its second.                                                       *)
(***************************************************************************)
EXTENDS RelayCommand, TLC

CONSTANTS first, again, anew

MCIdOf == [r \in Reqs |-> IF r = anew THEN 1 ELSE 0]

MCDigestOf == [r \in Reqs |-> "payload"]

\* State constraint: a second ID is tried within the first day, and the
\* journal is rebuilt within it where none is; a Relay is paused on the
\* first day, under the first ID.
DaysOrChanges ==
    /\ attempt = 1 => day = 0 /\ journal = 0
    /\ journal = 1 => day = 0
    /\ paused => day = 0 /\ attempt = 0
=============================================================================
