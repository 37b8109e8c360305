------------------------------- MODULE MCLanes -------------------------------
(***************************************************************************)
(* Operations on one resource and one of its parts, as a game server and   *)
(* its files, with nothing nested: the lane rule, refusals, pauses; and    *)
(* freezes and restores, which fence what they hold.                       *)
(***************************************************************************)
EXTENDS OperationLanes, TLC

CONSTANTS whole, part

MCWholeOf == [k \in Keys |-> whole]

Plain == [NoRequest EXCEPT !.whenBusy = "wait"]

Replace == [k \in Keys |-> IF k = whole THEN "exclusive" ELSE "none"]
WriteFiles == [k \in Keys |-> IF k = whole THEN "shared" ELSE "exclusive"]
Read == [k \in Keys |-> IF k = whole THEN "shared" ELSE "none"]

LineRequests ==
    {[Plain EXCEPT !.locks = Replace, !.lookup = TRUE],
     [Plain EXCEPT !.locks = Replace, !.whenBusy = "refuse"],
     [Plain EXCEPT !.locks = WriteFiles, !.whenBusy = "person"],
     [Plain EXCEPT !.locks = Read, !.carriesOn = TRUE]}

\* Freezes and restores, which fence what they hold; what a fence lets
\* through; and work it turns away.
FenceRequests ==
    {[Plain EXCEPT !.locks = Replace, !.fences = TRUE],
     [Plain EXCEPT !.locks = Replace, !.exempt = TRUE],
     [Plain EXCEPT !.locks = WriteFiles],
     [Plain EXCEPT !.locks = Read, !.conditional = TRUE]}

MCRequests == LineRequests \cup FenceRequests

Admitted == {o \in Ops : req[o] # NoRequest}
Among(requests) == \A o \in Admitted : req[o] \in requests

\* State constraint: the two kinds of work are explored one at a time, what
\* fences with three operations.
OneWorkload ==
    Among(LineRequests) \/ (Among(FenceRequests) /\ Cardinality(Admitted) <= 3)

Symmetry == Permutations(Ops)
=============================================================================
