------------------------------ MODULE MCPause ------------------------------
(***************************************************************************)
(* Two Hearths that pause and resume one Relay.                            *)
(***************************************************************************)
EXTENDS PauseHolds, TLC

CONSTANTS home, office

\* State constraint: of two changes, a fault and a failure, any three meet in
\* one behaviour.
AnyThree == changes + faults + errors <= 3
=============================================================================
