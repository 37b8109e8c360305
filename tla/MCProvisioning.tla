--------------------------- MODULE MCProvisioning ---------------------------
(***************************************************************************)
(* Jobs that compete for the slots of a small host.                        *)
(***************************************************************************)
EXTENDS ProvisioningQueue, TLC

CONSTANTS app, database

\* State constraint: of refusals, pauses, failures and restarts, any two kinds
\* meet in one behaviour.
TwoKinds ==
    \/ refusals + pauses = 0 \/ refusals + errors = 0 \/ refusals + stops = 0
    \/ pauses + errors = 0 \/ pauses + stops = 0 \/ errors + stops = 0

\* State constraint: the first job recorded is the App's, which of the two may
\* be deleted, and claims come one at a time.
Roles ==
    /\ born = <<>> \/ Head(born) = app
    /\ discard[database] = "none"
    /\ Cardinality(claiming) <= 1
=============================================================================
