-------------------------- MODULE CommandContract --------------------------
(***************************************************************************)
(* What a durable operation relies on when it changes something on a Relay *)
(* as one of its steps (the comment of relayCommand): the change is made   *)
(* at most once, a success is never reported of one that wasn't made, and  *)
(* one reported as never having run isn't made later either.               *)
(***************************************************************************)
VARIABLES
    made,   \* how far the change itself has got
    told    \* what the step said of it

onceVars == <<made, told>>

OnceInit == made = "no" /\ told = "nothing"

\* The change starts, and ends or is cut off.
Begin ==
    /\ made = "no"
    /\ told # "notRun"
    /\ made' = "begun"
    /\ UNCHANGED told

Complete ==
    /\ made = "begun"
    /\ made' \in {"succeeded", "failed"}
    /\ UNCHANGED told

\* The step ends.
Tell ==
    /\ told = "nothing"
    /\ told' \in {"succeeded", "notRun", "trouble"}
    /\ told' = "succeeded" => made = "succeeded"
    /\ told' = "notRun" => made = "no"
    /\ UNCHANGED made

OnceNext == Begin \/ Complete \/ Tell

OnceSpec == OnceInit /\ [][OnceNext]_onceVars
=============================================================================
