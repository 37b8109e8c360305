---------------------------- MODULE LaneContract ----------------------------
(***************************************************************************)
(* What operation lanes promise whoever admits work to them, without       *)
(* queues, passes or lock tables (the module comment of lanes.ts and the   *)
(* lane rule of grants.ts): operations holding locks never conflict, and   *)
(* one in line never takes its locks before an operation ahead of it in    *)
(* line that still asks for conflicting ones, or does not know its own.    *)
(*                                                                         *)
(* A step may move any number of operations, forward only.                 *)
(***************************************************************************)
EXTENDS LaneLocks

CONSTANT Ops

VARIABLES
    phase,     \* how far an operation has got
    claim,     \* the locks it asks for
    settled,   \* the operations whose claim is final
    place,     \* the place in line
    inLine     \* the operations that wait for their turn, not only for holders

contractVars == <<phase, claim, settled, place, inLine>>

Phases == {"new", "asking", "holding", "ended"}

Forward ==
    {<<"new", "asking">>, <<"new", "holding">>, <<"new", "ended">>,
     <<"asking", "holding">>, <<"asking", "ended">>, <<"holding", "ended">>}

ContractInit ==
    /\ phase = [o \in Ops |-> "new"]
    /\ claim \in [Ops -> Plans]
    /\ settled = {}
    /\ place = [o \in Ops |-> 0]
    /\ inLine \in SUBSET Ops

Compatible(ph, cl) ==
    \A o, p \in Ops :
        o # p /\ ph[o] = "holding" /\ ph[p] = "holding"
            => ~PlansConflict(cl[o], cl[p])

\* An operation that takes its locks in this step, if it is in line, passes
\* nobody ahead of it that may want them.
InTurn(o) ==
    o \in inLine' =>
        \A p \in inLine' :
            phase'[p] = "asking" /\ place'[p] < place'[o]
                => p \in settled' /\ ~PlansConflict(claim'[p], claim'[o])

\* What it asked for, and its place, stay as they were once it has arrived.
Kept(o) ==
    /\ place'[o] = place[o]
    /\ (o \in inLine') = (o \in inLine)
    /\ o \in settled => claim'[o] = claim[o]

ContractNext ==
    /\ \A o \in Ops :
          /\ phase'[o] = phase[o] \/ <<phase[o], phase'[o]>> \in Forward
          /\ phase[o] # "new" => Kept(o)
          /\ phase[o] = "new" /\ phase'[o] \in {"asking", "holding"} =>
                \A p \in Ops \ {o} : place'[p] < place'[o]
          /\ phase[o] # "holding" /\ phase'[o] = "holding" =>
                o \in settled' /\ InTurn(o)
    /\ settled \subseteq settled'
    /\ Compatible(phase', claim')

ContractSpec == ContractInit /\ [][ContractNext]_contractVars
=============================================================================
