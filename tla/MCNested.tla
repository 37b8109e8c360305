------------------------------ MODULE MCNested ------------------------------
(***************************************************************************)
(* Operations on a resource that take the Relay's routes from inside, next *)
(* to work that names the routes up front, continuations and               *)
(* preconditions; and the code's grant loops on the same work.             *)
(***************************************************************************)
EXTENDS GrantLoop, TLC

CONSTANTS server, routes

MCWholeOf == [k \in Keys |-> k]

Takes(s, r) == [k \in Keys |-> IF k = server THEN s ELSE r]

Ask(queue, plan) == [NoRequest EXCEPT !.queue = queue, !.locks = plan]

\* Nested work, continuations, and work that names the routes up front.
NestedRequests ==
    {Ask("nested", Takes("none", "exclusive")),
     [Ask("line", Takes("exclusive", "none")) EXCEPT !.carriesOn = TRUE],
     [Ask("line", Takes("shared", "exclusive")) EXCEPT !.lookup = TRUE],
     [Ask("line", Takes("none", "shared")) EXCEPT !.whenBusy = "refuse"],
     [Ask("continuation", Takes("none", "exclusive")) EXCEPT
         !.conditional = TRUE]}

\* The least that can keep a parent, its nested work and the line waiting.
LiveRequests ==
    {Ask("nested", Takes("none", "exclusive")),
     Ask("line", Takes("exclusive", "none")),
     [Ask("line", Takes("shared", "exclusive")) EXCEPT !.lookup = TRUE],
     [Ask("continuation", Takes("none", "exclusive")) EXCEPT
         !.conditional = TRUE]}

Symmetry == Permutations(Ops)
=============================================================================
