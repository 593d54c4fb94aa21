---------------------------- MODULE MCZygoteCtl ----------------------------
(***************************************************************************)
(* Two pids whose processes exit and are followed by others, and a third   *)
(* one for which there may be no slot left.                                *)
(***************************************************************************)
EXTENDS ZygoteCtl, TLC

CONSTANT p3

\* Files, callers and the other pids are interchangeable
BrokerSymmetry ==
    Permutations(File) \cup Permutations(Caller) \cup Permutations(Target \ {p3})

\* Bound: the process of p3 lives on and is handed files once, when both others
\* were handed some and their pids did not pass on.
ThirdLives ==
    /\ life[p3] = "alive" /\ count[p3] <= 1
    /\ count[p3] > 0 => \A q \in Target : age[q] = 1 /\ count[q] > 0
=============================================================================
