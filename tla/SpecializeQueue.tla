--------------------------- MODULE SpecializeQueue ---------------------------
(***************************************************************************)
(* What the specialize-event path of zygote_orch.c promises: events leave  *)
(* in the order in which they were accepted, each once; at most Capacity   *)
(* wait; an event that finds the queue full is counted, never reordered or *)
(* overwritten; the teardown empties the queue, once and for good.         *)
(***************************************************************************)
EXTENDS Naturals, Sequences

CONSTANTS Event, Capacity

VARIABLES
    waiting,    \* accepted events, oldest first
    sent,       \* events handed to the netlink channel
    lost,       \* how many found the queue full since the last report
    open        \* FALSE after the teardown

qvars == <<waiting, sent, lost, open>>

QInit == waiting = <<>> /\ sent = <<>> /\ lost = 0 /\ open = TRUE

Accept(e) ==
    /\ open /\ Len(waiting) < Capacity
    /\ waiting' = Append(waiting, e)
    /\ UNCHANGED <<sent, lost, open>>

Drop ==
    /\ open /\ Len(waiting) = Capacity
    /\ lost' = lost + 1
    /\ UNCHANGED <<waiting, sent, open>>

Send ==
    /\ waiting # <<>>
    /\ sent' = Append(sent, Head(waiting))
    /\ waiting' = Tail(waiting)
    /\ UNCHANGED <<lost, open>>

\* Losses are reported only once everything accepted was sent
Report ==
    /\ waiting = <<>> /\ lost > 0
    /\ lost' = 0
    /\ UNCHANGED <<waiting, sent, open>>

Clear ==
    /\ open /\ open' = FALSE
    /\ waiting' = <<>> /\ lost' = 0
    /\ UNCHANGED sent

QNext == (\E e \in Event : Accept(e)) \/ Drop \/ Send \/ Report \/ Clear

QSpec == QInit /\ [][QNext]_qvars
=============================================================================
