----------------------------- MODULE ZygoteOrch -----------------------------
(***************************************************************************)
(* The orchestrator (kernel/feature/zygote_orch.c): it tracks the children *)
(* of zygote from fork to free, notices when one drops to its app uid and  *)
(* tells zygiskd so through a ring of events drained by a work item.       *)
(*                                                                         *)
(* The tracepoint handlers run in the context of the processes they are    *)
(* about, on any CPU.  A process is named by its pid: a pid is used again  *)
(* only after sched_process_free of its previous owner, so an incarnation  *)
(* that follows another is the same pid forked again.                      *)
(***************************************************************************)
EXTENDS Naturals, Sequences, FiniteSets

LOCAL INSTANCE Functions

CONSTANTS
    Pid,            \* children of zygote
    Uid,            \* uids they may set
    MaxChildren,    \* ZO_MAX_CHILDREN
    RingSize,       \* ZO_MAX_SPECIALIZE_EVENTS
    ForkMax         \* bound: forks in a behaviour

ASSUME OrchBounds ==
    /\ Uid \subseteq Nat /\ IsFiniteSet(Pid)
    /\ MaxChildren \in Nat /\ RingSize \in Nat \ {0} /\ ForkMax \in Nat

PerUserRange == 100000
Event == [pid : Pid, appid : {u % PerUserRange : u \in Uid}]

VARIABLES
    alive,      \* pids of running children
    dead,       \* pids whose process exited and is not freed yet
    state,      \* zo_children: pid -> none, FORKED or SPECIALIZED
    step,       \* pid -> step of its setresuid handler
    uid,        \* pid -> the uid that handler saw
    ev, head, tail,   \* zo_specialize_events and its indices
    dropped,    \* zo_specialize_dropped
    queued,     \* zo_specialize_work_queued
    pending,    \* the work item is queued
    running,    \* a worker is in zo_specialize_work_fn
    sent,       \* history: what the worker emitted
    probes,     \* registered tracepoints: sys_exit, fork and free
    down,       \* step of yz_zygote_orch_exit
    born        \* pid -> forks so far

procVars == <<alive, dead, state, step, uid, born>>
ringVars == <<ev, head, tail, dropped, queued>>
workVars == <<pending, running, sent>>
exitVars == <<probes, down>>
vars == <<procVars, ringVars, workVars, exitVars>>

Init ==
    /\ alive = {} /\ dead = {}
    /\ state = [p \in Pid |-> "none"]
    /\ step = [p \in Pid |-> "idle"]
    /\ uid = [p \in Pid |-> 0]
    /\ ev = [i \in 0 .. RingSize - 1 |-> <<>>]
    /\ head = 0 /\ tail = 0 /\ dropped = 0 /\ queued = FALSE
    /\ pending = FALSE /\ running = FALSE /\ sent = <<>>
    /\ probes = {"sys_exit", "fork", "free"}
    /\ down = "up"
    /\ born = [p \in Pid |-> 0]

Tracked == {p \in Pid : state[p] # "none"}

-----------------------------------------------------------------------------
(* Processes.                                                              *)

\* Mutant: the table has no limit
Fork_NoLimit(p) ==
    /\ p \notin alive \cup dead /\ SumFunction(born) < ForkMax
    /\ alive' = alive \cup {p}
    /\ born' = [born EXCEPT ![p] = @ + 1]
    /\ state' = IF "fork" \in probes /\ state[p] = "none"
                THEN [state EXCEPT ![p] = "FORKED"] ELSE state
    /\ UNCHANGED <<dead, step, uid, ringVars, workVars, exitVars>>

\* zo_on_fork, zo_track: a full table leaves the child untracked
Fork(p) ==
    /\ p \notin alive \cup dead /\ SumFunction(born) < ForkMax
    /\ alive' = alive \cup {p}
    /\ born' = [born EXCEPT ![p] = @ + 1]
    /\ state' = IF /\ "fork" \in probes /\ state[p] = "none"
                   /\ Cardinality(Tracked) < MaxChildren
                THEN [state EXCEPT ![p] = "FORKED"] ELSE state
    /\ UNCHANGED <<dead, step, uid, ringVars, workVars, exitVars>>

\* The process leaves; it is not inside a system call any more
Exit(p) ==
    /\ p \in alive /\ step[p] = "idle"
    /\ alive' = alive \ {p} /\ dead' = dead \cup {p}
    /\ UNCHANGED <<state, step, uid, born, ringVars, workVars, exitVars>>

\* Mutant: only children that never specialized give their slot back
Free_ForkedOnly(p) ==
    /\ p \in dead
    /\ dead' = dead \ {p}
    /\ state' = IF "free" \in probes /\ state[p] = "FORKED"
                THEN [state EXCEPT ![p] = "none"] ELSE state
    /\ UNCHANGED <<alive, step, uid, born, ringVars, workVars, exitVars>>

\* zo_on_free: the slot is free again
Free(p) ==
    /\ p \in dead
    /\ dead' = dead \ {p}
    /\ state' = IF "free" \in probes THEN [state EXCEPT ![p] = "none"] ELSE state
    /\ UNCHANGED <<alive, step, uid, born, ringVars, workVars, exitVars>>

\* The uids yz_zygote_orch_on_setresuid lets through
AppUid(u) == u >= 10000 /\ u % PerUserRange < 90000

\* Mutant: every tracked child counts, not only one that is still FORKED
SetResUid_AnyState(p, u) ==
    /\ p \in alive /\ step[p] = "idle" /\ "sys_exit" \in probes
    /\ AppUid(u) /\ state[p] # "none"
    /\ state' = [state EXCEPT ![p] = "SPECIALIZED"]
    /\ uid' = [uid EXCEPT ![p] = u]
    /\ step' = [step EXCEPT ![p] = "queue"]
    /\ UNCHANGED <<alive, dead, born, ringVars, workVars, exitVars>>

\* zo_on_sys_exit, yz_zygote_orch_on_setresuid under zo_lock
SetResUid(p, u) ==
    /\ p \in alive /\ step[p] = "idle" /\ "sys_exit" \in probes
    /\ AppUid(u) /\ state[p] = "FORKED"
    /\ state' = [state EXCEPT ![p] = "SPECIALIZED"]
    /\ uid' = [uid EXCEPT ![p] = u]
    /\ step' = [step EXCEPT ![p] = "queue"]
    /\ UNCHANGED <<alive, dead, born, ringVars, workVars, exitVars>>

\* Mutant: a full ring is not noticed
QueueEvent_Overwrite(p) ==
    /\ step[p] = "queue"
    /\ ev' = [ev EXCEPT ![head] = [pid |-> p, appid |-> uid[p] % PerUserRange]]
    /\ head' = (head + 1) % RingSize
    /\ queued' = TRUE
    /\ step' = [step EXCEPT ![p] = IF queued THEN "idle" ELSE "schedule"]
    /\ UNCHANGED <<alive, dead, state, uid, born, tail, dropped, workVars, exitVars>>

\* zo_queue_specialize_event under zo_event_lock
QueueEvent(p) ==
    LET next == (head + 1) % RingSize IN
    /\ step[p] = "queue"
    /\ IF next = tail
       THEN dropped' = dropped + 1 /\ UNCHANGED <<ev, head>>
       ELSE /\ ev' = [ev EXCEPT ![head] =
                         [pid |-> p, appid |-> uid[p] % PerUserRange]]
            /\ head' = next
            /\ UNCHANGED dropped
    /\ queued' = TRUE
    /\ step' = [step EXCEPT ![p] = IF queued THEN "idle" ELSE "schedule"]
    /\ UNCHANGED <<alive, dead, state, uid, born, tail, workVars, exitVars>>

\* schedule_work after the unlock
ScheduleWork(p) ==
    /\ step[p] = "schedule"
    /\ pending' = TRUE
    /\ step' = [step EXCEPT ![p] = "idle"]
    /\ UNCHANGED <<alive, dead, state, uid, born, ringVars, running, sent, exitVars>>

-----------------------------------------------------------------------------
(* The worker: zo_specialize_work_fn around zo_pop_specialize_event.       *)

WorkStart ==
    /\ pending /\ ~running
    /\ pending' = FALSE /\ running' = TRUE
    /\ UNCHANGED <<procVars, ringVars, sent, exitVars>>

\* Pop one event and emit it
WorkPop ==
    /\ running /\ tail # head
    /\ sent' = Append(sent, ev[tail])
    /\ tail' = (tail + 1) % RingSize
    /\ UNCHANGED <<procVars, ev, head, dropped, queued, pending, running, exitVars>>

\* The ring is empty: report the losses and look again
WorkReport ==
    /\ running /\ tail = head /\ dropped > 0
    /\ dropped' = 0
    /\ UNCHANGED <<procVars, ev, head, tail, queued, workVars, exitVars>>

\* Mutant: the worker leaves the queued flag set
WorkDone_KeepFlag ==
    /\ running /\ tail = head /\ dropped = 0
    /\ running' = FALSE
    /\ UNCHANGED <<procVars, ringVars, pending, sent, exitVars>>

\* The ring is empty and nothing was lost: the next event wakes the worker
WorkDone ==
    /\ running /\ tail = head /\ dropped = 0
    /\ queued' = FALSE /\ running' = FALSE
    /\ UNCHANGED <<procVars, ev, head, tail, dropped, pending, sent, exitVars>>

-----------------------------------------------------------------------------
(* yz_zygote_orch_exit.                                                    *)

\* zo_tracepoint_exit: tracepoint_synchronize_unregister waits for the
\* handlers in flight
ExitMonitor ==
    /\ down = "up"
    /\ probes' = probes \ {"sys_exit"}
    /\ down' = "sync"
    /\ UNCHANGED <<procVars, ringVars, workVars>>

\* Mutant: the handlers in flight are not waited for
ExitSync_NoWait ==
    /\ down = "sync"
    /\ down' = "cancel"
    /\ UNCHANGED <<procVars, ringVars, workVars, probes>>

ExitSync ==
    /\ down = "sync"
    /\ \A p \in Pid : step[p] = "idle"
    /\ down' = "cancel"
    /\ UNCHANGED <<procVars, ringVars, workVars, probes>>

\* zo_specialize_events_reset: cancel_work_sync, then clear the ring
ExitCancel ==
    /\ down = "cancel" /\ ~running
    /\ pending' = FALSE
    /\ down' = "reset"
    /\ UNCHANGED <<procVars, ringVars, running, sent, probes>>

ExitReset ==
    /\ down = "reset"
    /\ head' = 0 /\ tail' = 0 /\ dropped' = 0 /\ queued' = FALSE
    /\ down' = "untrack"
    /\ UNCHANGED <<procVars, ev, workVars, probes>>

ExitProbes ==
    /\ down = "untrack"
    /\ probes' = {}
    /\ down' = "down"
    /\ UNCHANGED <<procVars, ringVars, workVars>>

-----------------------------------------------------------------------------
HandlerSteps(p) == QueueEvent(p) \/ ScheduleWork(p)
WorkSteps == WorkStart \/ WorkPop \/ WorkReport \/ WorkDone
ExitSteps == ExitMonitor \/ ExitSync \/ ExitCancel \/ ExitReset \/ ExitProbes

Next ==
    \/ \E p \in Pid : Fork(p) \/ Exit(p) \/ Free(p) \/ HandlerSteps(p)
    \/ \E p \in Pid, u \in Uid : SetResUid(p, u)
    \/ WorkSteps
    \/ ExitSteps

Spec == Init /\ [][Next]_vars

\* Handlers are not preempted for ever and the workqueue runs its work
Fairness == (\A p \in Pid : WF_vars(HandlerSteps(p))) /\ WF_vars(WorkSteps)

FairSpec == Spec /\ Fairness

-----------------------------------------------------------------------------
(* Properties.                                                             *)

Waiting == [i \in 1 .. (head + RingSize - tail) % RingSize |->
                ev[(tail + i - 1) % RingSize]]

\* Types: the child table and the ring of zygote_orch.c stay within their
\* bounds, its indices within the ring.
TypeOK ==
    /\ alive \subseteq Pid /\ dead \subseteq Pid /\ alive \cap dead = {}
    /\ state \in [Pid -> {"none", "FORKED", "SPECIALIZED"}]
    /\ Cardinality(Tracked) <= MaxChildren
    /\ step \in [Pid -> {"idle", "queue", "schedule"}]
    /\ uid \in [Pid -> Uid \cup {0}]
    /\ head \in 0 .. RingSize - 1 /\ tail \in 0 .. RingSize - 1
    /\ \A i \in DOMAIN Waiting : Waiting[i] \in Event
    /\ dropped \in Nat /\ queued \in BOOLEAN
    /\ pending \in BOOLEAN /\ running \in BOOLEAN
    /\ probes \subseteq {"sys_exit", "fork", "free"}
    /\ down \in {"up", "sync", "cancel", "reset", "untrack", "down"}
    /\ born \in [Pid -> Nat]

\* The ring, its indices and the worker implement the queue of
\* SpecializeQueue: first in first out, nothing overwritten when the ring is
\* full, nothing sent twice.
Queue == INSTANCE SpecializeQueue
    WITH Capacity <- RingSize - 1, waiting <- Waiting, lost <- dropped,
         open <- down \notin {"untrack", "down"}
RingImplementsQueue == Queue!QSpec

\* No lost wake-up: whenever something is in the ring or in the drop count,
\* the worker is queued, running, or about to be queued by the handler that
\* set zo_specialize_work_queued.
WorkerAwake ==
    (tail # head \/ dropped > 0 \/ queued) =>
        \/ pending \/ running
        \/ \E p \in Pid : step[p] = "schedule"
        \/ down = "reset"

\* A specialization is announced at most once: a pid has no more events, on
\* their way or sent, than it had lives, not counting one that is still
\* unspecialized.
Announced(p) ==
    Cardinality({i \in DOMAIN sent : sent[i].pid = p})
        + Cardinality({i \in DOMAIN Waiting : Waiting[i].pid = p})
AnnouncedOnce ==
    \A p \in Pid :
        Announced(p) + (IF step[p] = "queue" THEN 1 ELSE 0)
            + (IF state[p] = "FORKED" THEN 1 ELSE 0) <= born[p]

\* After yz_zygote_orch_exit no handler, no work item and no tracepoint is
\* left that could run in the module.
ExitQuiet ==
    down = "down" =>
        /\ ~pending /\ ~running /\ probes = {}
        /\ \A p \in Pid : step[p] = "idle"

\* A process that is gone leaves no slot behind while the probes are on: the
\* table holds only children that are alive or not freed yet.
SlotsReclaimed == "free" \in probes => Tracked \subseteq alive \cup dead

\* Every accepted event is sent and every drop is reported, unless the
\* teardown comes first.
EventsDrain == (tail # head \/ dropped > 0) ~> ((tail = head /\ dropped = 0) \/ down # "up")

\* Only app uids are announced: the app id of an event is one of an app.
OnlyAppUids == \A i \in DOMAIN sent : sent[i].appid >= 10000

\* The child table and what is announced from it agree with the processes:
\* it never holds more than zo_children has room for, loses a slot to no
\* process that is gone, and announces each life of a pid at most once.
ChildTableSound == TypeOK /\ AnnouncedOnce /\ SlotsReclaimed
=============================================================================
