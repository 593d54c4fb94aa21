------------------------------ MODULE Bootstrap ------------------------------
(***************************************************************************)
(* The one-shot hand-over of the control fd to zygiskd and the life of the *)
(* kernel module around it (kernel/core/bootstrap.c, the session part of   *)
(* kernel/core/control.c, kernel/core/module.c).                           *)
(*                                                                         *)
(* A root client calls prctl; the kprobe pre handler claims the bootstrap  *)
(* (or, without a cookie, asks for a plain control session) and queues a   *)
(* task_work, which installs an anonymous fd.  The daemon then reports     *)
(* ready through that fd.  A delayed work, the guard, disables the module  *)
(* when that does not happen in time, and rmmod may unload the module      *)
(* whenever nothing holds a reference on it.                               *)
(*                                                                         *)
(* One atomic operation, or one stretch between two waits, is one action.  *)
(***************************************************************************)
EXTENDS Naturals, FiniteSets

CONSTANTS
    Claimer,    \* root threads that know the boot cookie (zygiskd)
    Rooter,     \* root threads that ask for control sessions (yzctl)
    TryMax,     \* bound: prctl calls in a behaviour
    FaultMax    \* bound: failing copies and failing session allocations

ASSUME BootstrapBounds ==
    /\ TryMax \in Nat /\ FaultMax \in Nat
    /\ IsFiniteSet(Claimer) /\ IsFiniteSet(Rooter) /\ Claimer \cap Rooter = {}

Client == Claimer \cup Rooter

\* The stages in the order in which yukizygisk_deactivate_locked stops them
Stage == {"control", "ctl", "orch", "nl", "probe", "lsm", "host"}
StopOrder ==
    [control |-> 1, ctl |-> 2, orch |-> 3, nl |-> 4, probe |-> 5, lsm |-> 6, host |-> 7]

VARIABLES
    claim,      \* yz_bootstrap_claim_state
    cookie,     \* the cookie is not zero
    hook,       \* yz_bootstrap_registered
    active,     \* the yz_stage_*_active flags; "control" is yz_control_available
    lock,       \* holder of yz_lifecycle_lock
    guard,      \* the guard work: off, scheduled, or the step of its handler
    seen,       \* the claim state the guard read
    services,   \* a zygote socket exists
    late,       \* the guard deadline has passed
    exit,       \* rmmod: live, then the steps of yukizygisk_exit, then gone
    pc,         \* client -> where its thread is
    fd,         \* client -> its control fd
    pins,       \* module references: queued sessions and open fds
    told,       \* history: clients whose DAEMON_READY returned 0
    tries,      \* prctl calls so far
    faults      \* failing copies and session allocations so far

kvars == <<claim, cookie, hook, active, lock>>
gvars == <<guard, seen>>
evars == <<services, late>>
pvars == <<pc, fd, pins, told, tries, faults>>
vars == <<kvars, gvars, evars, exit, pvars>>

\* yukizygisk_init ran with every stage, with or without a boot cookie
Init ==
    /\ cookie \in BOOLEAN
    /\ claim = IF cookie THEN "UNCLAIMED" ELSE "CLOSED"
    /\ guard = IF cookie THEN "scheduled" ELSE "off"
    /\ hook = TRUE
    /\ active = Stage
    /\ lock = "free"
    /\ seen = "UNCLAIMED"
    /\ services = FALSE /\ late = FALSE
    /\ exit = "live"
    /\ pc = [c \in Client |-> "user"]
    /\ fd = [c \in Client |-> "none"]
    /\ pins = 0
    /\ told = {}
    /\ tries = 0 /\ faults = 0

-----------------------------------------------------------------------------
(* External: the module loader and the rest of the boot.                   *)

\* try_module_get
CanPin == exit = "live"

\* /dev/socket/zygote or zygote64 appears
ServicesStart ==
    /\ ~services /\ services' = TRUE
    /\ UNCHANGED <<kvars, gvars, late, exit, pvars>>

\* jiffies pass yz_bootstrap_guard_deadline
DeadlinePasses ==
    /\ ~late /\ late' = TRUE
    /\ UNCHANGED <<kvars, gvars, services, exit, pvars>>

-----------------------------------------------------------------------------
(* yz_bootstrap_prctl_pre, in the kprobe.                                  *)

InHandler == {"matched", "queue", "undo"}
Goto(c, where) == pc' = [pc EXCEPT ![c] = where]

\* A call with the option and magic of the bootstrap reads the cookie and
\* compares it; a control session needs none.
Prctl(c) ==
    /\ hook /\ pc[c] = "user" /\ fd[c] = "none" /\ tries < TryMax
    /\ c \in Claimer => cookie
    /\ Goto(c, IF c \in Claimer THEN "matched" ELSE "queue")
    /\ tries' = tries + 1
    /\ UNCHANGED <<kvars, gvars, evars, exit, fd, pins, told, faults>>

\* Mutant: the claim is set without looking at the state
PrctlClaim_Blind(c) ==
    /\ pc[c] = "matched"
    /\ claim' = "CLAIMING" /\ Goto(c, "queue")
    /\ UNCHANGED <<cookie, hook, active, lock, gvars, evars, exit, fd, pins, told, tries, faults>>

\* cmpxchg UNCLAIMED -> CLAIMING
PrctlClaim(c) ==
    /\ pc[c] = "matched"
    /\ IF claim = "UNCLAIMED"
       THEN claim' = "CLAIMING" /\ Goto(c, "queue")
       ELSE UNCHANGED claim /\ Goto(c, "user")
    /\ UNCHANGED <<cookie, hook, active, lock, gvars, evars, exit, fd, pins, told, tries, faults>>

\* yz_queue_control_session: pin the module, queue the task_work
PrctlQueue(c) ==
    /\ pc[c] = "queue"
    /\ \/ /\ "control" \in active /\ CanPin
          /\ pins' = pins + 1
          /\ Goto(c, "queued")
          /\ UNCHANGED faults
       \/ /\ IF "control" \in active /\ CanPin
             THEN faults < FaultMax /\ faults' = faults + 1
             ELSE UNCHANGED faults
          /\ Goto(c, IF c \in Claimer THEN "undo" ELSE "user")
          /\ UNCHANGED pins
    /\ UNCHANGED <<kvars, gvars, evars, exit, fd, told, tries>>

\* atomic_set UNCLAIMED after a failed queue
PrctlUndo(c) ==
    /\ pc[c] = "undo"
    /\ claim' = "UNCLAIMED"
    /\ Goto(c, "user")
    /\ UNCHANGED <<cookie, hook, active, lock, gvars, evars, exit, fd, pins, told, tries, faults>>

-----------------------------------------------------------------------------
(* yz_bootstrap_task_work, on the client's way back to userspace.          *)

\* yukizygisk_control_install_fd asks whether the module is available; it
\* holds no lock, so the answer may be stale before the fd is there.
TaskWorkCheck(c) ==
    /\ pc[c] = "queued"
    /\ Goto(c, IF "control" \in active THEN "checked" ELSE "failed")
    /\ UNCHANGED <<kvars, gvars, evars, exit, fd, pins, told, tries, faults>>

\* Mutant: the file holds no module reference
TaskWorkPin_NoRef(c) ==
    /\ pc[c] = "checked" /\ CanPin
    /\ Goto(c, "referenced")
    /\ UNCHANGED <<kvars, gvars, evars, exit, fd, pins, told, tries, faults>>

\* Its allocations, which may fail, then try_module_get for the file
TaskWorkPin(c) ==
    /\ pc[c] = "checked"
    /\ \/ CanPin /\ pins' = pins + 1 /\ Goto(c, "referenced")
       \/ UNCHANGED pins /\ Goto(c, "failed")
    /\ UNCHANGED <<kvars, gvars, evars, exit, fd, told, tries, faults>>

\* anon_inode_getfile, whose failure gives the reference back, and fd_install
TaskWorkInstall(c) ==
    /\ pc[c] = "referenced"
    /\ \/ /\ fd' = [fd EXCEPT ![c] = "open"]
          /\ Goto(c, IF c \in Claimer THEN "installed" ELSE "copy")
          /\ UNCHANGED pins
       \/ /\ pins' = pins - 1
          /\ Goto(c, "failed")
          /\ UNCHANGED fd
    /\ UNCHANGED <<kvars, gvars, evars, exit, told, tries, faults>>

\* Mutant: release and its caller both drop the reference
CloseFd_Twice(c) ==
    /\ fd' = [fd EXCEPT ![c] = "none"]
    /\ pins' = pins - 2

\* yz_bootstrap_close_fd, and close(2): yukizygisk_release drops the pin
CloseFd(c) ==
    /\ fd' = [fd EXCEPT ![c] = "none"]
    /\ pins' = pins - 1

\* Mutant: the state is set, not compared and exchanged
TaskWorkDeliver_Blind(c) ==
    /\ pc[c] = "installed"
    /\ claim' = "DELIVERED" /\ Goto(c, "copy")
    /\ UNCHANGED <<cookie, hook, active, lock, gvars, evars, exit, fd, pins, told, tries, faults>>

\* cmpxchg CLAIMING -> DELIVERED; a claim that is gone closes the fd again
TaskWorkDeliver(c) ==
    /\ pc[c] = "installed"
    /\ IF claim = "CLAIMING"
       THEN claim' = "DELIVERED" /\ Goto(c, "copy") /\ UNCHANGED <<fd, pins>>
       ELSE CloseFd(c) /\ Goto(c, "failed") /\ UNCHANGED claim
    /\ UNCHANGED <<cookie, hook, active, lock, gvars, evars, exit, told, tries, faults>>

\* copy_to_user of the fd number, which may fault
TaskWorkCopy(c) ==
    /\ pc[c] = "copy"
    /\ \/ Goto(c, "done") /\ UNCHANGED <<fd, pins, faults>>
       \/ /\ faults < FaultMax /\ faults' = faults + 1
          /\ CloseFd(c)
          /\ Goto(c, IF c \in Claimer THEN "faulted" ELSE "failed")
    /\ UNCHANGED <<kvars, gvars, evars, exit, told, tries>>

\* cmpxchg DELIVERED -> UNCLAIMED
TaskWorkFault(c) ==
    /\ pc[c] = "faulted"
    /\ claim' = IF claim = "DELIVERED" THEN "UNCLAIMED" ELSE claim
    /\ Goto(c, "failed")
    /\ UNCHANGED <<cookie, hook, active, lock, gvars, evars, exit, fd, pins, told, tries, faults>>

\* cmpxchg CLAIMING -> UNCLAIMED or the end of the cookie; module_put
TaskWorkFinish(c) ==
    /\ pc[c] \in {"done", "failed"}
    /\ claim' = IF c \in Claimer /\ pc[c] = "failed" /\ claim = "CLAIMING"
                THEN "UNCLAIMED" ELSE claim
    /\ cookie' = (cookie /\ ~(c \in Claimer /\ pc[c] = "done"))
    /\ pins' = pins - 1
    /\ Goto(c, "leaving")
    /\ UNCHANGED <<hook, active, lock, gvars, evars, exit, fd, told, tries, faults>>

\* kfree and the return, after module_put: the thread still runs the module's
\* text and holds no reference on it.
TaskWorkReturn(c) ==
    /\ pc[c] = "leaving"
    /\ Goto(c, "user")
    /\ UNCHANGED <<kvars, gvars, evars, exit, fd, pins, told, tries, faults>>

-----------------------------------------------------------------------------
(* The fd in the hands of its client.                                      *)

InIoctl == {"ready", "cancel"}

\* YZ_IOCTL_DAEMON_READY: yz_control_sem is read-locked while the module is
\* available; only a bootstrap fd may report
ReadyEnter(c) ==
    /\ c \in Claimer /\ pc[c] = "user" /\ fd[c] = "open"
    /\ "control" \in active
    /\ Goto(c, "ready")
    /\ UNCHANGED <<kvars, gvars, evars, exit, fd, pins, told, tries, faults>>

\* yukizygisk_bootstrap_daemon_ready: cmpxchg DELIVERED -> READY.  Another
\* state is an error of the ioctl, or 0 when READY already.
ReadyClaim(c) ==
    /\ pc[c] = "ready"
    /\ IF claim = "DELIVERED"
       THEN claim' = "READY" /\ Goto(c, "cancel") /\ UNCHANGED told
       ELSE /\ told' = IF claim = "READY" THEN told \cup {c} ELSE told
            /\ Goto(c, "user") /\ UNCHANGED claim
    /\ UNCHANGED <<cookie, hook, active, lock, gvars, evars, exit, fd, pins, tries, faults>>

\* cancel_delayed_work: not _sync, a running guard goes on
ReadyCancel(c) ==
    /\ pc[c] = "cancel"
    /\ guard' = IF guard = "scheduled" THEN "off" ELSE guard
    /\ told' = told \cup {c}
    /\ Goto(c, "user")
    /\ UNCHANGED <<kvars, seen, evars, exit, fd, pins, tries, faults>>

Close(c) ==
    /\ pc[c] = "user" /\ fd[c] = "open"
    /\ CloseFd(c)
    /\ UNCHANGED <<kvars, gvars, evars, exit, pc, told, tries, faults>>

-----------------------------------------------------------------------------
(* yz_bootstrap_guard_work_fn.                                             *)

GuardFires ==
    /\ guard = "scheduled"
    /\ guard' = "read"
    /\ UNCHANGED <<kvars, seen, evars, exit, pvars>>

\* schedule_delayed_work; refused while cancel_delayed_work_sync waits
Reschedule == guard' = IF exit = "cancel" THEN "off" ELSE "scheduled"

GuardRead ==
    /\ guard = "read"
    /\ seen' = claim
    /\ guard' = IF claim \in {"READY", "CLOSED"} THEN "off" ELSE "check"
    /\ UNCHANGED <<kvars, evars, exit, pvars>>

\* Mutant: the deadline is forgotten
GuardCheck_NoDeadline ==
    /\ guard = "check"
    /\ IF seen = "CLAIMING" \/ ~services
       THEN Reschedule
       ELSE guard' = "close"
    /\ UNCHANGED <<kvars, seen, evars, exit, pvars>>

\* Too early: a claim is under way, or the services are not up
GuardCheck ==
    /\ guard = "check"
    /\ IF ~late /\ (seen = "CLAIMING" \/ ~services)
       THEN Reschedule
       ELSE guard' = "close"
    /\ UNCHANGED <<kvars, seen, evars, exit, pvars>>

\* Mutant: the state is set, not compared and exchanged
GuardClose_Blind ==
    /\ guard = "close"
    /\ claim' = "CLOSED" /\ guard' = "clear"
    /\ UNCHANGED <<cookie, hook, active, lock, seen, evars, exit, pvars>>

\* cmpxchg to CLOSED, unless the state moved
GuardClose ==
    /\ guard = "close"
    /\ IF claim = seen
       THEN claim' = "CLOSED" /\ guard' = "clear"
       ELSE UNCHANGED claim /\ Reschedule
    /\ UNCHANGED <<cookie, hook, active, lock, seen, evars, exit, pvars>>

\* yz_bootstrap_clear_cookie
GuardClear ==
    /\ guard = "clear"
    /\ cookie' = FALSE
    /\ guard' = "unhook"
    /\ UNCHANGED <<claim, hook, active, lock, seen, evars, exit, pvars>>

\* Mutant: nobody waits for the handlers in flight
UnregisterKprobe_NoWait == hook' = FALSE

\* yz_bootstrap_unregister_kprobe: unregister_kprobe waits for the handlers
UnregisterKprobe ==
    /\ hook => \A c \in Client : pc[c] \notin InHandler
    /\ hook' = FALSE

GuardUnhook ==
    /\ guard = "unhook"
    /\ UnregisterKprobe
    /\ guard' = "lock"
    /\ UNCHANGED <<claim, cookie, active, lock, seen, evars, exit, pvars>>

\* yukizygisk_bootstrap_fail_closed
GuardLock ==
    /\ guard = "lock" /\ lock = "free"
    /\ lock' = "guard"
    /\ guard' = "deactivate"
    /\ UNCHANGED <<claim, cookie, hook, active, seen, evars, exit, pvars>>

\* Mutant: yukizygisk_control_exit clears the flag without the write lock
DeactivateStage_NoWait ==
    \E s \in active :
        /\ \A r \in active : StopOrder[s] <= StopOrder[r]
        /\ active' = active \ {s}

\* yukizygisk_deactivate_locked(true): the next stage stops;
\* yukizygisk_control_exit write-locks yz_control_sem
DeactivateStage ==
    \E s \in active :
        /\ \A r \in active : StopOrder[s] <= StopOrder[r]
        /\ s = "control" => \A c \in Client : pc[c] \notin InIoctl
        /\ active' = active \ {s}

GuardDeactivate ==
    /\ guard = "deactivate"
    /\ DeactivateStage
    /\ UNCHANGED <<claim, cookie, hook, lock, gvars, evars, exit, pvars>>

\* Mutant: a fail-close that keeps the lifecycle lock
GuardDone_Locked ==
    /\ guard = "deactivate" /\ active = {}
    /\ guard' = "off"
    /\ UNCHANGED <<kvars, seen, evars, exit, pvars>>

GuardDone ==
    /\ guard = "deactivate" /\ active = {}
    /\ lock' = "free"
    /\ guard' = "off"
    /\ UNCHANGED <<claim, cookie, hook, active, seen, evars, exit, pvars>>

-----------------------------------------------------------------------------
(* rmmod.                                                                  *)

\* delete_module: the last reference is gone, no new one can be taken
Rmmod ==
    /\ exit = "live" /\ pins = 0
    /\ exit' = "close"
    /\ UNCHANGED <<kvars, gvars, evars, pvars>>

\* yukizygisk_bootstrap_exit
ExitClose ==
    /\ exit = "close"
    /\ claim' = "CLOSED" /\ cookie' = FALSE
    /\ exit' = "cancel"
    /\ UNCHANGED <<hook, active, lock, gvars, evars, pvars>>

\* cancel_delayed_work_sync
ExitCancel ==
    /\ exit = "cancel"
    /\ guard \in {"off", "scheduled"}
    /\ guard' = "off"
    /\ exit' = "unhook"
    /\ UNCHANGED <<kvars, seen, evars, pvars>>

ExitUnhook ==
    /\ exit = "unhook"
    /\ UnregisterKprobe
    /\ exit' = "lock"
    /\ UNCHANGED <<claim, cookie, active, lock, gvars, evars, pvars>>

\* yukizygisk_exit takes the lifecycle lock after the guard is cancelled
ExitLock ==
    /\ exit = "lock" /\ lock = "free"
    /\ lock' = "exit"
    /\ exit' = "deactivate"
    /\ UNCHANGED <<claim, cookie, hook, active, gvars, evars, pvars>>

ExitDeactivate ==
    /\ exit = "deactivate"
    /\ DeactivateStage
    /\ UNCHANGED <<claim, cookie, hook, lock, gvars, evars, exit, pvars>>

\* The module text is freed
ExitDone ==
    /\ exit = "deactivate" /\ active = {}
    /\ lock' = "free"
    /\ exit' = "gone"
    /\ UNCHANGED <<claim, cookie, hook, active, gvars, evars, pvars>>

-----------------------------------------------------------------------------
\* Steps a thread inside the kernel takes by itself
KernelSteps(c) ==
    \/ PrctlClaim(c) \/ PrctlQueue(c) \/ PrctlUndo(c)
    \/ TaskWorkCheck(c) \/ TaskWorkPin(c) \/ TaskWorkInstall(c)
    \/ TaskWorkDeliver(c) \/ TaskWorkCopy(c) \/ TaskWorkFault(c)
    \/ TaskWorkFinish(c) \/ TaskWorkReturn(c)
    \/ ReadyClaim(c) \/ ReadyCancel(c)

GuardSteps ==
    \/ GuardFires \/ GuardRead \/ GuardCheck \/ GuardClose \/ GuardClear
    \/ GuardUnhook \/ GuardLock \/ GuardDeactivate \/ GuardDone

ExitSteps ==
    \/ ExitClose \/ ExitCancel \/ ExitUnhook \/ ExitLock \/ ExitDeactivate \/ ExitDone

Next ==
    \/ \E c \in Client : Prctl(c) \/ KernelSteps(c) \/ ReadyEnter(c) \/ Close(c)
    \/ GuardSteps
    \/ Rmmod \/ ExitSteps
    \/ ServicesStart \/ DeadlinePasses

Spec == Init /\ [][Next]_vars

\* Kernel threads and the workqueue run, time passes; nobody is obliged to
\* call prctl, to report ready, to close an fd or to unload the module.  The
\* write lock of yz_control_sem is not starved by readers that come and go:
\* an rwsem hands over to a waiting writer.
Fairness ==
    /\ \A c \in Client : WF_vars(KernelSteps(c))
    /\ WF_vars(GuardSteps)
    /\ WF_vars(ExitSteps)
    /\ SF_vars(GuardDeactivate)
    /\ WF_vars(DeadlinePasses)

FairSpec == Spec /\ Fairness

-----------------------------------------------------------------------------
(* Properties.                                                             *)

\* Types: the reference count is never negative, the steps of the guard and of
\* yukizygisk_exit are known, only known stages are active.
TypeOK ==
    /\ claim \in {"UNCLAIMED", "CLAIMING", "DELIVERED", "READY", "CLOSED"}
    /\ cookie \in BOOLEAN /\ hook \in BOOLEAN
    /\ active \subseteq Stage
    /\ lock \in {"free", "guard", "exit"}
    /\ guard \in {"off", "scheduled", "read", "check", "close", "clear",
                  "unhook", "lock", "deactivate"}
    /\ seen \in {"UNCLAIMED", "CLAIMING", "DELIVERED", "READY", "CLOSED"}
    /\ services \in BOOLEAN /\ late \in BOOLEAN
    /\ exit \in {"live", "close", "cancel", "unhook", "lock", "deactivate", "gone"}
    /\ pc \in [Client -> {"user", "queued", "checked", "referenced", "installed",
                          "copy", "done", "faulted", "failed", "leaving"}
                         \cup InHandler \cup InIoctl]
    /\ fd \in [Client -> {"none", "open"}]
    /\ pins \in Nat
    /\ told \subseteq Claimer
    /\ tries \in 0 .. TryMax /\ faults \in 0 .. FaultMax

Delivered == {c \in Claimer : fd[c] = "open" /\ pc[c] # "installed"}

\* The bootstrap is one-shot: two clients never both hold a bootstrap fd
\* past its hand-over, whatever claims and retries overlap, and a delivered
\* fd that nobody closed cannot be claimed again.  A failing copy or
\* allocation breaks this: its undo may hit the claim of somebody else.
OneShot ==
    faults = 0 =>
        /\ Cardinality(Delivered) <= 1
        /\ (Delivered # {} /\ exit = "live") => claim # "CLAIMING"

\* Module references: every queued session holds exactly one, up to the
\* module_put at its end, and so does every control file from try_module_get
\* on: rmmod never sees zero while one of them exists.
Pinned == {"queued", "checked", "referenced", "installed", "copy", "done", "faulted", "failed"}
HasFile(c) == fd[c] = "open" \/ pc[c] = "referenced"
PinsExact ==
    pins = Cardinality({c \in Client : pc[c] \in Pinned})
         + Cardinality({c \in Client : HasFile(c)})

\* When the module text is gone no kprobe handler, fd, fd operation or guard
\* work is left, and no task_work that still has something to do: all that may
\* be left is the end of a task_work behind its module_put, which nothing
\* waits for.
LeftAfterUnload ==
    exit = "gone" =>
        /\ guard = "off" /\ ~hook /\ lock = "free"
        /\ \A c \in Client : pc[c] \in {"user", "leaving"} /\ fd[c] = "none"

\* The fail-close is final although the task_works do not take yz_control_sem
\* and install the fds of sessions that were checked before: no DAEMON_READY
\* succeeds any more, and unless something faulted no daemon is handed its fd
\* (the closed claim makes the task_work close it again).
FailedClosed == "control" \notin active
FailClosedFinal ==
    [][FailedClosed =>
           /\ told' = told
           /\ faults = 0 => Delivered' \subseteq Delivered]_vars

\* A DAEMON_READY that returned 0 disarms the guard: it never disables the
\* module after that, only rmmod does.
ReadyDisarmsGuard == told # {} => (active = Stage \/ exit # "live")

\* The same as long as no copy and no session allocation failed.
ReadyDisarmsUnlessFault == faults = 0 => ReadyDisarmsGuard

\* With a cookie the guard never lets the module sit half started: the
\* daemon reports ready or the control interface goes away.
GuardResolves ==
    (guard = "scheduled") ~> (claim = "READY" \/ "control" \notin active)

\* rmmod ends: yukizygisk_exit and the guard's fail-close never wait on
\* each other.
ExitEnds == (exit # "live") ~> (exit = "gone")

\* The module stays loaded for whoever relies on a reference of it: queued
\* sessions and control files hold exactly one each, what holds none (the
\* kprobe handler, the guard) is waited for by yukizygisk_exit, and the
\* unload leaves nothing but task_works past their module_put.
ModulePinned == TypeOK /\ PinsExact /\ LeftAfterUnload
=============================================================================
