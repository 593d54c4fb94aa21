----------------------------- MODULE LoadPolicy -----------------------------
(***************************************************************************)
(* Who takes temporary allowances and how they are given back              *)
(* (kernel/feature/zygote_probe.c, the ioctls of kernel/core/control.c,    *)
(* the teardown of kernel/core/module.c), composed with the ledger of      *)
(* PolicyTemp.                                                             *)
(*                                                                         *)
(*  - an injection (zp_inject_tw_func) takes allowances in a struct on its *)
(*    stack, aborts with a restore, or publishes the struct on the native  *)
(*    pending list with a timeout, replacing older entries of its tgid;    *)
(*  - the daemon (an ioctl Caller) arms module-load holders for a zygote,  *)
(*    and restores everything of a tgid;                                   *)
(*  - timeouts restore entries that nobody restored;                       *)
(*  - the teardown drains the module holders and drops the backend.        *)
(*                                                                         *)
(* A step between two lock releases is one action.  A restore request may  *)
(* name any tgid at any time: the one of an image that has gone through    *)
(* execve since is handled while its tgid is injected again.               *)
(***************************************************************************)
EXTENDS PolicyTemp

CONSTANTS
    Task,       \* tgids that are injected or ask for module policies
    Caller,     \* threads issuing control ioctls
    EarlyMax,   \* early native modules staged by one injection
    InjectMax,  \* bound: injections started in a behaviour
    ArmMax,     \* bound: module-load requests in a behaviour
    FailMax     \* bound: policy edits that fail on restore

NoHolder == "none"
NoTask == "none"
Exiting == "exit"
Place == {"free", "inject", "native", "module", "expired", Exiting}

\* NULL is no struct; tasks, callers and the places of a struct are different
\* things, although owner may name any of them.
ASSUME LoadPolicyBounds ==
    /\ EarlyMax \in Nat /\ InjectMax \in Nat /\ ArmMax \in Nat /\ FailMax \in Nat
    /\ NoHolder \notin Holder
    /\ Task \cap Caller = {} /\ (Task \cup Caller) \cap Place = {}

VARIABLES
    owner,   \* where the struct is: see Owner
    tgid,    \* tgid of a list entry
    tag,     \* the file request of a module holder (its source and target type)
    timer,   \* delayed work of an entry: off, armed, running
    inj,     \* task -> step of its injection
    mine,    \* task -> struct of its injection
    early,   \* task -> early modules staged so far
    stray,   \* history: a delayed work was scheduled in a freed entry
    call,    \* caller -> step of its ioctl
    arg,     \* caller -> tgid the ioctl is about
    tmp,     \* caller -> struct on the stack of allow_module_policy
    modLock, \* zp_module_policy_lock holder while allow_module_policy runs
    down,    \* teardown step
    started, armed, fails   \* counters of the bounds

hvars == <<owner, tgid, tag, timer>>
ivars == <<inj, mine, early, stray>>
cvars == <<call, arg, tmp, modLock>>
bvars == <<started, armed, fails>>
allVars == <<vars, hvars, ivars, cvars, down, bvars>>

LInit ==
    /\ Init
    /\ owner = [h \in Holder |-> "free"]
    /\ tgid = [h \in Holder |-> NoTask]
    /\ tag = [h \in Holder |-> NoAv]
    /\ timer = [h \in Holder |-> "off"]
    /\ inj = [t \in Task |-> "idle"]
    /\ mine = [t \in Task |-> NoHolder]
    /\ early = [t \in Task |-> 0] /\ stray = FALSE
    /\ call = [c \in Caller |-> "idle"]
    /\ arg = [c \in Caller |-> NoTask]
    /\ tmp = [c \in Caller |-> NoHolder]
    /\ modLock = "free"
    /\ down = "up"
    /\ started = 0 /\ armed = 0 /\ fails = 0

-----------------------------------------------------------------------------
\* Mutant: the struct is freed while its delayed work is left alone
GiveBack_KeepTimer(h) ==
    /\ \/ Restore(h) /\ UNCHANGED fails
       \/ ~ready /\ RestoreFails(h) /\ UNCHANGED fails
       \/ ready /\ fails < FailMax /\ RestoreFails(h) /\ fails' = fails + 1
    /\ owner' = [owner EXCEPT ![h] = "free"]
    /\ tgid' = [tgid EXCEPT ![h] = NoTask]
    /\ tag' = [tag EXCEPT ![h] = NoAv]
    /\ UNCHANGED timer

\* The struct is restored, whether the edit works or not, and freed:
\* zp_restore_native_policy_state followed by kfree or by the stack frame's
\* end.  Only failures of a working backend are counted and bounded.
GiveBack(h) ==
    /\ \/ Restore(h) /\ UNCHANGED fails
       \/ ~ready /\ RestoreFails(h) /\ UNCHANGED fails
       \/ ready /\ fails < FailMax /\ RestoreFails(h) /\ fails' = fails + 1
    /\ owner' = [owner EXCEPT ![h] = "free"]
    /\ tgid' = [tgid EXCEPT ![h] = NoTask]
    /\ tag' = [tag EXCEPT ![h] = NoAv]
    /\ timer' = [timer EXCEPT ![h] = "off"]

\* cancel_delayed_work_sync returns when the handler is not running
CanCancel(h) == timer[h] # "running"

-----------------------------------------------------------------------------
(* zp_inject_tw_func: a task_work of the task t, after execve.             *)

\* Stage the loader; a failed allow is logged and ignored.  A task_work
\* queued before the exec hook was removed still runs.
InjectStage(t, h) ==
    /\ down # "host"
    /\ inj[t] = "idle" /\ owner[h] = "free" /\ started < InjectMax
    /\ \/ \E req \in FileReq : AllowFile(h, req)
       \/ AllowFileFails(h)
    /\ owner' = [owner EXCEPT ![h] = "inject"]
    /\ inj' = [inj EXCEPT ![t] = "staged"]
    /\ mine' = [mine EXCEPT ![t] = h]
    /\ early' = [early EXCEPT ![t] = 0]
    /\ started' = started + 1
    /\ UNCHANGED <<tgid, tag, timer, stray, cvars, down, armed, fails>>

\* zp_stage_early_native_packet stages its modules through zp_stage_fd with
\* the same struct
InjectEarly(t) ==
    /\ inj[t] = "staged" /\ early[t] < EarlyMax
    /\ \/ \E req \in FileReq : AllowFile(mine[t], req)
       \/ AllowFileFails(mine[t])
    /\ early' = [early EXCEPT ![t] = @ + 1]
    /\ UNCHANGED <<hvars, inj, mine, stray, cvars, down, bvars>>

\* zp_stage_fd fails after its allow (shmem, write or fd allocation): it
\* restores the struct and the packet goes on with the next module
InjectEarlyUndo(t) ==
    /\ inj[t] = "staged" /\ early[t] > 0 /\ state[mine[t]] # NoAv
    /\ \/ Restore(mine[t]) /\ UNCHANGED fails
       \/ fails < FailMax /\ RestoreFails(mine[t]) /\ fails' = fails + 1
    /\ UNCHANGED <<hvars, ivars, cvars, down, started, armed>>

\* allow_execmem_current
InjectExecmem(t) ==
    /\ inj[t] = "staged"
    /\ \E req \in ExecReq : AllowExecmem(mine[t], req)
    /\ inj' = [inj EXCEPT ![t] = "execmem"]
    /\ UNCHANGED <<hvars, mine, early, stray, cvars, down, bvars>>

\* Mutant: an error path that forgets the restore
InjectAbort_NoRestore(t) ==
    /\ inj[t] \in {"staged", "execmem"}
    /\ owner' = [owner EXCEPT ![mine[t]] = "free"]
    /\ inj' = [inj EXCEPT ![t] = "idle"]
    /\ mine' = [mine EXCEPT ![t] = NoHolder]
    /\ UNCHANGED <<vars, tgid, tag, timer, early, stray, cvars, down, bvars>>

\* Every failure after the loader was staged, and the allocation failure of
\* zp_publish_native_policy_state: the struct is restored at once
InjectAbort(t) ==
    /\ inj[t] \in {"staged", "execmem"}
    /\ GiveBack(mine[t])
    /\ inj' = [inj EXCEPT ![t] = "idle"]
    /\ mine' = [mine EXCEPT ![t] = NoHolder]
    /\ UNCHANGED <<early, stray, cvars, down, started, armed>>

\* zp_publish_native_policy_state up to the unlock: the new entry is linked
\* and older entries of the tgid are taken off the list.  A struct without
\* additions is not published.
PublishLink(t) ==
    LET h == mine[t]
        older == {g \in Holder : owner[g] = "native" /\ tgid[g] = t}
    IN
    /\ inj[t] = "execmem"
    /\ IF state[h] = NoAv
       THEN /\ GiveBack(h)
            /\ inj' = [inj EXCEPT ![t] = "idle"]
            /\ mine' = [mine EXCEPT ![t] = NoHolder]
       ELSE /\ owner' = [g \in Holder |-> CASE g = h -> "native"
                                            [] g \in older -> t
                                            [] OTHER -> owner[g]]
            /\ tgid' = [tgid EXCEPT ![h] = t]
            /\ inj' = [inj EXCEPT ![t] = "linked"]
            /\ UNCHANGED <<vars, tag, timer, mine, fails>>
    /\ UNCHANGED <<early, stray, cvars, down, started, armed>>

\* schedule_delayed_work, after the list lock was released.  A restore may have
\* freed the entry: then the work is queued in freed memory, and what is
\* followed is the outcome in which it finds no pending entry there.
PublishArm(t) ==
    /\ inj[t] = "linked"
    /\ IF mine[t] = NoHolder
       THEN stray' = TRUE /\ UNCHANGED timer
       ELSE timer' = [timer EXCEPT ![mine[t]] = "armed"] /\ UNCHANGED stray
    /\ mine' = [mine EXCEPT ![t] = NoHolder]
    /\ inj' = [inj EXCEPT ![t] = "draining"]
    /\ UNCHANGED <<vars, owner, tgid, tag, early, cvars, down, bvars>>

\* Cancel, restore and free one of the older entries
PublishDrain(t, g) ==
    /\ inj[t] = "draining" /\ owner[g] = t
    /\ CanCancel(g)
    /\ GiveBack(g)
    /\ UNCHANGED <<ivars, cvars, down, started, armed>>

PublishDone(t) ==
    /\ inj[t] = "draining"
    /\ \A g \in Holder : owner[g] # t
    /\ inj' = [inj EXCEPT ![t] = "idle"]
    /\ UNCHANGED <<vars, hvars, mine, early, stray, cvars, down, bvars>>

-----------------------------------------------------------------------------
(* The timeouts, zp_native_policy_timeout and zp_module_policy_timeout.    *)

\* The delay elapses and a worker enters the handler
TimerFires(h) ==
    /\ timer[h] = "armed"
    /\ timer' = [timer EXCEPT ![h] = "running"]
    /\ UNCHANGED <<vars, owner, tgid, tag, ivars, cvars, down, bvars>>

\* The handler takes the list lock; an entry somebody else took is left
TimeoutTake(h) ==
    /\ timer[h] = "running" /\ owner[h] # "expired"
    /\ owner[h] = "module" => modLock = "free"
    /\ IF owner[h] \in {"native", "module"}
       THEN owner' = [owner EXCEPT ![h] = "expired"] /\ UNCHANGED timer
       ELSE timer' = [timer EXCEPT ![h] = "off"] /\ UNCHANGED owner
    /\ UNCHANGED <<vars, tgid, tag, ivars, cvars, down, bvars>>

TimeoutRestore(h) ==
    /\ owner[h] = "expired"
    /\ GiveBack(h)
    /\ UNCHANGED <<ivars, cvars, down, started, armed>>

-----------------------------------------------------------------------------
(* yz_zygote_probe_allow_module_policy, under zp_module_policy_lock.       *)

ModuleAllow(c, t, h) ==
    /\ down = "up"
    /\ call[c] = "idle" /\ modLock = "free" /\ owner[h] = "free"
    /\ armed < ArmMax
    /\ \E req \in FileReq :
          AllowFile(h, req) /\ tag' = [tag EXCEPT ![h] = req]
    /\ owner' = [owner EXCEPT ![h] = c]
    /\ call' = [call EXCEPT ![c] = "execmem"]
    /\ arg' = [arg EXCEPT ![c] = t]
    /\ tmp' = [tmp EXCEPT ![c] = h]
    /\ modLock' = c
    /\ armed' = armed + 1
    /\ UNCHANGED <<tgid, timer, ivars, down, started, fails>>

\* Mutant: a return path without the mutex_unlock
ModuleReturn_Locked(c) ==
    /\ call' = [call EXCEPT ![c] = "idle"]
    /\ arg' = [arg EXCEPT ![c] = NoTask]
    /\ tmp' = [tmp EXCEPT ![c] = NoHolder]
    /\ UNCHANGED modLock

ModuleReturn(c) ==
    /\ call' = [call EXCEPT ![c] = "idle"]
    /\ arg' = [arg EXCEPT ![c] = NoTask]
    /\ tmp' = [tmp EXCEPT ![c] = NoHolder]
    /\ modLock' = "free"

ModuleExecmem(c) ==
    /\ call[c] = "execmem"
    /\ \E req \in ExecReq : AllowExecmem(tmp[c], req)
    /\ call' = [call EXCEPT ![c] = "link"]
    /\ UNCHANGED <<hvars, ivars, arg, tmp, modLock, down, bvars>>

\* The execmem part failed: roll the file part back
ModuleRollback(c) ==
    /\ call[c] = "execmem"
    /\ GiveBack(tmp[c])
    /\ ModuleReturn(c)
    /\ UNCHANGED <<ivars, down, started, armed>>

\* Mutant: the wrong list is searched
SameHolder_Native(h, t, req) == owner[h] = "native" /\ tgid[h] = t /\ tag[h] = req

\* zp_module_policy_same
SameHolder(h, t, req) == owner[h] = "module" /\ tgid[h] = t /\ tag[h] = req

\* Nothing was added, or an equal holder is armed: what was just taken is
\* given back
ModuleDuplicate(c) ==
    /\ call[c] = "link"
    /\ \/ state[tmp[c]] = NoAv
       \/ \E h \in Holder : SameHolder(h, arg[c], tag[tmp[c]])
    /\ GiveBack(tmp[c])
    /\ ModuleReturn(c)
    /\ UNCHANGED <<ivars, down, started, armed>>

\* Mutant: the holder is listed without a timeout
ModuleLink_NoTimer(c) ==
    /\ call[c] = "link"
    /\ state[tmp[c]] # NoAv
    /\ ~ \E h \in Holder : SameHolder(h, arg[c], tag[tmp[c]])
    /\ owner' = [owner EXCEPT ![tmp[c]] = "module"]
    /\ tgid' = [tgid EXCEPT ![tmp[c]] = arg[c]]
    /\ ModuleReturn(c)
    /\ UNCHANGED <<vars, tag, timer, ivars, down, bvars>>

ModuleLink(c) ==
    /\ call[c] = "link"
    /\ state[tmp[c]] # NoAv
    /\ ~ \E h \in Holder : SameHolder(h, arg[c], tag[tmp[c]])
    /\ owner' = [owner EXCEPT ![tmp[c]] = "module"]
    /\ tgid' = [tgid EXCEPT ![tmp[c]] = arg[c]]
    /\ timer' = [timer EXCEPT ![tmp[c]] = "armed"]
    /\ ModuleReturn(c)
    /\ UNCHANGED <<vars, tag, ivars, down, bvars>>

-----------------------------------------------------------------------------
(* yz_zygote_probe_restore_native_policy, then zp_restore_module_policy.   *)

RestoreNative(c, t) ==
    /\ down = "up"
    /\ call[c] = "idle"
    /\ owner' = [h \in Holder |-> IF owner[h] = "native" /\ tgid[h] = t
                                  THEN c ELSE owner[h]]
    /\ call' = [call EXCEPT ![c] = "native"]
    /\ arg' = [arg EXCEPT ![c] = t]
    /\ UNCHANGED <<vars, tgid, tag, timer, ivars, tmp, modLock, down, bvars>>

\* Cancel, restore and free one entry of the todo list; a publisher that has
\* yet to schedule its timeout is left with a pointer to nothing.
RestoreOne(c, h) ==
    /\ call[c] \in {"native", "module"} /\ owner[h] = c
    /\ CanCancel(h)
    /\ GiveBack(h)
    /\ mine' = [t \in Task |-> IF mine[t] = h THEN NoHolder ELSE mine[t]]
    /\ UNCHANGED <<inj, early, stray, cvars, down, started, armed>>

RestoreModule(c) ==
    /\ call[c] = "native" /\ modLock = "free"
    /\ \A h \in Holder : owner[h] # c
    /\ owner' = [h \in Holder |-> IF owner[h] = "module" /\ tgid[h] = arg[c]
                                  THEN c ELSE owner[h]]
    /\ call' = [call EXCEPT ![c] = "module"]
    /\ UNCHANGED <<vars, tgid, tag, timer, ivars, arg, tmp, modLock, down, bvars>>

RestoreDone(c) ==
    /\ call[c] = "module"
    /\ \A h \in Holder : owner[h] # c
    /\ call' = [call EXCEPT ![c] = "idle"]
    /\ arg' = [arg EXCEPT ![c] = NoTask]
    /\ UNCHANGED <<vars, hvars, ivars, tmp, modLock, down, bvars>>

-----------------------------------------------------------------------------
(* yukizygisk_deactivate_locked: control, probe, lsm, host.                *)

\* yukizygisk_control_exit: the write lock waits for ioctls in flight
ControlExit ==
    /\ down = "up"
    /\ \A c \in Caller : call[c] = "idle"
    /\ down' = "control"
    /\ UNCHANGED <<vars, hvars, ivars, cvars, bvars>>

\* zp_cleanup_module_policies: take every module holder off the list
ProbeExitTake ==
    /\ down = "control" /\ modLock = "free"
    /\ owner' = [h \in Holder |-> IF owner[h] = "module" THEN Exiting ELSE owner[h]]
    /\ down' = "module"
    /\ UNCHANGED <<vars, tgid, tag, timer, ivars, cvars, bvars>>

ProbeExitDrain(h) ==
    /\ down = "module" /\ owner[h] = Exiting
    /\ CanCancel(h)
    /\ GiveBack(h)
    /\ UNCHANGED <<ivars, cvars, down, started, armed>>

\* The exec hook is removed; injections already queued still run
ProbeExitHook ==
    /\ down = "module"
    /\ \A h \in Holder : owner[h] # Exiting
    /\ down' = "probe"
    /\ UNCHANGED <<vars, hvars, ivars, cvars, bvars>>

\* yz_host_exit
HostExit ==
    /\ down = "probe"
    /\ PolicyExit
    /\ down' = "host"
    /\ UNCHANGED <<hvars, ivars, cvars, bvars>>

-----------------------------------------------------------------------------
InjectSteps(t) ==
    \/ InjectExecmem(t) \/ InjectAbort(t) \/ PublishLink(t) \/ PublishArm(t)
    \/ (\E h \in Holder : PublishDrain(t, h)) \/ PublishDone(t)

TimeoutSteps(h) == TimerFires(h) \/ TimeoutTake(h) \/ TimeoutRestore(h)

CallerSteps(c) ==
    \/ ModuleExecmem(c) \/ ModuleRollback(c) \/ ModuleDuplicate(c) \/ ModuleLink(c)
    \/ (\E h \in Holder : RestoreOne(c, h)) \/ RestoreModule(c) \/ RestoreDone(c)

ExitSteps == (\E h \in Holder : ProbeExitDrain(h)) \/ ProbeExitHook

LNext ==
    \/ \E t \in Task, h \in Holder : InjectStage(t, h)
    \/ \E t \in Task : InjectEarly(t) \/ InjectEarlyUndo(t) \/ InjectSteps(t)
    \/ \E h \in Holder : TimeoutSteps(h)
    \/ \E c \in Caller, t \in Task, h \in Holder : ModuleAllow(c, t, h)
    \/ \E c \in Caller, t \in Task : RestoreNative(c, t)
    \/ \E c \in Caller : CallerSteps(c)
    \/ ControlExit \/ ProbeExitTake \/ ExitSteps \/ HostExit

LSpec == LInit /\ [][LNext]_allVars

\* Threads inside the kernel and the workqueue make progress; nobody is
\* obliged to start an injection, an ioctl or the teardown.
LFairness ==
    /\ \A t \in Task : WF_allVars(InjectSteps(t))
    /\ \A h \in Holder : WF_allVars(TimeoutSteps(h))
    /\ \A c \in Caller : WF_allVars(CallerSteps(c))
    /\ WF_allVars(ExitSteps)

LFairSpec == LSpec /\ LFairness

-----------------------------------------------------------------------------
(* Properties.                                                             *)

\* Shapes of the client state; zp_module_policy_lock is held exactly while
\* an allow_module_policy call is between its first allow and its return.
LTypeOK ==
    /\ TypeOK
    /\ owner \in [Holder -> Place \cup Task \cup Caller]
    /\ tgid \in [Holder -> Task \cup {NoTask}]
    /\ tag \in [Holder -> Av]
    /\ timer \in [Holder -> {"off", "armed", "running"}]
    /\ inj \in [Task -> {"idle", "staged", "execmem", "linked", "draining"}]
    /\ mine \in [Task -> Holder \cup {NoHolder}]
    /\ early \in [Task -> 0 .. EarlyMax] /\ stray \in BOOLEAN
    /\ call \in [Caller -> {"idle", "execmem", "link", "native", "module"}]
    /\ arg \in [Caller -> Task \cup {NoTask}]
    /\ tmp \in [Caller -> Holder \cup {NoHolder}]
    /\ modLock \in {"free"} \cup Caller
    /\ \A c \in Caller : modLock = c <=> call[c] \in {"execmem", "link"}
    /\ down \in {"up", "control", "module", "probe", "host"}
    /\ started \in 0 .. InjectMax /\ armed \in 0 .. ArmMax /\ fails \in 0 .. FailMax

Quiet == \A h \in Holder : owner[h] = "free"

\* Once no injection, list entry, ioctl or timeout holds a struct, and no
\* policy edit failed, every permission that was added has been taken out
\* of the live policy again, in whatever order the timeouts, the restore
\* ioctls and the superseding injections handled the entries.
AllowancesTemporary == (ready /\ Quiet /\ fails = 0) => policy = Base

\* The same after the teardown: yukizygisk_deactivate_locked leaves the
\* policy as it was loaded.
TeardownRestoresPolicy == (~ready /\ Quiet /\ fails = 0) => policy = Base

\* A freed struct has no delayed work left that could run on it, and a
\* listed entry always has one (or its publisher is about to schedule it):
\* no use after free from a late timeout, no allowance without a timeout.
TimersSound ==
    \A h \in Holder :
        /\ owner[h] \in {"free", "inject"} => timer[h] = "off"
        /\ owner[h] = "native" =>
              \/ timer[h] # "off"
              \/ \E t \in Task : inj[t] = "linked" /\ mine[t] = h
        /\ owner[h] = "module" => timer[h] # "off"
        /\ owner[h] = "expired" => timer[h] = "running"

\* One struct is never on a list, on a stack and on a todo list of two
\* parties at once: it is given back once.  A struct outside the free pool
\* that recorded permissions is the only thing that keeps them counted.
SingleOwner ==
    /\ \A h \in Holder : owner[h] = "free" => state[h] = NoAv
    /\ \A s, t \in Task : (mine[s] = mine[t] /\ mine[s] # NoHolder) => s = t
    /\ \A t \in Task : mine[t] # NoHolder =>
          owner[mine[t]] \in {"inject", "native"} \cup Caller
    /\ \A c \in Caller : tmp[c] # NoHolder => owner[tmp[c]] = c

\* A zygote never holds two armed module allowances for the same files.
NoDuplicateModuleHolder ==
    \A g, h \in Holder :
        (owner[g] = "module" /\ owner[h] = "module" /\ tgid[g] = tgid[h]
            /\ tag[g] = tag[h]) => g = h

\* Every struct that recorded an allowance is eventually given back, by the
\* abort, the superseding publish, the restore ioctl or the timeout.
EventuallyGivenBack ==
    \A h \in Holder : (owner[h] # "free") ~> (owner[h] = "free" \/ stray)

\* Every holder of allowances is in order at every moment: well formed, owned
\* by one party that will give it back once (zp_publish_native_policy_state,
\* restore, timeouts, teardown), with a delayed work exactly while it needs one,
\* and never armed twice for the same files of one zygote.  Nothing is claimed
\* once a restore has freed an entry before its publisher scheduled the timeout.
HoldersSound ==
    /\ LTypeOK
    /\ ~stray => SingleOwner /\ TimersSound /\ NoDuplicateModuleHolder
=============================================================================
