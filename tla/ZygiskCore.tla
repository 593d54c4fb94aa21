------------------------------ MODULE ZygiskCore ------------------------------
(***************************************************************************)
(* The zygisk core inside zygote and its children                          *)
(* (src/userspace/zygisk/core/src/core.cpp and hook.cpp): the start of the *)
(* core and the hand-off from the first-stage loader, the JNI hooks, fork  *)
(* and specialization with the module callbacks, and the removal of the    *)
(* core from a specialized app.                                            *)
(*                                                                         *)
(* Processes share nothing after a fork, so a behaviour follows ONE        *)
(* process: at a fork it goes on as the parent or as the child, and what   *)
(* the child inherits is what the variables held.  Daemon and kernel       *)
(* answer one request per connection; the daemon's configuration and the   *)
(* root manager's list may change, and the daemon may stop, between two.   *)
(*                                                                         *)
(* The four signatures of nativeForkAndSpecialize have one body, and so    *)
(* have the three of nativeSpecializeAppProcess; the platform has one of   *)
(* each, so Method holds one name per native.                              *)
(***************************************************************************)
EXTENDS Naturals, FiniteSets

CONSTANTS
    Uid, Isolated,   \* app uids, and those in the isolated range
    ModuleCount,     \* modules the daemon lists
    Version,         \* [1..ModuleCount -> api_version of the module]
    Platform,        \* how hook_jni_methods can hook each native
    Borrowable,      \* pointers of the core that the first stage filled in
    ForkMax,         \* forks followed
    CallMax,         \* calls of modules into the API
    ChangeMax        \* changes of the daemon and of the list

Method == {"fork", "specialize", "server"}

ASSUME CoreAssumption ==
    /\ Platform \subseteq [Method -> {"absent", "inline", "table"}]
    /\ Uid # {} /\ Isolated \subseteq Uid
    /\ {ModuleCount, ForkMax, CallMax, ChangeMax} \subseteq Nat
    /\ Version \in [1..ModuleCount -> Nat]

VARIABLES
    up, mode, listed, changes, \* the daemon, its denylist_mode, the list
    pc,          \* where the process is
    wrapper,     \* native being run: "fork", "usap", "server" or "none"
    pid,         \* ctx.pid: "none", "child", "parent", "failed"
    uid, childZygote,          \* arguments of the specialization
    fifoArmed, fifo, sched,    \* FIFO UI scheduling: armed, wanted, applied
    cfg, decision, idx, cur,   \* g_yz_config, decision, loop position, g_cur
    mods,        \* g_modules by daemon position
    armed, held, \* g_module_policy_armed; the kernel's allowance for the pid
    fds, snap,   \* open fds; those open at the fork
    allowed, exempted, ignored, \* ctx.allowed_fds, exempted_fds, fds_to_ignore
    inline, table, plt, complete,    \* hooks by kind, hooks_complete
    jni,         \* g_jni_hooked
    staged, loader, borrowed, unmapSafe, \* the first-stage loader
    core, kept,  \* "mapped" or "unmapped"; why a specialized process keeps it
    reported, forks,  \* zygote report, forks taken
    asks, reverts, acked, \* requests to revert the mounts, works the kernel
                 \* queued for them, the last answer
    calls,       \* API calls so far
    ran,         \* module code ran in this process, by phase
    seen, steady, reach  \* history: modes and list over the decision window

daemon  == <<up, mode, listed, changes>>
request == <<wrapper, pid, uid, childZygote, forks>>
sch     == <<fifoArmed, fifo, sched>>
modules == <<idx, cur, mods, ran, calls>>
policy  == <<armed, held>>
files   == <<fds, snap, allowed, exempted, ignored>>
hooks   == <<inline, table, plt, complete, jni>>
image   == <<staged, loader, borrowed, unmapSafe, core, kept, reported>>
choice  == <<cfg, decision, seen, steady, reach>>
cleanup == <<asks, reverts, acked>>
vars == <<daemon, pc, request, sch, modules, policy, files, hooks, image,
          choice, cleanup>>

Module == 1..ModuleCount
\* Handle of a module (of yukilinker or of the system linker), and whether it
\* asked for DLCLOSE_MODULE_LIBRARY.
NotLoaded == [handle |-> "none", close |-> FALSE]
Loaded == [handle |-> "loaded", close |-> FALSE]
Resident == {m \in Module : mods[m].handle # "none"}

\* File descriptors: open in zygote (one of them in fds_to_ignore, one on a
\* module's directory) and opened by modules.
ZygoteFd == {"native", "ignore", "inherited"}
ModuleFd == {"plain", "dir"}
ModuleDirFd == {"inherited", "dir"}

TypeOK ==
    /\ up \in BOOLEAN /\ mode \in 0..2 /\ listed \subseteq Uid
    /\ changes \in 0..ChangeMax
    /\ pc \in {"boot", "handoff", "finalize", "idle", "usap", "config",
               "flags", "skip", "load", "arm", "module", "onLoad", "pre",
               "inPre", "sanitize", "orig", "post", "inPost", "finish",
               "destruct", "running", "aborted", "gone"}
    /\ wrapper \in {"none", "fork", "usap", "server"}
    /\ pid \in {"none", "child", "parent", "failed"}
    /\ uid \in Uid /\ childZygote \in BOOLEAN
    /\ fifoArmed \in BOOLEAN /\ fifo \in BOOLEAN
    /\ sched \in {"other", "fifo", "fifoReset"}
    /\ cfg \in 0..2 /\ decision \in 0..2
    /\ idx \in 1..ModuleCount + 1 /\ cur \in 0..ModuleCount
    /\ mods \in [Module -> [handle: {"none", "loaded"}, close: BOOLEAN]]
    /\ ran \subseteq {"load", "pre", "post"} /\ calls \in 0..CallMax
    /\ armed \in BOOLEAN /\ held \in BOOLEAN
    /\ fds \subseteq ZygoteFd \cup ModuleFd
    /\ snap \subseteq ZygoteFd \cup ModuleFd
    /\ allowed \subseteq ZygoteFd \cup ModuleFd
    /\ exempted \subseteq ModuleFd /\ ignored \subseteq ZygoteFd \cup ModuleFd
    /\ inline \subseteq Method \cup {"module"}
    /\ table \subseteq Method \cup {"module"}
    /\ plt \subseteq {"strdup", "fork"}
    /\ complete \in BOOLEAN /\ jni \in BOOLEAN /\ staged \in BOOLEAN
    /\ loader \in {"mapped", "retained", "unmapped"}
    /\ borrowed \subseteq Borrowable /\ unmapSafe \in BOOLEAN
    /\ core \in {"mapped", "unmapped"} /\ reported \in BOOLEAN
    /\ kept \in {"no", "module", "failed", "server"}
    /\ asks \in 0..2 /\ reverts \in 0..2 /\ acked \in BOOLEAN
    /\ forks \in 0..ForkMax
    /\ seen \subseteq 0..2 /\ steady \in BOOLEAN /\ reach \in BOOLEAN

AnyUid == CHOOSE u \in Uid : TRUE  \* no specialization under way

\* The kernel has injected zygote: the first stage is mapped, the load policy
\* is held for the pid and the daemon runs.  A direct entry has no first stage
\* and does not know the range of the core.
Init ==
    /\ up = TRUE /\ changes = 0
    /\ mode \in 0..2 /\ listed \in SUBSET (Uid \ Isolated)
    /\ pc = "boot" /\ wrapper = "none" /\ pid = "none"
    /\ uid = AnyUid /\ childZygote = FALSE
    /\ fifoArmed = FALSE /\ fifo = FALSE /\ sched = "other"
    /\ cfg = 0 /\ decision = 0 /\ idx = 1 /\ cur = 0
    /\ mods = [m \in Module |-> NotLoaded] /\ ran = {} /\ calls = 0
    /\ armed = FALSE /\ held = TRUE
    /\ fds = ZygoteFd /\ snap = {}
    /\ allowed = {} /\ exempted = {} /\ ignored = {}
    /\ inline = {} /\ table = {} /\ plt = {}
    /\ complete = FALSE /\ jni = FALSE
    /\ staged \in BOOLEAN /\ loader = (IF staged THEN "mapped" ELSE "unmapped")
    /\ borrowed \in (IF staged THEN SUBSET Borrowable ELSE {{}})
    /\ unmapSafe = FALSE /\ core = "mapped" /\ reported = FALSE
    /\ kept = "no"
    /\ asks = 0 /\ reverts = 0 /\ acked = FALSE /\ forks = 0
    /\ seen = {} /\ steady = TRUE /\ reach = TRUE

-----------------------------------------------------------------------------
(* The daemon and the root manager, as the process sees them.              *)

\* The configuration is read again, the list is edited, or the daemon stops.
\* A change matters to the next request that it can affect, and happens here
\* right before one.
DaemonChanges ==
    /\ changes < ChangeMax /\ up /\ changes' = changes + 1
    /\ \/ /\ pc \in {"config", "flags", "load"}
          /\ mode' \in (0..2) \ {mode} /\ UNCHANGED <<up, listed, steady>>
       \/ /\ pc \in {"config", "flags"}
          /\ listed' \in {listed \cup {uid}, listed \ {uid}} \ {listed}
          /\ steady' = FALSE /\ UNCHANGED <<up, mode>>
       \/ /\ pc \in {"boot", "config", "flags", "load", "arm", "module",
                     "inPre", "pre", "finish", "destruct"}
          /\ up' = FALSE /\ UNCHANGED <<mode, listed, steady>>
    /\ seen' = (IF seen = {} THEN {} ELSE seen \cup {mode'})
    /\ UNCHANGED <<pc, request, sch, modules, policy, files, hooks, image,
                   cfg, decision, reach, cleanup>>

query_flags(u) == mode # 0 /\ u \in listed

\* Mutant: the configuration that zygote had is kept.
zd_load_config_Inherited == cfg

zd_load_config == IF up THEN mode ELSE cfg

\* RestoreLoadPolicy reaches the kernel only through the daemon.
zd_restore_load_policy == held' = (held /\ ~up)

-----------------------------------------------------------------------------
(* Start of the core.                                                      *)

\* The strdup hook, if the runtime is mapped and its slots can be written.
zygisk_hook_bootstrap == plt' \in {{}, {"strdup"}}

\* core_start: the strdup hook is what leads to the JNI hooks; zygote is
\* reported only when it is in place, and the load policy goes back in any
\* case.
core_start ==
    /\ pc = "boot"
    /\ zygisk_hook_bootstrap /\ reported' = (up /\ plt' # {})
    /\ zd_restore_load_policy /\ reach' = (reach /\ up)
    /\ pc' = (IF staged THEN "handoff" ELSE "idle")
    /\ UNCHANGED <<daemon, request, sch, modules, armed, files, inline, table,
                   complete, jni, staged, loader, borrowed, unmapSafe, core,
                   kept, cfg, decision, seen, steady, cleanup>>

\* Mutant: a pointer whose mapping is not found counts as handed off.
Elsewhere_Unknown(unknown) == Borrowable \ (borrowed \ unknown)

\* verify_handoff_pointer: pointers seen to belong to another mapping than the
\* first stage's; the owner of some may not be found.
Elsewhere(unknown) == Borrowable \ (borrowed \cup unknown)

\* first_stage_handoff_complete: the loader's entry points and every slot of
\* the relocation tables.
HandedOff(unknown) == Elsewhere(unknown) = Borrowable

\* zygisk_core_entry after core_start.
Handoff ==
    /\ pc = "handoff"
    /\ \E unknown \in SUBSET Borrowable, identified \in BOOLEAN :
          unmapSafe' = (identified /\ HandedOff(unknown))
    /\ pc' = "finalize"
    /\ UNCHANGED <<daemon, request, sch, modules, policy, files, hooks,
                   staged, loader, borrowed, core, kept, reported, choice,
                   cleanup>>

zygisk_finalize_loader ==
    /\ pc = "finalize"
    /\ cfg' = zd_load_config
    /\ loader' = (IF unmapSafe THEN "unmapped" ELSE "retained")
    /\ pc' = "idle"
    /\ UNCHANGED <<daemon, request, sch, modules, policy, files, hooks,
                   staged, borrowed, unmapSafe, core, kept, reported,
                   decision, seen, steady, reach, cleanup>>

\* hook_jni_methods: a native may be missing, hooked in its body or, when that
\* cannot be moved, through RegisterNatives.
hook_jni_methods(f) ==
    /\ inline' = {m \in Method : f[m] = "inline"}
    /\ table' = {m \in Method : f[m] = "table"}

\* new_strdup sees ZygoteInit and runs hook_zygote_jni, once.  Nothing is
\* hooked when the virtual machine is not usable or fork cannot be hooked.
hook_zygote_jni ==
    /\ pc = "idle" /\ "strdup" \in plt /\ ~jni
    /\ jni' = TRUE
    /\ \/ UNCHANGED <<inline, table, plt, complete>>
       \/ /\ plt' = plt \cup {"fork"}
          /\ \E f \in Platform : hook_jni_methods(f)
          /\ complete' = ({"fork", "specialize"} \subseteq inline' \cup table')
    /\ UNCHANGED <<daemon, pc, request, sch, modules, policy, files, image,
                   choice, cleanup>>

-----------------------------------------------------------------------------
(* Fork and the injection decision.                                        *)

Hooked(m) == m \in inline \cup table

\* The window of the decision, for the history variables.
WindowBegins == seen' = {mode} /\ steady' = TRUE
WindowEnds == seen' = {} /\ steady' = TRUE

\* What a new process has of its own, beside what it inherits.
NewProcess ==
    /\ held' = FALSE /\ ran' = {} /\ WindowBegins /\ reach' = TRUE
    /\ asks' = 0 /\ reverts' = 0 /\ acked' = FALSE

SameProcess == UNCHANGED <<held, ran, cleanup, reach, seen, steady>>

\* Mutant: the parent goes on with the scheduler it set for the child.
ParentSched_Kept(ff) == IF ff THEN "fifo" ELSE sched

ParentSched(ff) == IF ff THEN "other" ELSE sched

\* ctx_fork_pre: with FIFO UI the fork happens under SCHED_FIFO; the child
\* keeps it with reset-on-fork, the parent goes back, and a failure to set it
\* is fatal.  The child records the fds it was given.
ctx_fork_pre(ff) ==
    /\ forks' = forks + 1
    /\ \/ /\ pid' = "child" /\ allowed' = fds /\ snap' = fds /\ NewProcess
          /\ sched' = (IF ff THEN "fifoReset" ELSE "other")
       \/ /\ pid' \in {"parent", "failed"} /\ SameProcess
          /\ UNCHANGED <<snap, allowed>>
          /\ sched' = ParentSched(ff)
    /\ fifoArmed' = ff
    /\ exempted' = {}

\* FatalError of ctx_fork_pre or reconcile_fifo_ui_scheduler.
abort_fifo_ui_scheduler ==
    /\ fifoArmed /\ pc \in {"config", "skip", "orig"} /\ pid # "none"
    /\ pc' = "aborted"
    /\ UNCHANGED <<daemon, request, sch, modules, policy, files, hooks, image,
                   choice, cleanup>>

\* forked_decision: isolated processes are skipped without asking.
Decides(child, u) ==
    IF ~child THEN pc' = "orig" /\ decision' = 0
    ELSE IF u \in Isolated THEN pc' = "skip" /\ decision' = 2
    ELSE pc' = "config" /\ decision' = 0

nativeForkAndSpecialize(u, cz, ff) ==
    /\ pc = "idle" /\ Hooked("fork") /\ forks < ForkMax
    /\ wrapper' = "fork" /\ uid' = u /\ childZygote' = cz /\ fifo' = ff
    /\ ctx_fork_pre(ff)
    /\ ignored' = {"ignore"}
    /\ Decides(pid' = "child", u)
    /\ UNCHANGED <<daemon, idx, cur, mods, calls, armed, fds, hooks, image,
                   cfg>>

nativeForkSystemServer ==
    /\ pc = "idle" /\ Hooked("server") /\ forks < ForkMax
    /\ wrapper' = "server" /\ childZygote' = FALSE /\ fifo' = FALSE
    /\ uid' \in Uid \ Isolated
    /\ ctx_fork_pre(FALSE)
    /\ ignored' = {}
    /\ pc' = (IF pid' = "child" THEN "load" ELSE "orig") /\ decision' = 0
    /\ UNCHANGED <<daemon, idx, cur, mods, calls, armed, fds, hooks, image,
                   cfg>>

\* nativeForkApp of the platform makes a USAP: its fork goes through new_fork
\* with no context, which is the real one.
ForkUsap ==
    /\ pc = "idle" /\ jni /\ forks < ForkMax
    /\ forks' = forks + 1 /\ NewProcess
    /\ pc' = "usap"
    /\ UNCHANGED <<daemon, wrapper, pid, uid, childZygote, sch, idx, cur,
                   mods, calls, armed, files, hooks, image, cfg, decision>>

nativeSpecializeAppProcess(u, cz) ==
    /\ pc = "usap" /\ Hooked("specialize")
    /\ wrapper' = "usap" /\ pid' = "none" /\ uid' = u /\ childZygote' = cz
    /\ Decides(TRUE, u) /\ WindowBegins
    /\ UNCHANGED <<daemon, forks, sch, modules, policy, files, hooks, image,
                   cfg, reach, cleanup>>

\* zygisk_inject_decision, two connections: the configuration ...
DecideConfig ==
    /\ pc = "config"
    /\ cfg' = zd_load_config /\ reach' = (reach /\ up) /\ pc' = "flags"
    /\ UNCHANGED <<daemon, request, sch, modules, policy, files, hooks, image,
                   decision, seen, steady, cleanup>>

\* denylist_mode 1 skips a listed process, 2 injects it and reverts its mounts.
Decision(m, deny) == IF deny THEN <<0, 2, 1>>[m + 1] ELSE 0

\* ... and the flags, 0 when the daemon is not reachable.
DecideFlags ==
    /\ pc = "flags"
    /\ decision' = Decision(cfg, up /\ query_flags(uid))
    /\ reach' = (reach /\ up)
    /\ pc' = (IF decision' = 2 THEN "skip" ELSE "load")
    /\ UNCHANGED <<daemon, request, sch, modules, policy, files, hooks, image,
                   cfg, seen, steady, cleanup>>

\* reconcile_fifo_ui_scheduler: modules may have changed the arguments.
Reconciled == IF pid = "child" /\ fifoArmed /\ ~fifo THEN "other" ELSE sched

\* A child that is not to be injected closes the module fds it inherited; the
\* USAP wrapper does not.
Skip ==
    /\ pc = "skip"
    /\ fds' = (IF wrapper = "fork" THEN fds \ ModuleDirFd ELSE fds)
    /\ sched' = Reconciled
    /\ pc' = "orig" /\ WindowEnds
    /\ UNCHANGED <<daemon, request, fifoArmed, fifo, modules, policy, snap,
                   allowed, exempted, ignored, hooks, image, cfg, decision,
                   reach, cleanup>>

-----------------------------------------------------------------------------
(* Loading of the modules and their callbacks.                             *)

\* load_modules_impl up to the count: nothing to do when modules were loaded
\* before the fork, or when the daemon does not answer.
LoadCount ==
    /\ pc = "load"
    /\ IF Resident # {} THEN pc' = "pre" /\ UNCHANGED <<cfg, reach>>
       ELSE /\ cfg' = zd_load_config /\ reach' = (reach /\ up)
            /\ pc' = (IF up /\ ModuleCount > 0 THEN "arm" ELSE "pre")
    /\ idx' = 1 /\ WindowEnds
    /\ UNCHANGED <<daemon, request, sch, cur, mods, ran, calls, policy, files,
                   hooks, image, decision, cleanup>>

\* arm_module_load_policy(0): the directory fd itself is closed again.
arm_module_load_policy ==
    /\ pc = "arm"
    /\ \/ up /\ armed' = TRUE /\ held' = TRUE
       \/ UNCHANGED <<armed, held>>
    /\ reach' = (reach /\ up) /\ pc' = "module"
    /\ UNCHANGED <<daemon, request, sch, modules, files, hooks, image, cfg,
                   decision, seen, steady, cleanup>>

\* RegisterModuleImpl accepts versions 1 to ZYGISK_API_VERSION (5).
Registers(m) == Version[m] \in 1..5

\* The image of module idx: it may not arrive, not load or have no entry; its
\* entry may not register; or it is loaded and runs onLoad.
LoadModule ==
    /\ pc = "module" /\ idx <= ModuleCount
    /\ \/ /\ idx' = idx + 1 /\ UNCHANGED <<pc, cur, mods, ran>>
       \/ /\ up /\ ~Registers(idx)
          /\ ran' = ran \cup {"load"} /\ idx' = idx + 1
          /\ UNCHANGED <<pc, cur, mods>>
       \/ /\ up /\ Registers(idx)
          /\ mods' = [mods EXCEPT ![idx] = Loaded]
          /\ ran' = ran \cup {"load"} /\ cur' = idx /\ pc' = "onLoad"
          /\ UNCHANGED idx
    /\ reach' = (reach /\ up)
    /\ UNCHANGED <<daemon, request, sch, calls, policy, files, hooks, image,
                   cfg, decision, seen, steady, cleanup>>

\* The loop ends: g_loading and g_cur are reset and the pre loop begins.
LoadEnds ==
    /\ pc = "module" /\ idx > ModuleCount
    /\ pc' = "pre" /\ idx' = 1 /\ cur' = 0
    /\ UNCHANGED <<daemon, request, sch, mods, ran, calls, policy, files,
                   hooks, image, choice, cleanup>>

\* A callback returns to the loop that called it.
Return ==
    /\ pc \in {"onLoad", "inPre", "inPost"}
    /\ pc' = (CASE pc = "onLoad" -> "module" [] pc = "inPre" -> "pre"
                [] pc = "inPost" -> "post")
    /\ idx' = idx + 1
    /\ UNCHANGED <<daemon, request, sch, cur, mods, ran, calls, policy, files,
                   hooks, image, choice, cleanup>>

\* The loops over g_modules of run_app_pre_impl and run_server_pre_impl, and
\* of the two post functions.
Callback(loop, body, phase) ==
    /\ pc = loop /\ idx <= ModuleCount
    /\ IF idx \in Resident
       THEN /\ cur' = idx /\ pc' = body /\ ran' = ran \cup {phase}
            /\ UNCHANGED idx
       ELSE idx' = idx + 1 /\ UNCHANGED <<pc, cur, ran>>
    /\ UNCHANGED <<daemon, request, sch, mods, calls, policy, files, hooks,
                   image, choice, cleanup>>

Pre == Callback("pre", "inPre", "pre")
Post == Callback("post", "inPost", "post")

\* Mutant: the policy is given back only where a module is loaded.
RestoreModulePolicy_Loaded ==
    IF armed /\ Resident # {} THEN zd_restore_load_policy /\ armed' = FALSE
    ELSE UNCHANGED policy

\* zd_restore_module_load_policy: the flag is cleared even when the request
\* fails; the kernel's timer is left to end the allowance then.
RestoreModulePolicy ==
    IF armed THEN zd_restore_load_policy /\ armed' = FALSE
    ELSE UNCHANGED policy

PreEnds ==
    /\ pc = "pre" /\ idx > ModuleCount
    /\ RestoreModulePolicy /\ reach' = (reach /\ (up \/ ~armed))
    /\ cur' = 0
    /\ pc' = (IF wrapper = "usap" THEN "orig" ELSE "sanitize")
    /\ UNCHANGED <<daemon, request, sch, idx, mods, ran, calls, files, hooks,
                   image, cfg, decision, seen, steady, cleanup>>

\* Mutant: exempted fds are left open although the array could not be made.
Exempt_Blind(made) == exempted

Exempt(made) == IF made THEN exempted ELSE {}

\* ctx_sanitize_fds: the exempted fds join the array of fds to ignore, if it
\* can be allocated, and everything that zygote did not have is closed.
ctx_sanitize_fds ==
    /\ pc = "sanitize"
    /\ \E made \in BOOLEAN :
          /\ ignored' = (IF wrapper = "fork" /\ made THEN ignored \cup exempted
                         ELSE ignored)
          /\ allowed' = (IF wrapper = "fork"
                         THEN allowed \cup ignored \cup Exempt(made)
                         ELSE allowed)
    /\ fds' = fds \cap allowed'
    /\ sched' = Reconciled
    /\ pc' = "orig"
    /\ UNCHANGED <<daemon, request, fifoArmed, fifo, modules, policy, snap,
                   exempted, hooks, image, choice, cleanup>>

-----------------------------------------------------------------------------
(* What a module may call while one of its callbacks runs (g_cur is set).  *)

Call == calls < CallMax /\ calls' = calls + 1
Early == pc \in {"onLoad", "inPre"} /\ Call
InModule == pc \in {"onLoad", "inPre", "inPost"} /\ Call

api_set_option ==
    /\ InModule /\ ~mods[cur].close
    /\ mods' = [mods EXCEPT ![cur].close = TRUE]
    /\ UNCHANGED <<daemon, pc, request, sch, idx, cur, ran, policy, files,
                   hooks, image, choice, cleanup>>

ModuleOpens ==
    /\ pc = "onLoad" /\ "plain" \notin fds /\ fds' = fds \cup {"plain"}
    /\ UNCHANGED <<daemon, pc, request, sch, modules, policy, snap, allowed,
                   exempted, ignored, hooks, image, choice, cleanup>>

\* Version 4 and later; only the app fork has an array to extend.
api_exempt_fd ==
    /\ Early /\ Version[cur] >= 4 /\ wrapper = "fork"
    /\ \E fd \in (fds \cap ModuleFd) \ exempted :
          exempted' = exempted \cup {fd}
    /\ UNCHANGED <<daemon, pc, request, sch, idx, cur, mods, ran, policy, fds,
                   snap, allowed, ignored, hooks, image, choice, cleanup>>

\* Version 2 and later: the daemon arms the policy with the directory fd.
api_get_module_dir ==
    /\ Early /\ Version[cur] >= 2 /\ up /\ "dir" \notin fds
    /\ fds' = fds \cup {"dir"} /\ armed' = TRUE /\ held' = TRUE
    /\ UNCHANGED <<daemon, pc, request, sch, idx, cur, mods, ran, snap,
                   allowed, exempted, ignored, hooks, image, choice, cleanup>>

\* hook_jni_methods for a module: the body is patched through the daemon, and
\* RegisterNatives is the way when that fails or the body cannot be moved.
api_hook_jni_native_methods ==
    /\ Early /\ ~Hooked("module")
    /\ \/ up /\ inline' = inline \cup {"module"} /\ UNCHANGED table
       \/ table' = table \cup {"module"} /\ UNCHANGED inline
    /\ UNCHANGED <<daemon, pc, request, sch, idx, cur, mods, ran, policy,
                   files, plt, complete, jni, image, choice, cleanup>>

\* preAppSpecialize may write is_top_app and use_fifo_ui.
ModuleEditsArgs ==
    /\ pc = "inPre" /\ Call /\ fifoArmed /\ fifo' = ~fifo
    /\ UNCHANGED <<daemon, pc, request, fifoArmed, sched, idx, cur, mods, ran,
                   policy, files, hooks, image, choice, cleanup>>

-----------------------------------------------------------------------------
(* The original native, the post callbacks and the end of the wrapper.     *)

\* Mutant: the post callbacks are not tied to the decision.
RunModules_Always == TRUE

RunModules == decision # 2

\* The wrapper returns: its arguments and its context go, g_ctx is reset.
EndOfContext ==
    /\ wrapper' = "none" /\ pid' = "none" /\ uid' = AnyUid
    /\ childZygote' = FALSE /\ fifoArmed' = FALSE /\ fifo' = FALSE
    /\ snap' = {} /\ allowed' = {} /\ exempted' = {} /\ ignored' = {}

\* The original specializes; the fork inside it is new_fork, which returns
\* ctx.pid.
OriginalInChild ==
    /\ pc = "orig" /\ (pid = "child" \/ wrapper = "usap")
    /\ pc' = (IF RunModules THEN "post" ELSE "finish") /\ idx' = 1
    /\ UNCHANGED <<daemon, request, sch, cur, mods, ran, calls, policy, files,
                   hooks, image, choice, cleanup>>

\* The parent returns to the platform.
OriginalInParent ==
    /\ pc = "orig" /\ pid \in {"parent", "failed"} /\ wrapper # "usap"
    /\ pc' = "idle" /\ EndOfContext
    /\ UNCHANGED <<daemon, forks, sched, modules, policy, fds, hooks, image,
                   choice, cleanup>>

\* new_fork has no pid to return after a failed fork and forks again: the
\* child is specialized by the original, but ctx.pid does not say so and the
\* wrapper returns in it as in the parent.
ForkAgain ==
    /\ pc = "orig" /\ pid = "failed" /\ wrapper # "usap"
    /\ NewProcess /\ pc' = "running" /\ wrapper' = "none"
    /\ UNCHANGED <<daemon, pid, uid, childZygote, forks, sch, idx, cur, mods,
                   calls, armed, files, hooks, image, cfg, decision>>

\* Mutant: the handle of a closed module is not reset.
Unloaded_Dangling ==
    [m \in Module |-> IF ~mods[m].close THEN mods[m]
                      ELSE [mods[m] EXCEPT !.handle = "closed"]]

\* unload_requested_modules.
Unloaded == [m \in Module |-> IF mods[m].close THEN NotLoaded ELSE mods[m]]

\* The end of run_app_post_impl and run_server_post_impl.
PostEnds ==
    /\ pc = "post" /\ idx > ModuleCount
    /\ mods' = Unloaded /\ cur' = 0
    /\ IF wrapper = "server"
       THEN pc' = "running" /\ wrapper' = "none" /\ kept' = "server"
       ELSE pc' = "finish" /\ UNCHANGED <<wrapper, kept>>
    /\ UNCHANGED <<daemon, pid, uid, childZygote, forks, sch, idx, ran, calls,
                   policy, files, hooks, staged, loader, borrowed, unmapSafe,
                   core, reported, choice, cleanup>>

\* n requests to revert the mounts (yz_revert_self_mounts, yz_report_self_unmap):
\* the kernel queues a task_work for q of them, as it refuses a uid that is no
\* app's and may have no memory.  The daemon answers what the kernel did, and
\* a failing read of the answer counts as a no.  The core goes on either way.
Revert(n) ==
    /\ \E q \in 0..n, a \in BOOLEAN :
         /\ q > 0 => up
         /\ a => q > 0
         /\ asks' = n /\ reverts' = q /\ acked' = a
    /\ reach' = (reach /\ up)
NoRevert == UNCHANGED <<cleanup, reach>>

\* yz_report_self_unmap, which wants the range of the core, and a second
\* request if that got no acknowledgement.
ReportOrRevert ==
    \/ staged /\ Revert(1) /\ acked'
    \/ staged /\ Revert(2)
    \/ ~staged /\ Revert(1)

\* Mutant: only the option of the last module is looked at.
zygisk_app_core_unload_safe_Last ==
    ModuleCount = 0 \/ mods[ModuleCount].handle = "none"

zygisk_app_core_unload_safe == Resident = {}

\* Mutant: a child that keeps the core keeps its mounts too.
KeepsCoreReverts_Restore == decision = 1

\* Mounts to revert when the core stays.
KeepsCoreReverts == decision # 0

\* finish_app_child where the core stays: in a child zygote, which injects its
\* own children, and where a module is resident.  In a child zygote the fork
\* wrapper closes the module fds again.
FinishKeepsCore ==
    /\ pc = "finish" /\ (childZygote \/ ~zygisk_app_core_unload_safe)
    /\ IF KeepsCoreReverts THEN Revert(1) ELSE NoRevert
    /\ pc' = (IF childZygote THEN "idle" ELSE "running")
    /\ fds' = (IF childZygote /\ pid = "child" THEN fds \ ModuleDirFd ELSE fds)
    /\ EndOfContext
    /\ kept' = (IF childZygote THEN kept ELSE "module")
    /\ UNCHANGED <<daemon, forks, sched, modules, policy, hooks, staged,
                   loader, borrowed, unmapSafe, core, reported, cfg, decision,
                   seen, steady>>

\* finish_app_child where the core goes: restore mode reverts first.
FinishDropsCore ==
    /\ pc = "finish" /\ ~childZygote /\ zygisk_app_core_unload_safe
    /\ IF decision = 1 THEN Revert(1) ELSE NoRevert
    /\ pc' = "destruct"
    /\ UNCHANGED <<daemon, request, sch, modules, policy, files, hooks, image,
                   cfg, decision, seen, steady>>

\* zygisk_specialize_fully_inline_hooked.
FullyInline == complete /\ inline # {} /\ table = {}

\* The range of the core is known only to a staged start.
CanUnmap(clean, tls) == FullyInline /\ clean /\ staged /\ ~tls

\* zygisk_self_unhook: every hook is restored as far as possible (a patch of a
\* module's method needs the daemon, RegisterNatives needs the class) and the
\* module fds are closed.  The result does not look at RegisterNatives.
zygisk_self_unhook ==
    /\ inline' \in {{}, inline, inline \cap {"module"}}
    /\ up \/ "module" \in inline' \/ "module" \notin inline
    /\ table' \in {{}, table} /\ plt' \in {{}, plt}
    /\ fds' = fds \ ModuleDirFd
HooksRemoved == inline' = {} /\ plt' = {}

\* zygisk_self_destruct: the hooks are restored, the mounts are reverted in
\* force mode, and the core is unmapped if nothing can call it.
zygisk_self_destruct ==
    /\ pc = "destruct"
    /\ zygisk_self_unhook
    /\ \E tls \in BOOLEAN :
          core' = (IF CanUnmap(HooksRemoved, tls) THEN "unmapped" ELSE "mapped")
    /\ IF decision = 2 THEN ReportOrRevert ELSE NoRevert
    /\ IF core' = "unmapped" THEN pc' = "gone" /\ UNCHANGED kept
       ELSE pc' = "running" /\ kept' = "failed"
    /\ wrapper' = "none"
    /\ UNCHANGED <<daemon, pid, uid, childZygote, forks, sch, modules, policy,
                   snap, allowed, exempted, ignored, complete, jni, staged,
                   loader, borrowed, unmapSafe, reported, cfg, decision, seen,
                   steady>>

Next ==
    \/ DaemonChanges
    \/ core_start \/ Handoff \/ zygisk_finalize_loader \/ hook_zygote_jni
    \/ \E u \in Uid, cz, ff \in BOOLEAN :  \* a child zygote is no top app
          ~(cz /\ ff) /\ nativeForkAndSpecialize(u, cz, ff)
    \/ nativeForkSystemServer \/ ForkUsap
    \/ \E u \in Uid, cz \in BOOLEAN : nativeSpecializeAppProcess(u, cz)
    \/ abort_fifo_ui_scheduler
    \/ DecideConfig \/ DecideFlags \/ Skip
    \/ LoadCount \/ arm_module_load_policy \/ LoadModule \/ LoadEnds
    \/ Pre \/ PreEnds \/ ctx_sanitize_fds \/ Post \/ PostEnds \/ Return
    \/ api_set_option \/ ModuleOpens \/ api_exempt_fd \/ api_get_module_dir
    \/ api_hook_jni_native_methods \/ ModuleEditsArgs
    \/ OriginalInChild \/ OriginalInParent \/ ForkAgain
    \/ FinishKeepsCore \/ FinishDropsCore \/ zygisk_self_destruct

Spec == Init /\ [][Next]_vars

-----------------------------------------------------------------------------
(* Properties.                                                             *)

\* Once the core has unmapped itself nothing in the process leads into it:
\* no patched native, no RegisterNatives entry, no PLT slot, no module that
\* holds its API table, and no first stage waiting for it.
NothingCallsUnmappedCore ==
    core = "unmapped" => /\ inline = {} /\ table = {} /\ plt = {}
                         /\ Resident = {} /\ pc = "gone"

\* The first-stage loader is unmapped only when no pointer of the core still
\* leads into it, whatever /proc/self/maps could tell about each of them.
HandoffBeforeUnmap == staged /\ loader = "unmapped" => borrowed = {}

\* When the platform's fork native runs in the child, every open fd is one
\* zygote had or one it was told to ignore (it aborts otherwise), and no fd of
\* zygote was closed, except those on module directories.
PlatformKnowsFds ==
    pc = "orig" /\ pid = "child" =>
        /\ fds \subseteq snap \cup ignored
        /\ snap \ ModuleDirFd \subseteq fds

\* The temporary load policy of a process is held only while it loads modules
\* or runs their early callbacks, unless the daemon was not reachable to give
\* it back.
PolicyOnlyWhileLoading ==
    held /\ reach => pc \in {"boot", "module", "onLoad", "pre", "inPre"}

\* The decision, made from two answers of the daemon, is the one for some mode
\* the daemon had meanwhile, if the list did not change for the process and
\* the daemon answered.
DecisionOfOneMode ==
    /\ pc \in {"skip", "load"} /\ wrapper # "server" /\ uid \notin Isolated
    /\ steady /\ reach
    => \E m \in seen : decision = Decision(m, uid \in listed)

\* When a process is done with specialization, it has asked for its mounts to
\* be reverted exactly if the decision says so, on whichever of the paths it
\* took: one that is to keep them has no work queued in the kernel, and one
\* that was told they are reverted has.  A request that is refused or does not
\* reach the daemon is logged, and the process goes on.
MountsAsDecided ==
    /\ pc \in {"running", "gone"} => (asks > 0 <=> decision # 0)
    /\ pc \in {"running", "gone"} /\ decision = 0 => reverts = 0
    /\ pc = "idle" /\ decision # 0 => asks > 0
    /\ acked => reverts > 0

\* A process that is not to be injected (isolated, or listed in force mode)
\* runs no module code.
SkippedRunsNothing ==
    pc \in {"orig", "finish", "destruct", "running", "gone"} /\ decision = 2
        => ran = {}

\* FIFO UI scheduling: a child enters the platform's native with it only if
\* the arguments ask for it, and zygote never keeps it.
SchedulerAsAsked ==
    /\ pc = "orig" /\ pid = "child" /\ sched # "other" => fifo
    /\ pc = "idle" => sched = "other"

\* What the comment in finish_app_child says of every specialized child: it
\* drops the core, where no module stays and nothing fails.
SpecializedDropsCore ==
    pc = "running" => kept # "no"

\* Both unmappings are safe: the first stage goes only when every pointer was
\* handed off (zygisk_finalize_loader), and the core only when no hook, table
\* entry or module leads into it (zygisk_app_core_unload_safe).
UnmapsSafe == TypeOK /\ NothingCallsUnmappedCore /\ HandoffBeforeUnmap

\* A specialized process is what was decided and asked for: its mounts, the
\* modules that ran in it and its scheduler, on every path through
\* nativeForkAndSpecialize, nativeSpecializeAppProcess and the system server.
RunsAsDecided == MountsAsDecided /\ SkippedRunsNothing /\ SchedulerAsAsked
=============================================================================
