-------------------------- MODULE ZygiskCoreProofs --------------------------
(***************************************************************************)
(* The zygisk core, for any uids, modules, platforms, number of forks, API *)
(* calls and daemon changes: both unmappings are safe, the platform knows  *)
(* the open fds, the load policy is held only while modules load, and a    *)
(* specialized process is what was decided and asked for.                  *)
(***************************************************************************)
EXTENDS ZygiskCore, TLAPS

\* Where a process is between the fork and the platform's native, and after.
Loading == {"load", "arm", "module", "onLoad", "pre", "inPre", "sanitize"}
Deciding == {"config", "flags", "skip"}
BeforeOriginal == Deciding \cup Loading
AfterOriginal == {"post", "inPost", "finish"}

\* A callback runs for the module of the loop.
CallbackInv ==
    pc \in {"onLoad", "inPre", "inPost"} => idx \in Module /\ cur = idx

\* Which context a process has at which point: zygote and a fresh USAP have
\* none, the parent of a fork only returns.
ContextInv ==
    /\ pc \in {"boot", "handoff", "finalize", "idle", "usap"} => pid = "none" /\ wrapper = "none"
    /\ wrapper = "usap" => pid = "none"
    /\ pid \in {"parent", "failed"} => pc \in {"orig", "running", "aborted"} /\ wrapper # "usap"
    /\ pc \in Deciding => wrapper # "server"

\* The core goes only without resident modules, the first stage only when
\* nothing of it is borrowed.
UnmapInv ==
    /\ NothingCallsUnmappedCore /\ HandoffBeforeUnmap
    /\ pc = "destruct" => Resident = {}
    /\ unmapSafe => borrowed = {}

\* Until the sanitizing the child has every fd of zygote, and has recorded them.
FdInv ==
    /\ PlatformKnowsFds
    /\ pid = "child" /\ pc \in BeforeOriginal => allowed = snap /\ snap \subseteq fds
    /\ pid = "child" /\ pc \in Deciding => fds = snap

\* After the start, an allowance is known to the core, which gives it back.
PolicyInv ==
    held /\ reach =>
        pc = "boot" \/ (armed /\ pc \in {"module", "onLoad", "pre", "inPre"})

\* The modes of the window include the present one and the one that was read.
DecisionInv ==
    /\ DecisionOfOneMode
    /\ seen # {} => mode \in seen
    /\ pc \in Deciding \cup {"load"} /\ wrapper # "server" => seen # {}
    /\ pc = "flags" /\ reach => cfg \in seen

\* The mounts of a new process are reverted at the end only.
MountInv ==
    /\ MountsAsDecided
    /\ wrapper = "server" \/ pc \in {"boot", "handoff", "finalize"} => decision = 0
    /\ pc = "orig" /\ pid \in {"parent", "failed"} => decision = 0
    /\ asks = 0 => reverts = 0
    /\ pc \in BeforeOriginal \cup AfterOriginal \cup {"usap"} => asks = 0 /\ ~acked
    /\ pc = "orig" /\ pid \notin {"parent", "failed"} => asks = 0 /\ ~acked
    /\ pc = "destruct" => IF decision = 1 THEN asks > 0 ELSE asks = 0 /\ ~acked

\* No module code runs before the decision, nor after one against it.
RanInv ==
    /\ SkippedRunsNothing
    /\ pc \in Deciding \cup {"usap"} => ran = {}
    /\ pc \in Loading \cup {"post", "inPost"} => decision # 2

\* Only a child that was forked for it has FIFO scheduling.
SchedInv ==
    /\ SchedulerAsAsked
    /\ pid # "child" /\ pc # "running" => sched = "other"
    /\ pid = "child" /\ childZygote => ~fifoArmed /\ sched = "other"
    /\ pid = "child" /\ pc \in BeforeOriginal /\ sched # "other" => fifoArmed

\* The inductive invariant.
CoreInv ==
    /\ TypeOK /\ CallbackInv /\ ContextInv /\ UnmapInv /\ FdInv
    /\ PolicyInv /\ DecisionInv /\ MountInv /\ RanInv /\ SchedInv

-----------------------------------------------------------------------------
(* TypeOK in parts; each part is kept by every step.                       *)

DaemonTypes ==
    /\ up \in BOOLEAN /\ mode \in 0..2 /\ listed \subseteq Uid
    /\ changes \in 0..ChangeMax
    /\ cfg \in 0..2 /\ decision \in 0..2
    /\ asks \in 0..2 /\ reverts \in 0..2 /\ acked \in BOOLEAN
    /\ seen \subseteq 0..2 /\ steady \in BOOLEAN /\ reach \in BOOLEAN

RequestTypes ==
    /\ wrapper \in {"none", "fork", "usap", "server"}
    /\ pid \in {"none", "child", "parent", "failed"}
    /\ uid \in Uid /\ childZygote \in BOOLEAN /\ forks \in 0..ForkMax
    /\ fifoArmed \in BOOLEAN /\ fifo \in BOOLEAN
    /\ sched \in {"other", "fifo", "fifoReset"}

PointTypes ==
    pc \in {"boot", "handoff", "finalize", "idle", "usap", "config",
            "flags", "skip", "load", "arm", "module", "onLoad", "pre",
            "inPre", "sanitize", "orig", "post", "inPost", "finish",
            "destruct", "running", "aborted", "gone"}

ModuleTypes ==
    /\ idx \in 1..ModuleCount + 1 /\ cur \in 0..ModuleCount
    /\ mods \in [Module -> [handle: {"none", "loaded"}, close: BOOLEAN]]
    /\ ran \subseteq {"load", "pre", "post"} /\ calls \in 0..CallMax

FileTypes ==
    /\ fds \subseteq ZygoteFd \cup ModuleFd
    /\ snap \subseteq ZygoteFd \cup ModuleFd
    /\ allowed \subseteq ZygoteFd \cup ModuleFd
    /\ exempted \subseteq ModuleFd /\ ignored \subseteq ZygoteFd \cup ModuleFd
    /\ armed \in BOOLEAN /\ held \in BOOLEAN

HookTypes ==
    /\ inline \subseteq Method \cup {"module"}
    /\ table \subseteq Method \cup {"module"}
    /\ plt \subseteq {"strdup", "fork"}
    /\ complete \in BOOLEAN /\ jni \in BOOLEAN

ImageTypes ==
    /\ staged \in BOOLEAN
    /\ loader \in {"mapped", "retained", "unmapped"}
    /\ borrowed \subseteq Borrowable /\ unmapSafe \in BOOLEAN
    /\ core \in {"mapped", "unmapped"} /\ reported \in BOOLEAN
    /\ kept \in {"no", "module", "failed", "server"}

\* The parts make up TypeOK.
LEMMA TypeParts ==
    TypeOK <=> /\ DaemonTypes /\ RequestTypes /\ PointTypes /\ ModuleTypes
               /\ FileTypes /\ HookTypes /\ ImageTypes
BY DEF TypeOK, DaemonTypes, RequestTypes, PointTypes, ModuleTypes, FileTypes,
       HookTypes, ImageTypes

\* A uid stands for no specialization under way.
LEMMA AnyUidType == AnyUid \in Uid
BY CoreAssumption DEF AnyUid

\* zygisk_inject_decision answers 0 for an unlisted process and in mode 0.
LEMMA DecisionType ==
    ASSUME NEW m \in 0..2, NEW deny \in BOOLEAN
    PROVE  /\ Decision(m, deny) \in 0..2
           /\ Decision(m, FALSE) = 0 /\ Decision(0, deny) = 0
<1>1. m = 0 \/ m = 1 \/ m = 2
  OBVIOUS
<1> QED BY <1>1 DEF Decision

\* What a fork does to the history of a process.
LEMMA ProcessTypes ==
    ASSUME DaemonTypes, NewProcess \/ SameProcess
    PROVE  /\ asks' \in 0..2 /\ reverts' \in 0..2 /\ acked' \in BOOLEAN
           /\ seen' \subseteq 0..2 /\ steady' \in BOOLEAN /\ reach' \in BOOLEAN
<1> USE DEF DaemonTypes
<1>1. CASE NewProcess
  <2>1. asks' \in 0..2 /\ reverts' \in 0..2 /\ seen' \subseteq 0..2
    BY <1>1 DEF NewProcess, WindowBegins
  <2>2. acked' \in BOOLEAN /\ steady' \in BOOLEAN /\ reach' \in BOOLEAN
    BY <1>1 DEF NewProcess, WindowBegins
  <2> QED BY <2>1, <2>2
<1>2. CASE SameProcess
  BY <1>2 DEF SameProcess, cleanup
<1> QED BY <1>1, <1>2

\* What the daemon has and what was decided.
LEMMA DaemonTypesKept ==
    ASSUME TypeOK, CallbackInv, Next
    PROVE  DaemonTypes'
<1> USE DEF daemon, request, sch, modules, policy, files, hooks, image, choice, cleanup, DaemonTypes
<1>0. DaemonTypes
  BY TypeParts
<1>1. CASE DaemonChanges
  <2>1. up' \in BOOLEAN /\ steady' \in BOOLEAN
    BY <1>0, <1>1 DEF DaemonChanges
  <2>2. mode' \in 0..2 /\ listed' \subseteq Uid
    BY <1>0, <1>1, TypeParts DEF DaemonChanges, RequestTypes
  <2>3. changes' \in 0..ChangeMax
    BY <1>0, <1>1, CoreAssumption DEF DaemonChanges
  <2>4. seen' \subseteq 0..2
    BY <1>0, <1>1, <2>2 DEF DaemonChanges
  <2> QED BY <1>0, <1>1, <2>1, <2>2, <2>3, <2>4 DEF DaemonChanges
<1>2. CASE core_start \/ Handoff \/ zygisk_finalize_loader \/ hook_zygote_jni
  BY <1>2, <1>0
     DEF core_start, zygisk_hook_bootstrap, zd_restore_load_policy, Handoff,
         HandedOff, Elsewhere, zygisk_finalize_loader, zd_load_config,
         hook_zygote_jni, hook_jni_methods
<1>3. ASSUME NEW u \in Uid, NEW cz \in BOOLEAN, NEW ff \in BOOLEAN, ~(cz /\ ff),
             nativeForkAndSpecialize(u, cz, ff)
      PROVE  DaemonTypes'
  <2>1. UNCHANGED <<up, mode, listed, changes, cfg>> /\ decision' \in 0..2
    BY <1>0, <1>3 DEF nativeForkAndSpecialize, Decides
  <2>2. NewProcess \/ SameProcess
    BY <1>3 DEF nativeForkAndSpecialize, ctx_fork_pre
  <2> QED BY <1>0, <2>1, <2>2, ProcessTypes
<1>4. CASE nativeForkSystemServer
  <2>1. UNCHANGED <<up, mode, listed, changes, cfg>> /\ decision' \in 0..2
    BY <1>0, <1>4 DEF nativeForkSystemServer
  <2>2. NewProcess \/ SameProcess
    BY <1>4 DEF nativeForkSystemServer, ctx_fork_pre
  <2> QED BY <1>0, <2>1, <2>2, ProcessTypes
<1>5. CASE ForkUsap \/ ForkAgain
  <2>1. UNCHANGED <<up, mode, listed, changes, cfg>> /\ decision' \in 0..2
    BY <1>0, <1>5 DEF ForkUsap, ForkAgain
  <2>2. NewProcess \/ SameProcess
    BY <1>5 DEF ForkUsap, ForkAgain
  <2> QED BY <1>0, <2>1, <2>2, ProcessTypes
<1>6. ASSUME NEW u \in Uid, NEW cz \in BOOLEAN, nativeSpecializeAppProcess(u, cz)
      PROVE  DaemonTypes'
  BY <1>6, <1>0
     DEF nativeSpecializeAppProcess, Decides, WindowBegins
<1>7. CASE abort_fifo_ui_scheduler \/ DecideConfig \/ Skip
  BY <1>7, <1>0
     DEF abort_fifo_ui_scheduler, DecideConfig, zd_load_config, Skip, Reconciled,
         WindowEnds
<1>8. CASE DecideFlags
  <2>1. decision' \in 0..2
    BY <1>0, <1>8, DecisionType DEF DecideFlags
  <2>2. reach' \in BOOLEAN
    BY <1>0, <1>8 DEF DecideFlags
  <2> QED BY <1>0, <1>8, <2>1, <2>2 DEF DecideFlags
<1>9. CASE LoadCount \/ arm_module_load_policy \/ LoadModule \/ LoadEnds \/ PreEnds
  BY <1>9, <1>0
     DEF LoadCount, zd_load_config, WindowEnds, arm_module_load_policy, LoadModule,
         Loaded, LoadEnds, PreEnds, RestoreModulePolicy, zd_restore_load_policy
<1>10. CASE Pre \/ Post \/ Return \/ PostEnds \/ ctx_sanitize_fds
  BY <1>10, <1>0
     DEF Pre, Callback, Post, Return, PostEnds, Unloaded, NotLoaded,
         ctx_sanitize_fds, Exempt, Reconciled
<1>11. CASE ModuleOpens \/ api_exempt_fd \/ api_get_module_dir
           \/ api_hook_jni_native_methods \/ api_set_option \/ ModuleEditsArgs
  BY <1>11, <1>0
     DEF ModuleOpens, api_exempt_fd, Early, Call, api_get_module_dir,
         api_hook_jni_native_methods, api_set_option, InModule, ModuleEditsArgs
<1>12. CASE OriginalInChild \/ OriginalInParent
  BY <1>12, <1>0
     DEF OriginalInChild, RunModules, OriginalInParent, EndOfContext
<1>13. CASE FinishKeepsCore
  BY <1>13, <1>0
     DEF FinishKeepsCore, zygisk_app_core_unload_safe, KeepsCoreReverts, Revert,
         NoRevert, ReportOrRevert, EndOfContext
<1>14. CASE FinishDropsCore
  BY <1>14, <1>0
     DEF FinishDropsCore, zygisk_app_core_unload_safe, Revert, NoRevert, ReportOrRevert
<1>15. CASE zygisk_self_destruct
  BY <1>15, <1>0
     DEF zygisk_self_destruct, zygisk_self_unhook, CanUnmap, FullyInline,
         HooksRemoved, Revert, NoRevert, ReportOrRevert
<1> QED BY <1>1, <1>2, <1>3, <1>4, <1>5, <1>6, <1>7, <1>8, <1>9, <1>10, <1>11,
           <1>12, <1>13, <1>14, <1>15 DEF Next

\* The arguments, the context and the scheduler.
LEMMA RequestTypesKept ==
    ASSUME TypeOK, CallbackInv, Next
    PROVE  RequestTypes'
<1> USE DEF daemon, request, sch, modules, policy, files, hooks, image, choice, cleanup, RequestTypes
<1>0. RequestTypes
  BY TypeParts
<1>1. CASE DaemonChanges \/ core_start \/ Handoff \/ zygisk_finalize_loader
           \/ hook_zygote_jni
  BY <1>1, <1>0
     DEF DaemonChanges, core_start, zygisk_hook_bootstrap, zd_restore_load_policy,
         Handoff, HandedOff, Elsewhere, zygisk_finalize_loader, zd_load_config,
         hook_zygote_jni, hook_jni_methods
<1>2. ASSUME NEW u \in Uid, NEW cz \in BOOLEAN, NEW ff \in BOOLEAN, ~(cz /\ ff),
             nativeForkAndSpecialize(u, cz, ff)
      PROVE  RequestTypes'
  BY <1>2, <1>0, CoreAssumption
     DEF nativeForkAndSpecialize, ctx_fork_pre, NewProcess, SameProcess,
         WindowBegins, ParentSched, Decides
<1>3. CASE nativeForkSystemServer
  <2>1. wrapper' = "server" /\ uid' \in Uid /\ childZygote' = FALSE /\ fifo' = FALSE
    BY <1>3 DEF nativeForkSystemServer
  <2>2. /\ pid' \in {"child", "parent", "failed"} /\ fifoArmed' = FALSE
        /\ sched' \in {"other", sched}
    BY <1>3 DEF nativeForkSystemServer, ctx_fork_pre, ParentSched
  <2>3. forks' \in 0..ForkMax
    BY <1>0, <1>3, CoreAssumption DEF nativeForkSystemServer, ctx_fork_pre
  <2> QED BY <1>0, <2>1, <2>2, <2>3
<1>4. CASE ForkUsap \/ ForkAgain
  BY <1>4, <1>0, CoreAssumption
     DEF ForkUsap, NewProcess, WindowBegins, ForkAgain
<1>5. ASSUME NEW u \in Uid, NEW cz \in BOOLEAN, nativeSpecializeAppProcess(u, cz)
      PROVE  RequestTypes'
  BY <1>5, <1>0
     DEF nativeSpecializeAppProcess, Decides, WindowBegins
<1>6. CASE abort_fifo_ui_scheduler \/ DecideConfig \/ DecideFlags \/ Skip
  BY <1>6, <1>0
     DEF abort_fifo_ui_scheduler, DecideConfig, zd_load_config, DecideFlags, Skip,
         Reconciled, WindowEnds
<1>7. CASE LoadCount \/ arm_module_load_policy \/ LoadModule \/ LoadEnds \/ Pre
  BY <1>7, <1>0
     DEF LoadCount, zd_load_config, WindowEnds, arm_module_load_policy, LoadModule,
         Loaded, LoadEnds, Pre, Callback
<1>8. CASE PreEnds \/ ctx_sanitize_fds \/ Post \/ PostEnds \/ Return
  BY <1>8, <1>0
     DEF PreEnds, RestoreModulePolicy, zd_restore_load_policy, ctx_sanitize_fds,
         Exempt, Reconciled, Post, Callback, PostEnds, Unloaded, NotLoaded, Return
<1>9. CASE ModuleOpens \/ api_exempt_fd \/ api_get_module_dir
           \/ api_hook_jni_native_methods \/ api_set_option
  BY <1>9, <1>0
     DEF ModuleOpens, api_exempt_fd, Early, Call, api_get_module_dir,
         api_hook_jni_native_methods, api_set_option, InModule
<1>10. CASE ModuleEditsArgs
  BY <1>10, <1>0
     DEF ModuleEditsArgs, Call
<1>11. CASE OriginalInChild \/ OriginalInParent
  BY <1>11, <1>0, AnyUidType
     DEF OriginalInChild, RunModules, OriginalInParent, EndOfContext
<1>12. CASE FinishKeepsCore \/ FinishDropsCore \/ zygisk_self_destruct
  BY <1>12, <1>0, AnyUidType
     DEF FinishKeepsCore, zygisk_app_core_unload_safe, KeepsCoreReverts, Revert,
         NoRevert, ReportOrRevert, EndOfContext, FinishDropsCore, zygisk_self_destruct,
         zygisk_self_unhook, CanUnmap, FullyInline, HooksRemoved
<1> QED BY <1>1, <1>2, <1>3, <1>4, <1>5, <1>6, <1>7, <1>8, <1>9, <1>10, <1>11, <1>12 DEF Next

\* Where the process is.
LEMMA PointTypesKept ==
    ASSUME TypeOK, CallbackInv, Next
    PROVE  PointTypes'
<1> USE DEF daemon, request, sch, modules, policy, files, hooks, image, choice, cleanup, PointTypes
<1>0. PointTypes
  BY TypeParts
<1>1. CASE DaemonChanges \/ core_start \/ Handoff \/ zygisk_finalize_loader
           \/ hook_zygote_jni
  BY <1>1, <1>0
     DEF DaemonChanges, core_start, zygisk_hook_bootstrap, zd_restore_load_policy,
         Handoff, HandedOff, Elsewhere, zygisk_finalize_loader, zd_load_config,
         hook_zygote_jni, hook_jni_methods
<1>2. ASSUME NEW u \in Uid, NEW cz \in BOOLEAN, NEW ff \in BOOLEAN, ~(cz /\ ff),
             nativeForkAndSpecialize(u, cz, ff)
      PROVE  PointTypes'
  BY <1>2, <1>0
     DEF nativeForkAndSpecialize, ctx_fork_pre, NewProcess, SameProcess,
         WindowBegins, ParentSched, Decides
<1>3. CASE nativeForkSystemServer \/ ForkUsap \/ ForkAgain
  BY <1>3, <1>0
     DEF nativeForkSystemServer, ctx_fork_pre, NewProcess, SameProcess,
         WindowBegins, ParentSched, ForkUsap, ForkAgain
<1>4. ASSUME NEW u \in Uid, NEW cz \in BOOLEAN, nativeSpecializeAppProcess(u, cz)
      PROVE  PointTypes'
  BY <1>4, <1>0
     DEF nativeSpecializeAppProcess, Decides, WindowBegins
<1>5. CASE abort_fifo_ui_scheduler \/ DecideConfig \/ DecideFlags \/ Skip
  BY <1>5, <1>0
     DEF abort_fifo_ui_scheduler, DecideConfig, zd_load_config, DecideFlags, Skip,
         Reconciled, WindowEnds
<1>6. CASE LoadCount \/ arm_module_load_policy \/ LoadModule \/ LoadEnds
  BY <1>6, <1>0
     DEF LoadCount, zd_load_config, WindowEnds, arm_module_load_policy, LoadModule,
         Loaded, LoadEnds
<1>7. CASE Pre \/ PreEnds \/ ctx_sanitize_fds \/ Post \/ PostEnds \/ Return
  BY <1>7, <1>0
     DEF Pre, Callback, PreEnds, RestoreModulePolicy, zd_restore_load_policy,
         ctx_sanitize_fds, Exempt, Reconciled, Post, PostEnds, Unloaded, NotLoaded,
         Return
<1>8. CASE ModuleOpens \/ api_exempt_fd \/ api_get_module_dir
           \/ api_hook_jni_native_methods \/ api_set_option \/ ModuleEditsArgs
  BY <1>8, <1>0
     DEF ModuleOpens, api_exempt_fd, Early, Call, api_get_module_dir,
         api_hook_jni_native_methods, api_set_option, InModule, ModuleEditsArgs
<1>9. CASE OriginalInChild \/ OriginalInParent
  BY <1>9, <1>0
     DEF OriginalInChild, RunModules, OriginalInParent, EndOfContext
<1>10. CASE FinishKeepsCore \/ FinishDropsCore \/ zygisk_self_destruct
  BY <1>10, <1>0
     DEF FinishKeepsCore, zygisk_app_core_unload_safe, KeepsCoreReverts, Revert,
         NoRevert, ReportOrRevert, EndOfContext, FinishDropsCore, zygisk_self_destruct,
         zygisk_self_unhook, CanUnmap, FullyInline, HooksRemoved
<1> QED BY <1>1, <1>2, <1>3, <1>4, <1>5, <1>6, <1>7, <1>8, <1>9, <1>10 DEF Next

\* The modules and the loops over them.
LEMMA ModuleTypesKept ==
    ASSUME TypeOK, CallbackInv, Next
    PROVE  ModuleTypes'
<1> USE DEF daemon, request, sch, modules, policy, files, hooks, image, choice, cleanup, ModuleTypes
<1>0. ModuleTypes
  BY TypeParts
<1>1. CASE DaemonChanges \/ core_start \/ Handoff \/ zygisk_finalize_loader
           \/ hook_zygote_jni
  BY <1>1, <1>0
     DEF DaemonChanges, core_start, zygisk_hook_bootstrap, zd_restore_load_policy,
         Handoff, HandedOff, Elsewhere, zygisk_finalize_loader, zd_load_config,
         hook_zygote_jni, hook_jni_methods
<1>2. ASSUME NEW u \in Uid, NEW cz \in BOOLEAN, NEW ff \in BOOLEAN, ~(cz /\ ff),
             nativeForkAndSpecialize(u, cz, ff)
      PROVE  ModuleTypes'
  BY <1>2, <1>0
     DEF nativeForkAndSpecialize, ctx_fork_pre, NewProcess, SameProcess,
         WindowBegins, ParentSched, Decides
<1>3. CASE nativeForkSystemServer \/ ForkUsap \/ ForkAgain
  BY <1>3, <1>0
     DEF nativeForkSystemServer, ctx_fork_pre, NewProcess, SameProcess,
         WindowBegins, ParentSched, ForkUsap, ForkAgain
<1>4. ASSUME NEW u \in Uid, NEW cz \in BOOLEAN, nativeSpecializeAppProcess(u, cz)
      PROVE  ModuleTypes'
  BY <1>4, <1>0
     DEF nativeSpecializeAppProcess, Decides, WindowBegins
<1>5. CASE abort_fifo_ui_scheduler \/ DecideConfig \/ DecideFlags \/ Skip
           \/ arm_module_load_policy \/ ctx_sanitize_fds
  BY <1>5, <1>0
     DEF abort_fifo_ui_scheduler, DecideConfig, zd_load_config, DecideFlags, Skip,
         Reconciled, WindowEnds, arm_module_load_policy, ctx_sanitize_fds, Exempt
<1>6. CASE LoadCount
  BY <1>6, <1>0, CoreAssumption
     DEF LoadCount, zd_load_config, WindowEnds
<1>7. CASE LoadEnds
  BY <1>7, <1>0, CoreAssumption
     DEF LoadEnds
<1>8. CASE PreEnds
  BY <1>8, <1>0, CoreAssumption
     DEF PreEnds, RestoreModulePolicy, zd_restore_load_policy
<1>9. CASE LoadModule
  <2>1. idx' \in 1..ModuleCount + 1 /\ cur' \in 0..ModuleCount
    BY <1>0, <1>9, CoreAssumption DEF LoadModule
  <2>2. mods' \in [Module -> [handle: {"none", "loaded"}, close: BOOLEAN]]
    <3>1. Loaded \in [handle: {"none", "loaded"}, close: BOOLEAN]
      BY DEF Loaded
    <3>2. mods' = mods \/ mods' = [mods EXCEPT ![idx] = Loaded]
      BY <1>9 DEF LoadModule
    <3> QED BY <1>0, <3>1, <3>2
  <2>3. ran' \subseteq {"load", "pre", "post"} /\ calls' = calls
    BY <1>0, <1>9 DEF LoadModule
  <2> QED BY <1>0, <2>1, <2>2, <2>3
<1>10. CASE Pre \/ Post
  <2>1. idx' \in 1..ModuleCount + 1 /\ cur' \in 0..ModuleCount
    BY <1>0, <1>10, CoreAssumption DEF Pre, Post, Callback
  <2>2. ran' \subseteq {"load", "pre", "post"} /\ UNCHANGED <<mods, calls>>
    BY <1>0, <1>10 DEF Pre, Post, Callback
  <2> QED BY <1>0, <2>1, <2>2
<1>11. CASE Return
  BY <1>11, <1>0, CoreAssumption
     DEF Return, CallbackInv, Module
<1>12. CASE PostEnds
  BY <1>12, <1>0, CoreAssumption
     DEF PostEnds, Unloaded, NotLoaded
<1>13. CASE api_set_option
  <2>1. cur \in Module
    BY <1>13 DEF api_set_option, InModule, CallbackInv
  <2>2. mods' \in [Module -> [handle: {"none", "loaded"}, close: BOOLEAN]]
    <3> DEFINE r == [mods[cur] EXCEPT !.close = TRUE]
    <3>1. r \in [handle: {"none", "loaded"}, close: BOOLEAN]
      BY <1>0, <2>1
    <3>2. mods' = [mods EXCEPT ![cur] = r]
      BY <1>13 DEF api_set_option
    <3> HIDE DEF r
    <3> QED BY <1>0, <3>1, <3>2
  <2>3. UNCHANGED <<idx, cur, ran>> /\ calls' \in 0..CallMax
    BY <1>0, <1>13, CoreAssumption DEF api_set_option, InModule, Call
  <2> QED BY <1>0, <2>2, <2>3
<1>14. CASE ModuleOpens \/ api_exempt_fd \/ api_get_module_dir
           \/ api_hook_jni_native_methods \/ ModuleEditsArgs
  <2>1. UNCHANGED <<idx, cur, mods, ran>>
    BY <1>14 DEF ModuleOpens, api_exempt_fd, api_get_module_dir,
                 api_hook_jni_native_methods, ModuleEditsArgs
  <2>2. calls' = calls \/ Call
    BY <1>14 DEF ModuleOpens, api_exempt_fd, api_get_module_dir,
                 api_hook_jni_native_methods, ModuleEditsArgs, Early
  <2>3. calls' \in 0..CallMax
    BY <1>0, <2>2, CoreAssumption DEF Call
  <2> QED BY <1>0, <2>1, <2>3
<1>15. CASE OriginalInChild
  BY <1>15, <1>0, CoreAssumption
     DEF OriginalInChild, RunModules
<1>16. CASE OriginalInParent
  BY <1>16, <1>0
     DEF OriginalInParent, EndOfContext
<1>17. CASE FinishKeepsCore \/ FinishDropsCore \/ zygisk_self_destruct
  BY <1>17, <1>0
     DEF FinishKeepsCore, zygisk_app_core_unload_safe, KeepsCoreReverts, Revert,
         NoRevert, ReportOrRevert, EndOfContext, FinishDropsCore, zygisk_self_destruct,
         zygisk_self_unhook, CanUnmap, FullyInline, HooksRemoved
<1> QED BY <1>1, <1>2, <1>3, <1>4, <1>5, <1>6, <1>7, <1>8, <1>9, <1>10, <1>11,
           <1>12, <1>13, <1>14, <1>15, <1>16, <1>17 DEF Next

\* The open fds and what the context records of them; the load policy.
LEMMA FileTypesKept ==
    ASSUME TypeOK, CallbackInv, Next
    PROVE  FileTypes'
<1> USE DEF daemon, request, sch, modules, policy, files, hooks, image, choice, cleanup, FileTypes
<1>0. FileTypes
  BY TypeParts
<1>1. CASE DaemonChanges \/ core_start \/ Handoff \/ zygisk_finalize_loader
           \/ hook_zygote_jni
  BY <1>1, <1>0
     DEF DaemonChanges, core_start, zygisk_hook_bootstrap, zd_restore_load_policy,
         Handoff, HandedOff, Elsewhere, zygisk_finalize_loader, zd_load_config,
         hook_zygote_jni, hook_jni_methods, ZygoteFd, ModuleFd
<1>2. ASSUME NEW u \in Uid, NEW cz \in BOOLEAN, NEW ff \in BOOLEAN, ~(cz /\ ff),
             nativeForkAndSpecialize(u, cz, ff)
      PROVE  FileTypes'
  BY <1>2, <1>0
     DEF nativeForkAndSpecialize, ctx_fork_pre, NewProcess, SameProcess,
         WindowBegins, ParentSched, Decides, ZygoteFd, ModuleFd
<1>3. CASE nativeForkSystemServer \/ ForkUsap \/ ForkAgain
  BY <1>3, <1>0
     DEF nativeForkSystemServer, ctx_fork_pre, NewProcess, SameProcess,
         WindowBegins, ParentSched, ForkUsap, ForkAgain, ZygoteFd, ModuleFd
<1>4. ASSUME NEW u \in Uid, NEW cz \in BOOLEAN, nativeSpecializeAppProcess(u, cz)
      PROVE  FileTypes'
  BY <1>4, <1>0
     DEF nativeSpecializeAppProcess, Decides, WindowBegins, ZygoteFd, ModuleFd
<1>5. CASE abort_fifo_ui_scheduler \/ DecideConfig \/ DecideFlags \/ Skip
  BY <1>5, <1>0
     DEF abort_fifo_ui_scheduler, DecideConfig, zd_load_config, DecideFlags, Skip,
         Reconciled, WindowEnds, ZygoteFd, ModuleFd
<1>6. CASE LoadCount \/ arm_module_load_policy \/ LoadModule \/ LoadEnds \/ Pre
  BY <1>6, <1>0
     DEF LoadCount, zd_load_config, WindowEnds, arm_module_load_policy, LoadModule,
         Loaded, LoadEnds, Pre, Callback, ZygoteFd, ModuleFd
<1>7. CASE PreEnds \/ ctx_sanitize_fds \/ Post \/ PostEnds \/ Return
  BY <1>7, <1>0
     DEF PreEnds, RestoreModulePolicy, zd_restore_load_policy, ctx_sanitize_fds,
         Exempt, Reconciled, Post, Callback, PostEnds, Unloaded, NotLoaded, Return,
         ZygoteFd, ModuleFd
<1>8. CASE ModuleOpens \/ api_exempt_fd \/ api_get_module_dir
           \/ api_hook_jni_native_methods \/ api_set_option \/ ModuleEditsArgs
  BY <1>8, <1>0
     DEF ModuleOpens, api_exempt_fd, Early, Call, api_get_module_dir,
         api_hook_jni_native_methods, api_set_option, InModule, ModuleEditsArgs,
         ZygoteFd, ModuleFd
<1>9. CASE OriginalInChild \/ OriginalInParent
  BY <1>9, <1>0
     DEF OriginalInChild, RunModules, OriginalInParent, EndOfContext, ZygoteFd,
         ModuleFd
<1>10. CASE FinishKeepsCore \/ FinishDropsCore \/ zygisk_self_destruct
  BY <1>10, <1>0
     DEF FinishKeepsCore, zygisk_app_core_unload_safe, KeepsCoreReverts, Revert,
         NoRevert, ReportOrRevert, EndOfContext, FinishDropsCore, zygisk_self_destruct,
         zygisk_self_unhook, CanUnmap, FullyInline, HooksRemoved, ZygoteFd, ModuleFd
<1> QED BY <1>1, <1>2, <1>3, <1>4, <1>5, <1>6, <1>7, <1>8, <1>9, <1>10 DEF Next

\* The hooks.
LEMMA HookTypesKept ==
    ASSUME TypeOK, CallbackInv, Next
    PROVE  HookTypes'
<1> USE DEF daemon, request, sch, modules, policy, files, hooks, image, choice, cleanup, HookTypes
<1>0. HookTypes
  BY TypeParts
<1>1. CASE DaemonChanges \/ core_start \/ Handoff \/ zygisk_finalize_loader
           \/ hook_zygote_jni
  BY <1>1, <1>0
     DEF DaemonChanges, core_start, zygisk_hook_bootstrap, zd_restore_load_policy,
         Handoff, HandedOff, Elsewhere, zygisk_finalize_loader, zd_load_config,
         hook_zygote_jni, hook_jni_methods
<1>2. ASSUME NEW u \in Uid, NEW cz \in BOOLEAN, NEW ff \in BOOLEAN, ~(cz /\ ff),
             nativeForkAndSpecialize(u, cz, ff)
      PROVE  HookTypes'
  BY <1>2, <1>0
     DEF nativeForkAndSpecialize, ctx_fork_pre, NewProcess, SameProcess,
         WindowBegins, ParentSched, Decides
<1>3. CASE nativeForkSystemServer \/ ForkUsap \/ ForkAgain
  BY <1>3, <1>0
     DEF nativeForkSystemServer, ctx_fork_pre, NewProcess, SameProcess,
         WindowBegins, ParentSched, ForkUsap, ForkAgain
<1>4. ASSUME NEW u \in Uid, NEW cz \in BOOLEAN, nativeSpecializeAppProcess(u, cz)
      PROVE  HookTypes'
  BY <1>4, <1>0
     DEF nativeSpecializeAppProcess, Decides, WindowBegins
<1>5. CASE abort_fifo_ui_scheduler \/ DecideConfig \/ DecideFlags \/ Skip
  BY <1>5, <1>0
     DEF abort_fifo_ui_scheduler, DecideConfig, zd_load_config, DecideFlags, Skip,
         Reconciled, WindowEnds
<1>6. CASE LoadCount \/ arm_module_load_policy \/ LoadModule \/ LoadEnds \/ Pre
  BY <1>6, <1>0
     DEF LoadCount, zd_load_config, WindowEnds, arm_module_load_policy, LoadModule,
         Loaded, LoadEnds, Pre, Callback
<1>7. CASE PreEnds \/ ctx_sanitize_fds \/ Post \/ PostEnds \/ Return
  BY <1>7, <1>0
     DEF PreEnds, RestoreModulePolicy, zd_restore_load_policy, ctx_sanitize_fds,
         Exempt, Reconciled, Post, Callback, PostEnds, Unloaded, NotLoaded, Return
<1>8. CASE ModuleOpens \/ api_exempt_fd \/ api_get_module_dir
           \/ api_hook_jni_native_methods \/ api_set_option \/ ModuleEditsArgs
  BY <1>8, <1>0
     DEF ModuleOpens, api_exempt_fd, Early, Call, api_get_module_dir,
         api_hook_jni_native_methods, api_set_option, InModule, ModuleEditsArgs
<1>9. CASE OriginalInChild \/ OriginalInParent
  BY <1>9, <1>0
     DEF OriginalInChild, RunModules, OriginalInParent, EndOfContext
<1>10. CASE FinishKeepsCore \/ FinishDropsCore \/ zygisk_self_destruct
  BY <1>10, <1>0
     DEF FinishKeepsCore, zygisk_app_core_unload_safe, KeepsCoreReverts, Revert,
         NoRevert, ReportOrRevert, EndOfContext, FinishDropsCore, zygisk_self_destruct,
         zygisk_self_unhook, CanUnmap, FullyInline, HooksRemoved
<1> QED BY <1>1, <1>2, <1>3, <1>4, <1>5, <1>6, <1>7, <1>8, <1>9, <1>10 DEF Next

\* The first stage and the core.
LEMMA ImageTypesKept ==
    ASSUME TypeOK, CallbackInv, Next
    PROVE  ImageTypes'
<1> USE DEF daemon, request, sch, modules, policy, files, hooks, image, choice, cleanup, ImageTypes
<1>0. ImageTypes
  BY TypeParts
<1>1. CASE DaemonChanges \/ core_start \/ Handoff \/ zygisk_finalize_loader
           \/ hook_zygote_jni
  <2>1. CASE DaemonChanges \/ hook_zygote_jni
    BY <2>1, <1>0 DEF DaemonChanges, hook_zygote_jni
  <2>2. CASE core_start
    <3>1. UNCHANGED <<staged, loader, borrowed, unmapSafe, core, kept>>
      BY <2>2 DEF core_start
    <3>2. reported' \in BOOLEAN
      BY <2>2 DEF core_start
    <3> QED BY <3>1, <3>2, <1>0
  <2>3. CASE Handoff
    <3>1. UNCHANGED <<staged, loader, borrowed, core, kept, reported>>
      BY <2>3 DEF Handoff
    <3>2. unmapSafe' \in BOOLEAN
      BY <2>3 DEF Handoff, HandedOff
    <3> QED BY <3>1, <3>2, <1>0
  <2>4. CASE zygisk_finalize_loader
    BY <2>4, <1>0 DEF zygisk_finalize_loader
  <2> QED BY <1>1, <2>1, <2>2, <2>3, <2>4
<1>2. ASSUME NEW u \in Uid, NEW cz \in BOOLEAN, NEW ff \in BOOLEAN, ~(cz /\ ff),
             nativeForkAndSpecialize(u, cz, ff)
      PROVE  ImageTypes'
  BY <1>2, <1>0
     DEF nativeForkAndSpecialize, ctx_fork_pre, NewProcess, SameProcess,
         WindowBegins, ParentSched, Decides
<1>3. CASE nativeForkSystemServer \/ ForkUsap \/ ForkAgain
  BY <1>3, <1>0
     DEF nativeForkSystemServer, ctx_fork_pre, NewProcess, SameProcess,
         WindowBegins, ParentSched, ForkUsap, ForkAgain
<1>4. ASSUME NEW u \in Uid, NEW cz \in BOOLEAN, nativeSpecializeAppProcess(u, cz)
      PROVE  ImageTypes'
  BY <1>4, <1>0
     DEF nativeSpecializeAppProcess, Decides, WindowBegins
<1>5. CASE abort_fifo_ui_scheduler \/ DecideConfig \/ DecideFlags \/ Skip
  BY <1>5, <1>0
     DEF abort_fifo_ui_scheduler, DecideConfig, zd_load_config, DecideFlags, Skip,
         Reconciled, WindowEnds
<1>6. CASE LoadCount \/ arm_module_load_policy \/ LoadModule \/ LoadEnds \/ Pre
  BY <1>6, <1>0
     DEF LoadCount, zd_load_config, WindowEnds, arm_module_load_policy, LoadModule,
         Loaded, LoadEnds, Pre, Callback
<1>7. CASE PreEnds \/ ctx_sanitize_fds \/ Post \/ PostEnds \/ Return
  BY <1>7, <1>0
     DEF PreEnds, RestoreModulePolicy, zd_restore_load_policy, ctx_sanitize_fds,
         Exempt, Reconciled, Post, Callback, PostEnds, Unloaded, NotLoaded, Return
<1>8. CASE ModuleOpens \/ api_exempt_fd \/ api_get_module_dir
           \/ api_hook_jni_native_methods \/ api_set_option \/ ModuleEditsArgs
  BY <1>8, <1>0
     DEF ModuleOpens, api_exempt_fd, Early, Call, api_get_module_dir,
         api_hook_jni_native_methods, api_set_option, InModule, ModuleEditsArgs
<1>9. CASE OriginalInChild \/ OriginalInParent
  BY <1>9, <1>0
     DEF OriginalInChild, RunModules, OriginalInParent, EndOfContext
<1>10. CASE FinishKeepsCore \/ FinishDropsCore \/ zygisk_self_destruct
  BY <1>10, <1>0
     DEF FinishKeepsCore, zygisk_app_core_unload_safe, KeepsCoreReverts, Revert,
         NoRevert, ReportOrRevert, EndOfContext, FinishDropsCore, zygisk_self_destruct,
         zygisk_self_unhook, CanUnmap, FullyInline, HooksRemoved
<1> QED BY <1>1, <1>2, <1>3, <1>4, <1>5, <1>6, <1>7, <1>8, <1>9, <1>10 DEF Next

\* Every step keeps the types.
LEMMA TypesKept ==
    ASSUME TypeOK, CallbackInv, Next
    PROVE  TypeOK'
<1>1. /\ DaemonTypes' /\ RequestTypes' /\ PointTypes' /\ ModuleTypes'
      /\ FileTypes' /\ HookTypes' /\ ImageTypes'
  BY DaemonTypesKept, RequestTypesKept, PointTypesKept, ModuleTypesKept,
     FileTypesKept, HookTypesKept, ImageTypesKept
<1> QED BY <1>1 DEF TypeOK, DaemonTypes, RequestTypes, PointTypes, ModuleTypes,
                  FileTypes, HookTypes, ImageTypes

-----------------------------------------------------------------------------
(* The parts of the invariant, each kept by every step.                    *)

\* A callback gets the module of the loop.
LEMMA CallbackInvKept ==
    ASSUME CoreInv, Next
    PROVE  CallbackInv'
<1> USE DEF daemon, request, sch, modules, policy, files, hooks, image, choice, cleanup,CallbackInv,
            Module
<1>0. TypeOK /\ CallbackInv
  BY DEF CoreInv
<1>1. CASE DaemonChanges
  BY <1>1, <1>0
     DEF DaemonChanges, TypeOK
<1>2. CASE core_start \/ Handoff \/ zygisk_finalize_loader \/ hook_zygote_jni
  BY <1>2, <1>0
     DEF core_start, zygisk_hook_bootstrap, zd_restore_load_policy, Handoff,
         HandedOff, Elsewhere, zygisk_finalize_loader, zd_load_config,
         hook_zygote_jni, hook_jni_methods, TypeOK
<1>3. ASSUME NEW u \in Uid, NEW cz \in BOOLEAN, NEW ff \in BOOLEAN, ~(cz /\ ff),
             nativeForkAndSpecialize(u, cz, ff)
      PROVE  CallbackInv'
  BY <1>3, <1>0
     DEF nativeForkAndSpecialize, ctx_fork_pre, NewProcess, SameProcess,
         WindowBegins, ParentSched, Decides, TypeOK
<1>4. CASE nativeForkSystemServer \/ ForkUsap
  BY <1>4, <1>0
     DEF nativeForkSystemServer, ctx_fork_pre, NewProcess, SameProcess,
         WindowBegins, ParentSched, ForkUsap, TypeOK
<1>5. ASSUME NEW u \in Uid, NEW cz \in BOOLEAN, nativeSpecializeAppProcess(u, cz)
      PROVE  CallbackInv'
  BY <1>5, <1>0
     DEF nativeSpecializeAppProcess, Decides, WindowBegins, TypeOK
<1>6. CASE abort_fifo_ui_scheduler \/ DecideConfig \/ DecideFlags \/ Skip
  BY <1>6, <1>0
     DEF abort_fifo_ui_scheduler, DecideConfig, zd_load_config, DecideFlags, Skip,
         Reconciled, WindowEnds, TypeOK
<1>7. CASE LoadModule
  BY <1>7, <1>0
     DEF LoadModule, Loaded, TypeOK
<1>8. CASE LoadCount \/ arm_module_load_policy \/ LoadEnds
  BY <1>8, <1>0
     DEF LoadCount, zd_load_config, WindowEnds, arm_module_load_policy, LoadEnds,
         TypeOK
<1>9. CASE Pre \/ PreEnds \/ ctx_sanitize_fds \/ Post \/ PostEnds \/ Return
  BY <1>9, <1>0
     DEF Pre, Callback, PreEnds, RestoreModulePolicy, zd_restore_load_policy,
         ctx_sanitize_fds, Exempt, Reconciled, Post, PostEnds, Unloaded, NotLoaded,
         Return, TypeOK
<1>10. CASE api_set_option \/ ModuleOpens \/ api_exempt_fd \/ api_get_module_dir
           \/ api_hook_jni_native_methods \/ ModuleEditsArgs
  BY <1>10, <1>0
     DEF api_set_option, InModule, Call, ModuleOpens, api_exempt_fd, Early,
         api_get_module_dir, api_hook_jni_native_methods, ModuleEditsArgs, TypeOK
<1>11. CASE OriginalInChild \/ OriginalInParent \/ ForkAgain
  BY <1>11, <1>0
     DEF OriginalInChild, RunModules, OriginalInParent, EndOfContext, ForkAgain,
         NewProcess, WindowBegins, TypeOK
<1>12. CASE FinishKeepsCore \/ FinishDropsCore \/ zygisk_self_destruct
  BY <1>12, <1>0
     DEF FinishKeepsCore, zygisk_app_core_unload_safe, KeepsCoreReverts, Revert,
         NoRevert, ReportOrRevert, EndOfContext, FinishDropsCore, zygisk_self_destruct,
         zygisk_self_unhook, CanUnmap, FullyInline, HooksRemoved, TypeOK
<1> QED BY <1>1, <1>2, <1>3, <1>4, <1>5, <1>6, <1>7, <1>8, <1>9, <1>10, <1>11, <1>12 DEF Next

\* Contexts come with the native and go with it.
LEMMA ContextInvKept ==
    ASSUME CoreInv, Next
    PROVE  ContextInv'
<1> USE DEF daemon, request, sch, modules, policy, files, hooks, image, choice, cleanup,ContextInv,
            Deciding
<1>0. ContextInv
  BY DEF CoreInv
<1>1. CASE DaemonChanges
  BY <1>1, <1>0
     DEF DaemonChanges
<1>2. CASE core_start \/ Handoff \/ zygisk_finalize_loader \/ hook_zygote_jni
  BY <1>2, <1>0
     DEF core_start, zygisk_hook_bootstrap, zd_restore_load_policy, Handoff,
         HandedOff, Elsewhere, zygisk_finalize_loader, zd_load_config,
         hook_zygote_jni, hook_jni_methods
<1>3. ASSUME NEW u \in Uid, NEW cz \in BOOLEAN, NEW ff \in BOOLEAN, ~(cz /\ ff),
             nativeForkAndSpecialize(u, cz, ff)
      PROVE  ContextInv'
  BY <1>3, <1>0
     DEF nativeForkAndSpecialize, ctx_fork_pre, NewProcess, SameProcess,
         WindowBegins, ParentSched, Decides
<1>4. CASE nativeForkSystemServer \/ ForkUsap
  BY <1>4, <1>0
     DEF nativeForkSystemServer, ctx_fork_pre, NewProcess, SameProcess,
         WindowBegins, ParentSched, ForkUsap
<1>5. ASSUME NEW u \in Uid, NEW cz \in BOOLEAN, nativeSpecializeAppProcess(u, cz)
      PROVE  ContextInv'
  BY <1>5, <1>0
     DEF nativeSpecializeAppProcess, Decides, WindowBegins
<1>6. CASE abort_fifo_ui_scheduler \/ DecideConfig \/ DecideFlags \/ Skip
  BY <1>6, <1>0
     DEF abort_fifo_ui_scheduler, DecideConfig, zd_load_config, DecideFlags, Skip,
         Reconciled, WindowEnds
<1>7. CASE LoadCount \/ arm_module_load_policy \/ LoadModule \/ LoadEnds
  BY <1>7, <1>0
     DEF LoadCount, zd_load_config, WindowEnds, arm_module_load_policy, LoadModule,
         Loaded, LoadEnds
<1>8. CASE Pre \/ PreEnds \/ ctx_sanitize_fds \/ Post \/ PostEnds \/ Return
  BY <1>8, <1>0
     DEF Pre, Callback, PreEnds, RestoreModulePolicy, zd_restore_load_policy,
         ctx_sanitize_fds, Exempt, Reconciled, Post, PostEnds, Unloaded, NotLoaded,
         Return
<1>9. CASE api_set_option \/ ModuleOpens \/ api_exempt_fd \/ api_get_module_dir
           \/ api_hook_jni_native_methods \/ ModuleEditsArgs
  BY <1>9, <1>0
     DEF api_set_option, InModule, Call, ModuleOpens, api_exempt_fd, Early,
         api_get_module_dir, api_hook_jni_native_methods, ModuleEditsArgs
<1>10. CASE OriginalInChild \/ OriginalInParent \/ ForkAgain
  BY <1>10, <1>0
     DEF OriginalInChild, RunModules, OriginalInParent, EndOfContext, ForkAgain,
         NewProcess, WindowBegins
<1>11. CASE FinishKeepsCore \/ FinishDropsCore \/ zygisk_self_destruct
  BY <1>11, <1>0
     DEF FinishKeepsCore, zygisk_app_core_unload_safe, KeepsCoreReverts, Revert,
         NoRevert, ReportOrRevert, EndOfContext, FinishDropsCore, zygisk_self_destruct,
         zygisk_self_unhook, CanUnmap, FullyInline, HooksRemoved
<1> QED BY <1>1, <1>2, <1>3, <1>4, <1>5, <1>6, <1>7, <1>8, <1>9, <1>10, <1>11 DEF Next

\* Neither image goes while something leads into it.
LEMMA UnmapInvKept ==
    ASSUME CoreInv, Next
    PROVE  UnmapInv'
<1> USE DEF daemon, request, sch, modules, policy, files, hooks, image, choice, cleanup,UnmapInv,
            NothingCallsUnmappedCore, HandoffBeforeUnmap
<1>0. TypeOK /\ UnmapInv
  BY DEF CoreInv
<1>1. CASE DaemonChanges
  BY <1>1, <1>0
     DEF DaemonChanges, Resident
<1>2. CASE core_start \/ Handoff \/ zygisk_finalize_loader \/ hook_zygote_jni
  BY <1>2, <1>0
     DEF core_start, zygisk_hook_bootstrap, zd_restore_load_policy, Handoff,
         HandedOff, Elsewhere, zygisk_finalize_loader, zd_load_config,
         hook_zygote_jni, hook_jni_methods, TypeOK
<1>3. ASSUME NEW u \in Uid, NEW cz \in BOOLEAN, NEW ff \in BOOLEAN, ~(cz /\ ff),
             nativeForkAndSpecialize(u, cz, ff)
      PROVE  UnmapInv'
  BY <1>3, <1>0
     DEF nativeForkAndSpecialize, ctx_fork_pre, NewProcess, SameProcess,
         WindowBegins, ParentSched, Decides
<1>4. CASE nativeForkSystemServer \/ ForkUsap
  BY <1>4, <1>0
     DEF nativeForkSystemServer, ctx_fork_pre, NewProcess, SameProcess,
         WindowBegins, ParentSched, ForkUsap
<1>5. ASSUME NEW u \in Uid, NEW cz \in BOOLEAN, nativeSpecializeAppProcess(u, cz)
      PROVE  UnmapInv'
  BY <1>5, <1>0
     DEF nativeSpecializeAppProcess, Decides, WindowBegins
<1>6. CASE abort_fifo_ui_scheduler \/ DecideConfig \/ DecideFlags \/ Skip
  BY <1>6, <1>0
     DEF abort_fifo_ui_scheduler, DecideConfig, zd_load_config, DecideFlags, Skip,
         Reconciled, WindowEnds
<1>7. CASE LoadCount \/ arm_module_load_policy \/ LoadModule \/ LoadEnds
  BY <1>7, <1>0
     DEF LoadCount, zd_load_config, WindowEnds, arm_module_load_policy, LoadModule,
         Loaded, LoadEnds
<1>8. CASE Pre \/ PreEnds \/ ctx_sanitize_fds \/ Post \/ PostEnds \/ Return
  BY <1>8, <1>0
     DEF Pre, Callback, PreEnds, RestoreModulePolicy, zd_restore_load_policy,
         ctx_sanitize_fds, Exempt, Reconciled, Post, PostEnds, Unloaded, NotLoaded,
         Return
<1>9. CASE api_set_option \/ ModuleOpens \/ api_exempt_fd \/ api_get_module_dir
           \/ api_hook_jni_native_methods \/ ModuleEditsArgs
  BY <1>9, <1>0
     DEF api_set_option, InModule, Call, ModuleOpens, api_exempt_fd, Early,
         api_get_module_dir, api_hook_jni_native_methods, ModuleEditsArgs
<1>10. CASE OriginalInChild \/ OriginalInParent \/ ForkAgain
  BY <1>10, <1>0
     DEF OriginalInChild, RunModules, OriginalInParent, EndOfContext, ForkAgain,
         NewProcess, WindowBegins
<1>11. CASE FinishKeepsCore
  BY <1>11, <1>0
     DEF FinishKeepsCore, zygisk_app_core_unload_safe, KeepsCoreReverts, Revert,
         NoRevert, ReportOrRevert, EndOfContext, Resident
<1>12. CASE FinishDropsCore
  BY <1>12, <1>0
     DEF FinishDropsCore, zygisk_app_core_unload_safe, Revert, NoRevert, ReportOrRevert, Resident
<1>13. CASE zygisk_self_destruct
  <2>1. pc = "destruct" /\ Resident' = Resident /\ pc' # "destruct"
    BY <1>13 DEF zygisk_self_destruct, Resident
  <2>2. core' = "unmapped" => inline' = {} /\ table' = {} /\ plt' = {} /\ pc' = "gone"
    BY <1>13 DEF zygisk_self_destruct, zygisk_self_unhook, CanUnmap, FullyInline, HooksRemoved
  <2>3. UNCHANGED <<staged, loader, borrowed, unmapSafe>>
    BY <1>13 DEF zygisk_self_destruct
  <2> QED BY <1>0, <2>1, <2>2, <2>3
<1> QED BY <1>1, <1>2, <1>3, <1>4, <1>5, <1>6, <1>7, <1>8, <1>9, <1>10, <1>11,
           <1>12, <1>13 DEF Next

\* The child keeps the fds of zygote and knows them.
LEMMA FdInvKept ==
    ASSUME CoreInv, Next
    PROVE  FdInv'
<1> USE DEF daemon, request, sch, modules, policy, files, hooks, image, choice, cleanup,FdInv,
            PlatformKnowsFds, BeforeOriginal, Deciding, Loading
<1>0. TypeOK /\ ContextInv /\ FdInv
  BY DEF CoreInv
<1>1. CASE DaemonChanges
  BY <1>1, <1>0
     DEF DaemonChanges, ContextInv
<1>2. CASE core_start \/ Handoff \/ zygisk_finalize_loader \/ hook_zygote_jni
  BY <1>2, <1>0
     DEF core_start, zygisk_hook_bootstrap, zd_restore_load_policy, Handoff,
         HandedOff, Elsewhere, zygisk_finalize_loader, zd_load_config,
         hook_zygote_jni, hook_jni_methods, ContextInv
<1>3. ASSUME NEW u \in Uid, NEW cz \in BOOLEAN, NEW ff \in BOOLEAN, ~(cz /\ ff),
             nativeForkAndSpecialize(u, cz, ff)
      PROVE  FdInv'
  BY <1>3, <1>0
     DEF nativeForkAndSpecialize, ctx_fork_pre, NewProcess, SameProcess,
         WindowBegins, ParentSched, Decides, ContextInv
<1>4. CASE nativeForkSystemServer \/ ForkUsap
  BY <1>4, <1>0
     DEF nativeForkSystemServer, ctx_fork_pre, NewProcess, SameProcess,
         WindowBegins, ParentSched, ForkUsap, ContextInv
<1>5. ASSUME NEW u \in Uid, NEW cz \in BOOLEAN, nativeSpecializeAppProcess(u, cz)
      PROVE  FdInv'
  BY <1>5, <1>0
     DEF nativeSpecializeAppProcess, Decides, WindowBegins, ContextInv
<1>6. CASE abort_fifo_ui_scheduler \/ DecideConfig \/ DecideFlags \/ Skip
  BY <1>6, <1>0
     DEF abort_fifo_ui_scheduler, DecideConfig, zd_load_config, DecideFlags, Skip,
         Reconciled, WindowEnds, ContextInv
<1>7. CASE LoadCount \/ arm_module_load_policy \/ LoadModule \/ LoadEnds
  BY <1>7, <1>0
     DEF LoadCount, zd_load_config, WindowEnds, arm_module_load_policy, LoadModule,
         Loaded, LoadEnds, ContextInv
<1>8. CASE Pre \/ PreEnds \/ ctx_sanitize_fds \/ Post \/ PostEnds \/ Return
  BY <1>8, <1>0
     DEF Pre, Callback, PreEnds, RestoreModulePolicy, zd_restore_load_policy,
         ctx_sanitize_fds, Exempt, Reconciled, Post, PostEnds, Unloaded, NotLoaded,
         Return, ContextInv
<1>9. CASE api_set_option \/ ModuleOpens \/ api_exempt_fd \/ api_get_module_dir
           \/ api_hook_jni_native_methods \/ ModuleEditsArgs
  BY <1>9, <1>0
     DEF api_set_option, InModule, Call, ModuleOpens, api_exempt_fd, Early,
         api_get_module_dir, api_hook_jni_native_methods, ModuleEditsArgs,
         ContextInv
<1>10. CASE OriginalInChild \/ OriginalInParent \/ ForkAgain
  BY <1>10, <1>0
     DEF OriginalInChild, RunModules, OriginalInParent, EndOfContext, ForkAgain,
         NewProcess, WindowBegins, ContextInv
<1>11. CASE FinishKeepsCore \/ FinishDropsCore \/ zygisk_self_destruct
  BY <1>11, <1>0
     DEF FinishKeepsCore, zygisk_app_core_unload_safe, KeepsCoreReverts, Revert,
         NoRevert, ReportOrRevert, EndOfContext, FinishDropsCore, zygisk_self_destruct,
         zygisk_self_unhook, CanUnmap, FullyInline, HooksRemoved, ContextInv
<1> QED BY <1>1, <1>2, <1>3, <1>4, <1>5, <1>6, <1>7, <1>8, <1>9, <1>10, <1>11 DEF Next

\* The allowance is given back before the platform goes on.
LEMMA PolicyInvKept ==
    ASSUME CoreInv, Next
    PROVE  PolicyInv'
<1> USE DEF daemon, request, sch, modules, policy, files, hooks, image, choice, cleanup,PolicyInv
<1>0. TypeOK /\ PolicyInv
  BY DEF CoreInv
<1>1. CASE DaemonChanges
  BY <1>1, <1>0
     DEF DaemonChanges
<1>2. CASE core_start \/ Handoff \/ zygisk_finalize_loader \/ hook_zygote_jni
  BY <1>2, <1>0
     DEF core_start, zygisk_hook_bootstrap, zd_restore_load_policy, Handoff,
         HandedOff, Elsewhere, zygisk_finalize_loader, zd_load_config,
         hook_zygote_jni, hook_jni_methods
<1>3. ASSUME NEW u \in Uid, NEW cz \in BOOLEAN, NEW ff \in BOOLEAN, ~(cz /\ ff),
             nativeForkAndSpecialize(u, cz, ff)
      PROVE  PolicyInv'
  BY <1>3, <1>0
     DEF nativeForkAndSpecialize, ctx_fork_pre, NewProcess, SameProcess,
         WindowBegins, ParentSched, Decides
<1>4. CASE nativeForkSystemServer \/ ForkUsap
  BY <1>4, <1>0
     DEF nativeForkSystemServer, ctx_fork_pre, NewProcess, SameProcess,
         WindowBegins, ParentSched, ForkUsap
<1>5. ASSUME NEW u \in Uid, NEW cz \in BOOLEAN, nativeSpecializeAppProcess(u, cz)
      PROVE  PolicyInv'
  BY <1>5, <1>0
     DEF nativeSpecializeAppProcess, Decides, WindowBegins
<1>6. CASE abort_fifo_ui_scheduler \/ DecideConfig \/ DecideFlags \/ Skip
  BY <1>6, <1>0
     DEF abort_fifo_ui_scheduler, DecideConfig, zd_load_config, DecideFlags, Skip,
         Reconciled, WindowEnds
<1>7. CASE LoadCount \/ arm_module_load_policy \/ LoadModule \/ LoadEnds
  BY <1>7, <1>0
     DEF LoadCount, zd_load_config, WindowEnds, arm_module_load_policy, LoadModule,
         Loaded, LoadEnds
<1>8. CASE Pre \/ PreEnds \/ ctx_sanitize_fds \/ Post \/ PostEnds \/ Return
  BY <1>8, <1>0
     DEF Pre, Callback, PreEnds, RestoreModulePolicy, zd_restore_load_policy,
         ctx_sanitize_fds, Exempt, Reconciled, Post, PostEnds, Unloaded, NotLoaded,
         Return
<1>9. CASE api_set_option \/ ModuleOpens \/ api_exempt_fd \/ api_get_module_dir
           \/ api_hook_jni_native_methods \/ ModuleEditsArgs
  BY <1>9, <1>0
     DEF api_set_option, InModule, Call, ModuleOpens, api_exempt_fd, Early,
         api_get_module_dir, api_hook_jni_native_methods, ModuleEditsArgs
<1>10. CASE OriginalInChild \/ OriginalInParent \/ ForkAgain
  BY <1>10, <1>0
     DEF OriginalInChild, RunModules, OriginalInParent, EndOfContext, ForkAgain,
         NewProcess, WindowBegins
<1>11. CASE FinishKeepsCore \/ FinishDropsCore \/ zygisk_self_destruct
  BY <1>11, <1>0
     DEF FinishKeepsCore, zygisk_app_core_unload_safe, KeepsCoreReverts, Revert,
         NoRevert, ReportOrRevert, EndOfContext, FinishDropsCore, zygisk_self_destruct,
         zygisk_self_unhook, CanUnmap, FullyInline, HooksRemoved
<1> QED BY <1>1, <1>2, <1>3, <1>4, <1>5, <1>6, <1>7, <1>8, <1>9, <1>10, <1>11 DEF Next

\* The answers of the daemon are of one window.
LEMMA DecisionInvKept ==
    ASSUME CoreInv, Next
    PROVE  DecisionInv'
<1> USE DEF daemon, request, sch, modules, policy, files, hooks, image, choice, cleanup,DecisionInv,
            DecisionOfOneMode, Deciding
<1>0. TypeOK /\ ContextInv /\ DecisionInv
  BY DEF CoreInv
<1>1. CASE DaemonChanges
  <2>1. /\ UNCHANGED <<pc, wrapper, uid, cfg, decision, reach>>
        /\ seen # {} => seen' = seen \cup {mode'}
        /\ seen = {} => seen' = {}
    BY <1>1 DEF DaemonChanges
  <2>2. pc \in {"skip", "load"} => listed' = listed /\ steady' = steady
    BY <1>1 DEF DaemonChanges
  <2> QED BY <1>0, <2>1, <2>2
<1>2. CASE core_start \/ Handoff \/ zygisk_finalize_loader \/ hook_zygote_jni
  BY <1>2, <1>0
     DEF core_start, zygisk_hook_bootstrap, zd_restore_load_policy, Handoff,
         HandedOff, Elsewhere, zygisk_finalize_loader, zd_load_config,
         hook_zygote_jni, hook_jni_methods, ContextInv
<1>3. ASSUME NEW u \in Uid, NEW cz \in BOOLEAN, NEW ff \in BOOLEAN, ~(cz /\ ff),
             nativeForkAndSpecialize(u, cz, ff)
      PROVE  DecisionInv'
  BY <1>3, <1>0
     DEF nativeForkAndSpecialize, ctx_fork_pre, NewProcess, SameProcess,
         WindowBegins, ParentSched, Decides, ContextInv
<1>4. CASE nativeForkSystemServer \/ ForkUsap
  BY <1>4, <1>0
     DEF nativeForkSystemServer, ctx_fork_pre, NewProcess, SameProcess,
         WindowBegins, ParentSched, ForkUsap, ContextInv
<1>5. ASSUME NEW u \in Uid, NEW cz \in BOOLEAN, nativeSpecializeAppProcess(u, cz)
      PROVE  DecisionInv'
  BY <1>5, <1>0
     DEF nativeSpecializeAppProcess, Decides, WindowBegins, ContextInv
<1>6. CASE abort_fifo_ui_scheduler \/ DecideConfig \/ Skip
  BY <1>6, <1>0
     DEF abort_fifo_ui_scheduler, DecideConfig, zd_load_config, Skip, Reconciled,
         WindowEnds, ContextInv
<1>7. CASE DecideFlags
  <2>1. /\ pc = "flags" /\ pc' # "flags"
        /\ UNCHANGED <<wrapper, uid, listed, mode, seen, steady>>
        /\ decision' = Decision(cfg, up /\ query_flags(uid))
    BY <1>7 DEF DecideFlags
  <2>2. reach' => reach /\ up
    BY <1>7 DEF DecideFlags
  <2>3. ASSUME reach', wrapper # "server"
        PROVE  \E m \in seen : decision' = Decision(m, uid \in listed)
    <3>1. cfg \in seen /\ mode \in seen /\ cfg \in 0..2 /\ up
      BY <1>0, <2>1, <2>2, <2>3 DEF TypeOK
    <3>2. CASE mode = 0
      <4>1. decision' = Decision(cfg, FALSE)
        BY <2>1, <3>2 DEF query_flags
      <4>2. Decision(cfg, FALSE) = 0 /\ Decision(0, uid \in listed) = 0
        BY DEF Decision
      <4> QED BY <3>1, <3>2, <4>1, <4>2
    <3>3. CASE mode # 0
      <4>1. (up /\ query_flags(uid)) = (uid \in listed)
        BY <3>1, <3>3 DEF query_flags
      <4> QED BY <2>1, <3>1, <4>1
    <3> QED BY <3>2, <3>3
  <2> QED BY <1>0, <2>1, <2>3
<1>8. CASE LoadCount \/ arm_module_load_policy \/ LoadModule \/ LoadEnds
  BY <1>8, <1>0
     DEF LoadCount, zd_load_config, WindowEnds, arm_module_load_policy, LoadModule,
         Loaded, LoadEnds, ContextInv
<1>9. CASE Pre \/ PreEnds \/ ctx_sanitize_fds \/ Post \/ PostEnds \/ Return
  BY <1>9, <1>0
     DEF Pre, Callback, PreEnds, RestoreModulePolicy, zd_restore_load_policy,
         ctx_sanitize_fds, Exempt, Reconciled, Post, PostEnds, Unloaded, NotLoaded,
         Return, ContextInv
<1>10. CASE api_set_option \/ ModuleOpens \/ api_exempt_fd \/ api_get_module_dir
           \/ api_hook_jni_native_methods \/ ModuleEditsArgs
  BY <1>10, <1>0
     DEF api_set_option, InModule, Call, ModuleOpens, api_exempt_fd, Early,
         api_get_module_dir, api_hook_jni_native_methods, ModuleEditsArgs,
         ContextInv
<1>11. CASE OriginalInChild \/ OriginalInParent \/ ForkAgain
  BY <1>11, <1>0
     DEF OriginalInChild, RunModules, OriginalInParent, EndOfContext, ForkAgain,
         NewProcess, WindowBegins, ContextInv
<1>12. CASE FinishKeepsCore \/ FinishDropsCore \/ zygisk_self_destruct
  BY <1>12, <1>0
     DEF FinishKeepsCore, zygisk_app_core_unload_safe, KeepsCoreReverts, Revert,
         NoRevert, ReportOrRevert, EndOfContext, FinishDropsCore, zygisk_self_destruct,
         zygisk_self_unhook, CanUnmap, FullyInline, HooksRemoved, ContextInv
<1> QED BY <1>1, <1>2, <1>3, <1>4, <1>5, <1>6, <1>7, <1>8, <1>9, <1>10, <1>11, <1>12 DEF Next

\* Mounts are reverted once, at the end, and as decided.
LEMMA MountInvKept ==
    ASSUME CoreInv, Next
    PROVE  MountInv'
<1> USE DEF daemon, request, sch, modules, policy, files, hooks, image, choice, cleanup,MountInv,
            MountsAsDecided, BeforeOriginal, AfterOriginal, Deciding, Loading
<1>0. TypeOK /\ ContextInv /\ MountInv
  BY DEF CoreInv
<1>1. CASE DaemonChanges
  BY <1>1, <1>0
     DEF DaemonChanges, TypeOK, ContextInv
<1>2. CASE core_start \/ zygisk_finalize_loader
  BY <1>2, <1>0
     DEF core_start, zygisk_hook_bootstrap, zd_restore_load_policy,
         zygisk_finalize_loader, zd_load_config, TypeOK, ContextInv
<1>3. CASE Handoff \/ hook_zygote_jni
  BY <1>3, <1>0
     DEF Handoff, HandedOff, Elsewhere, hook_zygote_jni, hook_jni_methods, TypeOK,
         ContextInv
<1>4. ASSUME NEW u \in Uid, NEW cz \in BOOLEAN, NEW ff \in BOOLEAN, ~(cz /\ ff),
             nativeForkAndSpecialize(u, cz, ff)
      PROVE  MountInv'
  BY <1>4, <1>0
     DEF nativeForkAndSpecialize, ctx_fork_pre, NewProcess, SameProcess,
         WindowBegins, ParentSched, Decides, TypeOK, ContextInv
<1>5. CASE nativeForkSystemServer \/ ForkUsap
  BY <1>5, <1>0
     DEF nativeForkSystemServer, ctx_fork_pre, NewProcess, SameProcess,
         WindowBegins, ParentSched, ForkUsap, TypeOK, ContextInv
<1>6. ASSUME NEW u \in Uid, NEW cz \in BOOLEAN, nativeSpecializeAppProcess(u, cz)
      PROVE  MountInv'
  BY <1>6, <1>0
     DEF nativeSpecializeAppProcess, Decides, WindowBegins, TypeOK, ContextInv
<1>7. CASE abort_fifo_ui_scheduler \/ DecideConfig \/ DecideFlags \/ Skip
  BY <1>7, <1>0
     DEF abort_fifo_ui_scheduler, DecideConfig, zd_load_config, DecideFlags, Skip,
         Reconciled, WindowEnds, TypeOK, ContextInv
<1>8. CASE LoadCount \/ arm_module_load_policy \/ LoadModule \/ LoadEnds
  BY <1>8, <1>0
     DEF LoadCount, zd_load_config, WindowEnds, arm_module_load_policy, LoadModule,
         Loaded, LoadEnds, TypeOK, ContextInv
<1>9. CASE Pre \/ PreEnds \/ ctx_sanitize_fds \/ Post \/ PostEnds \/ Return
  BY <1>9, <1>0
     DEF Pre, Callback, PreEnds, RestoreModulePolicy, zd_restore_load_policy,
         ctx_sanitize_fds, Exempt, Reconciled, Post, PostEnds, Unloaded, NotLoaded,
         Return, TypeOK, ContextInv
<1>10. CASE api_set_option \/ ModuleOpens \/ api_exempt_fd \/ api_get_module_dir
           \/ api_hook_jni_native_methods \/ ModuleEditsArgs
  BY <1>10, <1>0
     DEF api_set_option, InModule, Call, ModuleOpens, api_exempt_fd, Early,
         api_get_module_dir, api_hook_jni_native_methods, ModuleEditsArgs, TypeOK,
         ContextInv
<1>11. CASE OriginalInChild
  BY <1>11, <1>0
     DEF OriginalInChild, RunModules, TypeOK, ContextInv
<1>12. CASE OriginalInParent
  BY <1>12, <1>0
     DEF OriginalInParent, EndOfContext, TypeOK, ContextInv
<1>13. CASE ForkAgain
  BY <1>13, <1>0
     DEF ForkAgain, NewProcess, WindowBegins, TypeOK, ContextInv
<1>14. CASE FinishKeepsCore
  BY <1>14, <1>0
     DEF FinishKeepsCore, zygisk_app_core_unload_safe, KeepsCoreReverts, Revert,
         NoRevert, ReportOrRevert, EndOfContext, TypeOK, ContextInv
<1>15. CASE FinishDropsCore
  BY <1>15, <1>0
     DEF FinishDropsCore, zygisk_app_core_unload_safe, Revert, NoRevert, ReportOrRevert, TypeOK,
         ContextInv
<1>16. CASE zygisk_self_destruct
  BY <1>16, <1>0
     DEF zygisk_self_destruct, zygisk_self_unhook, CanUnmap, FullyInline,
         HooksRemoved, Revert, NoRevert, ReportOrRevert, TypeOK, ContextInv
<1> QED BY <1>1, <1>2, <1>3, <1>4, <1>5, <1>6, <1>7, <1>8, <1>9, <1>10, <1>11,
           <1>12, <1>13, <1>14, <1>15, <1>16 DEF Next

\* A process that is skipped loads and calls nothing.
LEMMA RanInvKept ==
    ASSUME CoreInv, Next
    PROVE  RanInv'
<1> USE DEF daemon, request, sch, modules, policy, files, hooks, image, choice, cleanup,RanInv,
            SkippedRunsNothing, Deciding, Loading
<1>0. TypeOK /\ ContextInv /\ RanInv
  BY DEF CoreInv
<1>1. CASE DaemonChanges
  BY <1>1, <1>0
     DEF DaemonChanges, TypeOK, ContextInv
<1>2. CASE core_start \/ Handoff \/ zygisk_finalize_loader \/ hook_zygote_jni
  BY <1>2, <1>0
     DEF core_start, zygisk_hook_bootstrap, zd_restore_load_policy, Handoff,
         HandedOff, Elsewhere, zygisk_finalize_loader, zd_load_config,
         hook_zygote_jni, hook_jni_methods, TypeOK, ContextInv
<1>3. ASSUME NEW u \in Uid, NEW cz \in BOOLEAN, NEW ff \in BOOLEAN, ~(cz /\ ff),
             nativeForkAndSpecialize(u, cz, ff)
      PROVE  RanInv'
  BY <1>3, <1>0
     DEF nativeForkAndSpecialize, ctx_fork_pre, NewProcess, SameProcess,
         WindowBegins, ParentSched, Decides, TypeOK, ContextInv
<1>4. CASE nativeForkSystemServer \/ ForkUsap
  BY <1>4, <1>0
     DEF nativeForkSystemServer, ctx_fork_pre, NewProcess, SameProcess,
         WindowBegins, ParentSched, ForkUsap, TypeOK, ContextInv
<1>5. ASSUME NEW u \in Uid, NEW cz \in BOOLEAN, nativeSpecializeAppProcess(u, cz)
      PROVE  RanInv'
  BY <1>5, <1>0
     DEF nativeSpecializeAppProcess, Decides, WindowBegins, TypeOK, ContextInv
<1>6. CASE abort_fifo_ui_scheduler \/ DecideConfig \/ DecideFlags \/ Skip
  BY <1>6, <1>0
     DEF abort_fifo_ui_scheduler, DecideConfig, zd_load_config, DecideFlags, Skip,
         Reconciled, WindowEnds, TypeOK, ContextInv
<1>7. CASE LoadCount \/ arm_module_load_policy \/ LoadModule \/ LoadEnds
  BY <1>7, <1>0
     DEF LoadCount, zd_load_config, WindowEnds, arm_module_load_policy, LoadModule,
         Loaded, LoadEnds, TypeOK, ContextInv
<1>8. CASE Pre \/ PreEnds \/ ctx_sanitize_fds \/ Post \/ PostEnds \/ Return
  BY <1>8, <1>0
     DEF Pre, Callback, PreEnds, RestoreModulePolicy, zd_restore_load_policy,
         ctx_sanitize_fds, Exempt, Reconciled, Post, PostEnds, Unloaded, NotLoaded,
         Return, TypeOK, ContextInv
<1>9. CASE api_set_option \/ ModuleOpens \/ api_exempt_fd \/ api_get_module_dir
           \/ api_hook_jni_native_methods \/ ModuleEditsArgs
  BY <1>9, <1>0
     DEF api_set_option, InModule, Call, ModuleOpens, api_exempt_fd, Early,
         api_get_module_dir, api_hook_jni_native_methods, ModuleEditsArgs, TypeOK,
         ContextInv
<1>10. CASE OriginalInChild \/ OriginalInParent \/ ForkAgain
  BY <1>10, <1>0
     DEF OriginalInChild, RunModules, OriginalInParent, EndOfContext, ForkAgain,
         NewProcess, WindowBegins, TypeOK, ContextInv
<1>11. CASE FinishKeepsCore \/ FinishDropsCore \/ zygisk_self_destruct
  BY <1>11, <1>0
     DEF FinishKeepsCore, zygisk_app_core_unload_safe, KeepsCoreReverts, Revert,
         NoRevert, ReportOrRevert, EndOfContext, FinishDropsCore, zygisk_self_destruct,
         zygisk_self_unhook, CanUnmap, FullyInline, HooksRemoved, TypeOK, ContextInv
<1> QED BY <1>1, <1>2, <1>3, <1>4, <1>5, <1>6, <1>7, <1>8, <1>9, <1>10, <1>11 DEF Next

\* The scheduler follows the arguments.
LEMMA SchedInvKept ==
    ASSUME CoreInv, Next
    PROVE  SchedInv'
<1> USE DEF daemon, request, sch, modules, policy, files, hooks, image, choice, cleanup,SchedInv,
            SchedulerAsAsked, BeforeOriginal, Deciding, Loading
<1>0. TypeOK /\ ContextInv /\ SchedInv
  BY DEF CoreInv
<1>1. CASE DaemonChanges
  BY <1>1, <1>0
     DEF DaemonChanges, TypeOK, ContextInv
<1>2. CASE core_start \/ Handoff \/ zygisk_finalize_loader \/ hook_zygote_jni
  BY <1>2, <1>0
     DEF core_start, zygisk_hook_bootstrap, zd_restore_load_policy, Handoff,
         HandedOff, Elsewhere, zygisk_finalize_loader, zd_load_config,
         hook_zygote_jni, hook_jni_methods, TypeOK, ContextInv
<1>3. ASSUME NEW u \in Uid, NEW cz \in BOOLEAN, NEW ff \in BOOLEAN, ~(cz /\ ff),
             nativeForkAndSpecialize(u, cz, ff)
      PROVE  SchedInv'
  BY <1>3, <1>0
     DEF nativeForkAndSpecialize, ctx_fork_pre, NewProcess, SameProcess,
         WindowBegins, ParentSched, Decides, TypeOK, ContextInv
<1>4. CASE nativeForkSystemServer \/ ForkUsap
  BY <1>4, <1>0
     DEF nativeForkSystemServer, ctx_fork_pre, NewProcess, SameProcess,
         WindowBegins, ParentSched, ForkUsap, TypeOK, ContextInv
<1>5. ASSUME NEW u \in Uid, NEW cz \in BOOLEAN, nativeSpecializeAppProcess(u, cz)
      PROVE  SchedInv'
  BY <1>5, <1>0
     DEF nativeSpecializeAppProcess, Decides, WindowBegins, TypeOK, ContextInv
<1>6. CASE abort_fifo_ui_scheduler \/ DecideConfig \/ DecideFlags
  BY <1>6, <1>0
     DEF abort_fifo_ui_scheduler, DecideConfig, zd_load_config, DecideFlags, TypeOK,
         ContextInv
<1>7. CASE Skip
  BY <1>7, <1>0
     DEF Skip, Reconciled, WindowEnds, TypeOK, ContextInv
<1>8. CASE LoadCount \/ arm_module_load_policy
  BY <1>8, <1>0
     DEF LoadCount, zd_load_config, WindowEnds, arm_module_load_policy, TypeOK,
         ContextInv
<1>9. CASE LoadModule \/ LoadEnds
  BY <1>9, <1>0
     DEF LoadModule, Loaded, LoadEnds, TypeOK, ContextInv
<1>10. CASE Pre \/ PreEnds \/ ctx_sanitize_fds \/ Post \/ PostEnds \/ Return
  BY <1>10, <1>0
     DEF Pre, Callback, PreEnds, RestoreModulePolicy, zd_restore_load_policy,
         ctx_sanitize_fds, Exempt, Reconciled, Post, PostEnds, Unloaded, NotLoaded,
         Return, TypeOK, ContextInv
<1>11. CASE api_set_option \/ ModuleOpens \/ api_exempt_fd \/ api_get_module_dir
           \/ api_hook_jni_native_methods \/ ModuleEditsArgs
  BY <1>11, <1>0
     DEF api_set_option, InModule, Call, ModuleOpens, api_exempt_fd, Early,
         api_get_module_dir, api_hook_jni_native_methods, ModuleEditsArgs, TypeOK,
         ContextInv
<1>12. CASE OriginalInChild \/ OriginalInParent \/ ForkAgain
  BY <1>12, <1>0
     DEF OriginalInChild, RunModules, OriginalInParent, EndOfContext, ForkAgain,
         NewProcess, WindowBegins, TypeOK, ContextInv
<1>13. CASE FinishKeepsCore \/ FinishDropsCore \/ zygisk_self_destruct
  BY <1>13, <1>0
     DEF FinishKeepsCore, zygisk_app_core_unload_safe, KeepsCoreReverts, Revert,
         NoRevert, ReportOrRevert, EndOfContext, FinishDropsCore, zygisk_self_destruct,
         zygisk_self_unhook, CanUnmap, FullyInline, HooksRemoved, TypeOK, ContextInv
<1> QED BY <1>1, <1>2, <1>3, <1>4, <1>5, <1>6, <1>7, <1>8, <1>9, <1>10, <1>11,
           <1>12, <1>13 DEF Next

-----------------------------------------------------------------------------
\* The invariant is inductive.
LEMMA NextCore == CoreInv /\ [Next]_vars => CoreInv'
<1> SUFFICES ASSUME CoreInv, [Next]_vars
             PROVE  CoreInv'
  OBVIOUS
<1>1. CASE Next
  <2>1. TypeOK'
    BY <1>1, TypesKept DEF CoreInv
  <2>2. CallbackInv' /\ ContextInv' /\ UnmapInv' /\ FdInv' /\ PolicyInv'
    BY <1>1, CallbackInvKept, ContextInvKept, UnmapInvKept, FdInvKept, PolicyInvKept
  <2>3. DecisionInv' /\ MountInv' /\ RanInv' /\ SchedInv'
    BY <1>1, DecisionInvKept, MountInvKept, RanInvKept, SchedInvKept
  <2> QED BY <2>1, <2>2, <2>3 DEF CoreInv
<1>2. CASE UNCHANGED vars
  <2> USE <1>2 DEF vars, daemon, request, sch, modules, policy, files, hooks, image, choice, cleanup
  <2>1. TypeOK' /\ CallbackInv' /\ ContextInv'
    BY DEF CoreInv, TypeOK, CallbackInv, ContextInv
  <2>2. UnmapInv' /\ FdInv' /\ PolicyInv'
    BY DEF CoreInv, UnmapInv, NothingCallsUnmappedCore, HandoffBeforeUnmap, Resident,
           FdInv, PlatformKnowsFds, PolicyInv
  <2>3. DecisionInv' /\ RanInv' /\ SchedInv'
    BY DEF CoreInv, DecisionInv, DecisionOfOneMode, RanInv, SkippedRunsNothing, SchedInv,
           SchedulerAsAsked
  <2>4. MountInv'
    BY DEF CoreInv, MountInv, MountsAsDecided
  <2> QED BY <2>1, <2>2, <2>3, <2>4 DEF CoreInv
<1> QED BY <1>1, <1>2

\* Zygote has just been injected.
LEMMA InitCore == Init => CoreInv
<1> SUFFICES ASSUME Init PROVE CoreInv
  OBVIOUS
<1>1. TypeOK
  <2>1. DaemonTypes
    <3>1. mode \in 0..2 /\ listed \subseteq Uid /\ changes \in 0..ChangeMax
      BY CoreAssumption DEF Init
    <3>2. /\ cfg \in 0..2 /\ decision \in 0..2
          /\ asks \in 0..2 /\ reverts \in 0..2 /\ seen \subseteq 0..2
      BY DEF Init
    <3>3. up \in BOOLEAN /\ acked \in BOOLEAN /\ steady \in BOOLEAN /\ reach \in BOOLEAN
      BY DEF Init
    <3> QED BY <3>1, <3>2, <3>3 DEF DaemonTypes
  <2>2. RequestTypes /\ PointTypes
    <3>1. uid \in Uid /\ forks \in 0..ForkMax
      BY AnyUidType, CoreAssumption DEF Init
    <3>2. /\ childZygote \in BOOLEAN /\ fifoArmed \in BOOLEAN /\ fifo \in BOOLEAN
      BY DEF Init
    <3> QED BY <3>1, <3>2 DEF Init, RequestTypes, PointTypes
  <2>3. ModuleTypes
    BY CoreAssumption DEF Init, ModuleTypes, NotLoaded
  <2>4. FileTypes /\ HookTypes
    BY DEF Init, FileTypes, HookTypes, ZygoteFd, ModuleFd
  <2>5. ImageTypes
    BY DEF Init, ImageTypes
  <2> QED BY <2>1, <2>2, <2>3, <2>4, <2>5, TypeParts
<1>2. CallbackInv /\ ContextInv /\ FdInv /\ PolicyInv /\ DecisionInv
  BY DEF Init, CallbackInv, ContextInv, FdInv, PlatformKnowsFds, PolicyInv, DecisionInv,
         DecisionOfOneMode, BeforeOriginal, Deciding, Loading
<1>3. UnmapInv
  BY DEF Init, UnmapInv, NothingCallsUnmappedCore, HandoffBeforeUnmap
<1>4. MountInv /\ RanInv /\ SchedInv
  BY DEF Init, MountInv, MountsAsDecided, RanInv, SkippedRunsNothing, SchedInv,
         SchedulerAsAsked, BeforeOriginal, AfterOriginal, Deciding, Loading
<1> QED BY <1>1, <1>2, <1>3, <1>4 DEF CoreInv

\* The invariant holds in every reachable state.
LEMMA CoreCorrect == Spec => []CoreInv
BY InitCore, NextCore, PTL DEF Spec

\* For any number of modules, forks, hooks and daemon changes: the core is
\* unmapped only when no hook, table entry or module leads into it, and the
\* first-stage loader only when every pointer into it was handed off
\* (zygisk_self_destruct, zygisk_finalize_loader).
THEOREM UnmapsAlwaysSafe == Spec => []UnmapsSafe
<1>1. CoreInv => UnmapsSafe
  BY DEF CoreInv, UnmapInv, UnmapsSafe
<1> QED BY <1>1, CoreCorrect, PTL

\* When the platform's native runs in a forked child, every open fd is one it
\* knows, and none of zygote's was lost (ctx_sanitize_fds), whatever modules
\* open and exempt.
THEOREM PlatformAlwaysKnowsFds == Spec => []PlatformKnowsFds
<1>1. CoreInv => PlatformKnowsFds
  BY DEF CoreInv, FdInv
<1> QED BY <1>1, CoreCorrect, PTL

\* A process holds the temporary load policy only while it loads modules or
\* runs their early callbacks (zd_restore_module_load_policy), as long as the
\* daemon answers.
THEOREM PolicyAlwaysReturned == Spec => []PolicyOnlyWhileLoading
<1>1. CoreInv => PolicyOnlyWhileLoading
  BY DEF CoreInv, PolicyInv, PolicyOnlyWhileLoading
<1> QED BY <1>1, CoreCorrect, PTL

\* The decision of zygisk_inject_decision is the one for a mode the daemon had
\* between its two requests, however often the mode changes.
THEOREM DecisionAlwaysOfOneMode == Spec => []DecisionOfOneMode
<1>1. CoreInv => DecisionOfOneMode
  BY DEF CoreInv, DecisionInv
<1> QED BY <1>1, CoreCorrect, PTL

\* A specialized process has asked for its mounts to be reverted exactly as
\* decided, and has the module code and the scheduler that were decided and
\* asked for, on every path of the wrappers; that the kernel reverts them is
\* known only where it has acknowledged the request.
THEOREM AlwaysRunsAsDecided == Spec => []RunsAsDecided
<1>1. CoreInv => RunsAsDecided
  BY DEF CoreInv, MountInv, RanInv, SchedInv, RunsAsDecided
<1> QED BY <1>1, CoreCorrect, PTL
=============================================================================
