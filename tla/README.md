# YukiZygisk in TLA+

A verification project for YukiZygisk: modules that model the kernel part, the
daemon and the cores injected into processes, TLC configurations that check them
on small instances, and TLAPS proofs of the safety properties for instances of any
size: the ledger of temporary SELinux allowances and its clients, the bootstrap,
the orchestrator, the fd broker, the host layer, the policy cache, the runtime
records, the zygisk core, the daemon and the native loader. `PROJECT.json` lists components, runs, mutants, the
line map, findings, hazards and theorems.

## 1. The system

| Component | State | Operations | Talks to | Hard because |
|---|---|---|---|---|
| policy ledger, `host/policy_temp.c` | rule table, u16 counters | allow_file, allow_execmem, restore | policy editor | sharing, limits, failures |
| policy editor, `host/policy.c` | live SELinux policy (RCU) | commit allow, commit restore, exit | SELinux | copy fails half-way, backend goes |
| load-policy holders, `feature/zygote_probe.c` | native pending list, module holders, delayed works | publish, restore, allow-module, timeouts, cleanup | ledger, control | every entry has several parties that may give it back |
| injection records, safe mode, `feature/zygote_probe.c` | record table, generation, guards | begin, set state, report, query, should-skip | zygiskd | pid reuse, late reports, full table |
| exec hook and staging, `feature/zygote_probe.c` | task_works, native targets | bprm hook, inject task_work | all of the above | runs in the target |
| bootstrap, `core/bootstrap.c` | claim state, cookie, kprobe, guard work | prctl handler, task_work, guard, ready, exit | control, module | lock-free claim against a deadline and retries |
| control fd, `core/control.c` | available flag, rwsem | ioctls, install fd, release | everything | teardown against ioctls |
| module life cycle, `core/module.c` | stage flags, lifecycle lock | init, fail-close, exit | everything | unload while code is running |
| orchestrator, `feature/zygote_orch.c` | child table, event ring, work | fork, free, setresuid, worker, exit | netlink, broker | atomic contexts, flag-guarded worker |
| fd broker, `feature/zygote_ctl.c` | slots with file references | handoff, deliver, release, exit | control, orchestrator | task_works embedded in reused slots |
| netlink, `feature/zygote_nl.c` | socket | emit | zygiskd | lossy |
| root implementation, `host/root_impl.c` | owner, fallback flag, policy cache (RCU) | detect, install, lookup, exit | control fd, netlink | replacement against lookup, teardown |
| daemon root policy, `daemon/root_policy.cpp` | decisions, stamp of the manager's file | setup, refresh, query, push | root manager, control fd | two daemons, one cache; stamps against late saves |
| host adapter, `host/adapter.c` | captured credentials | capture, recapture, override, revert | mount cleanup, injection | replaced while in use |
| mount cleanup, `host/mount.c` | queued task_works | request, scan, unmount | host adapter | runs in the app, order of unmounts |
| lsm hook and text patching, `host/lsm.c`, `patch_text.c` | hook slot, static call, tracked hooks | apply, remove, exit | execs | writes that fail, execs in between |
| zygiskd, `daemon/zygiskd.cpp` | module lists, companions, 32-bit daemon | start, requests, rescan, events | control fd, sockets | process deaths, positions that move |
| native loader core, `core/src/yukizncore.cpp` | loaded modules, deferred thread | load, report, sync | zygiskd | one request per connection |
| zygisk core, `core/src/core.cpp`, `hook.cpp` | modules, hooks, fds, decision | hand-off, fork, specialize, self-removal | zygiskd, platform | many paths through one specialization |
| linker, `yukilinker.cpp`, `solist.cpp` | mapped images | load, relocate | both cores | ELF data |
| yzctl, scripts, web UI | - | one-shot commands | control session | - |

What makes each correct: the ledger counts exactly and the policy shows exactly
what is counted; every allowance is given back, once; a record is only called
INJECTED for the image that was redirected; the bootstrap hands one fd to one
daemon or fails closed; no code of the module runs after unload; every
specialization is announced once and no event is stuck; every file reference is
put once and a file reaches only its target; a uid keeps or loses its module
mounts as the root manager says, and nobody uses a cache that was freed; a
position of the daemon's list means one module in all requests of a load; the
hook is removed when the module goes; and a specialized process runs what was
decided for it, with nothing left that leads into an unmapped core.

## 2. Modules and how they correspond to the code

| Module | Code | Notes |
|---|---|---|
| `PolicyTemp` | `policy_temp.c`, the commits of `policy.c` | one action per exported function, success and failure apart |
| `LoadPolicy` | holder lists, timeouts, injection, ioctls, teardown | EXTENDS `PolicyTemp`: each step that allows or restores is one of its actions |
| `RuntimeRecords` | records, reports, safe mode | |
| `Bootstrap` | `bootstrap.c`, sessions of `control.c`, `module.c` | |
| `ZygoteOrch` | `zygote_orch.c` | |
| `SpecializeQueue` | | the queue the ring promises; `ZygoteOrch` implements it |
| `ZygoteCtl` | `zygote_ctl.c` | |
| `PolicyCache` | `root_impl.c`, `root_policy.cpp`, the ioctls between them | kernel, two daemons and the root manager |
| `LsmHook` | `lsm.c`, `patch_text.c`, the replacement in `zygote_probe.c` | |
| `MountCleanup` | `mount.c`, credentials of `adapter.c` | |
| `Host` | stages of `module.c` and `module_integrated.c` | EXTENDS `LsmHook` and `MountCleanup` and drives both |
| `Zygiskd` | `zygiskd.cpp` | start, 32-bit daemon, lists, companions |
| `NativeLoader` | `yukizncore.cpp`, target matching of `zygote_probe.c`, requests of `zygiskd.cpp` | EXTENDS `Zygiskd` |
| `ZygiskCore` | `core.cpp`, `hook.cpp` | one process, followed through its forks |
| `PolicyTempProofs` | | proofs about `PolicyTemp` and `LoadPolicy` |
| `LifecycleProofs` | | proofs about `Bootstrap` and about `Host` with `LsmHook` and `MountCleanup` |
| `NativeLoaderProofs` | | proofs about `Zygiskd` and `NativeLoader` |
| `ZygoteOrchProofs`, `ZygoteCtlProofs`, `PolicyCacheProofs`, `RuntimeRecordsProofs`, `ZygiskCoreProofs` | | proofs about the module each is named after |
| `MC...` | | symmetry sets and constant definitions for TLC |

**Granularity.** A stretch of code under one lock, or one atomic operation, is
one action. Where the code releases a lock, waits, or uses two atomics, the
model has two actions. Definitions named `X_Something` are deliberately wrong
variants of `X` (mutants); no behaviour uses them.

**PolicyTemp.** `policy` is the avtab as a map from keys (source, target, class)
to permission sets, `refs` the counters, `state` what each
`struct yz_file_load_policy` recorded. All operations run under
`yz_policy_lock` and `policy_mutex`, so each is atomic. The four (key, av) pairs
of a struct are one function from keys to permissions; this needs the four keys
to differ, which holds as long as the staged files are not labelled tmpfs.
`need` and `leaked` are history: what a successful allow promised, and the
counted references whose struct was wiped. Which permissions a file needs
(`get_file_load_keys`) is the constant `FileReq`.

**LoadPolicy.** `owner` says where a struct is: on an injection's stack, on the
native list, on the module list, taken by a timeout, by a caller or by the
teardown. A delayed work is off, armed or running; `cancel_delayed_work_sync`
is a guard that waits while it runs. A restore request may name any tgid at any
time: a late one, of an image that has exec'd again since, finds the entry that the
new injection has on the list and frees it, also before the publisher schedules its
timeout (`zp_publish_native_policy_state` reads the entry after the unlock). The
work is then scheduled in freed memory; `stray` records that, the behaviour goes on as
if the work found no entry to take, and nothing is claimed after it.

**RuntimeRecords.** `table`, `gen`, `guards`, `safe` are the variables of the
code. A process is a pid with a start time; `Spawn` and `Die` reuse pids, and
`spawned` counts the processes for the bound `LifeMax`. A report reads the start time before it takes the lock, so it is two actions. A
zygote name stands for its name and ABI.

**Bootstrap.** Each client has a program counter through the kprobe handler, the
task_work and the ioctl. `cmpxchg` and `atomic_set` on the claim state are
separate steps. The task_work checks that the module is available ("checked",
`control.c:580`), takes the reference of the file ("referenced", 591) and installs
the fd ("installed" or "copy", 606) in three steps, since it allocates in between and
does not hold `yz_control_sem`. `pins` is the module reference count: a queued
session and a control file hold one each. After the `module_put` at its end a
task_work is "leaving": it frees its request and returns without a reference.
An `fput` of the file is at once a release (in the code the task_work of the last
reference), and the reference of `fops.owner` is counted with the file's own.

**ZygoteOrch.** A setresuid is three steps (mark under `zo_lock`, queue under
`zo_event_lock`, schedule). A work item can be pending while it runs, as in the
workqueue. `Waiting` maps the ring to a sequence for the refinement.

**ZygoteCtl.** The work list of a process is a sequence of slots because the
callback_head is inside the slot. A handoff is four steps: the references (a bad fd
among them ends it with EBADF), the look-up of the task, the slot, and the put of
what the slot held before. Handoffs for one pid may run at once and replace each other
while the first still waits, and a pid passes on to another process (`life`, `age`)
while a caller holds the old task. A handoff that replaces a waiting one queues the
callback_head where it is queued already: `twice` records it. In the code the list
then loses or repeats entries; the model follows the outcome in which the work runs
once for each time it was queued, and claims nothing after it about who gets which
file (`ReplacedSafely` is what would have to hold then).

**PolicyCache.** `root`, `owner`, `fallback` and `cache` are the kernel's; `mem`
says which caches are allocated, so that freeing and leaking are visible. A
lookup is two steps (enter the read-side section, leave it) and
`synchronize_rcu` waits for the readers that were there. Each daemon has the
stamp it last installed, what it parsed and a program counter through refresh,
push and query. The root manager decides at once and, if it is KernelSU, saves
its list later; `dirty` is the time in between. The stamp of the file is its size
and mtime, which a save may leave as they were (records of fixed size, one tick of
the clock): `Written` chooses, and `blurred` records that a stamp which a daemon has
read now stands for another content, until a save changes it. Emission of an event is
never forced to be received.

**LsmHook, MountCleanup, Host.** A write by `stop_machine` is one step; list
slot, static call and the fields of the hook are separate steps, and execs run
between them. A mount table is a set of lines of mountinfo, numbered in the order
of mounting; `Below` gives the directory tree, `Found` the mount a lookup of a
place meets, and `Detached` what a lazy unmount takes along. The table is read into a
buffer of which `LinesRead` whole lines fit; the rest is cut, and nobody is told.
`FirstOf` is the filling of the array of targets, `Taken` the loop from its end. A
cleanup is one step per system call, and the reading of the table and each unmount may
fail; `clean` remembers that nothing did. Taking the captured credentials is two
steps, the read of the pointer (`ptr`) and the reference (`cred`), between which the
capture may be replaced and freed (`Freed`). `Host` gives the order of the teardown;
the built-in variant has the same one.

**Zygiskd, NativeLoader.** The daemon serves one request at a time, so a request
is one step; the start is one step per stage of `run_daemon`, and every stage may
fail. A module directory has at most one zygisk image and any number of manifest
lines, each with a library of its own; the native list has one entry per line, and
reports and handles go by the module id alone. A scan returns the directories in any
order (`Orders`), the lines of a manifest one after the other; the zygisk and the
native list are two scans, so their orders are independent. A scan may miss
directories or lines (opendir, readdir or a file fails), a publication is cut at
`TargetMax` targets and its ioctl may fail; the daemon goes on in all these cases,
`missed` records what the last rescan fell short of, and `FaultMax` bounds how often
it happens. The loader core sends one request per connection: count, description,
image, report and companion are separate steps, between which the daemon may rescan
or die. The answer to a report is the kernel's: a report may be refused (an unknown
generation, 0, among the reasons), and one that was made may look refused to the
loader because the answer got lost. `moved` remembers that a rescan changed a list.

**ZygiskCore.** Processes share nothing after a fork, so a behaviour follows one
process and chooses at each fork whether it goes on as parent or child. The
decision is two requests (mode, then flags of the uid). Module code is the set
of things its API lets it do. A request to revert the mounts is answered with what
`YZ_IOCTL_UMOUNT_PID` says, and that only means that the work is queued: `asks`
counts the requests, `reverts` the works queued, `acked` is the answer the core took.
`seen`, `steady` and `reach` are history: the modes the daemon had, whether the list
changed, whether the daemon answered.

## 3. Runs

| Run | Configuration | Result | States |
|---|---|---|---|
| `load_policy` | 3 structs, 2 tasks, 2 callers, failing edits, no early modules | RefsExact, PolicyExact, PromisesKept, HoldersSound hold | 552,661 |
| `load_policy_live` | 2 structs, 1 task, an early module, 2 rules, counters to 1, fair | TypeOK, FullTableSafe, EventuallyGivenBack hold | 15,863 |
| `bootstrap` | 2 daemons, 1 control client, 3 tries, 1 fault, fair | ModulePinned, OneShot, ReadyDisarmsUnlessFault, FailClosedFinal, GuardResolves, ExitEnds hold | 306,131 |
| `orchestrator` | 3 pids, 4 forks, 2 slots, ring of 3, boundary uids, fair | ChildTableSound, ExitQuiet, WorkerAwake, EventsDrain, RingImplementsQueue hold | 299,282 |
| `fd_broker` | 2 pids with 2 processes each and a third pid, 2 files, 2 callers, 2 slots, 3 handoffs | BrokerSound, DeliveredToTarget hold | 1,614,494 |
| `records` | 2 pids, 3 processes, 2 zygote names, 1 native target with a module, 2 records, 1 guard, 3 injections | RecordsTruthful, CrashLoopStops, RecordHeld, GenerationMoves hold | 1,047,408 |
| `native_loader` | 2 directories with 2 manifest lines each, one of a 32-bit library, 1 zygisk module, 1 process with an early module, 1 of 2 targets published, 1 edit, 1 reload, 1 fault (2 together once the process runs), fair | NoOrphanCompat, AnnouncedIsSeen, ReportsSound, ReadyMeansPrepared, EveryStartEnds hold | 370,340 |
| `core` | 2 modules, an app and an isolated uid, 2 forks, 1 API call, 1 change of the daemon | UnmapsSafe, PlatformKnowsFds, PolicyOnlyWhileLoading, DecisionOfOneMode, RunsAsDecided hold | 2,893,933 |
| `policy_cache` | 2 daemons, an app and the manager, 1 edit, 1 request, 1 failure | CacheLifeSound, DecisionsCurrent hold | 1,744,347 |
| `host` | 1 exec, 1 app with up to 4 mounts, 2 targets, a buffer of 3 lines, failing reads and unmounts, 1 request, 2 captures, 2 failing writes | HookSound, CleanupSound, GoneMeansUnhooked hold | 4,146,868 |
| `load_policy_early` | 1 injection with an early module | AllowancesTemporary **violated** | |
| `bootstrap_ready` | 1 daemon, 1 fault, a retry | ReadyDisarmsGuard **violated** | |

Several of these are conjunctions of properties that are defined and explained
one by one where they stand; each safety part has a mutant of its own.

| Conjunction | Parts |
|---|---|
| `HoldersSound` | `LTypeOK`, `SingleOwner`, `TimersSound`, `NoDuplicateModuleHolder` |
| `FullTableSafe` | `BaseKept`, `RefsBounded` |
| `ModulePinned` | `TypeOK`, `PinsExact`, `LeftAfterUnload` |
| `ChildTableSound` | `TypeOK`, `AnnouncedOnce`, `SlotsReclaimed` |
| `BrokerSound` | `TypeOK`, `FileRefsExact` |
| `RecordsTruthful` | `TypeOK`, `InjectedWasRedirected`, `ModuleHasBase`, `BaseUnique` |
| `ReportsSound` | `TypeOK`, `PositionsAgree`, `SyncedIsReported` |
| `UnmapsSafe` | `TypeOK`, `NothingCallsUnmappedCore`, `HandoffBeforeUnmap` |
| `RunsAsDecided` | `MountsAsDecided`, `SkippedRunsNothing`, `SchedulerAsAsked` |
| `CacheLifeSound` | `TypeOK`, `NoUseAfterFree`, `NoCacheLeaked`, `OwnerStable` |
| `DecisionsCurrent` | `StampMeansCurrent`, `KernelAgrees` |
| `HookSound` | `LsmTypeOK`, `HookAccounted`, `OriginalKept` |
| `CleanupSound` | `MountTypeOK`, `CleanupExact`, `CredsReturned`, `CredsLive` |

The violated runs are the findings of `PROJECT.json`: each states what a comment
or the README says and TLC shows how the code departs from it.

### Observations

Properties defined in the modules that no run lists, because the code departs
from them; adding one to the configuration of its module makes TLC print the
behaviour:

- `TeardownRestoresPolicy` (`LoadPolicy`): `yz_zygote_probe_exit` drains the
  module holders but not the native pending list, then the backend is dropped;
  timeouts that fire later can no longer take their permissions out.
- `OnlyAppUids` (`ZygoteOrch`): `zygote_orch.c:427` compares the full uid with
  10000 under the comment "app uids only", so a system uid of a secondary user
  is announced; `control.c` compares `uid % 100000`.
- `NoDoublePut` (`ZygoteCtl`): `yz_zygote_ctl_exit` walks the slots without the
  lock while a delivery puts the same files.
- `ReplacedSafely` (`ZygoteCtl`): `zygote_ctl.c:126` "replace a prior handoff for
  this pid" also replaces one whose work still waits, and 144-145 queue the
  callback_head that is queued already. When the first run of the work has emptied
  the slot and another target's handoff has taken it, the second run installs that
  target's files in the wrong process. No program of the repository calls
  `YZ_IOCTL_HANDOFF` yet.
- `SpecializedDropsCore` (`ZygiskCore`): if the fork of `ctx_fork_pre` fails, the
  platform's own fork goes through `new_fork` again; that child is specialized
  outside of the context and keeps the core, while `hook.cpp:152` says that every
  fully specialized app child drops it.
- `CompanionOwn` (`NativeLoader`): companions are kept by position
  (`zygiskd.cpp:889`, "indexed like g_modules"); after a rescan that moves the
  list a caller is connected to the companion of another module.

What the code does in corners that the properties of the runs except by name:

- behind its `module_put` (`bootstrap.c:217`) a bootstrap task_work still has a
  `kfree` and its return to run, in text that nothing keeps any more.
  `LeftAfterUnload` says that this is all that can be left of the bootstrap;
- a control session that was checked before the fail-close gets its fd after it
  (`control.c:580-606`). The fd refuses every ioctl, but it pins the module until its
  owner closes it. A daemon's fd is closed again by the task_work, because the claim
  is closed; `FailClosedFinal` says so for behaviours without a fault;
- between the write of the hook and the assignment of `hook->original`
  (`lsm.c:276-296`, `393-402`) an exec on another processor calls the replacement,
  which calls a NULL original (`zygote_probe.c:2375`; `crashed` in `LsmHook`).
  `OriginalKept` excepts that window of the first registration;
- `yz_host_override_creds` reads the captured credentials and takes a reference
  in two steps (`adapter.c:71-73`); a recapture in between frees them and the app
  goes on with freed credentials (`Freed`), while the comment at `adapter.c:87`
  argues from an order at start-up. `CredsLive` says that only a capture that was
  replaced or dropped since the read can be freed;
- a mount table longer than 256 KiB is cut and the cleanup returns 0
  (`mount.c:37`, `175-192`), so module mounts behind the cut stay. `CleanupExact`
  claims that none stays of tables that fit;
- a mount that somebody put on top of a module's mount is what a lookup of the
  path finds, so the cleanup detaches it in its place (`CleanupExact` excludes
  such tables);
- two saves of the root manager's file may have the same size and mtime
  (`root_policy.cpp:148-151`). A daemon that read the first takes the second for it and
  keeps its old decisions; `DecisionsCurrent` is not claimed from a save that kept a
  stamp some daemon had read (`blurred`) to the next that changes it;
- a failing or cut publication of the native targets and a scan that missed
  something are logged at most (`zygiskd.cpp:565-587`); nothing retries them and the
  daemon reports ready all the same. `AnnouncedIsSeen` and `ReadyMeansPrepared`
  except what the last rescan fell short of (`missed`);
- the kernel refuses to revert the mounts of uids below 10000 and may find no
  memory or no task (`mount.c:263-282`); the core logs it and goes on with the mounts
  in place. `MountsAsDecided` is about what is asked for, and that nobody is told more
  than the kernel did;
- a stale restore frees an entry of the native list before its publisher schedules
  the timeout (`stray`, see `LoadPolicy`); `HoldersSound` is claimed until then.

Seen while modelling, without a property:

- with two claimers and a failing delivery, the undo of one claim
  (`bootstrap.c`, `CLAIMING -> UNCLAIMED`) may take back the claim of the other,
  so `OneShot` is stated for behaviours without a fault;
- `src/kernel/README.md` speaks of a best-effort self-unload through
  `toybox rmmod`; `bootstrap.c` fails closed and waits for an external unload,
  and the model has no self-unload;
- the replacement of the hook and its task_works may still run when the module is
  unloaded; `synchronize_rcu` does not wait for them;
- several manifest lines of one module share a handle, a report and, by position, a
  companion: of the module, but perhaps of another of its lines;
- a daemon that accepts a connection and never answers blocks the loader, and with it
  the start of the process, for good: its reads have no timeout;
- a change in KernelSU's memory is not visible in the stamp of its list until it
  is saved, so answers from the cache are old in between.

**Bounds.** Each table is small enough to run full (2 rules, 2 slots, a ring
of 3 that holds 2 events, 2 records, 1 guard, 2 unmount targets, 3 lines of mountinfo,
1 native target) and there is one actor more than the table has room
for. Three holders are needed for a permission to be shared, given back by one
and taken by a third. Two claimers are the least for a race on the claim; the
guard and rmmod are the third and fourth party. Counters of attempts
(`InjectMax`, `ArmMax`, `FailMax`, `TryMax`, `FaultMax`, `ForkMax`,
`HandoffMax`, `LifeMax`, `BeginMax`, `EditMax`, `ReloadMax`, `SharedMax`,
`RequestMax`, `CallMax`, `ChangeMax`, `PatchFailMax`, `CaptureMax`) bound only how often the outside starts
something. Two daemons and one edit are enough for either cache to be the newer
one in the kernel; two modules for one to stay while the other is unloaded, and
for positions to swap; three mounts for one to cover, one to be covered and one to
stay, and a fourth for the table to be cut; two processes of a pid for a caller to
hold the first while the second has works; two failing writes for the second attempt to fail as well. In
`policy_cache` a request and a forced refresh share one bound, and the daemons
are symmetric. `host` runs the variant with static calls, which has the steps of the
other one and two more. The `records` run uses a view: generations are compared only with each
other, so states that differ in the gaps between them are explored once.
`CHECK_DEADLOCK FALSE` is used where a behaviour ends when these are
used up or the module is gone. In `native_loader` the constraint `Apart` of the MC module
keeps the native process from being followed beside an app, which share nothing but
the daemon, and lets edits, reloads and faults share a budget of two once it runs:
enough for a change and its reload, or for a fault beside one of them. In `fd_broker` the constraint
`ThirdLives` keeps the third pid for the handoff that may find no slot.

**Fairness.** Kernel threads, task_works and the workqueue run (weak fairness of
their steps); a delay elapses; nobody has to start an injection, issue an ioctl,
call prctl or unload. In `native_loader` the daemon's start and event loop and the
loader's threads run, which takes for granted that a daemon answers or dies; nobody has
to exec, edit or reload. `Bootstrap` has one strong fairness: the write lock of
`yz_control_sem` is granted although readers come and go, since an rwsem queues
readers behind a waiting writer.

## 4. Proofs

Each proof module states the inductive invariants at its head, proves that the
initial states satisfy them and every step keeps them, action by action, and
derives the properties. All of them hold for every value of the constants that
the named ASSUMEs of the module allow, so also for the full sizes of the code.

### Assumptions

- Sets that are counted are finite: keys and structs (`PolicyTemp`), daemons and
  clients (`Bootstrap`), pids (`ZygoteOrch`, `RuntimeRecords`), callers
  (`ZygoteCtl`), daemons and caches (`PolicyCache`), module directories and
  manifest lines (`Zygiskd`).
- "None" is none of the things: `NULL` is no cache, pid 0 no process, `NoHolder`
  no struct, `NoModule` no module, `None` no directory, line, handle or companion; tasks, callers and the places of a struct are
  distinct names, and so are the names of zygotes and of native targets.
- Limits of tables are positive where the code's are. `PolicyCache` has at least
least one daemon and more addresses than tasks; `ZygiskCore` at least one uid;
  `MountCleanup` the capture of `yz_host_init`.
- `RulesSuffice`, a rule for every key, is a hypothesis of the exactness theorems
  of the ledger only: without it `yz_policy_temp_add_locked` drops references,
  because the plan validates each key alone. `FullTableAlwaysSafe` needs no such
  hypothesis.
- Some properties, and with them their theorems, speak of a behaviour until
  something happened that the code has no answer to; history variables say so, and no
  assumption excludes it: the first fault (`HandedOverOnce`, `ReadyAlwaysDisarms`, one
  half of `FailClosedStaysClosed`), a work queued twice (`OnlyOwnFiles`, `twice`), a
  stamp that repeats (`DecisionsAlwaysCurrent`, `blurred`), an entry freed before its
  timeout was scheduled (`HoldersAlwaysSound`, `stray`), a list that moved
  (`ReportsAlwaysSound`, `moved`) and what a rescan missed (`AnnouncedNeverMissed`,
  `ReadyOnlyPrepared`, `missed`).
- `AllowancesReturned` has the hypothesis `EarlyMax = 0`: no early native modules.
  The run `load_policy_early` shows that it is needed.

### What is proved

**Ledger and its clients** (`PolicyTempProofs`). `LedgerTyped` (`TypeOK`),
`CountersExact` (`RefsExact`), `LivePolicyExact` (`PolicyExact`),
`PromisesAlwaysKept` (`PromisesKept`), `FullTableAlwaysSafe` (`FullTableSafe`),
`ClientsUseLedger` (`LoadPolicy` implements `PolicyTemp`), `HoldersAlwaysSound`
(`HoldersSound`), `ClientsKeepLedgerExact` and `AllowancesReturned`.

`RefsExact` alone is not inductive. Whether a restore may clear a permission
depends on the policy holding it because of the ledger (`PolicyExact`); that a
promise survives another holder's restore depends on the promised permission
being in the loaded policy, recorded by the holder itself or lost with its
struct, and in each case counted (`NeedCovered`); and a struct records nothing the
loaded policy has (`StateClean`). `LedgerInv` is the conjunction of these with
`TypeOK`. With a table that may be full, counters say less than the structs
record; `FullInv` keeps what is left: counters are bounded, and neither structs
nor counters touch the loaded policy. Every step of `LoadPolicy` is a step of
`PolicyTemp` or leaves it alone, so these results carry over to it. `ClientInv`
adds who may hold which struct at which step of an injection, ioctl or
timeout, and that a free struct records nothing; with exact counters it follows
that the policy is as loaded when all structs are free. `TasksSound` allows a restore
to take the entry of an injection at any step after it was linked; only if that
happens before its timeout is scheduled `ClientInv` is given up (`stray`), while the
ledger stays exact all the same.

**Bootstrap** (`LifecycleProofs`). `ModuleAlwaysPinned` (`ModulePinned`),
`HandedOverOnce` (`OneShot`), `ReadyAlwaysDisarms` (`ReadyDisarmsUnlessFault`),
`FailClosedStaysClosed` (`FailClosedFinal`). `PinInv` ties the reference count
to the places where a thread is pinned, from its session to the `module_put` and
from the reference of the file to its release, the fd of a client to its place, and
what is over to how far the exit is; that a session which passed the check before
the fail-close reaches no daemon after it follows from the claim, which is
closed by then. `BootInv` adds that a claim belongs to the
one daemon between its cmpxchg and the end of it, and that ready is final.

**Orchestrator** (`ZygoteOrchProofs`). `NothingRunsAfterExit` (`ExitQuiet`),
`NoLostWakeup` (`WorkerAwake`), `ChildTableAlwaysSound` (`ChildTableSound`), and
the refinement `RingIsQueue`: the ring of events, for any size, implements
`SpecializeQueue`. `OrchInv` relates the indices to the events between them and the
exit to what is over; `AwakeInv` adds that there is never work without the
queued flag; for the refinement every step is mapped to an enqueue, a dequeue,
a reset or a stutter by lemmas on index arithmetic modulo the ring size.

**Fd broker** (`ZygoteCtlProofs`). `BrokerAlwaysSound` (`BrokerSound`) and
`OnlyOwnFiles` (`DeliveredToTarget`). `BrokerInv` says what a slot and a thread
in the ioctl stand for in references, whatever replaces what. `DeliveryInv` is about
behaviours in which no work was queued twice: what waits in a slot was handed over for
the slot's pid, a process has at most one work, a pid at most one slot, and the slot of
a work is its own or was emptied by the teardown. A task that a caller still holds
after its pid passed on takes no work (`Queue`).

**Host layer** (`LifecycleProofs`). `HookAlwaysSound` (`HookSound`),
`TeardownUnhooks` (`GoneMeansUnhooked`) and `CleanupAlwaysSound` (`CleanupSound`).
`HookInv` says which function is in the list and in the static call at each step
of apply and remove; `StageInv` that a hook the teardown passed by has cost a
failing write each time; `CredInv` where in the cleanup a process runs with
captured credentials, and that freed ones are always of a capture that is no longer
the current one. `CleanupInv` is the argument for the order of the unmounts,
for tables of any length: every target that is left is still mounted
(`Cleaning`), so what a lookup of the last one meets lies at its line or later,
and what goes along with it lies later still; being on top of a module's mount it
is a module's too, and being no earlier target it is none that is still to come
(`DetachedIsTarget`). That the loop has a target to take, and the array room for
what it takes, needs a least element of a set of line numbers (`Least`), which
follows from the well-foundedness of the order on Nat (`NatLessThanWellFounded`,
`WFMin`).

**Daemon and native loader** (`NativeLoaderProofs`). `CompatNeverOrphaned`
(`NoOrphanCompat`), `AnnouncedNeverMissed` (`AnnouncedIsSeen`),
`ReportsAlwaysSound` (`ReportsSound`) and, as an action property,
`ReadyOnlyPrepared` (`ReadyMeansPrepared`), all from one invariant, `LoaderInv`:

- `StartInv`: what each stage of the start has left behind; there is no 32-bit
  daemon before its stage, at "ready" it serves if it is wanted, and the targets of
  the list are in the kernel unless their publication fell short.
- `ScanInv`: from the first scan on, not only once the daemon serves, lists and
  targets are those of the directory unless a change is unannounced, an event
  waits, or the scan fell short of them. The channel is bound before the scan, so an event that comes between
  them waits.
- `TableInv`: no app has a position and no companion runs before the daemon
  served, and entry i of a companion table is of module i until a list moves.
- `ThreadInv`: the main thread is past its own loop when the deferred thread
  runs, so they never share `idx` and `info`; what a pass looks up is loaded; and
  when the thread gives the policy back no early module is unreported.
- `PositionInv`: between the description, the image and the report of one line
  the position still means it (`At`), and the position kept in each handle a line of
  its module (`Holds`), as long as no list moved and the daemon lives; and a module
  that came early and was acknowledged is one the kernel was told of, whatever
  happened to the other answers.

A scan's list is a function onto what it found (`OrdersList`, `ManifestOrders`);
nothing needs its order.

**Policy cache** (`PolicyCacheProofs`). `CacheLifeAlwaysSound` (`CacheLifeSound`),
`DecisionsAlwaysCurrent` (`DecisionsCurrent`). `CacheInv`: every allocated cache is published or owned by
one task, and what a reader holds is published or owned by a task that waits for
this reader; allocation finds room because there are more addresses than tasks.
`CurrentInv`: a daemon that has the stamp of the file, or has read it for the
refresh it is at, has so far only decisions of the manager, as long as that stamp
stands for this file alone (`~blurred`). Between the parse and the last query a snapshot is only half made
(`Halfway`: entries are right, what is missing is still to be asked for); a cache
about to be published is the snapshot it was made from (`PublishOf`); and stamps
are never ahead of the file, so a save that changes the stamp makes all of them old
at once, and one that does not is seen by whoever read it (`blurred`). That is
why it does not matter which daemon publishes last.

**Runtime records and safe mode** (`RuntimeRecordsProofs`).
`RecordsAlwaysTruthful` (`RecordsTruthful`), `CrashLoopAlwaysStops`
(`CrashLoopStops`) and, as action properties, `GenerationAlwaysMoves`
(`GenerationMoves`) and `RecordAlwaysHeld` (`RecordHeld`). One critical section
changes the table several times, so `TableInv` is stated of any table and
generation and carried through each change. Its part `Untouched`, the record of an
injection under way is as `zp_runtime_begin` wrote it, is what keeps the end of an
injection from taking the base record of modules, and a late report from reaching
the record. `CrashInv` counts the pids of a name that got past safe mode against
the crashes of its guard, and says that a name without a guard never gets one
after that, since the table was full.

**Zygisk core** (`ZygiskCoreProofs`). `UnmapsAlwaysSafe` (`UnmapsSafe`),
`PlatformAlwaysKnowsFds` (`PlatformKnowsFds`), `PolicyAlwaysReturned`
(`PolicyOnlyWhileLoading`), `DecisionAlwaysOfOneMode` (`DecisionOfOneMode`),
`AlwaysRunsAsDecided` (`RunsAsDecided`). `CoreInv` adds to the properties which
context a process has at which point of the wrappers, that the window of modes
contains the one that was read, that reverting the mounts is asked for and module code
runs only in the places the code has for it, that an acknowledgement stands for a work
in the kernel, and that only a forked child has FIFO
scheduling.

### Only model-checked

Liveness (`EventuallyGivenBack`, `GuardResolves`, `ExitEnds`, `EventsDrain`,
`EveryStartEnds`): fairness and ENABLED are outside of the prover. Every other
property of the passing runs is a theorem.

## 5. State of the plan

All components with concurrent state are modelled, and every safety and action
property and the refinements of the runs are proved. What could follow:

1. the linker's list of loaded images, if a second thread ever changes it;
2. the observations of section 3, as runs of their own once the code answers
   them.

## 6. Not modelled

- `yukilinker.cpp`, `solist.cpp`: one thread maps and relocates one ELF image and
  finds fields in another linker's memory; there is no state two parties share.
  Whether a load succeeds is a choice in the models that use it.
- The avtab, type and class tables of `policy.c` beyond keys and permissions; the
  scan of kernel memory for KernelPatch's symbols; page tables and cache
  maintenance of `patch_text.c`; symbol lookup of `runtime.c`.
- ELF, auxv and stack data, JNI signatures, PLT and instruction patching.
- `log.cpp`, `yzctl`, JSON, the scripts, the web UI, vendored xz-embedded, build
  files: text, one-shot commands or presentation. What the kernel and the daemon
  see of them (a control session, a reload, a start) is in the models.
- A policy reload by init while allowances are out: the ledger is not told of it.
- Generation counters do not wrap. In `ZygoteOrch` a process is freed before its
  pid is used again. In `ZygoteCtl` a file is not named twice in one handoff, and a
  look-up that meets a task in its last RCU grace period is one that meets none. The log line of `zp_publish_native_policy_state` that reads
  the entry after publishing it, when another party may have freed it, is left out.
- What becomes of code of the kernel module that runs after the unload: in
  `Bootstrap` the end of a task_work, in `LsmHook` an exec inside the replacement
  just go on; likewise a process with freed credentials and a work in freed memory.
