----------------------------- MODULE NativeLoader -----------------------------
(***************************************************************************)
(* Native processes injected at exec time and the loader core that runs in *)
(* them (src/userspace/zygisk/core/src/yukizncore.cpp), as clients of      *)
(* Zygiskd.  The kernel side is the exec hook's choice of target           *)
(* (src/kernel/feature/zygote_probe.c): the table the daemon published, or *)
(* the early snapshot that a boot image left, which is read once.          *)
(*                                                                         *)
(* The loader asks for one thing per connection: count, description,       *)
(* image, report and companion are separate requests by list position, and *)
(* the daemon may rescan, start or die between any two of them.            *)
(***************************************************************************)
EXTENDS Zygiskd

CONSTANTS
    Proc,        \* processes that exec a native target
    Exe,         \* [Proc -> SUBSET targets]: its executable's name and path
    InitChild,   \* processes started by init, the only ones matched live
    Snapshot,    \* lines of the early snapshot file
    AttemptMax   \* kAttempts of the deferred sync

\* A ModuleHandle: the library loaded under the module id, its position.
Handle == [lib: Line, index: Nat, early: BOOLEAN, companion: BOOLEAN,
           reported: BOOLEAN]
NoIndex == 0   \* 0xffffffff of the code: no position of the list

ASSUME LoaderAssumption ==
    /\ Exe \in [Proc -> SUBSET { Target[l] : l \in Line }]
    /\ InitChild \subseteq Proc
    /\ Snapshot \subseteq Line
    /\ AttemptMax \in Nat
    /\ None \notin Handle

VARIABLES
    snapshot,  \* zp_load_early_native_locked: "unread", "disabled", "enabled"
    pc,        \* main thread of the loader core
    sync,      \* sync_early_native_reports_once and the deferred thread
    packet,    \* early libraries staged for the process
    count, idx,\* the loop over the daemon's list
    info,      \* line described by GetNativeModuleInfo, while it is dealt with
    handles,   \* g_loaded_modules: module id -> handle or None
    todo,      \* early handles the current pass has still to look up
    seek,      \* the one it looks up now
    attempts,  \* passes of the deferred thread
    apps,      \* <<module, position>> of zygisk images app processes hold
    reports,   \* <<process, module id>> the daemon reported to the kernel
    restores   \* processes whose load policy the daemon gave back

loaderVars == <<snapshot, pc, sync, packet, count, idx, info, handles, todo,
                seek, attempts, reports, restores>>
vars == <<zvars, loaderVars, apps>>

TypeOK ==
    /\ ZTypeOK
    /\ snapshot \in {"unread", "disabled", "enabled"}
    /\ pc \in [Proc -> {"none", "generation", "early", "count", "info", "fd",
                        "report", "sync", "restore", "done"}]
    /\ sync \in [Proc -> {"none", "look", "report", "try", "restore", "done",
                          "timedOut"}]
    /\ packet \in [Proc -> SUBSET Snapshot]
    /\ count \in [Proc -> Nat] /\ idx \in [Proc -> Nat]
    /\ info \in [Proc -> Line \cup {None}]
    /\ handles \in [Proc -> [Native -> Handle \cup {None}]]
    /\ todo \in [Proc -> SUBSET Native] /\ seek \in [Proc -> Native \cup {None}]
    /\ attempts \in [Proc -> 0..AttemptMax]
    /\ apps \subseteq Zygisk \X Nat
    /\ reports \subseteq Proc \X Native
    /\ restores \subseteq Proc

Init ==
    /\ ZInit
    /\ snapshot = "unread"
    /\ pc = [p \in Proc |-> "none"] /\ sync = [p \in Proc |-> "none"]
    /\ packet = [p \in Proc |-> {}]
    /\ count = [p \in Proc |-> 0] /\ idx = [p \in Proc |-> 0]
    /\ info = [p \in Proc |-> None] /\ seek = [p \in Proc |-> None]
    /\ handles = [p \in Proc |-> [m \in Native |-> None]]
    /\ todo = [p \in Proc |-> {}] /\ attempts = [p \in Proc |-> 0]
    /\ apps = {} /\ reports = {} /\ restores = {}

(***************************************************************************)
(* Kernel: the exec hook.                                                  *)
(***************************************************************************)
MatchLive(p) == p \in InitChild /\ targets \cap Exe[p] # {}

\* The snapshot is read at the first exec that asks for it: while the file is
\* not there yet it stays unread, after the retry window it is given up, and
\* what was read once is never read again.
zp_load_early_native ==
    IF snapshot = "unread" THEN {"unread", "disabled", "enabled"}
    ELSE {snapshot}

EarlyFor(p) == { l \in Snapshot : Target[l] \in Exe[p] }

\* my_bprm_committed_creds: a live target first; the early snapshot stages the
\* modules that match into the process.  Nothing happens without offsets of
\* the linker, which the snapshot brings along.
ExecHook(p) ==
    /\ pc[p] = "none"
    /\ \/ /\ MatchLive(p) /\ offsets
          /\ pc' = [pc EXCEPT ![p] = "generation"]
          /\ UNCHANGED <<snapshot, packet>>
       \/ /\ ~MatchLive(p)
          /\ snapshot' \in zp_load_early_native
          /\ IF snapshot' = "enabled" /\ EarlyFor(p) # {}
               THEN /\ pc' = [pc EXCEPT ![p] = "generation"]
                    /\ packet' = [packet EXCEPT ![p] = EarlyFor(p)]
               ELSE /\ pc' = [pc EXCEPT ![p] = "done"]
                    /\ UNCHANGED packet
    /\ UNCHANGED <<zvars, sync, count, idx, info, handles, todo, seek, attempts, apps,
                   reports, restores>>

(***************************************************************************)
(* core_start.                                                             *)
(***************************************************************************)
Go(p, to) == pc' = [pc EXCEPT ![p] = to]

\* request_runtime_generation: 0 when nobody answers or the kernel knows no
\* record of the process, and then asked for again before every report.
RequestGeneration(p) ==
    /\ pc[p] = "generation" /\ (Serving \/ Refused)
    /\ Go(p, "early")
    /\ UNCHANGED <<zvars, snapshot, sync, packet, count, idx, info, handles,
                   todo, seek, attempts, apps, reports, restores>>

EarlyHandle(l) == [lib |-> l, index |-> NoIndex, early |-> TRUE,
                   companion |-> FALSE, reported |-> FALSE]

\* load_early_modules: the first staged library of a module that loads, and
\* none if all of them fail.  An early handle knows no position and no
\* companion.
LoadEarly(p) ==
    /\ pc[p] = "early"
    /\ \E first \in [Native -> packet[p] \cup {None}] :
         /\ \A m \in Native : first[m] # None => first[m][1] = m
         /\ handles' = [handles EXCEPT ![p] =
              [m \in Native |-> IF first[m] # None /\ handles[p][m] = None
                               THEN EarlyHandle(first[m]) ELSE handles[p][m]]]
    /\ packet' = [packet EXCEPT ![p] = {}]
    /\ Go(p, "count")
    /\ UNCHANGED <<zvars, snapshot, sync, count, idx, info, todo, seek, attempts, apps,
                   reports, restores>>

\* load_matching_modules: the count; without an answer nothing is loaded.
RequestCount(p) ==
    /\ pc[p] = "count"
    /\ \/ /\ Serving /\ count' = [count EXCEPT ![p] = Len(gNative)]
          /\ idx' = [idx EXCEPT ![p] = 1]
          /\ Go(p, "info")
       \/ Refused /\ Go(p, "sync") /\ UNCHANGED <<count, idx>>
    /\ UNCHANGED <<zvars, snapshot, sync, packet, info, handles, todo, seek,
                   attempts, apps, reports, restores>>

\* GetNativeModuleInfo: a zeroed description for a position past the list.
Described(i) == IF i \in DOMAIN gNative THEN gNative[i] ELSE None

\* target_matches
Wanted(p) == { l \in Line : Target[l] \in Exe[p] }

NextIndex(p) == idx' = [idx EXCEPT ![p] = @ + 1]

\* count and idx are locals of the loops.
LoopEnds(p) == idx' = [idx EXCEPT ![p] = 0] /\ count' = [count EXCEPT ![p] = 0]

\* Position and companion flag of the handle of module m as line l gives them.
Located(p, m, l, i) ==
    handles' = [handles EXCEPT ![p][m].index = i,
                               ![p][m].companion = l \in WithCompanion]

\* One description: skip it, take over the handle of a module that is loaded
\* already (whichever of its lines that was), or go on to ask for its image.
\* The index and the companion flag of a handle are plain stores that a
\* module's thread may read half done; whatever it reads, ConnectNative below
\* gives it no companion.
RequestInfo(p) ==
    /\ pc[p] = "info"
    /\ \/ /\ idx[p] > count[p] /\ Go(p, "sync")
          /\ LoopEnds(p) /\ UNCHANGED <<info, handles>>
       \/ /\ idx[p] <= count[p] /\ Refused
          /\ NextIndex(p) /\ UNCHANGED <<count, pc, info, handles>>
       \/ /\ idx[p] <= count[p] /\ Serving /\ UNCHANGED count
          /\ LET l == Described(idx[p]) IN
             /\ \/ /\ l \notin Wanted(p)
                   /\ NextIndex(p) /\ UNCHANGED <<pc, info, handles>>
                \/ /\ l \in Wanted(p) /\ handles[p][l[1]] # None
                   /\ Located(p, l[1], l, idx[p])
                   /\ IF handles[p][l[1]].early /\ ~handles[p][l[1]].reported
                        THEN /\ info' = [info EXCEPT ![p] = l]
                             /\ Go(p, "report") /\ UNCHANGED idx
                        ELSE NextIndex(p) /\ UNCHANGED <<pc, info>>
                \/ /\ l \in Wanted(p) /\ handles[p][l[1]] = None
                   /\ info' = [info EXCEPT ![p] = l]
                   /\ Go(p, "fd") /\ UNCHANGED <<idx, handles>>
    /\ UNCHANGED <<zvars, snapshot, sync, packet, todo, seek, attempts, apps, reports,
                   restores>>

\* GetNativeModuleFd sends a sealed copy of the file now at the position.
Image(i) == IF i \in DOMAIN gNative THEN gNative[i] ELSE None

\* load_native_module_from_fd: a copy or a load that fails closes what it
\* opened and goes on.
LoadModule(p) ==
    /\ pc[p] = "fd"
    /\ \/ /\ Serving /\ Image(idx[p]) # None
          /\ handles' = [handles EXCEPT ![p][info[p][1]] =
               [lib |-> Image(idx[p]), index |-> idx[p], early |-> FALSE,
                companion |-> info[p] \in WithCompanion, reported |-> FALSE]]
          /\ Go(p, "report") /\ UNCHANGED <<idx, info>>
       \/ /\ Serving \/ Refused
          /\ info' = [info EXCEPT ![p] = None]
          /\ Go(p, "info") /\ NextIndex(p) /\ UNCHANGED handles
    /\ UNCHANGED <<zvars, snapshot, sync, packet, count, todo, seek,
                   attempts, apps, reports, restores>>

\* Mutant: positions are counted from the end of the list
Reported_Reversed(p, m, i) ==
    \/ /\ Serving /\ i \in DOMAIN gNative
       /\ reports' = reports \cup {<<p, gNative[Len(gNative) + 1 - i][1]>>}
       /\ handles' = [handles EXCEPT ![p][m].reported = TRUE]
    \/ (Serving \/ Refused) /\ UNCHANGED <<reports, handles>>

\* report_native_injection for the handle of module m: the daemon names the
\* module now at the position, and the answer is the kernel's.  The kernel is
\* not asked, or says no, when the generation is unknown or stale, the record
\* is gone or the position is past the list; and a daemon that dies before it
\* answers may have reported all the same.
Reported(p, m, i) ==
    \/ /\ Serving /\ i \in DOMAIN gNative
       /\ reports' = reports \cup {<<p, gNative[i][1]>>}
       /\ \/ handles' = [handles EXCEPT ![p][m].reported = TRUE]
          \/ UNCHANGED handles
    \/ (Serving \/ Refused) /\ UNCHANGED <<reports, handles>>

Report(p) ==
    /\ pc[p] = "report" /\ Reported(p, info[p][1], idx[p])
    /\ info' = [info EXCEPT ![p] = None]
    /\ Go(p, "info") /\ NextIndex(p)
    /\ UNCHANGED <<zvars, snapshot, sync, packet, count, todo, seek, attempts, apps,
                   restores>>

PendingEarly(p) ==
    { m \in Native : /\ handles[p][m] # None
                     /\ handles[p][m].early /\ ~handles[p][m].reported }

(***************************************************************************)
(* sync_early_native_reports_once: look every unreported early module up   *)
(* by its id, each from the first position on, and report it.  The main    *)
(* thread makes one pass and waits for it; what is left is the deferred    *)
(* thread's (deferred_native_sync_main), which tries up to kAttempts times *)
(* with a sleep in between and at last gives the policy back once more.    *)
(***************************************************************************)
GoS(p, to) == sync' = [sync EXCEPT ![p] = to]
Inline(p) == pc[p] = "sync"

\* After the main thread's pass a thread is created if anything is left, and
\* pthread_create may fail; after a pass of the thread it sleeps and retries.
PassEnds(p) ==
    IF Inline(p)
    THEN /\ Go(p, "restore")
         /\ IF PendingEarly(p) = {} THEN GoS(p, "none")
            ELSE GoS(p, "none") \/ GoS(p, "try")
    ELSE GoS(p, "try") /\ UNCHANGED pc

\* The count request that opens a pass.
PassBegins(p) ==
    \/ /\ Serving
       /\ count' = [count EXCEPT ![p] = Len(gNative)]
       /\ todo' = [todo EXCEPT ![p] = PendingEarly(p)]
       /\ GoS(p, "look") /\ UNCHANGED pc
    \/ Refused /\ PassEnds(p) /\ UNCHANGED <<count, todo>>

MaybeStartSync(p) ==
    /\ Inline(p) /\ sync[p] = "none"
    /\ IF PendingEarly(p) = {}
         THEN Go(p, "restore") /\ UNCHANGED <<sync, count, todo>>
         ELSE PassBegins(p)
    /\ UNCHANGED <<zvars, snapshot, packet, idx, info, handles, seek, attempts, apps,
                   reports, restores>>

\* Mutant: a pass that reached the daemon counts as complete
DeferredSync_OnePass(p) ==
    /\ sync[p] = "try"
    /\ \/ /\ PendingEarly(p) = {} \/ attempts[p] = AttemptMax
          /\ GoS(p, "restore") /\ UNCHANGED <<pc, count, todo, attempts>>
       \/ /\ PendingEarly(p) # {} /\ attempts[p] < AttemptMax
          /\ attempts' = [attempts EXCEPT ![p] = @ + 1]
          /\ PassBegins(p)
    /\ UNCHANGED <<zvars, snapshot, packet, idx, info, handles, seek, apps, reports,
                   restores>>

\* Mutant: the attempts are not counted
DeferredSync_Forever(p) ==
    /\ sync[p] = "try"
    /\ \/ /\ PendingEarly(p) = {} /\ GoS(p, "restore")
          /\ UNCHANGED <<pc, count, todo>>
       \/ PendingEarly(p) # {} /\ PassBegins(p)
    /\ UNCHANGED <<zvars, snapshot, packet, idx, info, handles, seek, attempts, apps,
                   reports, restores>>

DeferredSync(p) ==
    /\ sync[p] = "try"
    /\ \/ /\ PendingEarly(p) = {} /\ GoS(p, "restore")
          /\ UNCHANGED <<pc, count, todo, attempts>>
       \/ /\ PendingEarly(p) # {} /\ attempts[p] = AttemptMax
          /\ GoS(p, "timedOut") /\ UNCHANGED <<pc, count, todo, attempts>>
       \/ /\ PendingEarly(p) # {} /\ attempts[p] < AttemptMax
          /\ attempts' = [attempts EXCEPT ![p] = @ + 1]
          /\ PassBegins(p)
    /\ UNCHANGED <<zvars, snapshot, packet, idx, info, handles, seek, apps, reports,
                   restores>>

\* The module looked up is matched by its id alone, whatever the target of the
\* line; the next one starts again at the first position.
SyncLook(p) ==
    /\ sync[p] = "look"
    /\ \/ /\ seek[p] = None /\ todo[p] = {}
          /\ LoopEnds(p)
          /\ PassEnds(p) /\ UNCHANGED <<seek, todo, handles>>
       \/ /\ seek[p] = None
          /\ \E m \in todo[p] :
               /\ seek' = [seek EXCEPT ![p] = m]
               /\ todo' = [todo EXCEPT ![p] = @ \ {m}]
          /\ idx' = [idx EXCEPT ![p] = 1] /\ UNCHANGED <<count, pc, sync, handles>>
       \/ /\ seek[p] # None /\ idx[p] > count[p]
          /\ seek' = [seek EXCEPT ![p] = None]
          /\ UNCHANGED <<count, pc, sync, idx, todo, handles>>
       \/ /\ seek[p] # None /\ idx[p] <= count[p] /\ (Serving \/ Refused)
          /\ LET l == Described(idx[p]) IN
             IF Serving /\ l # None /\ l[1] = seek[p]
             THEN /\ Located(p, seek[p], l, idx[p])
                  /\ GoS(p, "report") /\ UNCHANGED idx
             ELSE NextIndex(p) /\ UNCHANGED <<sync, handles>>
          /\ UNCHANGED <<count, pc, seek, todo>>
    /\ UNCHANGED <<zvars, snapshot, packet, info, attempts, apps, reports, restores>>

SyncReport(p) ==
    /\ sync[p] = "report" /\ Reported(p, seek[p], idx[p])
    /\ GoS(p, "look") /\ seek' = [seek EXCEPT ![p] = None]
    /\ UNCHANGED <<zvars, snapshot, pc, packet, count, idx, info, todo, attempts,
                   apps, restores>>

\* The kernel may refuse, which nobody minds.
restore_native_load_policy(p) ==
    \/ Serving /\ restores' = restores \cup {p}
    \/ (Serving \/ Refused) /\ UNCHANGED restores

Restore(p) ==
    /\ pc[p] = "restore" /\ restore_native_load_policy(p) /\ Go(p, "done")
    /\ UNCHANGED <<zvars, snapshot, sync, packet, count, idx, info, handles, todo,
                   seek, attempts, apps, reports>>

DeferredRestore(p) ==
    /\ sync[p] = "restore" /\ restore_native_load_policy(p) /\ GoS(p, "done")
    /\ UNCHANGED <<zvars, snapshot, pc, packet, count, idx, info, handles, todo,
                   seek, attempts, apps, reports>>

(***************************************************************************)
(* Modules ask for their companions at any time after they were loaded.    *)
(***************************************************************************)
\* api_connect_companion: an early handle that is not synchronized is refused
\* without asking the daemon.
ConnectNative(p) ==
    /\ \E m \in Native :
         /\ handles[p][m] # None
         /\ ~handles[p][m].early \/ handles[p][m].companion
         /\ ConnectNativeCompanion(m, handles[p][m].index)
    /\ UNCHANGED <<loaderVars, apps>>

\* An app process fetches a zygisk image by position (load_modules_impl) and
\* later asks for its companion by the same position.
AppLoads ==
    /\ Serving
    /\ \E i \in DOMAIN gModules : apps' = apps \cup {<<gModules[i], i>>}
    /\ UNCHANGED <<zvars, loaderVars>>

AppConnects ==
    /\ \E a \in apps : ConnectCompanion(a[1], a[2])
    /\ UNCHANGED <<loaderVars, apps>>

Loader(p) ==
    \/ RequestGeneration(p) \/ LoadEarly(p) \/ RequestCount(p)
    \/ RequestInfo(p) \/ LoadModule(p) \/ Report(p) \/ MaybeStartSync(p)
    \/ DeferredSync(p) \/ SyncLook(p) \/ SyncReport(p) \/ Restore(p)
    \/ DeferredRestore(p)

Daemon == ZNext /\ UNCHANGED <<loaderVars, apps>>

Next ==
    \/ Daemon
    \/ \E p \in Proc : ExecHook(p) \/ Loader(p) \/ ConnectNative(p)
    \/ AppLoads \/ AppConnects

Spec == Init /\ [][Next]_vars

\* The daemon and the loader threads are scheduled; edits, reloads, execs,
\* crashes and the calls of modules need not happen.
FairSpec ==
    /\ Spec
    /\ WF_vars(Start /\ UNCHANGED <<loaderVars, apps>>)
    /\ WF_vars(nl_drain /\ UNCHANGED <<loaderVars, apps>>)
    /\ \A p \in Proc : WF_vars(Loader(p))

(***************************************************************************)
(* Properties.                                                             *)
(***************************************************************************)

\* When the kernel is told that the daemon is ready (which disarms the
\* bootstrap guard), everything an exec needs is in place: the runtime policy,
\* the linker offsets, a 32-bit daemon that serves if one is wanted, and every
\* native target of the scan, unless its publication failed or was cut
\* (publish_native_targets), which the start of the daemon does not mind.
ReadyMeansPrepared ==
    [][ ready' /\ ~ready =>
          /\ prepared /\ offsets /\ phase \in Bound
          /\ needs_compat_daemon => compat = "serving"
          /\ "targets" \notin missed =>
               \A i \in DOMAIN gNative : Target[gNative[i]] \in targets ]_vars

\* The 32-bit daemon never runs without its parent, whenever the parent dies
\* or gives up its start (PR_SET_PDEATHSIG against the fork that came first).
NoOrphanCompat ==
    phase = "dead" => compat \notin {"exec", "serving"}

\* A directory change that was announced is not missed, whenever the reload
\* falls into the daemon's start: once no event waits, the lists and the
\* kernel's targets are those of the directory, but for what the last rescan
\* itself could not read or publish (which nobody makes up for).
AnnouncedIsSeen ==
    Serving /\ events = 0 /\ ~dirty =>
      /\ "modules" \notin missed =>
           { gModules[i] : i \in DOMAIN gModules } = disk \cap Zygisk
      /\ "native" \notin missed =>
           { gNative[i] : i \in DOMAIN gNative } = native_modules \ Compat
      /\ missed \cap {"native", "targets"} = {} =>
           targets = { Target[l] : l \in native_modules }

\* Under one position of the list the requests of one load, of its report and
\* of its companion all mean the same module, as long as no rescan moved the
\* list: the library loaded is one of that module and matches the process,
\* what is reported is loaded there, and a companion is one of the caller's
\* module.  (Of several lines of one module it may be another line's.)
PositionsAgree ==
    ~moved =>
      /\ \A p \in Proc : \A m \in Native :
           handles[p][m] # None =>
             /\ handles[p][m].lib[1] = m /\ handles[p][m].lib \in Wanted(p)
             /\ Serving /\ handles[p][m].index # NoIndex =>
                  gNative[handles[p][m].index][1] = m
      /\ \A r \in reports : handles[r[1]][r[2]] # None
      /\ \A c \in connected : c[1] = c[2]
      /\ \A c \in nativeConnected : c[1] = c[2][1]

\* "indexed like g_modules" (zygiskd.cpp): a caller is only ever connected to
\* a companion that runs its own module.
CompanionOwn ==
    /\ \A c \in connected : c[1] = c[2]
    /\ \A c \in nativeConnected : c[1] = c[2][1]

\* An early module is reported once the daemon lists it, or the deferred
\* thread ran out of attempts, was never created or the daemon went away; in
\* any case every injected process gets through its start.
EveryStartEnds ==
    \A p \in Proc :
      pc[p] = "generation" ~>
        /\ pc[p] = "done"
        /\ sync[p] \in {"none", "done", "timedOut"}

\* A module that came early and is listed now is not left unreported by a
\* pass that found the daemon serving throughout.
SyncedIsReported ==
    \A p \in Proc :
      sync[p] \in {"restore", "done"} =>
        \A m \in Native : handles[p][m] # None /\ handles[p][m].early =>
          /\ handles[p][m].reported
          /\ ~moved => <<p, m>> \in reports

\* What the loader asks for, loads and reports by position is one module
\* (load_matching_modules), and an early module whose deferred thread ended
\* without a timeout was reported (sync_early_native_reports_once).
ReportsSound == TypeOK /\ PositionsAgree /\ SyncedIsReported
=============================================================================
