------------------------------- MODULE Zygiskd -------------------------------
(***************************************************************************)
(* The 64-bit daemon of src/userspace/zygisk/daemon/zygiskd.cpp: its start *)
(* (run_daemon), the 32-bit daemon it spawns, the reload events it drains, *)
(* the module lists it scans and the companion processes it keeps.  The    *)
(* serving loop handles one client request at a time, so a request is one  *)
(* step; a client waits in the socket's backlog while the daemon starts,   *)
(* and is refused once the socket is gone.                                 *)
(*                                                                         *)
(* A module directory stands for its zygisk image and the companion of     *)
(* that; a line of its zn_modules.txt stands for the native library it     *)
(* names, with its target and its companion.  What directories and lines   *)
(* offer is given by the constants.                                        *)
(***************************************************************************)
EXTENDS Naturals, Sequences, FiniteSets

CONSTANTS
    Dir,          \* module directories that may be enabled
    Zygisk,       \* those with a zygisk image for this ABI
    Line,         \* valid manifest lines, <<directory, place in its manifest>>
    Target,       \* [Line -> the name or path of executables it matches]
    TargetMax,    \* YZ_NATIVE_TARGET_MAX
    Compat,       \* lines whose library is 32-bit
    WithCompanion,\* lines that ask for a companion
    FirstDisk,    \* sets of directories enabled at boot
    Integrated,   \* built-in kernel: no bootstrap guard to be told
    Zygote32,     \* ro.zygote names a 32-bit zygote
    EditMax,      \* changes of the module directory
    ReloadMax,    \* reload ioctls
    FaultMax,     \* reload events lost, scans and publications that failed
    None

\* The module ids with native libraries: directory names.
Native == { l[1] : l \in Line }

\* An entry of a companion table, of a zygisk or a native module.
Companion == [mod: Dir \cup Line, entry: BOOLEAN]

ASSUME ZygiskdAssumption ==
    /\ Zygisk \subseteq Dir /\ Line \subseteq Dir \X (Nat \ {0})
    /\ DOMAIN Target = Line /\ TargetMax \in Nat
    /\ Compat \subseteq Line /\ WithCompanion \subseteq Line
    /\ FirstDisk \subseteq SUBSET Dir
    /\ Integrated \in BOOLEAN /\ Zygote32 \in BOOLEAN
    /\ EditMax \in Nat /\ ReloadMax \in Nat /\ FaultMax \in Nat
    /\ IsFiniteSet(Dir) /\ IsFiniteSet(Line)
    /\ None \notin Dir /\ None \notin Line /\ None \notin Companion

VARIABLES
    disk,      \* enabled module directories
    dirty,     \* disk changed and no reload signalled since
    edits, reloads, faults,
    phase,     \* where run_daemon is
    events,    \* reload events waiting on the netlink socket
    prepared,  \* kernel: runtime SELinux policy prepared
    targets,   \* kernel: the native targets it matches
    offsets,   \* kernel: linker offsets known
    ready,     \* kernel: DAEMON_READY accepted
    told,      \* the byte written to the ready fd
    compat,    \* the 32-bit daemon process
    gModules, gTargets, gNative,  \* g_modules, g_native_targets, g_native_modules
    gCompanions, gNativeCompanions,
    missed,    \* history: what the last rescan fell short of
    moved,     \* history: a rescan changed a list after the first scan
    connected, nativeConnected  \* <<calling module, companion it talks to>>

kernelVars == <<prepared, targets, offsets, ready>>
diskVars == <<disk, dirty, edits, reloads, faults>>
listVars == <<gModules, gTargets, gNative, missed, moved>>
companionVars == <<gCompanions, gNativeCompanions, connected, nativeConnected>>
startVars == <<phase, told>>
zvars == <<diskVars, startVars, events, kernelVars, compat, listVars,
           companionVars>>

StartOrder == <<"bind", "claim", "prepare", "listen", "root", "scan",
                "offsets", "compat", "wait", "ready">>
Starting == { StartOrder[i] : i \in DOMAIN StartOrder }
Bound == (Starting \ {"bind"}) \cup {"serve"}
Serving == phase = "serve"
Refused == phase \notin Bound
Listening == phase \in {"root", "scan", "offsets", "compat", "wait", "ready",
                        "serve"}

ZTypeOK ==
    /\ disk \subseteq Dir /\ dirty \in BOOLEAN
    /\ edits \in 0..EditMax /\ reloads \in 0..ReloadMax
    /\ faults \in 0..FaultMax
    /\ phase \in Starting \cup {"serve", "dead"}
    /\ events \in 0..ReloadMax
    /\ prepared \in BOOLEAN /\ offsets \in BOOLEAN /\ ready \in BOOLEAN
    /\ targets \subseteq { Target[l] : l \in Line }
    /\ told \in {"none", "1", "0"}
    /\ compat \in {"none", "forked", "armed", "exec", "serving", "gone"}
    /\ gModules \in Seq(Zygisk) /\ gTargets \in Seq(Line)
    /\ gNative \in Seq(Line \ Compat)
    /\ missed \subseteq {"modules", "native", "targets"}
    /\ gCompanions \in Seq(Companion \cup {None})
    /\ gNativeCompanions \in Seq(Companion \cup {None})
    /\ moved \in BOOLEAN
    /\ connected \subseteq Dir \X (Dir \cup Line)
    /\ nativeConnected \subseteq Dir \X (Dir \cup Line)

ZInit ==
    /\ disk \in FirstDisk /\ dirty = FALSE
    /\ edits = 0 /\ reloads = 0 /\ faults = 0
    /\ phase = "bind" /\ told = "none"
    /\ events = 0
    /\ prepared = FALSE /\ targets = {} /\ offsets = FALSE /\ ready = FALSE
    /\ compat = "none"
    /\ gModules = << >> /\ gTargets = << >> /\ gNative = << >>
    /\ missed = {} /\ moved = FALSE
    /\ gCompanions = << >> /\ gNativeCompanions = << >>
    /\ connected = {} /\ nativeConnected = {}

(***************************************************************************)
(* Module lists.  readdir promises no order, so a scan may return what it  *)
(* finds in any; the lines of one manifest stay together and in order.     *)
(***************************************************************************)
Orders(S) == { s \in [1..Cardinality(S) -> S] :
                 \A d \in S : \E i \in DOMAIN s : s[i] = d }

ManifestOrders(S) ==
    { s \in Orders(S) :
        \A i, k \in DOMAIN s : i < k /\ s[i][1] = s[k][1] =>
          /\ s[i][2] < s[k][2]
          /\ \A j \in i..k : s[j][1] = s[i][1] }

\* What is there to be found: directories neither disabled nor removed that
\* hold a library for this ABI, and the lines of their manifests.
zygisk_modules == disk \cap Zygisk
native_modules == { l \in Line : l[1] \in disk }

\* A directory that cannot be opened gives an empty list, and a failing
\* readdir, access, read or open of a library leaves out what it was about;
\* the scan does not say so.  Each scan reads the directory itself.
scan_modules == SUBSET zygisk_modules
scan_native_modules == SUBSET native_modules

\* native_module_elf_class: the lines of s whose library this daemon can serve
\* itself, in the order of s.
OfThisClass(s) ==
    { n \in Orders({ s[i] : i \in DOMAIN s } \ Compat) :
        \A i, j \in DOMAIN n : i < j =>
          \E k, l \in DOMAIN s : k < l /\ s[k] = n[i] /\ s[l] = n[j] }

\* The targets of the command: each once, and no further line is looked at
\* when YZ_NATIVE_TARGET_MAX are found.
Published(s) ==
    { Target[s[i]] : i \in { k \in DOMAIN s :
        Cardinality({ Target[s[j]] : j \in 1..(k - 1) }) < TargetMax } }

\* Mutant: the kernel keeps the targets it has
publish_native_targets_Once(s, ok) ==
    targets' = IF phase = "serve" \/ ~ok THEN targets ELSE Published(s)

\* An ioctl that fails is logged and nothing else: the kernel keeps what it has.
publish_native_targets(s, ok) ==
    targets' = IF ok THEN Published(s) ELSE targets

\* rescan_modules: replace the lists and publish every target, those of 32-bit
\* libraries included; the companion tables are left alone.
rescan_modules ==
    \E M \in scan_modules, S \in scan_native_modules, ok \in BOOLEAN :
      /\ IF M = zygisk_modules /\ S = native_modules /\ ok
           THEN UNCHANGED faults
           ELSE faults < FaultMax /\ faults' = faults + 1
      /\ gModules' \in Orders(M)
      /\ gTargets' \in ManifestOrders(S)
      /\ gNative' \in OfThisClass(gTargets')
      /\ publish_native_targets(gTargets', ok)
      /\ missed' = { w \in {"modules", "native", "targets"} :
                       \/ w = "modules" /\ M # zygisk_modules
                       \/ w = "native" /\ S # native_modules
                       \/ /\ w = "targets"
                          /\ ~ok \/ Published(gTargets') # { Target[l] : l \in S } }
      /\ moved' = (moved \/ ( /\ phase = "serve"
                              /\ <<gModules', gNative'>> # <<gModules, gNative>> ))

(***************************************************************************)
(* Start.  Every stage may fail: the daemon then closes its sockets,       *)
(* writes '0' to the ready fd and exits.                                   *)
(***************************************************************************)
\* What ends with the process: its sockets, its lists, and its companions,
\* whose recv_fd then fails.
ProcessGone ==
    /\ phase' = "dead" /\ events' = 0
    /\ gModules' = << >> /\ gTargets' = << >> /\ gNative' = << >>
    /\ missed' = {}
    /\ gCompanions' = << >> /\ gNativeCompanions' = << >>
    /\ UNCHANGED <<moved, connected, nativeConnected>>

StartFails(stage) ==
    /\ phase = stage /\ ProcessGone /\ told' = "0"
    /\ UNCHANGED <<diskVars, kernelVars>>

Stage(from, to) == phase = from /\ phase' = to /\ UNCHANGED told

bind_listen ==
    \/ /\ Stage("bind", "claim")
       /\ UNCHANGED <<diskVars, events, kernelVars, compat,
                      listVars, companionVars>>
    \/ StartFails("bind") /\ UNCHANGED compat

claim_control_fd ==
    \/ /\ Stage("claim", "prepare")
       /\ UNCHANGED <<diskVars, events, kernelVars, compat, listVars,
                      companionVars>>
    \/ StartFails("claim") /\ UNCHANGED compat

PreparePolicy ==
    \/ /\ Stage("prepare", "listen") /\ prepared' = TRUE
       /\ UNCHANGED <<diskVars, events, targets, offsets, ready,
                      compat, listVars, companionVars>>
    \/ StartFails("prepare") /\ UNCHANGED compat

nl_listen ==
    \/ /\ Stage("listen", "root")
       /\ UNCHANGED <<diskVars, events, kernelVars, compat,
                      listVars, companionVars>>
    \/ StartFails("listen") /\ UNCHANGED compat

RootPolicySetup ==
    \/ /\ Stage("root", "scan")
       /\ UNCHANGED <<diskVars, events, kernelVars, compat,
                      listVars, companionVars>>
    \/ StartFails("root") /\ UNCHANGED compat

FirstScan ==
    /\ Stage("scan", "offsets") /\ rescan_modules
    /\ UNCHANGED <<disk, dirty, edits, reloads, events, prepared, offsets, ready,
                   compat, companionVars>>

send_dlopen_offset ==
    \/ /\ Stage("offsets", "compat") /\ offsets' = TRUE
       /\ UNCHANGED <<diskVars, events, prepared, targets, ready,
                      compat, listVars, companionVars>>
    \/ StartFails("offsets") /\ UNCHANGED compat

\* g_native_targets of the first scan.
needs_compat_daemon ==
    Zygote32 \/ \E i \in DOMAIN gTargets : gTargets[i] \in Compat

\* spawn_compat_daemon, up to the fork.
spawn_compat_daemon ==
    \/ /\ ~needs_compat_daemon /\ Stage("compat", "ready")
       /\ UNCHANGED <<diskVars, events, kernelVars, compat,
                      listVars, companionVars>>
    \/ /\ needs_compat_daemon /\ Stage("compat", "wait") /\ compat' = "forked"
       /\ UNCHANGED <<diskVars, events, kernelVars, listVars,
                      companionVars>>
    \/ needs_compat_daemon /\ StartFails("compat") /\ UNCHANGED compat

\* The parent's poll of the ready pipe: the byte '1', or the timeout, a
\* failure or the end of the child, after which the child is killed and reaped.
CompatWait ==
    \/ /\ compat = "serving" /\ Stage("wait", "ready")
       /\ UNCHANGED <<diskVars, events, kernelVars, compat,
                      listVars, companionVars>>
    \/ StartFails("wait") /\ compat' = "gone"

\* Mutant: readiness is reported as soon as the 32-bit daemon is forked
DaemonReady_Early ==
    /\ phase \in {"ready", "wait"} /\ phase' = "serve" /\ told' = "1"
    /\ ready' = ~Integrated
    /\ UNCHANGED <<diskVars, events, prepared, targets, offsets, compat,
                   listVars, companionVars>>

\* DAEMON_READY, only where a bootstrap guard waits for it; then notify_ready.
DaemonReady ==
    \/ /\ phase = "ready" /\ phase' = "serve" /\ told' = "1"
       /\ ready' = ~Integrated
       /\ UNCHANGED <<diskVars, events, prepared, targets, offsets,
                      compat, listVars, companionVars>>
    \/ /\ ~Integrated /\ StartFails("ready")
       /\ compat' = IF compat = "none" THEN "none" ELSE "gone"

\* The serving loop ends on a channel error, or the daemon is killed at any
\* moment.  The kernel closes its fds and sends the parent-death signal to a
\* child that has asked for it.
DaemonDies ==
    /\ phase # "dead" /\ ProcessGone
    /\ compat' = IF compat \in {"armed", "exec", "serving"} THEN "gone"
                 ELSE compat
    /\ UNCHANGED <<diskVars, told, kernelVars>>

(***************************************************************************)
(* The 32-bit daemon between its fork and its own serving loop.            *)
(***************************************************************************)
CompatUnchanged == UNCHANGED <<diskVars, startVars, events, kernelVars,
                               listVars, companionVars>>

CompatArm ==
    compat = "forked" /\ compat' \in {"armed", "gone"} /\ CompatUnchanged

\* Mutant: the child does not look whether its parent is still there
CompatCheckParent_Blind ==
    compat = "armed" /\ compat' = "exec" /\ CompatUnchanged

\* getppid() == 1 tells a child whose parent died before the signal was asked
\* for; otherwise it execs zygiskd32.
CompatCheckParent ==
    /\ compat = "armed"
    /\ compat' = IF phase = "dead" THEN "gone" ELSE "exec"
    /\ CompatUnchanged

CompatServe ==
    compat = "exec" /\ compat' \in {"serving", "gone"} /\ CompatUnchanged

(***************************************************************************)
(* The module directory and the reload ioctl.                              *)
(***************************************************************************)
\* Edits and reloads that no daemon is there to see are left out.
EditDisk ==
    /\ phase # "dead"
    /\ edits < EditMax /\ edits' = edits + 1
    /\ \E S \in SUBSET Dir \ {disk} : disk' = S
    /\ dirty' = TRUE
    /\ UNCHANGED <<reloads, faults, startVars, events, kernelVars, compat,
                   listVars, companionVars>>

\* A multicast event reaches the daemon if its socket is bound and the kernel
\* has memory; otherwise nobody ever learns of it.
Reload ==
    /\ phase # "dead"
    /\ reloads < ReloadMax /\ reloads' = reloads + 1
    /\ \/ /\ dirty' = FALSE /\ UNCHANGED faults
          /\ events' = IF Listening THEN events + 1 ELSE events
       \/ /\ faults < FaultMax /\ faults' = faults + 1 /\ UNCHANGED <<dirty, events>>
    /\ UNCHANGED <<disk, edits, startVars, kernelVars, compat, listVars,
                   companionVars>>

\* Mutant: an event is taken off the socket twice
nl_drain_Twice ==
    /\ Serving /\ events > 0 /\ events' = events - 2
    /\ rescan_modules
    /\ UNCHANGED <<disk, dirty, edits, reloads, startVars, prepared, offsets, ready, compat,
                   companionVars>>

nl_drain ==
    /\ Serving /\ events > 0 /\ events' = events - 1
    /\ rescan_modules
    /\ UNCHANGED <<disk, dirty, edits, reloads, startVars, prepared, offsets, ready, compat,
                   companionVars>>

(***************************************************************************)
(* Companions, lazily spawned and kept in a table by list position.        *)
(***************************************************************************)
Resized(table, list) ==
    IF Len(table) = Len(list) THEN table
    ELSE [i \in 1..Len(list) |-> IF i <= Len(table) THEN table[i] ELSE None]

\* Mutant: an entry is kept at the first free place
Ensured_Packed(table, list, i) ==
    LET t == Resized(table, list)
        free == CHOOSE j \in DOMAIN t : t[j] = None /\ \A k \in 1..(j - 1) : t[k] # None
    IN  IF t[i] # None THEN {t}
        ELSE {t} \cup { [t EXCEPT ![free] = [mod |-> list[i], entry |-> e]] :
                      e \in BOOLEAN }

\* The tables an ensure step may leave: the entry found, or a fork whose
\* process answers in time (with or without an entry point), or an empty
\* entry after a failed fork or the startup timeout.
Ensured(table, list, i) ==
    LET t == Resized(table, list)
    IN  IF t[i] # None THEN {t}
        ELSE {t} \cup { [t EXCEPT ![i] = [mod |-> list[i], entry |-> e]] :
                      e \in BOOLEAN }

ensure_companion(i) == Ensured(gCompanions, gModules, i)
ensure_native_companion(i) == Ensured(gNativeCompanions, gNative, i)

\* The client end of the socket pair is sent only if the companion took the
\* other end.  A companion that crashed keeps its entry, so that the request
\* gets -1 like one for which no socket pair could be made.
Linked(pairs, table, i, caller) ==
    IF table[i] # None /\ table[i].entry
    THEN {pairs, pairs \cup {<<caller, table[i].mod>>}}
    ELSE {pairs}

ConnectCompanion(caller, i) ==
    /\ Serving
    /\ IF i \in DOMAIN gModules
         THEN \E t \in ensure_companion(i) :
                /\ gCompanions' = t
                /\ connected' \in Linked(connected, t, i, caller)
         ELSE UNCHANGED <<gCompanions, connected>>
    /\ UNCHANGED <<diskVars, startVars, events, kernelVars, compat, listVars,
                   gNativeCompanions, nativeConnected>>

ConnectNativeCompanion(caller, i) ==
    /\ Serving
    /\ IF i \in DOMAIN gNative /\ gNative[i] \in WithCompanion
         THEN \E t \in ensure_native_companion(i) :
                /\ gNativeCompanions' = t
                /\ nativeConnected' \in Linked(nativeConnected, t, i, caller)
         ELSE UNCHANGED <<gNativeCompanions, nativeConnected>>
    /\ UNCHANGED <<diskVars, startVars, events, kernelVars, compat, listVars,
                   gCompanions, connected>>

Start ==
    \/ bind_listen \/ claim_control_fd \/ PreparePolicy \/ nl_listen
    \/ RootPolicySetup \/ FirstScan \/ send_dlopen_offset
    \/ spawn_compat_daemon \/ CompatWait \/ DaemonReady

CompatStep == CompatArm \/ CompatCheckParent \/ CompatServe

ZNext ==
    \/ Start \/ CompatStep \/ DaemonDies \/ EditDisk \/ Reload \/ nl_drain
=============================================================================
