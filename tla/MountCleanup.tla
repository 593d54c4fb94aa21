---------------------------- MODULE MountCleanup ----------------------------
(***************************************************************************)
(* Detaching module mounts from an app (src/kernel/host/mount.c): the      *)
(* ioctl queues a task work, the work reads the mount table of its process *)
(* and unmounts with the privileged credentials of                         *)
(* src/kernel/host/adapter.c, which every new control fd replaces.         *)
(*                                                                         *)
(* A mount is its line in mountinfo, which is in the order of mounting:    *)
(* its number there, the place it is at and whether yz_mount_is_module     *)
(* takes it for one of a module.  Requests for a uid that is no app's are  *)
(* refused and left out.                                                   *)
(***************************************************************************)
EXTENDS Naturals, FiniteSets

CONSTANTS
    App,         \* app processes
    Place,       \* mount points
    Below,       \* pairs <<p, q>>: p is a directory under q
    MountMax,    \* bound: mounts of a process
    TargetMax,   \* YZ_UMOUNT_MAX_TARGETS
    LinesRead,   \* whole lines that fit into YZ_MOUNTINFO_BUF
    RequestMax,  \* bound: requests for cleanup
    CaptureMax   \* bound: captured credentials, the first of yz_host_init among them

ASSUME MountConstants ==
    /\ {MountMax, TargetMax, LinesRead, RequestMax, CaptureMax} \subseteq Nat
    /\ CaptureMax >= 1
    /\ Below \subseteq Place \X Place

NoCred == 0                    \* yz_priv_cred = NULL; captures are 1, 2, ...
Own == CaptureMax + 1          \* the credentials of the process itself
Freed == CaptureMax + 2        \* a capture taken after its last reference was put

VARIABLES
    mounts, before,      \* mount tables, and as they were when the work began
    life,                \* run, exiting (PF_EXITING), dead
    queued,              \* task works queued and not yet run
    step, targets,       \* inside the work: its step and the targets left
    clean,               \* nothing failed: the table was read, the umounts worked
    ptr,                \* process -> yz_priv_cred as yz_host_override_creds read it
    cred,                \* process -> Own, Freed or the capture it runs with
    priv, captures,      \* yz_priv_cred, captures made
    requests

credVars == <<ptr, cred>>
mountVars == <<mounts, before, life, queued, step, targets, clean, credVars, priv,
               captures, requests>>

Mount == [line: 1..MountMax, at: Place, module: BOOLEAN]

\* Mount tables: one mount a line.
Table == { T \in SUBSET Mount : \A m, n \in T : m.line = n.line => m = n }

MountTypeOK ==
    /\ mounts \in [App -> Table] /\ before \in [App -> Table]
    /\ life \in [App -> {"run", "exiting", "dead"}]
    /\ queued \in [App -> 0..RequestMax]
    /\ step \in [App -> {"user", "open", "take", "scan", "detach"}]
    /\ clean \in [App -> BOOLEAN]
    /\ targets \in [App -> {T \in Table : Cardinality(T) <= TargetMax}]
    /\ ptr \in [App -> 0..CaptureMax] /\ cred \in [App -> 0..Freed]
    /\ priv \in 0..CaptureMax /\ captures \in 0..CaptureMax
    /\ requests \in 0..RequestMax

MountInit ==
    /\ mounts \in [App -> Table] /\ before = mounts
    /\ life = [t \in App |-> "run"] /\ queued = [t \in App |-> 0]
    /\ step = [t \in App |-> "user"] /\ targets = [t \in App |-> {}]
    /\ clean = [t \in App |-> FALSE]
    /\ ptr = [t \in App |-> NoCred] /\ cred = [t \in App |-> Own]
    /\ priv = 1 /\ captures = 1
    /\ requests = 0

-----------------------------------------------------------------------------
(* The credentials.                                                        *)

\* yz_host_recapture_priv_cred, when a control fd is installed: xchg, and the
\* reference of the pointer is put.  The old capture lives on in the works that
\* run with it; without one its memory is freed.
yz_host_recapture_priv_cred ==
    /\ captures < CaptureMax /\ captures' = captures + 1 /\ priv' = captures + 1
    /\ UNCHANGED <<mounts, before, life, queued, step, targets, clean, credVars, requests>>

\* yz_host_exit
DropCred ==
    /\ priv' = NoCred
    /\ UNCHANGED <<mounts, before, life, queued, step, targets, clean, credVars, captures,
                   requests>>

\* A capture is referenced by the pointer and by the processes that run with it.
Referenced(c) == priv = c \/ \E t \in App : cred[t] = c

\* yz_host_override_creds reads the pointer and then takes a reference on what
\* it read, without a lock; without a capture the work goes on with its own.
ReadPriv(t) == ptr' = [ptr EXCEPT ![t] = priv]
yz_host_override_creds(t) ==
    cred' = [cred EXCEPT ![t] = IF Referenced(ptr[t]) THEN ptr[t] ELSE Freed]

\* Mutant: the return for a table that could not be read forgets the credentials
yz_host_revert_creds_Read(t) == cred' = [cred EXCEPT ![t] = IF clean[t] THEN Own ELSE @]

yz_host_revert_creds(t) == cred' = [cred EXCEPT ![t] = Own]

-----------------------------------------------------------------------------
(* The request and the work.                                               *)

\* yz_host_umount_pid: an exiting process takes no work.  The answer says that
\* the cleanup is queued, not that it is done.
yz_host_umount_pid(t) ==
    /\ requests < RequestMax /\ requests' = requests + 1
    /\ queued' = [queued EXCEPT ![t] = IF life[t] = "run" THEN @ + 1 ELSE @]
    /\ UNCHANGED <<mounts, before, life, step, targets, clean, credVars, priv, captures>>

\* Task works run on the way to user mode and once more at exit, where this
\* one does nothing.
yz_umount_tw_func(t) ==
    /\ step[t] = "user" /\ queued[t] > 0 /\ life[t] # "dead"
    /\ queued' = [queued EXCEPT ![t] = @ - 1]
    /\ IF life[t] = "exiting" THEN UNCHANGED <<step, before>>
       ELSE /\ step' = [step EXCEPT ![t] = "open"]
            /\ before' = [before EXCEPT ![t] = mounts[t]]
    /\ UNCHANGED <<mounts, life, targets, clean, credVars, priv, captures, requests>>

OverrideRead(t) ==
    /\ step[t] = "open" /\ ReadPriv(t)
    /\ step' = [step EXCEPT ![t] = IF priv = NoCred THEN "scan" ELSE "take"]
    /\ UNCHANGED <<mounts, before, life, queued, targets, clean, cred, priv, captures,
                   requests>>

OverrideTake(t) ==
    /\ step[t] = "take" /\ step' = [step EXCEPT ![t] = "scan"]
    /\ yz_host_override_creds(t)
    /\ UNCHANGED <<mounts, before, life, queued, targets, clean, ptr, priv, captures,
                   requests>>

Modules(table) == { m \in table : m.module }
Others(table) == { m \in table : ~m.module }

\* Mutant: the array of targets has no limit
FirstOf_All(S, n) == S

FirstOf(S, n) == { m \in S : Cardinality({ k \in S : k.line <= m.line }) <= n }

\* yz_umount_scan_mountinfo collects the places of module mounts in the order
\* of the table, as many as fit; without memory or the table there are none.
\* A table longer than the buffer is cut, which is no error; of the line that
\* is cut in two enough may be left to tell its place and that it is a module's.
\* A target is a place: of the mount it was read from only that is used.
yz_umount_scan_mountinfo(t) ==
    /\ step[t] = "scan" /\ step' = [step EXCEPT ![t] = "detach"]
    /\ \E ok \in BOOLEAN, n \in {LinesRead, LinesRead + 1} :
         /\ clean' = [clean EXCEPT ![t] = ok]
         /\ targets' =
              [targets EXCEPT ![t] =
                 IF ok THEN FirstOf(Modules(FirstOf(mounts[t], n)), TargetMax) ELSE {}]
    /\ UNCHANGED <<mounts, before, life, queued, credVars, priv, captures, requests>>

\* What kern_path finds at a place: the last mount there, unless a directory
\* above it was mounted over since; then it is no mount root.
Found(table, place) ==
    { m \in table : /\ m.at = place
                    /\ \A k \in table : k.line > m.line =>
                          k.at # place /\ <<place, k.at>> \notin Below }

\* path_umount with MNT_DETACH takes the mounts on top of it along.
Detached(table, place) ==
    table \ { k \in table :
                \E m \in Found(table, place) :
                   k = m \/ (k.line > m.line /\ <<k.at, place>> \in Below) }

\* Mutant: from the first target to the last
Taken_First(S) == { m \in S : \A k \in S : m.line <= k.line }

\* The targets are taken from the last to the first.
Taken(S) == { m \in S : \A k \in S : k.line <= m.line }

\* An umount may fail, for want of the function or for the mount's sake; the
\* loop goes on.
yz_try_umount(t) ==
    /\ step[t] = "detach"
    /\ \E m \in Taken(targets[t]) :
         /\ targets' = [targets EXCEPT ![t] = @ \ {m}]
         /\ \/ /\ mounts' = [mounts EXCEPT ![t] = Detached(@, m.at)]
               /\ UNCHANGED clean
            \/ clean' = [clean EXCEPT ![t] = FALSE] /\ UNCHANGED mounts
    /\ UNCHANGED <<before, life, queued, step, credVars, priv, captures, requests>>

WorkDone(t) ==
    /\ step[t] = "detach" /\ targets[t] = {}
    /\ yz_host_revert_creds(t) /\ step' = [step EXCEPT ![t] = "user"]
    /\ UNCHANGED <<mounts, before, life, queued, targets, clean, ptr, priv, captures,
                   requests>>

Work(t) ==
    \/ yz_umount_tw_func(t) \/ OverrideRead(t) \/ OverrideTake(t)
    \/ yz_umount_scan_mountinfo(t)
    \/ yz_try_umount(t) \/ WorkDone(t)

\* The process exits; its queued works run before it is gone.
Exit(t) ==
    /\ step[t] = "user"
    /\ \/ life[t] = "run" /\ life' = [life EXCEPT ![t] = "exiting"]
       \/ life[t] = "exiting" /\ queued[t] = 0 /\ life' = [life EXCEPT ![t] = "dead"]
    /\ UNCHANGED <<mounts, before, queued, step, targets, clean, credVars, priv, captures,
                   requests>>

-----------------------------------------------------------------------------
(* Properties.                                                             *)

\* No mount of somebody else was put on, under or over a module's.
Apart(table) ==
    \A m \in Modules(table) : \A k \in Others(table) :
       m.line < k.line =>
          /\ k.at # m.at
          /\ {<<k.at, m.at>>, <<m.at, k.at>>} \cap Below = {}

\* A cleanup takes no mount but the modules', also where there are too many
\* targets, the table could not be read or was cut, or an unmount failed;
\* unmounting a place that was uncovered by an earlier unmount would take
\* somebody else's.  If nothing failed, the targets fit into the array and the
\* table into the buffer, it leaves none of theirs; of a longer table it
\* leaves what was cut off, and says nothing (mount.c:175-212).
CleanupExact ==
    \A t \in App :
       step[t] = "detach" /\ targets[t] = {} /\ Apart(before[t]) =>
          /\ Others(mounts[t]) = Others(before[t])
          /\ /\ clean[t] /\ Cardinality(before[t]) <= LinesRead
             /\ Cardinality(Modules(before[t])) <= TargetMax
             => Modules(mounts[t]) = {}

\* No process returns to user mode with the captured credentials, whatever
\* failed and however often they were replaced or dropped meanwhile
\* (mount.c:224-244, adapter.c:71-107).
CredsReturned == \A t \in App : step[t] = "user" => cred[t] = Own

\* A process only runs with credentials that were freed if the capture it read
\* was replaced or dropped since: as long as the first one is in place, or the
\* one it read is, all that run hold references that count (adapter.c:71-73).
CredsLive ==
    \A t \in App :
       /\ cred[t] = Freed => ptr[t] # priv
       /\ cred[t] \notin {Own, Freed} => cred[t] = ptr[t]

\* A cleanup never takes more targets than the array holds, takes the module
\* mounts and no other, and returns with the process's own credentials.
CleanupSound == MountTypeOK /\ CleanupExact /\ CredsReturned /\ CredsLive
=============================================================================
