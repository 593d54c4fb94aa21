------------------------------- MODULE LsmHook -------------------------------
(***************************************************************************)
(* The one LSM hook of the project: bprm_committed_creds is replaced in    *)
(* the kernel's list of security hooks, on newer kernels also in a static  *)
(* call (src/kernel/host/lsm.c), by writing through a fixmap while all     *)
(* processors are stopped (src/kernel/host/patch_text.c).  Execs run       *)
(* meanwhile and call whatever function they find.                         *)
(*                                                                         *)
(* The replacement (src/kernel/feature/zygote_probe.c) calls the original  *)
(* through the struct of the hook and queues the injection.                *)
(***************************************************************************)
EXTENDS Naturals

CONSTANTS
    Proc,          \* processes that call execve
    StaticCalls,   \* LINUX_VERSION_CODE >= 6.12
    PatchFailMax   \* bound: writes that fail

ASSUME LsmConstants == StaticCalls \in BOOLEAN /\ PatchFailMax \in Nat

VARIABLES
    slot, scall,       \* the function in the list and in the static call
    entry, original,   \* struct yz_host_lsm_hook
    tracked,           \* yz_lsm_hook_entries
    reg,               \* the thread inside apply or remove, under the lock
    exec,              \* process -> where its execve is
    patchFails

lsmVars == <<slot, scall, entry, original, tracked, reg, exec, patchFails>>

LsmTypeOK ==
    /\ slot \in {"selinux", "ours"} /\ scall \in {"selinux", "ours"}
    /\ original \in {"null", "selinux"}
    /\ entry \in BOOLEAN /\ tracked \in BOOLEAN
    /\ reg \in {"free", "selected", "patched", "called", "restored", "waiting"}
    /\ exec \in [Proc -> {"user", "selinux", "ours", "calling", "crashed"}]
    /\ patchFails \in 0..PatchFailMax

LsmInit ==
    /\ slot = "selinux" /\ scall = "selinux"
    /\ entry = FALSE /\ original = "null" /\ tracked = FALSE
    /\ reg = "free" /\ exec = [p \in Proc |-> "user"] /\ patchFails = 0

-----------------------------------------------------------------------------
\* yz_patch_text: one processor writes while the others wait, so the write is
\* one step; missing symbols, no mapping or a faulting copy change nothing.
yz_patch_text(to) == slot' = to /\ UNCHANGED patchFails
PatchFails == patchFails < PatchFailMax /\ patchFails' = patchFails + 1 /\ UNCHANGED slot

\* yz_lsm_hook_apply up to the write: the entry whose function is the target
\* is selected and the hook tracked.  Failing lookups leave all as it was.
yz_lsm_hook_apply ==
    /\ reg = "free" /\ ~entry /\ tracked' = TRUE /\ reg' = "selected"
    /\ UNCHANGED <<slot, scall, entry, original, exec, patchFails>>

\* Mutant: the error path forgets that the hook is tracked
Untrack_Forgotten == UNCHANGED tracked

Untrack == tracked' = FALSE

ApplyPatch ==
    /\ reg = "selected"
    /\ \/ /\ yz_patch_text("ours") /\ UNCHANGED tracked
          /\ reg' = IF StaticCalls THEN "patched" ELSE "called"
       \/ PatchFails /\ Untrack /\ reg' = "free"
    /\ UNCHANGED <<scall, entry, original, exec>>

ApplyStaticCall ==
    /\ reg = "patched" /\ scall' = "ours" /\ reg' = "called"
    /\ UNCHANGED <<slot, entry, original, tracked, exec, patchFails>>

\* The hook remembers where it is, and only now what it replaced.
ApplyDone ==
    /\ reg = "called" /\ reg' = "free"
    /\ entry' = TRUE /\ original' = "selinux"
    /\ UNCHANGED <<slot, scall, tracked, exec, patchFails>>

\* yz_lsm_hook_remove; if the write fails the hook stays in place and tracked,
\* for yz_host_lsm_exit to try again.
yz_lsm_hook_remove ==
    /\ reg = "free" /\ entry
    /\ \/ yz_patch_text(original) /\ reg' = IF StaticCalls THEN "restored" ELSE "waiting"
       \/ PatchFails /\ UNCHANGED reg
    /\ UNCHANGED <<scall, entry, original, tracked, exec>>

\* Mutant: the static call is left as it is
Restored_ListOnly == scall

Restored == original

RemoveStaticCall ==
    /\ reg = "restored" /\ scall' = Restored /\ reg' = "waiting"
    /\ UNCHANGED <<slot, entry, original, tracked, exec, patchFails>>

\* Mutant: the whole struct is reset
RemoveDone_Reset ==
    /\ reg = "waiting" /\ reg' = "free"
    /\ Untrack /\ entry' = FALSE /\ original' = "null"
    /\ UNCHANGED <<slot, scall, exec, patchFails>>

\* synchronize_rcu holds up nobody here: execs are no RCU readers.
RemoveDone ==
    /\ reg = "waiting" /\ reg' = "free"
    /\ Untrack /\ entry' = FALSE
    /\ UNCHANGED <<slot, scall, original, exec, patchFails>>

-----------------------------------------------------------------------------
\* What security_bprm_committed_creds calls.
Called == IF StaticCalls THEN scall ELSE slot

Exec(p) ==
    /\ exec[p] = "user" /\ exec' = [exec EXCEPT ![p] = Called]
    /\ UNCHANGED <<slot, scall, entry, original, tracked, reg, patchFails>>

\* my_bprm_committed_creds calls the original first; there may be none yet.
CallOriginal(p) ==
    /\ exec[p] = "ours"
    /\ exec' = [exec EXCEPT ![p] = IF original = "null" THEN "crashed" ELSE "calling"]
    /\ UNCHANGED <<slot, scall, entry, original, tracked, reg, patchFails>>

\* Back from the original; the replacement has queued what it wants.
ExecDone(p) ==
    /\ exec[p] \in {"selinux", "calling"} /\ exec' = [exec EXCEPT ![p] = "user"]
    /\ UNCHANGED <<slot, scall, entry, original, tracked, reg, patchFails>>

LsmSteps ==
    \/ ApplyPatch \/ ApplyStaticCall \/ ApplyDone \/ RemoveStaticCall \/ RemoveDone
    \/ \E p \in Proc : Exec(p) \/ CallOriginal(p) \/ ExecDone(p)

-----------------------------------------------------------------------------
(* Properties.                                                             *)

\* Whenever nobody is inside apply or remove, the hook is tracked exactly if
\* it is in place, in the list and in the static call alike, so that the
\* teardown finds every hook that is there, also after writes that failed
\* (lsm.c:49-76, 409-459).
HookAccounted ==
    reg = "free" =>
       /\ tracked = entry
       /\ slot = (IF entry THEN "ours" ELSE "selinux")
       /\ scall = (IF entry /\ StaticCalls THEN "ours" ELSE "selinux")

\* The hook never forgets what it replaced: an exec that is in the replacement
\* finds the original also while the hook is removed under it, after it is gone
\* and after writes that failed.  The exception is the first registration: from
\* the write until the end of apply the replacement can be called and original
\* is still NULL, and such an exec crashes (lsm.c:276-296, 393-402,
\* zygote_probe.c:2375).
OriginalKept ==
    \A p \in Proc : exec[p] = "ours" => original = "selinux" \/ reg \in {"patched", "called"}

\* The hook under applies, removals, writes that fail and execs in between: the
\* teardown finds every hook that is in place, and once the registration is
\* through an exec that meets the replacement finds the function it replaced.
HookSound == LsmTypeOK /\ HookAccounted /\ OriginalKept
=============================================================================
