-------------------------------- MODULE Host --------------------------------
(***************************************************************************)
(* The host layer as the life cycle drives it (src/kernel/core/module.c    *)
(* and its built-in variant module_integrated.c): the probe registers its  *)
(* LSM hook, control fds replace the credentials, cleanups are asked for,  *)
(* and the teardown removes the hook, tries again and drops the            *)
(* credentials.  Each step of the teardown ends before the next begins.    *)
(***************************************************************************)
EXTENDS LsmHook, MountCleanup

\* The stages of yukizygisk_init and _deactivate_locked: "host", "up",
\* "control", "probe", "lsm", "gone"
VARIABLE stage

hostVars == <<lsmVars, mountVars, stage>>

HostInit == LsmInit /\ MountInit /\ stage = "host"

To(from, to) == stage = from /\ reg = "free" /\ stage' = to

\* yz_zygote_probe_init; a lookup that fails leaves the kernel unhooked.
yz_zygote_probe_init ==
    /\ To("host", "up") /\ UNCHANGED mountVars
    /\ yz_lsm_hook_apply \/ UNCHANGED lsmVars

\* A control fd is installed, or asks for a cleanup.
Control ==
    /\ stage = "up" /\ reg = "free" /\ UNCHANGED <<stage, lsmVars>>
    /\ yz_host_recapture_priv_cred \/ \E t \in App : yz_host_umount_pid(t)

yukizygisk_control_exit == To("up", "control") /\ UNCHANGED <<lsmVars, mountVars>>

\* yz_zygote_probe_exit
yz_zygote_probe_exit ==
    /\ To("control", "probe") /\ UNCHANGED mountVars
    /\ IF entry THEN yz_lsm_hook_remove ELSE UNCHANGED lsmVars

\* yz_host_lsm_exit goes through what is still tracked.
yz_host_lsm_exit ==
    /\ To("probe", "lsm") /\ UNCHANGED mountVars
    /\ IF tracked /\ entry THEN yz_lsm_hook_remove ELSE UNCHANGED lsmVars

yz_host_exit == To("lsm", "gone") /\ DropCred /\ UNCHANGED lsmVars

HostSteps ==
    \/ LsmSteps /\ UNCHANGED <<mountVars, stage>>
    \/ \E t \in App : (Work(t) \/ Exit(t)) /\ UNCHANGED <<lsmVars, stage>>

HostNext ==
    \/ yz_zygote_probe_init \/ Control \/ yukizygisk_control_exit
    \/ yz_zygote_probe_exit \/ yz_host_lsm_exit \/ yz_host_exit
    \/ HostSteps

HostSpec == HostInit /\ [][HostNext]_hostVars

-----------------------------------------------------------------------------
(* Properties.                                                             *)

\* The teardown leaves the kernel's own function in place even if one write
\* fails: what the probe could not remove is tracked and removed by
\* yz_host_lsm_exit (module.c:72-79, lsm.c:417-481).
GoneMeansUnhooked == stage = "gone" /\ patchFails < 2 => Called = "selinux"
=============================================================================
