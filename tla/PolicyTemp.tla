----------------------------- MODULE PolicyTemp -----------------------------
(***************************************************************************)
(* The ledger of temporary SELinux allowances (kernel/host/policy_temp.c)  *)
(* and the copy-on-write policy edits it commits (kernel/host/policy.c).   *)
(*                                                                         *)
(* A client asks for permissions with a struct yz_file_load_policy (here a *)
(* Holder): allow_file and allow_execmem add to the live policy what is    *)
(* missing and record in the struct what they took; restore gives it back. *)
(* Permissions taken by several holders are counted per (key, permission)  *)
(* in a table of RuleMax rules with counters bounded by RefMax (u16).      *)
(*                                                                         *)
(* Every operation runs under yz_policy_lock and the SELinux policy_mutex, *)
(* so each is one step.  A key is a (source type, target type, class)      *)
(* triple.  The four (key, av) pairs of the struct, file, dir, tmpfs and   *)
(* process, are one function from keys to permission sets: the pairs of a  *)
(* struct have different keys as long as the staged files, which live      *)
(* under /data/adb, are not themselves labelled tmpfs.                     *)
(***************************************************************************)
EXTENDS Naturals, FiniteSets

CONSTANTS
    Key,        \* struct yz_policy_key values in play
    Perm,       \* permission bits of an access vector
    Holder,     \* struct yz_file_load_policy instances
    Base,       \* what the loaded policy allows by itself
    FileReq,    \* required vectors of the files that are staged
    ExecReq,    \* required vectors of execmem, one per source type
    SlotOrder,  \* the order file, dir, tmpfs in which rules are added
    RuleMax,    \* YZ_POLICY_TEMP_RULE_MAX
    RefMax      \* U16_MAX

Av == [Key -> SUBSET Perm]
NoAv == [k \in Key |-> {}]

ASSUME KeyFinite == IsFiniteSet(Key)
ASSUME HolderFinite == IsFiniteSet(Holder)
ASSUME BaseType == Base \in Av
ASSUME RequestTypes == FileReq \subseteq Av /\ ExecReq \subseteq Av
ASSUME SlotOrderType ==
    /\ SlotOrder \in [Key -> Nat]
    /\ \A j, k \in Key : SlotOrder[j] = SlotOrder[k] => j = k
ASSUME BoundsType == RuleMax \in Nat \ {0} /\ RefMax \in Nat \ {0}

VARIABLES
    policy,     \* the live policy: key -> permissions of its avtab node
    refs,       \* yz_policy_temp_rules[].refs
    state,      \* holder -> the vectors recorded in its struct
    ready,      \* yz_policy_base_ready()
    need,       \* history: what each holder was promised and still relies on
    leaked      \* history: counted references whose struct is gone

vars == <<policy, refs, state, ready, need, leaked>>

Init ==
    /\ policy = Base
    /\ refs = [k \in Key |-> [p \in Perm |-> 0]]
    /\ state = [h \in Holder |-> NoAv]
    /\ ready = TRUE
    /\ need = [h \in Holder |-> NoAv]
    /\ leaked = [k \in Key |-> [p \in Perm |-> 0]]

-----------------------------------------------------------------------------
(* The rule table.  A rule is used exactly while one of its counters is    *)
(* positive: add takes a slot for a non-empty vector and release clears    *)
(* the slot with its last reference.                                       *)

\* yz_policy_temp_mask_locked
Mask(k) == {p \in Perm : refs[k][p] > 0}

\* yz_policy_temp_find_locked finds the rule of a used key
Used == {k \in Key : Mask(k) # {}}

\* yz_policy_temp_find_free_locked
HasFree == Cardinality(Used) < RuleMax

\* Mutant: the counter limit is not tested
ValidAdd_NoLimit(k, av) == av = {} \/ k \in Used \/ HasFree

\* yz_policy_temp_validate_add_locked
ValidAdd(k, av) ==
    \/ av = {}
    \/ k \in Used /\ \A p \in av : refs[k][p] < RefMax
    \/ k \notin Used /\ HasFree

\* Mutant: a permission somebody else added is taken for one of the policy
RequestAv_NoShare(k, required) == required \ policy[k]

\* Mutant: permissions the policy has by itself are counted too
RequestAv_All(k, required) == required

\* yz_policy_temp_plan_allow_locked: what the struct records and counts.
\* A permission the policy has by itself is left alone, one it has only
\* thanks to another holder is shared.
RequestAv(k, required) == required \cap ((Perm \ policy[k]) \cup Mask(k))

\* yz_policy_temp_plan_allow_locked: the part that must be added
CommitAv(k, required) == RequestAv(k, required) \ Mask(k)

Plan(req) == [k \in Key |-> RequestAv(k, req[k])]
PlanOk(req) == \A k \in Key : ValidAdd(k, Plan(req)[k])

\* The new keys of a plan, and the ones that still find a free slot when
\* yz_policy_temp_add_locked runs for them in the order of the struct.  The
\* plan validated each key alone, so the last ones may find none.
NewKeys(av) == {k \in Key : av[k] # {} /\ k \notin Used}
GetsSlot(k, av) ==
    Cardinality({j \in NewKeys(av) : SlotOrder[j] < SlotOrder[k]})
        + Cardinality(Used) < RuleMax

\* yz_policy_temp_add_locked for every key of av
Add(av) ==
    [k \in Key |->
        IF k \in Used \/ GetsSlot(k, av)
        THEN [p \in Perm |-> IF p \in av[k] THEN refs[k][p] + 1 ELSE refs[k][p]]
        ELSE refs[k]]

\* Mutant: off by one, the last but one reference clears the permission
ClearAv_Early(k, av) == IF k \in Used THEN {p \in av : refs[k][p] <= 2} ELSE av

\* yz_policy_temp_plan_release_locked: the permissions to take out
ClearAv(k, av) ==
    IF k \in Used THEN {p \in av : refs[k][p] <= 1} ELSE av

\* Mutant: the counter is cleared instead of decremented
Release_All(av) ==
    [k \in Key |-> [p \in Perm |-> IF p \in av[k] THEN 0 ELSE refs[k][p]]]

\* Mutant: an uncounted reference is decremented as well
Release_Unchecked(av) ==
    [k \in Key |->
        [p \in Perm |-> IF p \in av[k] THEN refs[k][p] - 1 ELSE refs[k][p]]]

\* yz_policy_temp_release_locked for every key of av
Release(av) ==
    [k \in Key |->
        [p \in Perm |->
            IF p \in av[k] /\ refs[k][p] > 0 THEN refs[k][p] - 1 ELSE refs[k][p]]]

\* References of holder h that stay counted when its struct is wiped
Leak(h) ==
    [k \in Key |->
        [p \in Perm |->
            IF p \in state[h][k] THEN leaked[k][p] + 1 ELSE leaked[k][p]]]

\* yz_policy_base_commit_allow_locked and yz_policy_base_commit_restore_locked:
\* a copy of the policy is edited key by key, then published in one step; on
\* an error the copy is dropped.
CommitAllow(av) == policy' = [k \in Key |-> policy[k] \cup av[k]]
CommitRestore(av) == policy' = [k \in Key |-> policy[k] \ av[k]]

-----------------------------------------------------------------------------
(* The operations of policy_temp.h.                                        *)

\* yz_host_policy_allow_file, success.  The struct is zeroed first, so what
\* it recorded before is no longer owned by anyone.
AllowFile(h, req) ==
    /\ ready
    /\ req # NoAv
    /\ PlanOk(req)
    /\ CommitAllow([k \in Key |-> CommitAv(k, req[k])])
    /\ refs' = Add(Plan(req))
    /\ state' = [state EXCEPT ![h] = Plan(req)]
    /\ need' = [need EXCEPT ![h] = [k \in Key |-> @[k] \cup req[k]]]
    /\ leaked' = Leak(h)
    /\ UNCHANGED ready

\* yz_host_policy_allow_file, any failure: backend gone, a lookup failing,
\* no rule left, a counter at its limit, or the policy copy failing.  The
\* struct has been zeroed, nothing else changed.
AllowFileFails(h) ==
    /\ state' = [state EXCEPT ![h] = NoAv]
    /\ leaked' = Leak(h)
    /\ UNCHANGED <<policy, refs, ready, need>>

\* yz_host_policy_allow_execmem, success.  A struct that already took the
\* process vector is left as it is; so is every struct when the call fails.
AllowExecmem(h, req) ==
    /\ ready
    /\ req # NoAv
    /\ \/ /\ \E k \in Key : req[k] # {} /\ state[h][k] # {}
          /\ UNCHANGED <<policy, refs, state, need>>
       \/ /\ \A k \in Key : req[k] # {} => state[h][k] = {}
          /\ PlanOk(req)
          /\ CommitAllow([k \in Key |-> CommitAv(k, req[k])])
          /\ refs' = Add(Plan(req))
          /\ state' = [state EXCEPT ![h] = [k \in Key |-> @[k] \cup Plan(req)[k]]]
          /\ need' = [need EXCEPT ![h] = [k \in Key |-> @[k] \cup req[k]]]
    /\ UNCHANGED <<ready, leaked>>

\* yz_host_policy_restore, success; the callers then wipe or free the struct
Restore(h) ==
    /\ ready \/ state[h] = NoAv
    /\ CommitRestore([k \in Key |-> ClearAv(k, state[h][k])])
    /\ refs' = Release(state[h])
    /\ state' = [state EXCEPT ![h] = NoAv]
    /\ need' = [need EXCEPT ![h] = NoAv]
    /\ UNCHANGED <<ready, leaked>>

\* yz_host_policy_restore, failure: the backend is gone, or the copy of the
\* policy that clearing a permission needs could not be made.  The callers
\* wipe or free the struct all the same.
RestoreFails(h) ==
    /\ state[h] # NoAv
    /\ ~ready \/ \E k \in Key : ClearAv(k, state[h][k]) # {}
    /\ state' = [state EXCEPT ![h] = NoAv]
    /\ need' = [need EXCEPT ![h] = NoAv]
    /\ leaked' = Leak(h)
    /\ UNCHANGED <<policy, refs, ready>>

\* yz_host_policy_exit: the table is cleared and the backend pointers are
\* dropped; the live policy is not edited.
PolicyExit ==
    /\ ready
    /\ ready' = FALSE
    /\ refs' = [k \in Key |-> [p \in Perm |-> 0]]
    /\ UNCHANGED <<policy, state, need, leaked>>

Next ==
    \/ \E h \in Holder, req \in FileReq : AllowFile(h, req)
    \/ \E h \in Holder : AllowFileFails(h)
    \/ \E h \in Holder, req \in ExecReq : AllowExecmem(h, req)
    \/ \E h \in Holder : Restore(h)
    \/ \E h \in Holder : RestoreFails(h)
    \/ PolicyExit

Spec == Init /\ [][Next]_vars

-----------------------------------------------------------------------------
(* Properties.                                                             *)

\* Shapes of the ledger, the structs and the live policy.
TypeOK ==
    /\ policy \in Av
    /\ refs \in [Key -> [Perm -> Nat]]
    /\ state \in [Holder -> Av]
    /\ ready \in BOOLEAN
    /\ need \in [Holder -> Av]
    /\ leaked \in [Key -> [Perm -> Nat]]

\* The rule table has a slot for every key: yz_policy_temp_add_locked never
\* drops a reference for want of a slot.
RulesSuffice == Cardinality(Key) <= RuleMax

Owners(k, p) == {h \in Holder : p \in state[h][k]}

\* While the backend is up, the u16 counter of a permission is exactly the
\* number of structs that recorded it plus the references whose struct was
\* wiped without a successful restore: allow_file, allow_execmem and restore
\* never count twice, miss one or wrap, whatever their order and failures.
RefsExact ==
    ready => \A k \in Key, p \in Perm :
                refs[k][p] = Cardinality(Owners(k, p)) + leaked[k][p]

\* The live policy is the loaded policy plus what is counted, nothing else:
\* no edit removes a permission the loaded policy had, and none stays after
\* its last reference is gone.
PolicyExact ==
    ready => \A k \in Key :
                /\ policy[k] = Base[k] \cup Mask(k)
                /\ Base[k] \cap Mask(k) = {}

\* A permission promised by a successful allow stays in the live policy
\* until that holder gives it back, although other holders of the same
\* permission are restored meanwhile.
PromisesKept == \A h \in Holder, k \in Key : need[h][k] \subseteq policy[k]

\* No edit ever takes away a permission of the loaded policy, even when the
\* rule table is full and references go uncounted.
BaseKept == \A k \in Key : Base[k] \subseteq policy[k]

\* No counter passes the u16 limit: -EOVERFLOW is raised before the add.
RefsBounded == \A k \in Key, p \in Perm : refs[k][p] <= RefMax

\* What is left when the rule table and the counters run full: the loaded
\* policy is never reduced and no counter wraps, although
\* yz_policy_temp_add_locked may drop references and allow_file may refuse.
FullTableSafe == BaseKept /\ RefsBounded
=============================================================================
