------------------------------ MODULE ZygoteCtl ------------------------------
(***************************************************************************)
(* The fd broker (kernel/feature/zygote_ctl.c): zygiskd hands files over   *)
(* for a target process, a task_work of the target installs them.          *)
(*                                                                         *)
(* The broker owns references on the files while they wait in a slot.  The *)
(* callback_head lives inside the slot, so the list of a task's works is a *)
(* list of slots.  A stretch under yz_ctl_lock is one action; the teardown *)
(* yz_zygote_ctl_exit does not take the lock.                              *)
(***************************************************************************)
EXTENDS Integers, Sequences, FiniteSets

LOCAL INSTANCE Functions

CONSTANTS
    Target,         \* processes files are handed to, by pid
    File,           \* struct file objects zygiskd has open
    Caller,         \* threads in YZ_IOCTL_HANDOFF
    MaxPending,     \* YZ_MAX_PENDING
    HandoffMax,     \* bound: handoffs in a behaviour
    LifeMax         \* bound: processes that have one pid after another

NoPid == "none"      \* pid 0, which is no process's

ASSUME CtlBounds ==
    /\ MaxPending \in Nat \ {0} /\ HandoffMax \in Nat /\ LifeMax \in Nat \ {0}
    /\ NoPid \notin Target /\ IsFiniteSet(Caller)

Slot == 1 .. MaxPending
Batch == SUBSET File

VARIABLES
    slot,       \* yz_pending: pid and files
    works,      \* target -> its task_work list
    life,       \* target -> alive, exiting (works still run), zombie, freed
    age,        \* target -> how many processes have had its pid
    call,       \* caller -> step of its handoff
    task,       \* caller -> age of the task it holds a reference on, or 0
    pid, files, \* caller -> target and references of its handoff, then the
                \* references it replaced
    refs,       \* file -> references taken and not given away or dropped
    got,        \* target -> files installed in the process
    asked,      \* history: target -> files handed over for its pid
    twice,      \* history: a work was queued that was in a list already
    count,      \* handoffs for each target
    down,       \* teardown: up, exit, done
    at, phase   \* slot and step of yz_zygote_ctl_exit

callVars == <<call, task, pid, files>>
lifeVars == <<life, age>>
exitVars == <<down, at, phase>>
vars == <<slot, works, lifeVars, callVars, refs, got, asked, twice, count, exitVars>>

Free == [pid |-> NoPid, files |-> {}]

Init ==
    /\ slot = [s \in Slot |-> Free]
    /\ works = [p \in Target |-> <<>>]
    /\ life = [p \in Target |-> "alive"]
    /\ age = [p \in Target |-> 1]
    /\ call = [c \in Caller |-> "idle"]
    /\ task = [c \in Caller |-> 0]
    /\ pid = [c \in Caller |-> NoPid]
    /\ files = [c \in Caller |-> {}]
    /\ refs = [f \in File |-> 0]
    /\ got = [p \in Target |-> {}]
    /\ asked = [p \in Target |-> {}]
    /\ twice = FALSE
    /\ count = [p \in Target |-> 0]
    /\ down = "up" /\ at = 1 /\ phase = "put"

Get(b) == refs' = [f \in File |-> IF f \in b THEN refs[f] + 1 ELSE refs[f]]
Put(b) == refs' = [f \in File |-> IF f \in b THEN refs[f] - 1 ELSE refs[f]]

\* yz_slot_of: the first slot of a pid, or none
SlotsOf(p) == {s \in Slot : slot[s].pid = p}
SlotOf(p) == CHOOSE s \in SlotsOf(p) : \A t \in SlotsOf(p) : s <= t

-----------------------------------------------------------------------------
(* yz_zygote_ctl_handoff.                                                  *)

\* fget on every fd.  A bad one among them ends the call with EBADF: what
\* was taken before it is put again.
HandoffGet(c, p, b) ==
    /\ down = "up" /\ call[c] = "idle" /\ SumFunction(count) < HandoffMax
    /\ Get(b)
    /\ pid' = [pid EXCEPT ![c] = p]
    /\ files' = [files EXCEPT ![c] = b]
    /\ count' = [count EXCEPT ![p] = @ + 1]
    /\ \/ /\ call' = [call EXCEPT ![c] = "find"]
          /\ asked' = [asked EXCEPT ![p] = @ \cup b]
       \/ /\ call' = [call EXCEPT ![c] = "put"]
          /\ UNCHANGED asked
    /\ UNCHANGED <<slot, works, lifeVars, task, got, twice, exitVars>>

\* find_task_by_vpid and get_task_struct: the process that has the pid now,
\* if any
HandoffFind(c) ==
    /\ call[c] = "find"
    /\ task' = [task EXCEPT ![c] = IF life[pid[c]] = "freed" THEN 0 ELSE age[pid[c]]]
    /\ call' = [call EXCEPT ![c] = "store"]
    /\ UNCHANGED <<slot, works, lifeVars, pid, files, refs, got, asked, twice, count, exitVars>>

\* task_work_add on the task that was found, which refuses it once the works
\* of its exit ran; nobody looks at that.  A work that is in a list already
\* is added again all the same.
Queue(c, s) ==
    LET p == pid[c]
        accepts == task[c] = age[p] /\ life[p] \in {"alive", "exiting"}
    IN
    /\ works' = IF accepts THEN [works EXCEPT ![p] = Append(@, s)] ELSE works
    /\ twice' = (twice \/ (accepts /\ \E q \in Target : \E i \in DOMAIN works[q] : works[q][i] = s))

\* Mutant: the replaced references are forgotten
HandoffStore_ForgetOld(c) ==
    /\ call[c] = "store" /\ SlotsOf(pid[c]) \cup SlotsOf(NoPid) # {}
    /\ LET s == IF SlotsOf(pid[c]) # {} THEN SlotOf(pid[c]) ELSE SlotOf(NoPid) IN
       /\ slot' = [slot EXCEPT ![s] = [pid |-> pid[c], files |-> files[c]]]
       /\ Queue(c, s)
    /\ files' = [files EXCEPT ![c] = {}]
    /\ call' = [call EXCEPT ![c] = "put"]
    /\ UNCHANGED <<lifeVars, task, pid, refs, got, asked, count, exitVars>>

\* Mutant: p->pid is not written, so the slot still counts as free
HandoffStore_NoPid(c) ==
    /\ call[c] = "store" /\ SlotsOf(pid[c]) \cup SlotsOf(NoPid) # {}
    /\ LET s == IF SlotsOf(pid[c]) # {} THEN SlotOf(pid[c]) ELSE SlotOf(NoPid) IN
       /\ slot' = [slot EXCEPT ![s].files = files[c]]
       /\ files' = [files EXCEPT ![c] = slot[s].files]
       /\ Queue(c, s)
    /\ call' = [call EXCEPT ![c] = "put"]
    /\ UNCHANGED <<lifeVars, task, pid, refs, got, asked, count, exitVars>>

\* Under the lock: take the slot of the pid, whose files are replaced, or a
\* free one, keep what it held for the put, queue the task_work.
HandoffStore(c) ==
    /\ call[c] = "store" /\ SlotsOf(pid[c]) \cup SlotsOf(NoPid) # {}
    /\ LET s == IF SlotsOf(pid[c]) # {} THEN SlotOf(pid[c]) ELSE SlotOf(NoPid) IN
       /\ slot' = [slot EXCEPT ![s] = [pid |-> pid[c], files |-> files[c]]]
       /\ files' = [files EXCEPT ![c] = slot[s].files]
       /\ Queue(c, s)
    /\ call' = [call EXCEPT ![c] = "put"]
    /\ UNCHANGED <<lifeVars, task, pid, refs, got, asked, count, exitVars>>

\* No slot: -ENOSPC
HandoffFull(c) ==
    /\ call[c] = "store" /\ SlotsOf(pid[c]) \cup SlotsOf(NoPid) = {}
    /\ call' = [call EXCEPT ![c] = "put"]
    /\ UNCHANGED <<slot, works, lifeVars, task, pid, files, refs, got, asked, twice, count, exitVars>>

\* fput outside the lock
HandoffPut(c) ==
    /\ call[c] = "put"
    /\ Put(files[c])
    /\ call' = [call EXCEPT ![c] = "idle"]
    /\ task' = [task EXCEPT ![c] = 0]
    /\ pid' = [pid EXCEPT ![c] = NoPid]
    /\ files' = [files EXCEPT ![c] = {}]
    /\ UNCHANGED <<slot, works, lifeVars, got, asked, twice, count, exitVars>>

-----------------------------------------------------------------------------
(* The target.                                                             *)

\* yz_deliver_cb: empty the slot, install its files unless the target is
\* exiting; a file that gets no fd is put
Deliver(p) ==
    LET s == Head(works[p])
        b == slot[s].files
    IN
    /\ works[p] # <<>>
    /\ works' = [works EXCEPT ![p] = Tail(@)]
    /\ slot' = [slot EXCEPT ![s] = Free]
    /\ Put(b)
    /\ IF life[p] = "alive"
       THEN \E i \in SUBSET b : got' = [got EXCEPT ![p] = @ \cup i]
       ELSE UNCHANGED got
    /\ UNCHANGED <<lifeVars, callVars, asked, twice, count, exitVars>>

Exit(p) ==
    /\ life[p] = "alive"
    /\ life' = [life EXCEPT ![p] = "exiting"]
    /\ UNCHANGED <<slot, works, age, callVars, refs, got, asked, twice, count, exitVars>>

\* exit_task_work is through: no work is accepted any more
WorksDone(p) ==
    /\ life[p] = "exiting" /\ works[p] = <<>>
    /\ life' = [life EXCEPT ![p] = "zombie"]
    /\ UNCHANGED <<slot, works, age, callVars, refs, got, asked, twice, count, exitVars>>

\* yz_zygote_ctl_release, called when a tracked process is freed
Release(p) ==
    LET s == SlotOf(p) IN
    IF SlotsOf(p) # {}
    THEN Put(slot[s].files) /\ slot' = [slot EXCEPT ![s] = Free]
    ELSE UNCHANGED <<refs, slot>>

\* sched_process_free; the orchestrator may not have tracked the process
ProcessFree(p) ==
    /\ life[p] = "zombie"
    /\ life' = [life EXCEPT ![p] = "freed"]
    /\ Release(p) \/ UNCHANGED <<refs, slot>>
    /\ UNCHANGED <<works, age, callVars, got, asked, twice, count, exitVars>>

\* The pid is given to a new process.  That happens only after the release:
\* pids go round, and the old task is freed one RCU grace period after its exit.
Reborn(p) ==
    /\ life[p] = "freed" /\ age[p] < LifeMax
    /\ life' = [life EXCEPT ![p] = "alive"]
    /\ age' = [age EXCEPT ![p] = @ + 1]
    /\ got' = [got EXCEPT ![p] = {}]
    /\ UNCHANGED <<slot, works, callVars, refs, asked, twice, count, exitVars>>

-----------------------------------------------------------------------------
(* yz_zygote_ctl_exit, after yukizygisk_control_exit waited for the ioctls *)

ExitBegin ==
    /\ down = "up" /\ \A c \in Caller : call[c] = "idle"
    /\ down' = "exit"
    /\ UNCHANGED <<slot, works, lifeVars, callVars, refs, got, asked, twice, count, at, phase>>

\* fput what the slot holds
ExitPut ==
    /\ down = "exit" /\ phase = "put"
    /\ Put(slot[at].files)
    /\ phase' = "clear"
    /\ UNCHANGED <<slot, works, lifeVars, callVars, got, asked, twice, count, down, at>>

\* Mutant: one slot too many
ExitClear_OneMore ==
    /\ down = "exit" /\ phase = "clear"
    /\ slot' = [slot EXCEPT ![at] = Free]
    /\ phase' = "put"
    /\ IF at <= MaxPending THEN at' = at + 1 /\ UNCHANGED down
                           ELSE down' = "done" /\ UNCHANGED at
    /\ UNCHANGED <<works, lifeVars, callVars, refs, got, asked, twice, count>>

\* n = 0 and pid = 0
ExitClear ==
    /\ down = "exit" /\ phase = "clear"
    /\ slot' = [slot EXCEPT ![at] = Free]
    /\ phase' = "put"
    /\ IF at < MaxPending THEN at' = at + 1 /\ UNCHANGED down
                          ELSE down' = "done" /\ UNCHANGED at
    /\ UNCHANGED <<works, lifeVars, callVars, refs, got, asked, twice, count>>

-----------------------------------------------------------------------------
Next ==
    \/ \E c \in Caller, p \in Target, b \in Batch \ {{}} : HandoffGet(c, p, b)
    \/ \E c \in Caller : HandoffFind(c) \/ HandoffStore(c) \/ HandoffFull(c) \/ HandoffPut(c)
    \/ \E p \in Target : Deliver(p) \/ Exit(p) \/ WorksDone(p) \/ ProcessFree(p) \/ Reborn(p)
    \/ ExitBegin \/ ExitPut \/ ExitClear

Spec == Init /\ [][Next]_vars

-----------------------------------------------------------------------------
(* Properties.                                                             *)

\* Types: the slots of yz_pending, the work lists and the steps of
\* yz_zygote_ctl_exit, which never leaves the table.
TypeOK ==
    /\ slot \in [Slot -> [pid : Target \cup {NoPid}, files : Batch]]
    /\ works \in [Target -> Seq(Slot)]
    /\ life \in [Target -> {"alive", "exiting", "zombie", "freed"}]
    /\ age \in [Target -> 1 .. LifeMax]
    /\ call \in [Caller -> {"idle", "find", "store", "put"}]
    /\ task \in [Caller -> 0 .. LifeMax]
    /\ pid \in [Caller -> Target \cup {NoPid}]
    /\ files \in [Caller -> Batch]
    /\ refs \in [File -> Int]
    /\ got \in [Target -> Batch] /\ asked \in [Target -> Batch]
    /\ twice \in BOOLEAN /\ count \in [Target -> Nat]
    /\ down \in {"up", "exit", "done"} /\ at \in Slot /\ phase \in {"put", "clear"}

\* Until the teardown the references on a file are exactly those of the
\* slots and of the handoffs under way: none is leaked or dropped twice by
\* handoffs, replacements, deliveries and releases that overlap.
FileRefsExact ==
    down = "up" => \A f \in File :
        refs[f] = Cardinality({s \in Slot : f \in slot[s].files})
                + Cardinality({c \in Caller : f \in files[c]})

\* A process only receives files that were handed over for its pid, although
\* slots are used again for other processes, handoffs for one process replace
\* each other and a pid passes on while a caller holds the task it had: as
\* long as no work was queued a second time.
DeliveredToTarget == ~twice => \A p \in Target : got[p] \subseteq asked[p]

\* The same whatever is replaced: "replace a prior handoff for this pid"
\* (zygote_ctl.c:126) takes the slot, and with it the callback_head, of a
\* handoff that may still wait in the task's list.
ReplacedSafely == \A p \in Target : got[p] \subseteq asked[p]

\* The teardown drops the references the broker still holds, and only those.
NoDoublePut == \A f \in File : refs[f] >= 0

\* The broker's slots, works and handoffs are well formed and account for
\* every file reference that was taken (yz_zygote_ctl_handoff, release).
BrokerSound == TypeOK /\ FileRefsExact
=============================================================================
