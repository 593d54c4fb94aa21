------------------------- MODULE PolicyCacheProofs -------------------------
(***************************************************************************)
(* Proofs about the policy cache, for any number of daemons, uids, policy  *)
(* changes, requests and failures: the kernel's cache is read only while   *)
(* it is allocated, never lost, gone after the exit, and installed only    *)
(* for the owner it was checked against; and decisions that are taken for  *)
(* current, in a daemon or in the kernel, are those of the root manager.   *)
(***************************************************************************)
EXTENDS PolicyCache, FiniteSetTheorems, TLAPS

-----------------------------------------------------------------------------
(* The inductive invariant.                                                *)

KernelType ==
    /\ stage \in {"down", "up", "refused", "closed", "clear", "exiting", "exited"}
    /\ root \in {"none", "kernelsu", "kernelpatch"}
    /\ owner \in {"none", "kernelsu", "kernelpatch"}
    /\ fallback \in BOOLEAN
    /\ stage = "up" => root \in {"kernelsu", "kernelpatch"}

MemType == cache \in Slot \cup {None} /\ mem \in [Slot -> Cache \cup {Free}]

\* Every stamp after the first is a change that was saved.
SourceType ==
    /\ now \in Policy /\ listed \subseteq Uid
    /\ dirty \in BOOLEAN /\ blurred \in BOOLEAN /\ edits \in 0 .. EditMax
    /\ stamp \in Nat /\ 1 <= stamp
    /\ (IF dirty THEN stamp + 1 ELSE stamp) <= edits + 1

TaskType ==
    /\ pc \in [Task -> {"off", "idle", "stamp", "parse", "default",
                        "query", "push", "swap", "grace", "kept", "ioctl",
                        "read", "ask", "asked", "answered", "dead"}]
    /\ ptr \in [Task -> Slot \cup {None}]
    /\ wait \in [Task -> SUBSET Daemon]

SnapType == g \in [Daemon -> [snap: Snapshot, enabled: BOOLEAN, stamp: Nat]]

WorkType ==
    /\ cur \in [Daemon -> Nat]
    /\ uids \in [Daemon -> SUBSET Uid]
    /\ req \in [Daemon -> Uid \cup {All}]
    /\ then \in [Daemon -> {"idle", "ioctl", "asked", "serve", "answered"}]
    /\ res \in [Daemon -> Answer \cup {"none", "failed"}]

RestType ==
    /\ events \in [Daemon -> SUBSET Uid]
    /\ requests \in 0 .. RequestMax /\ fails \in 0 .. FailMax

\* What a daemon works at tells whom it asks for: setup and forced refreshes
\* for all, the others for a uid.
ReqOfWork ==
    \A d \in Daemon :
        /\ then[d] = "serve" => req[d] = All
        /\ then[d] \in {"ioctl", "asked", "answered"} => req[d] \in Uid
        /\ pc[d] \in {"ioctl", "read", "asked", "answered"} =>
              then[d] \in {"ioctl", "asked", "answered"}

Types ==
    /\ KernelType /\ MemType /\ SourceType /\ TaskType /\ SnapType /\ WorkType /\ RestType
    /\ ReqOfWork

\* A task between the allocation and the publication of a cache, or between its
\* removal and the end of the grace period, owns it.
Owns(t) == pc[t] \in {"swap", "grace"} /\ ptr[t] # None

\* Owned caches are allocated, each by one task and none of them published;
\* everything allocated is owned or published.
Ownership ==
    /\ \A t \in Task : Owns(t) => mem[ptr[t]] # Free /\ ptr[t] # cache
    /\ \A t, u \in Task : Owns(t) /\ Owns(u) /\ ptr[t] = ptr[u] => t = u
    /\ cache # None => mem[cache] # Free
    /\ \A t \in Task : pc[t] \notin {"swap", "grace", "read"} => ptr[t] = None
    /\ \A t \in Task : pc[t] = "swap" => ptr[t] # None
    /\ \A a \in Slot : mem[a] # Free => a = cache \/ \E t \in Task : Owns(t) /\ ptr[t] = a

\* What a reader holds is the published cache, or waits for this reader.
ReadersWaitedFor ==
    \A d \in Daemon : pc[d] = "read" /\ ptr[d] # None =>
        \/ ptr[d] = cache
        \/ \E t \in Task : pc[t] = "grace" /\ ptr[t] = ptr[d] /\ d \in wait[t]

\* The control fd is closed before the owner changes and the cache is cleared.
TeardownOrder ==
    /\ stage # "up" => \A d \in Daemon : ~InIoctl(d)
    /\ pc[Exit] = IF stage = "exiting" THEN "grace" ELSE "off"
    /\ stage \in {"exiting", "exited"} => cache = None
    /\ OwnerStable

LifeInv == Ownership /\ ReadersWaitedFor /\ TeardownOrder

CacheInv == Types /\ LifeInv

-----------------------------------------------------------------------------
(* The steps, sorted by who takes them.                                    *)

KernelStep ==
    \/ yz_host_root_detect \/ yukizygisk_control_exit \/ yz_host_root_exit
    \/ yz_policy_cache_clear \/ ClearDone
ManagerStep == Edit \/ Save
DaemonStep(d) ==
    \/ setup(d) \/ TakeEvent(d) \/ RefreshAll(d) \/ \E u \in Uid : Request(d, u)
    \/ Refresh(d) \/ Install(d)
    \/ ioctl_uid_should_umount(d) \/ Read(d) \/ query_uid(d) \/ Reply(d)

LEMMA NextSorted ==
    [Next]_vars <=> \/ KernelStep \/ ManagerStep \/ UNCHANGED vars
                    \/ \E d \in Daemon : DaemonStep(d)
BY DEF Next, KernelStep, ManagerStep, DaemonStep

LEMMA DaemonKeepsKernel ==
    ASSUME NEW d \in Daemon, DaemonStep(d)
    PROVE  UNCHANGED <<kernel, source>>
BY DEF DaemonStep, setup, TakeEvent, RefreshAll, Request, Refresh, read_stamp, Parse,
   QueryDefault, QueryUids, Install, push_cache, Swap, Installed,
   ioctl_uid_should_umount, Read, query_uid, Reply, DaemonRest

LEMMA ManagerKeeps ==
    ASSUME ManagerStep
    PROVE  UNCHANGED <<kernel, memory, pc, ptr, wait, work, events, bounds>>
BY DEF ManagerStep, Edit, Save

LEMMA KernelKeeps ==
    ASSUME KernelStep
    PROVE  UNCHANGED <<source, work, events, bounds>>
BY DEF KernelStep, yz_host_root_detect, yukizygisk_control_exit, yz_host_root_exit,
   yz_policy_cache_clear, ClearDone

-----------------------------------------------------------------------------
(* Types.                                                                  *)

LEMMA Typed == Types => TypeOK
<1> SUFFICES ASSUME Types PROVE TypeOK
  OBVIOUS
<1>1. stamp \in 1 .. EditMax + 1
  BY ConstantsOK DEF Types, SourceType
<1>2. {root, owner} \subseteq {"none", "kernelsu", "kernelpatch"}
  BY DEF Types, KernelType
<1> QED BY <1>1, <1>2 DEF Types, KernelType, MemType, SourceType, TaskType, SnapType, WorkType,
           RestType, TypeOK

\* yz_host_root_detect goes up only with a root the kernel knows.
LEMMA DetectedRoot ==
    ASSUME yz_host_root_detect, stage' = "up"
    PROVE  owner' = root' /\ root' \in {"kernelsu", "kernelpatch"} /\ fallback' \in BOOLEAN
<1>1. PICK ksu, apatch, magisk, callable, forced \in BOOLEAN :
         LET roots == {r \in {<<"kernelsu", ksu>>, <<"kernelpatch", apatch>>,
                              <<"magisk", magisk>>} : r[2]}
         IN IF Cardinality(roots) # 1 \/ magisk
            THEN stage' = "refused" /\ UNCHANGED <<root, owner, fallback>>
            ELSE /\ stage' = "up"
                 /\ owner' = (CHOOSE r \in roots : TRUE)[1] /\ root' = owner'
                 /\ fallback' = (forced \/ ~callable)
  BY DEF yz_host_root_detect
<1> DEFINE roots == {r \in {<<"kernelsu", ksu>>, <<"kernelpatch", apatch>>,
                            <<"magisk", magisk>>} : r[2]}
<1>2. /\ Cardinality(roots) = 1 /\ ~magisk /\ root' = owner'
      /\ owner' = (CHOOSE r \in roots : TRUE)[1]
      /\ fallback' = (forced \/ ~callable)
  BY <1>1
<1>3. roots # {}
  BY <1>2, FS_EmptySet
<1>4. (CHOOSE r \in roots : TRUE) \in roots
  BY <1>3
<1>5. \A r \in roots : r[1] \in {"kernelsu", "kernelpatch"}
  BY <1>2
<1> HIDE DEF roots
<1> QED BY <1>2, <1>4, <1>5

LEMMA StepKernelType == Types /\ [Next]_vars => KernelType'
<1> SUFFICES ASSUME Types, [Next]_vars PROVE KernelType'
  OBVIOUS
<1>1. CASE yz_host_root_detect
  <2>1. CASE stage' = "up"
    BY <1>1, <2>1, DetectedRoot DEF KernelType
  <2>2. CASE stage' # "up"
    <3>1. stage' = "refused" /\ UNCHANGED <<root, owner, fallback>>
      BY <1>1, <2>2 DEF yz_host_root_detect
    <3> QED BY <3>1 DEF Types, KernelType
  <2> QED BY <2>1, <2>2
<1>2. CASE yukizygisk_control_exit \/ yz_host_root_exit \/ yz_policy_cache_clear \/ ClearDone
  BY <1>2 DEF yukizygisk_control_exit, yz_host_root_exit, yz_policy_cache_clear, ClearDone,
     Types, KernelType
<1>3. CASE UNCHANGED kernel
  BY <1>3 DEF Types, KernelType, kernel
<1> QED BY <1>1, <1>2, <1>3, NextSorted, DaemonKeepsKernel, ManagerKeeps
        DEF KernelStep, vars

LEMMA StepSourceType == Types /\ [Next]_vars => SourceType'
<1> SUFFICES ASSUME Types, [Next]_vars PROVE SourceType'
  OBVIOUS
<1>1. CASE Edit
  <2>1. now' \in Policy
    <3>1. \/ now' = [now EXCEPT !.default = ~@]
          \/ \E u \in Uid, a \in Answer : now' = [now EXCEPT !.who[u] = a]
      BY <1>1 DEF Edit
    <3>2. now \in Policy
      BY DEF Types, SourceType
    <3>3. now.who \in [Uid -> Answer \cup {"unset"}] /\ now.default \in BOOLEAN
      BY <3>2 DEF Policy
    <3>4. CASE now' = [now EXCEPT !.default = ~@]
      <4>1. now' = [who |-> now.who, default |-> ~now.default]
        BY <3>2, <3>4 DEF Policy
      <4> QED BY <3>3, <4>1 DEF Policy
    <3>5. ASSUME NEW u \in Uid, NEW a \in Answer, now' = [now EXCEPT !.who[u] = a]
          PROVE  now' \in Policy
      <4>1. now' = [who |-> [now.who EXCEPT ![u] = a], default |-> now.default]
        BY <3>2, <3>5 DEF Policy
      <4> QED BY <3>3, <4>1 DEF Policy
    <3> QED BY <3>1, <3>4, <3>5
  <2>2. /\ edits' = edits + 1 /\ edits < EditMax
        /\ \/ dirty' = TRUE /\ UNCHANGED <<listed, stamp, blurred>>
           \/ /\ listed' = Listed(now') /\ stamp' \in {stamp, stamp + 1} /\ UNCHANGED dirty
              /\ blurred' \in BOOLEAN
    BY <1>1 DEF Edit, Written
  <2>3. Listed(now') \subseteq Uid
    BY DEF Listed
  <2>4. dirty' \in BOOLEAN /\ blurred' \in BOOLEAN
    BY <2>2 DEF Types, SourceType
  <2>5. edits' \in 0 .. EditMax
    BY <2>2, ConstantsOK DEF Types, SourceType
  <2>6. stamp' \in Nat /\ 1 <= stamp' /\ (IF dirty' THEN stamp' + 1 ELSE stamp') <= edits' + 1
    BY <2>2, ConstantsOK DEF Types, SourceType
  <2> QED BY <2>1, <2>2, <2>3, <2>4, <2>5, <2>6 DEF Types, SourceType
<1>2. CASE Save
  <2>1. Listed(now) \subseteq Uid
    BY DEF Listed
  <2>2. dirty' \in BOOLEAN /\ blurred' \in BOOLEAN
    BY <1>2 DEF Save, Written
  <2>3. stamp' \in Nat /\ 1 <= stamp' /\ (IF dirty' THEN stamp' + 1 ELSE stamp') <= edits' + 1
    BY <1>2 DEF Save, Written, Types, SourceType
  <2> QED BY <1>2, <2>1, <2>2, <2>3 DEF Save, Types, SourceType
<1>3. CASE UNCHANGED source
  BY <1>3 DEF Types, SourceType, source
<1> QED BY <1>1, <1>2, <1>3, NextSorted, DaemonKeepsKernel, KernelKeeps
        DEF ManagerStep, vars

\* There is always room for another cache: every task holds at most one, and
\* the one that allocates holds none.
FreeSlot == CHOOSE x \in Slot : mem[x] = Free

LEMMA FreeSlotExists ==
    ASSUME Types, Ownership, NEW d \in Daemon, pc[d] = "push"
    PROVE  FreeSlot \in Slot /\ mem[FreeSlot] = Free
<1> SUFFICES ASSUME \A x \in Slot : mem[x] # Free PROVE FALSE
  BY DEF FreeSlot
<1> DEFINE f == [t \in Task |-> IF t = d THEN cache ELSE ptr[t]]
           I == {f[t] : t \in Task}
<1>1. Slot \in SUBSET I
  <2> SUFFICES ASSUME NEW a \in Slot PROVE \E t \in Task : f[t] = a
    OBVIOUS
  <2>1. a = cache \/ \E t \in Task : Owns(t) /\ ptr[t] = a
    BY DEF Ownership
  <2>2. ~Owns(d) /\ d \in Task
    BY DEF Owns, Task
  <2> QED BY <2>1, <2>2
<1>2. IsFiniteSet(Task) /\ Cardinality(Task) = Cardinality(Daemon) + 1
  BY ConstantsOK, FS_AddElement DEF Task
<1>3. f \in Surjection(Task, I)
  BY DEF Surjection
<1>4. IsFiniteSet(I) /\ Cardinality(I) <= Cardinality(Task)
  BY <1>2, <1>3, FS_Surjection
<1>5. Cardinality(Slot) <= Cardinality(I)
  BY <1>1, <1>4, FS_Subset
<1>6. /\ Cardinality(Slot) \in Nat /\ Cardinality(I) \in Nat /\ Cardinality(Daemon) \in Nat
      /\ Cardinality(Slot) >= Cardinality(Daemon) + 2
  BY <1>4, ConstantsOK, FS_CardinalityType
<1> HIDE DEF I
<1> QED BY <1>2, <1>4, <1>5, <1>6

LEMMA StepMemType == Types /\ Ownership /\ [Next]_vars => MemType'
<1> SUFFICES ASSUME Types, Ownership, [Next]_vars PROVE MemType'
  OBVIOUS
<1>1. MemType /\ TaskType
  BY DEF Types
<1>2. \A t \in Task : Released(t) \in [Slot -> Cache \cup {Free}]
  BY <1>1 DEF MemType, TaskType, Released
<1>3. Exit \in Task /\ Daemon \subseteq Task
  BY DEF Task
<1>4. CASE UNCHANGED memory
  BY <1>1, <1>4 DEF MemType, memory
<1>5. CASE KernelStep
  <2>1. CASE yz_policy_cache_clear
    BY <1>1, <2>1 DEF yz_policy_cache_clear, MemType
  <2>2. CASE ClearDone
    BY <1>1, <1>2, <1>3, <2>2 DEF ClearDone, MemType
  <2>3. CASE yz_host_root_detect \/ yukizygisk_control_exit \/ yz_host_root_exit
    BY <1>4, <2>3 DEF yz_host_root_detect, yukizygisk_control_exit, yz_host_root_exit
  <2> QED BY <1>5, <2>1, <2>2, <2>3 DEF KernelStep
<1>6. ASSUME NEW d \in Daemon, push_cache(d)
      PROVE  MemType'
  <2>1. CASE mem' = mem
    BY <1>1, <1>6, <2>1 DEF push_cache, MemType
  <2>2. CASE /\ stage = "up"
             /\ mem' = [mem EXCEPT ![FreeSlot] = [snap |-> g[d].snap, owner |-> root, by |-> d]]
    <3>1. FreeSlot \in Slot
      BY <1>6, FreeSlotExists DEF push_cache
    <3>2. g[d].snap \in Snapshot /\ root \in {"kernelsu", "kernelpatch"}
      BY <2>2 DEF Types, SnapType, KernelType
    <3>3. [snap |-> g[d].snap, owner |-> root, by |-> d] \in Cache
      BY <3>2 DEF Cache
    <3> QED BY <1>1, <1>6, <2>2, <3>1, <3>3 DEF push_cache, MemType
  <2> QED BY <1>6, <2>1, <2>2 DEF push_cache, FreeSlot
<1>7. ASSUME NEW d \in Daemon, Swap(d) \/ Installed(d)
      PROVE  MemType'
  <2>1. ptr[d] \in Slot \cup {None} /\ Released(d) \in [Slot -> Cache \cup {Free}]
    BY <1>1, <1>2, <1>3 DEF TaskType
  <2>2. \/ cache' = ptr[d] /\ mem' = mem
        \/ cache' = cache /\ mem' = Released(d)
    BY <1>7 DEF Swap, Installed
  <2> QED BY <1>1, <2>1, <2>2 DEF MemType
<1>8. ASSUME NEW d \in Daemon, DaemonStep(d)
      PROVE  MemType'
  <2>1. UNCHANGED memory \/ push_cache(d) \/ Swap(d) \/ Installed(d)
    BY <1>8 DEF DaemonStep, setup, TakeEvent, RefreshAll, Request, Refresh, read_stamp, Parse,
       QueryDefault, QueryUids, Install, ioctl_uid_should_umount, Read, query_uid, Reply,
       DaemonRest
  <2> QED BY <1>4, <1>6, <1>7, <2>1
<1> QED BY <1>4, <1>5, <1>8, NextSorted, ManagerKeeps DEF vars

\* Where a refresh that fails leads.
LEMMA RefreshFailsTo ==
    ASSUME WorkType, NEW d \in Daemon, RefreshFails(d)
    PROVE  \E x \in {"dead", "idle", "ioctl", "asked", "answered"} :
              /\ pc' = [pc EXCEPT ![d] = x] /\ x \in {"dead", then[d]}
<1>1. CASE then[d] = "serve"
  BY <1>1 DEF RefreshFails, Go
<1>2. CASE then[d] # "serve"
  <2>1. then[d] \in {"idle", "ioctl", "asked", "answered"}
    BY <1>2 DEF WorkType
  <2> QED BY <1>2, <2>1 DEF RefreshFails, Go
<1> QED BY <1>1, <1>2

\* Where a daemon goes and what it holds.
LEMMA StepTaskType == Types /\ Ownership /\ [Next]_vars => TaskType'
<1> SUFFICES ASSUME Types, Ownership, [Next]_vars PROVE TaskType'
  OBVIOUS
<1>1. MemType /\ TaskType /\ WorkType /\ Exit \in Task /\ Daemon \subseteq Task
  BY DEF Types, Task
<1>2. Readers \subseteq Daemon
  BY DEF Readers
<1>3. CASE UNCHANGED <<pc, ptr, wait>>
  BY <1>1, <1>3 DEF TaskType
<1>4. CASE KernelStep
  BY <1>1, <1>2, <1>4 DEF KernelStep, yz_host_root_detect, yukizygisk_control_exit,
     yz_host_root_exit, yz_policy_cache_clear, ClearDone, Go, TaskType, MemType
<1>5. ASSUME NEW d \in Daemon, DaemonStep(d)
      PROVE  TaskType'
  <2>1. CASE setup(d) \/ TakeEvent(d) \/ RefreshAll(d) \/ \E u \in Uid : Request(d, u)
    BY <1>1, <2>1 DEF setup, TakeEvent, RefreshAll, Request, Begin, Go, DaemonRest, TaskType
  <2>2. CASE read_stamp(d)
    <3>1. then[d] # "serve" \/ Forced(d)
      BY DEF Types, ReqOfWork, Forced
    <3> QED BY <1>1, <2>2, <3>1 DEF read_stamp, Go, DaemonRest, TaskType, WorkType
  <2>3. CASE Parse(d)
    <3>1. \/ pc' = [pc EXCEPT ![d] = "default"] \/ pc' = [pc EXCEPT ![d] = "push"]
          \/ RefreshFails(d)
      BY <2>3 DEF Parse, Go
    <3>2. UNCHANGED <<ptr, wait>>
      BY <2>3 DEF Parse, DaemonRest
    <3> QED BY <1>1, <3>1, <3>2, RefreshFailsTo DEF TaskType
  <2>4. CASE QueryDefault(d) \/ QueryUids(d)
    BY <1>1, <2>4 DEF QueryDefault, QueryUids, Go, DaemonRest, TaskType
  <2>5. CASE push_cache(d)
    <3>1. FreeSlot \in Slot
      BY <2>5, FreeSlotExists DEF push_cache
    <3>2. \/ pc' = [pc EXCEPT ![d] = "swap"] /\ ptr' = [ptr EXCEPT ![d] = FreeSlot]
          \/ RefreshFails(d) /\ ptr' = ptr
      BY <2>5 DEF push_cache, FreeSlot, Go
    <3>3. wait' = wait
      BY <2>5 DEF push_cache
    <3> QED BY <1>1, <3>1, <3>2, <3>3, RefreshFailsTo DEF TaskType
  <2>6. CASE Swap(d)
    <3>1. \/ /\ pc' = [pc EXCEPT ![d] = "grace"] /\ ptr' = [ptr EXCEPT ![d] = cache]
             /\ wait' = [wait EXCEPT ![d] = Readers]
          \/ RefreshFails(d) /\ ptr' = [ptr EXCEPT ![d] = None] /\ wait' = wait
      BY <2>6 DEF Swap, Go
    <3> QED BY <1>1, <1>2, <3>1, RefreshFailsTo DEF TaskType, MemType
  <2>7. CASE Installed(d)
    BY <1>1, <2>7 DEF Installed, Go, TaskType, WorkType
  <2>8. CASE ioctl_uid_should_umount(d)
    BY <1>1, <2>8 DEF ioctl_uid_should_umount, Answered, Go, TaskType, MemType
  <2>9. CASE Read(d)
    BY <1>1, <2>9 DEF Read, Begin, Answered, Go, TaskType
  <2>10. CASE query_uid(d)
    BY <1>1, <2>10 DEF query_uid, Begin, Answered, Go, DaemonRest, TaskType
  <2>11. CASE Reply(d)
    BY <1>1, <2>11 DEF Reply, Go, DaemonRest, TaskType
  <2> QED BY <1>5, <2>1, <2>2, <2>3, <2>4, <2>5, <2>6, <2>7, <2>8, <2>9, <2>10, <2>11
          DEF DaemonStep, Refresh, Install
<1> QED BY <1>3, <1>4, <1>5, NextSorted, ManagerKeeps DEF vars

\* What the daemon keeps: its Context and, in it, its decisions.
Context == [snap: Snapshot, enabled: BOOLEAN, stamp: Nat]
Decisions == [Uid -> Answer \cup {"unset"}]

LEMMA ContextParts ==
    ASSUME SnapType, NEW d \in Daemon
    PROVE  /\ g[d] \in Context
           /\ g[d].snap \in Snapshot /\ g[d].enabled \in BOOLEAN /\ g[d].stamp \in Nat
           /\ g[d].snap.dec \in Decisions /\ g[d].snap.complete \in BOOLEAN
<1>1. g[d] \in Context
  BY DEF SnapType, Context
<1>2. g[d].snap \in Snapshot /\ g[d].enabled \in BOOLEAN /\ g[d].stamp \in Nat
  BY <1>1 DEF Context
<1>3. g[d].snap.dec \in Decisions /\ g[d].snap.complete \in BOOLEAN
  BY <1>2 DEF Snapshot, Decisions
<1> QED BY <1>1, <1>2, <1>3

\* Assignments to one part.
LEMMA ContextUpdate ==
    ASSUME NEW c \in Context
    PROVE  /\ \A s \in Snapshot : [c EXCEPT !.snap = s] \in Context
           /\ \A b \in BOOLEAN : [c EXCEPT !.enabled = b] \in Context
           /\ \A n \in Nat : [c EXCEPT !.stamp = n] \in Context
<1>1. ASSUME NEW s \in Snapshot PROVE [c EXCEPT !.snap = s] \in Context
  BY DEF Context
<1>2. ASSUME NEW b \in BOOLEAN PROVE [c EXCEPT !.enabled = b] \in Context
  BY DEF Context
<1>3. ASSUME NEW n \in Nat PROVE [c EXCEPT !.stamp = n] \in Context
  BY DEF Context
<1> QED BY <1>1, <1>2, <1>3

LEMMA SnapUpdate ==
    ASSUME NEW s \in Snapshot
    PROVE  /\ \A x \in Decisions : [s EXCEPT !.dec = x] \in Snapshot
           /\ \A b \in BOOLEAN : [s EXCEPT !.default = b] \in Snapshot
           /\ \A b \in BOOLEAN : [s EXCEPT !.complete = b] \in Snapshot
           /\ \A b \in BOOLEAN : [s EXCEPT !.manager = b] \in Snapshot
<1>1. ASSUME NEW x \in Decisions PROVE [s EXCEPT !.dec = x] \in Snapshot
  BY DEF Snapshot, Decisions
<1>2. ASSUME NEW b \in BOOLEAN PROVE [s EXCEPT !.default = b] \in Snapshot
  BY DEF Snapshot
<1>3. ASSUME NEW b \in BOOLEAN PROVE [s EXCEPT !.complete = b] \in Snapshot
  BY DEF Snapshot
<1>4. ASSUME NEW b \in BOOLEAN PROVE [s EXCEPT !.manager = b] \in Snapshot
  BY DEF Snapshot
<1> QED BY <1>1, <1>2, <1>3, <1>4

LEMMA ContextSet ==
    ASSUME SnapType, NEW d \in Daemon, NEW r \in Context, g' = [g EXCEPT ![d] = r]
    PROVE  SnapType'
BY DEF SnapType, Context

LEMMA SnapSet ==
    ASSUME SnapType, NEW d \in Daemon, NEW s \in Snapshot, g' = [g EXCEPT ![d].snap = s]
    PROVE  SnapType'
<1> DEFINE r == [g[d] EXCEPT !.snap = s]
<1>1. r \in Context
  BY ContextParts, ContextUpdate
<1>2. g' = [g EXCEPT ![d] = r]
  OBVIOUS
<1> HIDE DEF r
<1> QED BY <1>1, <1>2, ContextSet

\* The answers: a decision is one, and so is a lookup that does not give up.
LEMMA DecideAnswers ==
    ASSUME SourceType, NEW u \in Uid
    PROVE  Decide(now, u) \in Answer
<1>1. now.who \in [Uid -> Answer \cup {"unset"}]
  BY DEF SourceType, Policy
<1> QED BY <1>1 DEF Decide, Answer, Yes

LEMMA LookupAnswers ==
    ASSUME NEW c \in Snapshot, NEW u \in Uid
    PROVE  Lookup(c, u) \in Answer \cup {"again"}
<1>1. c.dec \in [Uid -> Answer \cup {"unset"}]
  BY DEF Snapshot
<1> QED BY <1>1 DEF Lookup, Answer, Yes

LEMMA StampNowKeepsSnapType ==
    ASSUME SnapType, WorkType, NEW d \in Daemon, NEW ok \in BOOLEAN, StampNow(d, ok)
    PROVE  SnapType'
<1>1. StampKept(d, ok) \in Nat
  BY ContextParts DEF StampKept, WorkType
<1> DEFINE r == [g[d] EXCEPT !.stamp = StampKept(d, ok)]
<1>2. r \in Context
  BY <1>1, ContextParts, ContextUpdate
<1>3. g' = [g EXCEPT ![d] = r]
  BY DEF StampNow
<1> HIDE DEF r
<1> QED BY <1>2, <1>3, ContextSet

LEMMA ParseKeepsSnapType ==
    ASSUME Types, NEW d \in Daemon, Parse(d)
    PROVE  SnapType'
<1>1. SnapType /\ WorkType /\ SourceType
  BY DEF Types
<1>2. CASE RefreshFails(d)
  BY <1>1, <1>2, StampNowKeepsSnapType DEF RefreshFails
<1>3. [u \in Uid |-> "unset"] \in Decisions /\ now.who \in Decisions
  BY <1>1 DEF Decisions, SourceType, Policy
<1>4. \A kept : Partly(now.who, kept) \in Decisions
  BY <1>3 DEF Partly, Decisions
<1>5. Empty \in Snapshot
  BY <1>3 DEF Empty, Snapshot, Decisions
<1>6. [Empty EXCEPT !.complete = TRUE] \in Snapshot
  BY <1>5, SnapUpdate
<1>7. ASSUME NEW dec \in Decisions
      PROVE  /\ [Empty EXCEPT !.dec = dec] \in Snapshot
             /\ [Empty EXCEPT !.dec = dec, !.complete = TRUE] \in Snapshot
  <2> DEFINE e == [Empty EXCEPT !.dec = dec]
  <2>1. e \in Snapshot
    BY <1>5, SnapUpdate
  <2>2. [Empty EXCEPT !.dec = dec, !.complete = TRUE] = [e EXCEPT !.complete = TRUE]
    OBVIOUS
  <2> HIDE DEF e
  <2>3. [e EXCEPT !.complete = TRUE] \in Snapshot
    BY <2>1, SnapUpdate
  <2> QED BY <2>1, <2>2, <2>3 DEF e
<1>8. \/ RefreshFails(d)
      \/ g' = [g EXCEPT ![d].snap = [Empty EXCEPT !.complete = TRUE]]
      \/ g' = [g EXCEPT ![d].snap = Empty]
      \/ g' = [g EXCEPT ![d].snap = [Empty EXCEPT !.dec = now.who, !.complete = TRUE]]
      \/ \E kept \in SUBSET Uid :
            g' = [g EXCEPT ![d].snap = [Empty EXCEPT !.dec = Partly(now.who, kept)]]
  BY DEF Parse
<1>9. CASE g' = [g EXCEPT ![d].snap = [Empty EXCEPT !.complete = TRUE]]
  BY <1>1, <1>6, <1>9, SnapSet
<1>10. CASE g' = [g EXCEPT ![d].snap = Empty]
  BY <1>1, <1>5, <1>10, SnapSet
<1>11. CASE g' = [g EXCEPT ![d].snap = [Empty EXCEPT !.dec = now.who, !.complete = TRUE]]
  <2> DEFINE s == [Empty EXCEPT !.dec = now.who, !.complete = TRUE]
  <2>1. s \in Snapshot
    BY <1>3, <1>7
  <2> HIDE DEF s
  <2> QED BY <1>1, <1>11, <2>1, SnapSet DEF s
<1>12. ASSUME NEW kept \in SUBSET Uid,
              g' = [g EXCEPT ![d].snap = [Empty EXCEPT !.dec = Partly(now.who, kept)]]
       PROVE  SnapType'
  <2> DEFINE s == [Empty EXCEPT !.dec = Partly(now.who, kept)]
  <2>1. s \in Snapshot
    BY <1>4, <1>7
  <2>2. g' = [g EXCEPT ![d].snap = s]
    BY <1>12
  <2> HIDE DEF s
  <2> QED BY <1>1, <2>1, <2>2, SnapSet
<1> QED BY <1>2, <1>8, <1>9, <1>10, <1>11, <1>12

LEMMA QueriesKeepSnapType ==
    ASSUME Types, NEW d \in Daemon, QueryDefault(d) \/ QueryUids(d) \/ query_uid(d)
    PROVE  SnapType'
<1>1. SnapType /\ WorkType /\ SourceType
  BY DEF Types
<1> DEFINE s == g[d].snap
<1>2. g[d] \in Context /\ s \in Snapshot /\ s.dec \in Decisions /\ s.complete \in BOOLEAN
  BY <1>1, ContextParts
<1>3. ASSUME NEW u \in Uid, g' = [g EXCEPT ![d].snap.dec[u] = Decide(now, u)]
      PROVE  SnapType'
  <2> DEFINE dec == [s.dec EXCEPT ![u] = Decide(now, u)]
             n == [s EXCEPT !.dec = dec]
  <2>1. dec \in Decisions
    BY <1>1, <1>2, DecideAnswers DEF Decisions
  <2>2. n \in Snapshot
    <3> HIDE DEF dec
    <3> QED BY <1>2, <2>1, SnapUpdate
  <2>3. g' = [g EXCEPT ![d].snap = n]
    BY <1>3
  <2> HIDE DEF n
  <2> QED BY <1>1, <2>2, <2>3, SnapSet
<1>4. CASE QueryDefault(d)
  <2>1. PICK profile, manager \in BOOLEAN :
          g' = [g EXCEPT ![d].snap.default = profile /\ now.default,
                          ![d].snap.manager = manager,
                          ![d].snap.complete = @ /\ profile /\ manager]
    BY <1>4 DEF QueryDefault
  <2> DEFINE default == profile /\ now.default
             complete == s.complete /\ profile /\ manager
             s1 == [s EXCEPT !.default = default]
             s2 == [s1 EXCEPT !.manager = manager]
             s3 == [s2 EXCEPT !.complete = complete]
  <2>2. default \in BOOLEAN /\ complete \in BOOLEAN
    OBVIOUS
  <2>3. g' = [g EXCEPT ![d].snap = s3]
    BY <1>1, <1>2, <2>1 DEF SnapType, Context, Snapshot
  <2> HIDE DEF default, complete
  <2>4. s1 \in Snapshot
    BY <1>2, <2>2, SnapUpdate
  <2> HIDE DEF s1
  <2>5. s2 \in Snapshot
    BY <2>2, <2>4, SnapUpdate
  <2> HIDE DEF s2
  <2>6. s3 \in Snapshot
    BY <2>2, <2>5, SnapUpdate
  <2> HIDE DEF s3
  <2> QED BY <1>1, <2>3, <2>6, SnapSet
<1>5. CASE QueryUids(d)
  <2>1. \/ \E u \in uids[d] : g' = [g EXCEPT ![d].snap.dec[u] = Decide(now, u)]
        \/ g' = [g EXCEPT ![d].snap.complete = FALSE]
    BY <1>5 DEF QueryUids
  <2>2. uids[d] \subseteq Uid
    BY <1>1 DEF WorkType
  <2>3. CASE g' = [g EXCEPT ![d].snap.complete = FALSE]
    <3> DEFINE n == [s EXCEPT !.complete = FALSE]
    <3>1. n \in Snapshot
      BY <1>2, SnapUpdate
    <3>2. g' = [g EXCEPT ![d].snap = n]
      BY <2>3
    <3> HIDE DEF n
    <3> QED BY <1>1, <3>1, <3>2, SnapSet
  <2> QED BY <1>3, <2>1, <2>2, <2>3
<1>6. CASE query_uid(d)
  <2>1. req[d] \in Uid
    BY <1>6 DEF query_uid, Types, ReqOfWork
  <2>2. g' = g \/ g' = [g EXCEPT ![d].snap.dec[req[d]] = Decide(now, req[d])]
    BY <1>6 DEF query_uid
  <2> QED BY <1>1, <1>3, <2>1, <2>2 DEF SnapType
<1> QED BY <1>4, <1>5, <1>6

LEMMA StepSnapType == Types /\ [Next]_vars => SnapType'
<1> SUFFICES ASSUME Types, [Next]_vars PROVE SnapType'
  OBVIOUS
<1>1. SnapType /\ WorkType
  BY DEF Types
<1>2. CASE g' = g
  BY <1>1, <1>2 DEF SnapType
<1>3. ASSUME NEW d \in Daemon, DaemonStep(d)
      PROVE  SnapType'
  <2>1. CASE setup(d)
    <3> DEFINE r == [g[d] EXCEPT !.enabled = TRUE]
    <3>1. r \in Context
      BY <1>1, ContextParts, ContextUpdate
    <3>2. g' = [g EXCEPT ![d] = r] \/ g' = g
      BY <2>1 DEF setup
    <3> HIDE DEF r
    <3> QED BY <1>1, <1>2, <3>1, <3>2, ContextSet
  <2>2. CASE push_cache(d) \/ Swap(d) \/ Installed(d)
    <3>1. g' = g \/ \E ok \in BOOLEAN : StampNow(d, ok)
      BY <2>2 DEF push_cache, Swap, Installed, RefreshFails
    <3> QED BY <1>1, <1>2, <3>1, StampNowKeepsSnapType
  <2>3. CASE g' = g
    BY <1>2, <2>3
  <2>4. \/ g' = g \/ setup(d) \/ push_cache(d) \/ Swap(d) \/ Installed(d)
        \/ Parse(d) \/ QueryDefault(d) \/ QueryUids(d) \/ query_uid(d)
    BY <1>3 DEF DaemonStep, TakeEvent, RefreshAll, Request, Refresh, read_stamp, Install,
       ioctl_uid_should_umount, Read, Reply
  <2> QED BY <2>1, <2>2, <2>3, <2>4, ParseKeepsSnapType, QueriesKeepSnapType
<1> QED BY <1>2, <1>3, NextSorted, ManagerKeeps, KernelKeeps DEF vars, work

\* The other work of a daemon.
LEMMA StepWorkType == Types /\ [Next]_vars => WorkType'
<1> SUFFICES ASSUME Types, [Next]_vars PROVE WorkType'
  OBVIOUS
<1>1. /\ WorkType /\ SnapType /\ SourceType /\ stamp \in Nat /\ 0 \in Nat
      /\ Uid \subseteq Uid \cup {All} /\ All \in Uid \cup {All}
  BY DEF Types, SourceType
<1>2. CASE UNCHANGED work
  BY <1>1, <1>2 DEF WorkType, work
<1>3. ASSUME NEW d \in Daemon, DaemonStep(d)
      PROVE  WorkType'
  <2>1. cur' \in [Daemon -> Nat]
    <3>1. \/ cur' = cur \/ cur' = [cur EXCEPT ![d] = stamp]
          \/ cur' = [cur EXCEPT ![d] = Unread]
      BY <1>3 DEF DaemonStep, setup, TakeEvent, RefreshAll, Request, Refresh, read_stamp, Parse,
         QueryDefault, QueryUids, Install, push_cache, Swap, Installed, RefreshFails, StampNow,
         ioctl_uid_should_umount, Read, query_uid, Reply
    <3> QED BY <1>1, <3>1 DEF WorkType, Unread
  <2>2. uids' \in [Daemon -> SUBSET Uid]
    <3>1. \/ uids' = uids \/ \E s \in SUBSET listed : uids' = [uids EXCEPT ![d] = s]
          \/ \E u \in uids[d] : uids' = [uids EXCEPT ![d] = @ \ {u}]
      BY <1>3 DEF DaemonStep, setup, TakeEvent, RefreshAll, Request, Refresh, read_stamp, Parse,
         QueryDefault, QueryUids, Install, push_cache, Swap, Installed,
         ioctl_uid_should_umount, Read, query_uid, Reply
    <3>2. listed \subseteq Uid
      BY <1>1 DEF SourceType
    <3> QED BY <1>1, <3>1, <3>2 DEF WorkType
  <2>3. req' \in [Daemon -> Uid \cup {All}]
    <3>1. events[d] \subseteq Uid
      BY DEF Types, RestType
    <3>2. req' = req \/ \E u \in Uid \cup {All} : req' = [req EXCEPT ![d] = u]
      BY <1>3, <3>1 DEF DaemonStep, setup, TakeEvent, RefreshAll, Request, Refresh, read_stamp,
         Parse, QueryDefault, QueryUids, Install, push_cache, Swap, Installed,
         ioctl_uid_should_umount, Read, query_uid, Reply
    <3> QED BY <1>1, <3>2 DEF WorkType
  <2>4. then' \in [Daemon -> {"idle", "ioctl", "asked", "serve", "answered"}]
    <3>1. \/ then' = then
          \/ \E x \in {"idle", "ioctl", "asked", "serve", "answered"} :
                then' = [then EXCEPT ![d] = x]
      BY <1>3 DEF DaemonStep, setup, TakeEvent, RefreshAll, Request, Refresh, read_stamp,
         Parse, QueryDefault, QueryUids, Install, push_cache, Swap, Installed,
         ioctl_uid_should_umount, Read, query_uid, Reply, Begin
    <3> QED BY <1>1, <3>1 DEF WorkType
  <2>5. res' \in [Daemon -> Answer \cup {"none", "failed"}]
    <3>1. CASE \E a \in Answer \cup {"none", "failed"} : res' = [res EXCEPT ![d] = a]
      BY <1>1, <3>1 DEF WorkType
    <3>2. CASE res' = res
      BY <1>1, <3>2 DEF WorkType
    <3>3. CASE ioctl_uid_should_umount(d)
      <4>1. req[d] \in Uid
        BY <3>3 DEF ioctl_uid_should_umount, Types, ReqOfWork
      <4>2. \/ res' = res \/ res' = [res EXCEPT ![d] = "failed"]
            \/ res' = [res EXCEPT ![d] = Decide(now, req[d])]
        BY <3>3 DEF ioctl_uid_should_umount, Answered
      <4>3. Decide(now, req[d]) \in Answer
        BY <1>1, <4>1, DecideAnswers
      <4> QED BY <3>1, <3>2, <4>2, <4>3
    <3>4. CASE Read(d)
      <4>1. req[d] \in Uid /\ ptr[d] \in Slot \cup {None}
        BY <3>4 DEF Read, Types, ReqOfWork, TaskType, Task
      <4> DEFINE a == IF ptr[d] = None THEN "again"
                      ELSE IF mem[ptr[d]] = Free THEN "no"
                      ELSE Lookup(mem[ptr[d]].snap, req[d])
      <4>2. res' = res \/ (a # "again" /\ res' = [res EXCEPT ![d] = a])
        BY <3>4 DEF Read, Answered
      <4>3. a \in Answer \cup {"again"}
        <5>1. CASE ptr[d] = None \/ mem[ptr[d]] = Free
          BY <5>1 DEF Answer
        <5>2. CASE ptr[d] # None /\ mem[ptr[d]] # Free
          <6>1. mem[ptr[d]] \in Cache
            BY <4>1, <5>2 DEF Types, MemType
          <6>2. mem[ptr[d]].snap \in Snapshot
            BY <6>1 DEF Cache
          <6> QED BY <4>1, <5>2, <6>2, LookupAnswers
        <5> QED BY <5>1, <5>2
      <4> HIDE DEF a
      <4> QED BY <3>1, <3>2, <4>2, <4>3
    <3>5. CASE query_uid(d)
      <4>1. req[d] \in Uid
        BY <3>5 DEF query_uid, Types, ReqOfWork
      <4>2. Decide(now, req[d]) \in Answer
        BY <1>1, <4>1, DecideAnswers
      <4>3. Lookup(g[d].snap, req[d]) \in Answer \cup {"again"}
        BY <1>1, <4>1, ContextParts, LookupAnswers
      <4>4. \/ res' = [res EXCEPT ![d] = Decide(now, req[d])]
            \/ res' = [res EXCEPT ![d] = "failed"]
            \/ /\ Lookup(g[d].snap, req[d]) # "again"
               /\ res' = [res EXCEPT ![d] = Lookup(g[d].snap, req[d])]
        BY <3>5 DEF query_uid, Answered
      <4> QED BY <3>1, <4>2, <4>3, <4>4
    <3>6. \/ res' = res \/ res' = [res EXCEPT ![d] = "none"]
          \/ ioctl_uid_should_umount(d) \/ Read(d) \/ query_uid(d)
      BY <1>3 DEF DaemonStep, setup, TakeEvent, RefreshAll, Request, Refresh, read_stamp,
         Parse, QueryDefault, QueryUids, Install, push_cache, Swap, Installed, Reply
    <3> QED BY <3>1, <3>2, <3>3, <3>4, <3>5, <3>6
  <2> QED BY <2>1, <2>2, <2>3, <2>4, <2>5 DEF WorkType
<1> QED BY <1>2, <1>3, NextSorted, ManagerKeeps, KernelKeeps DEF vars

LEMMA StepRestType == Types /\ [Next]_vars => RestType'
<1> SUFFICES ASSUME Types, [Next]_vars PROVE RestType'
  OBVIOUS
<1>1. RestType /\ RequestMax \in Nat /\ FailMax \in Nat
  BY ConstantsOK DEF Types
<1>2. CASE UNCHANGED <<events, bounds>>
  BY <1>1, <1>2 DEF RestType, bounds
<1>3. CASE ManagerStep
  BY <1>1, <1>3, ManagerKeeps DEF ManagerStep, Edit, Save, RestType, bounds
<1>4. ASSUME NEW d \in Daemon, DaemonStep(d)
      PROVE  RestType'
  <2>1. events' \in [Daemon -> SUBSET Uid]
    <3>1. CASE Read(d)
      <4>1. req[d] \in Uid
        BY <3>1 DEF Read, Types, ReqOfWork
      <4>2. events' = events \/ Emit(req[d])
        BY <3>1 DEF Read
      <4> QED BY <1>1, <4>1, <4>2 DEF Emit, RestType
    <3>2. CASE events' = events \/ \E e \in events[d] : events' = [events EXCEPT ![d] = @ \ {e}]
      BY <1>1, <3>2 DEF RestType
    <3> QED BY <1>4, <3>1, <3>2 DEF DaemonStep, setup, TakeEvent, RefreshAll, Request, Refresh,
            read_stamp, Parse, QueryDefault, QueryUids, Install, push_cache, Swap, Installed,
            ioctl_uid_should_umount, query_uid, Reply
  <2>3. requests' = requests \/ (requests < RequestMax /\ requests' = requests + 1)
    BY <1>4 DEF DaemonStep, setup, TakeEvent, RefreshAll, Request, TakeUp, Refresh, read_stamp,
       Parse, QueryDefault, QueryUids, Install, push_cache, Swap, Installed,
       ioctl_uid_should_umount, Read, query_uid, Reply, bounds
  <2>4. fails' = fails \/ (fails < FailMax /\ fails' = fails + 1)
    BY <1>4 DEF DaemonStep, setup, TakeEvent, RefreshAll, Request, Refresh, read_stamp,
       Parse, QueryDefault, QueryUids, Install, push_cache, Swap, Installed,
       ioctl_uid_should_umount, Read, query_uid, Reply, bounds, MayFail, Works
  <2>5. requests' \in 0 .. RequestMax /\ fails' \in 0 .. FailMax
    BY <1>1, <2>3, <2>4 DEF RestType
  <2> QED BY <2>1, <2>5 DEF RestType
<1> QED BY <1>2, <1>3, <1>4, NextSorted, KernelKeeps DEF vars

LEMMA StepReqOfWork == Types /\ [Next]_vars => ReqOfWork'
<1> SUFFICES ASSUME Types, [Next]_vars PROVE ReqOfWork'
  OBVIOUS
<1>1. WorkType /\ TaskType /\ RestType /\ ReqOfWork /\ Daemon \subseteq Task
  BY DEF Types, Task
<1>2. CASE UNCHANGED <<then, req>> /\ \A d \in Daemon : pc'[d] = pc[d]
  BY <1>1, <1>2 DEF ReqOfWork
<1>3. CASE KernelStep
  <2>1. \A d \in Daemon : d # Exit
    BY ConstantsOK
  <2>2. pc' = pc \/ \E x \in {"grace", "off"} : pc' = [pc EXCEPT ![Exit] = x]
    BY <1>3 DEF KernelStep, yz_host_root_detect, yukizygisk_control_exit, yz_host_root_exit,
       yz_policy_cache_clear, ClearDone, Go
  <2>3. \A d \in Daemon : pc'[d] = pc[d]
    BY <1>1, <2>1, <2>2 DEF TaskType
  <2> QED BY <1>2, <1>3, <2>3, KernelKeeps DEF work
<1>4. ASSUME NEW d \in Daemon, DaemonStep(d)
      PROVE  ReqOfWork'
  <2> DEFINE Own == /\ then'[d] = "serve" => req'[d] = All
                    /\ then'[d] \in {"ioctl", "asked", "answered"} => req'[d] \in Uid
                    /\ pc'[d] \in {"ioctl", "read", "asked", "answered"} =>
                          then'[d] \in {"ioctl", "asked", "answered"}
  <2>1. \A e \in Daemon : e # d => pc'[e] = pc[e] /\ then'[e] = then[e] /\ req'[e] = req[e]
    <3>1. \E x : pc' = [pc EXCEPT ![d] = x]
      BY <1>4 DEF DaemonStep, setup, TakeEvent, RefreshAll, Request, Refresh, read_stamp,
         Parse, QueryDefault, QueryUids, Install, push_cache, Swap, Installed, RefreshFails,
         ioctl_uid_should_umount, Read, query_uid, Reply, Begin, Answered, Go
    <3>2. then' = then \/ \E x : then' = [then EXCEPT ![d] = x]
      BY <1>4 DEF DaemonStep, setup, TakeEvent, RefreshAll, Request, Refresh, read_stamp,
         Parse, QueryDefault, QueryUids, Install, push_cache, Swap, Installed,
         ioctl_uid_should_umount, Read, query_uid, Reply, Begin
    <3>3. req' = req \/ \E x : req' = [req EXCEPT ![d] = x]
      BY <1>4 DEF DaemonStep, setup, TakeEvent, RefreshAll, Request, Refresh, read_stamp,
         Parse, QueryDefault, QueryUids, Install, push_cache, Swap, Installed,
         ioctl_uid_should_umount, Read, query_uid, Reply
    <3> QED BY <1>1, <3>1, <3>2, <3>3 DEF TaskType, WorkType
  <2> SUFFICES Own
    BY <1>1, <2>1 DEF ReqOfWork
  <2>2. CASE setup(d) \/ TakeEvent(d) \/ RefreshAll(d) \/ \E u \in Uid : Request(d, u)
    <3>1. CASE setup(d)
      BY <1>1, <3>1 DEF setup, Begin, Go, TaskType, WorkType, ReqOfWork
    <3>2. CASE TakeEvent(d)
      BY <1>1, <3>2 DEF TakeEvent, Begin, Go, TaskType, WorkType, RestType
    <3>3. CASE RefreshAll(d)
      BY <1>1, <3>3 DEF RefreshAll, Begin, Go, TaskType, WorkType
    <3>4. CASE \E u \in Uid : Request(d, u)
      BY <1>1, <3>4 DEF Request, Begin, Go, TaskType, WorkType
    <3> QED BY <2>2, <3>1, <3>2, <3>3, <3>4
  <2>3. CASE /\ then' = then /\ req' = req
             /\ \E x \in {"dead", "idle", then[d], "parse", "default", "push", "query", "swap",
                          "grace"} : pc' = [pc EXCEPT ![d] = x]
    BY <1>1, <2>3 DEF TaskType, WorkType, ReqOfWork
  <2>4. CASE RefreshFails(d) /\ then' = then /\ req' = req
    BY <1>1, <2>3, <2>4, RefreshFailsTo
  <2>5. CASE Refresh(d)
    <3>1. then' = then /\ req' = req
      BY <2>5 DEF Refresh, read_stamp, Parse, QueryDefault, QueryUids
    <3>2. \/ RefreshFails(d)
          \/ \E x \in {then[d], "parse", "default", "push", "query"} :
                pc' = [pc EXCEPT ![d] = x]
      BY <2>5 DEF Refresh, read_stamp, Parse, QueryDefault, QueryUids, Go
    <3> QED BY <2>3, <2>4, <3>1, <3>2
  <2>6. CASE Install(d)
    <3>1. then' = then /\ req' = req
      BY <2>6 DEF Install, push_cache, Swap, Installed
    <3>2. \/ RefreshFails(d)
          \/ \E x \in {then[d], "idle", "swap", "grace"} : pc' = [pc EXCEPT ![d] = x]
      BY <2>6 DEF Install, push_cache, Swap, Installed, Go
    <3> QED BY <2>3, <2>4, <3>1, <3>2
  <2>7. CASE ioctl_uid_should_umount(d) \/ Read(d) \/ query_uid(d)
    <3>1. /\ req' = req /\ pc[d] \in {"ioctl", "read", "asked"}
          /\ \E x \in {"answered", "read", "stamp", "push"} : pc' = [pc EXCEPT ![d] = x]
          /\ then' = then \/ \E x \in {"asked", "answered"} : then' = [then EXCEPT ![d] = x]
      BY <2>7 DEF ioctl_uid_should_umount, Read, query_uid, Answered, Begin, Go
    <3>2. then[d] \in {"ioctl", "asked", "answered"} /\ req[d] \in Uid
      BY <1>1, <3>1 DEF ReqOfWork
    <3> QED BY <1>1, <3>1, <3>2 DEF TaskType, WorkType
  <2>8. CASE Reply(d)
    BY <1>1, <2>8 DEF Reply, Go, TaskType, WorkType
  <2> QED BY <1>4, <2>2, <2>5, <2>6, <2>7, <2>8 DEF DaemonStep
<1> QED BY <1>2, <1>3, <1>4, NextSorted, ManagerKeeps DEF vars, work

LEMMA StepTypes == Types /\ Ownership /\ [Next]_vars => Types'
BY StepKernelType, StepMemType, StepSourceType, StepTaskType, StepSnapType, StepWorkType,
   StepRestType, StepReqOfWork DEF Types

LEMMA InitTypes == Init => Types
<1> SUFFICES ASSUME Init PROVE Types
  OBVIOUS
<1>1. KernelType /\ MemType
  BY DEF Init, KernelType, MemType
<1>2. Empty \in Snapshot
  BY DEF Empty, Snapshot, Answer
<1>3. SourceType
  <2>1. now \in Policy
    BY DEF Init, Policy
  <2>2. ~dirty /\ dirty \in BOOLEAN /\ blurred \in BOOLEAN /\ listed = {}
    BY DEF Init
  <2>3. edits \in 0 .. EditMax /\ stamp = 1 /\ edits = 0
    BY ConstantsOK DEF Init
  <2>4. (IF dirty THEN stamp + 1 ELSE stamp) <= edits + 1
    BY <2>2, <2>3
  <2> QED BY <2>1, <2>2, <2>3, <2>4 DEF SourceType
<1>4. SnapType
  BY <1>2 DEF Init, SnapType, Unread
<1>5. TaskType /\ WorkType /\ RestType /\ ReqOfWork
  <2>1. TaskType
    BY DEF Init, TaskType
  <2>2. WorkType
    BY DEF Init, WorkType, Unread
  <2>3. RestType
    BY ConstantsOK DEF Init, RestType
  <2>4. ReqOfWork
    BY DEF Init, ReqOfWork, Task
  <2> QED BY <2>1, <2>2, <2>3, <2>4
<1> QED BY <1>1, <1>3, <1>4, <1>5 DEF Types

-----------------------------------------------------------------------------
(* The life of a cache.                                                    *)

\* A step of a task that neither takes nor gives a cache: what matters of it.
Apart(t) == pc[t] \notin {"swap", "grace", "read"} /\ pc'[t] \notin {"swap", "grace", "read"}
Bystander(d) ==
    /\ UNCHANGED <<kernel, memory, ptr, wait>>
    /\ \A t \in Task \ {d} : pc'[t] = pc[t]
    /\ Apart(d)

LEMMA BystanderKeepsLife ==
    ASSUME Types, LifeInv, NEW d \in Daemon, Bystander(d)
    PROVE  LifeInv'
<1>1. /\ UNCHANGED <<cache, mem, ptr, wait, stage, owner, fallback>>
      /\ \A t \in Task : pc'[t] = pc[t] \/ (t = d /\ Apart(t))
      /\ Exit # d /\ Exit \in Task /\ Daemon \subseteq Task
  BY ConstantsOK DEF Bystander, kernel, memory, Task
<1>2. \A t \in Task : \A x \in {"swap", "grace", "read"} : pc'[t] = x <=> pc[t] = x
  BY <1>1 DEF Apart
<1>3. Ownership'
  BY <1>1, <1>2 DEF LifeInv, Ownership, Owns
<1>4. ReadersWaitedFor'
  BY <1>1, <1>2 DEF LifeInv, ReadersWaitedFor
<1>5. TeardownOrder'
  BY <1>1, <1>2 DEF LifeInv, TeardownOrder, InIoctl, OwnerStable, StillOwner
<1> QED BY <1>3, <1>4, <1>5 DEF LifeInv

\* The kernel's side: the fd is closed, the flags are cleared, the cache is
\* taken away and freed after its readers.
LEMMA KernelKeepsLife ==
    ASSUME CacheInv, KernelStep
    PROVE  LifeInv'
<1>1. /\ LifeInv /\ TaskType /\ MemType /\ KernelType
      /\ Ownership /\ ReadersWaitedFor /\ TeardownOrder
      /\ Exit \in Task /\ Daemon \subseteq Task /\ \A d \in Daemon : d # Exit
  BY ConstantsOK DEF CacheInv, Types, LifeInv, Task
<1>2. CASE yz_host_root_detect
  <2>1. UNCHANGED <<cache, mem, ptr, wait, pc>> /\ stage = "down"
    BY <1>2 DEF yz_host_root_detect, memory
  <2>2. stage' \in {"up", "refused"}
    BY <1>2 DEF yz_host_root_detect
  <2>3. Ownership' /\ ReadersWaitedFor'
    BY <1>1, <2>1 DEF Ownership, Owns, ReadersWaitedFor
  <2>4. TeardownOrder'
    BY <1>1, <2>1, <2>2 DEF TeardownOrder, InIoctl, OwnerStable
  <2> QED BY <2>3, <2>4 DEF LifeInv
<1>3. CASE yukizygisk_control_exit \/ yz_host_root_exit
  <2>1. UNCHANGED <<cache, mem, ptr, wait, pc>> /\ \A d \in Daemon : ~InIoctl(d)
    BY <1>1, <1>3 DEF yukizygisk_control_exit, yz_host_root_exit, memory, TeardownOrder
  <2>2. stage \in {"up", "closed"} /\ stage' \in {"closed", "clear"}
    BY <1>3 DEF yukizygisk_control_exit, yz_host_root_exit
  <2>3. Ownership' /\ ReadersWaitedFor'
    BY <1>1, <2>1 DEF Ownership, Owns, ReadersWaitedFor
  <2>4. TeardownOrder'
    BY <1>1, <2>1, <2>2 DEF TeardownOrder, InIoctl, OwnerStable
  <2> QED BY <2>3, <2>4 DEF LifeInv
<1>4. CASE yz_policy_cache_clear
  <2>1. /\ \A d \in Daemon : ~InIoctl(d) /\ pc[d] \notin {"swap", "grace", "read"}
        /\ pc[Exit] = "off" /\ ptr[Exit] = None /\ stage' = "exiting" /\ mem' = mem
        /\ cache' = None
    BY <1>1, <1>4 DEF yz_policy_cache_clear, TeardownOrder, InIoctl, Ownership
  <2>2. \A d \in Daemon : pc'[d] = pc[d] /\ ptr'[d] = ptr[d]
    BY <1>1, <1>4 DEF yz_policy_cache_clear, Go, TaskType
  <2>3. pc'[Exit] = "grace" /\ ptr'[Exit] = cache
    BY <1>1, <1>4 DEF yz_policy_cache_clear, Go, TaskType
  <2>4. \A t \in Task : Owns(t)' <=> t = Exit /\ cache # None
    BY <2>1, <2>2, <2>3 DEF Owns, Task
  <2>5. \A t \in Task : ~Owns(t)
    BY <2>1 DEF Owns, Task
  <2>6. cache # None => cache \in Slot /\ mem[cache] # Free
    BY <1>1 DEF MemType, Ownership
  <2>7. Ownership'
    <3>1. \A t \in Task : Owns(t)' => mem'[ptr'[t]] # Free /\ ptr'[t] # cache'
      BY <2>1, <2>3, <2>4, <2>6
    <3>2. \A t, u \in Task : Owns(t)' /\ Owns(u)' /\ ptr'[t] = ptr'[u] => t = u
      BY <2>4
    <3>3. \A t \in Task : /\ pc'[t] \notin {"swap", "grace", "read"} => ptr'[t] = None
                          /\ pc'[t] = "swap" => ptr'[t] # None
      BY <1>1, <2>1, <2>2, <2>3 DEF Ownership, Task
    <3>4. \A a \in Slot : mem'[a] # Free =>
             a = cache' \/ \E t \in Task : Owns(t)' /\ ptr'[t] = a
      BY <1>1, <2>1, <2>3, <2>4, <2>5, ConstantsOK DEF Ownership
    <3> QED BY <2>1, <3>1, <3>2, <3>3, <3>4 DEF Ownership
  <2>8. ReadersWaitedFor'
    BY <2>1, <2>2 DEF ReadersWaitedFor
  <2>9. TeardownOrder'
    BY <2>1, <2>2, <2>3 DEF TeardownOrder, InIoctl, OwnerStable
  <2> QED BY <2>7, <2>8, <2>9 DEF LifeInv
<1>5. CASE ClearDone
  <2>1. /\ \A d \in Daemon : ~InIoctl(d) /\ pc[d] \notin {"swap", "grace", "read"}
        /\ pc[Exit] = "grace" /\ stage' = "exited" /\ cache' = None /\ cache = None
        /\ mem' = Released(Exit)
    BY <1>1, <1>5 DEF ClearDone, TeardownOrder, InIoctl
  <2>2. \A d \in Daemon : pc'[d] = pc[d] /\ ptr'[d] = ptr[d]
    BY <1>1, <1>5 DEF ClearDone, Go, TaskType
  <2>3. pc'[Exit] = "off" /\ ptr'[Exit] = None
    BY <1>1, <1>5 DEF ClearDone, Go, TaskType
  <2>4. \A t \in Task : ~Owns(t)'
    BY <2>1, <2>2, <2>3 DEF Owns, Task
  <2>5. \A t \in Task : Owns(t) => t = Exit
    BY <2>1 DEF Owns, Task
  <2>6. \A a \in Slot : mem[a] # Free => a = ptr[Exit] /\ ptr[Exit] # None
    BY <1>1, <2>1, <2>5, ConstantsOK DEF Ownership
  <2>7. \A a \in Slot : mem'[a] = Free
    BY <1>1, <2>1, <2>6 DEF Released, MemType
  <2>8. Ownership'
    BY <1>1, <2>1, <2>2, <2>3, <2>4, <2>7 DEF Ownership, Task
  <2>9. ReadersWaitedFor'
    BY <2>1, <2>2 DEF ReadersWaitedFor
  <2>10. TeardownOrder'
    BY <2>1, <2>2, <2>3 DEF TeardownOrder, InIoctl, OwnerStable
  <2> QED BY <2>8, <2>9, <2>10 DEF LifeInv
<1> QED BY <1>2, <1>3, <1>4, <1>5 DEF KernelStep

\* What a step of daemon d may touch: its own program counter and pointer, and
\* nothing while the host is not up.
LEMMA OthersKept ==
    ASSUME TaskType, NEW d \in Daemon, DaemonStep(d)
    PROVE  \A t \in Task \ {d} : pc'[t] = pc[t] /\ ptr'[t] = ptr[t]
<1>1. \E x : pc' = [pc EXCEPT ![d] = x]
  BY DEF DaemonStep, setup, TakeEvent, RefreshAll, Request, Refresh, read_stamp,
     Parse, QueryDefault, QueryUids, Install, push_cache, Swap, Installed, RefreshFails,
     ioctl_uid_should_umount, Read, query_uid, Reply, Begin, Answered, Go
<1>2. ptr' = ptr \/ \E x : ptr' = [ptr EXCEPT ![d] = x]
  BY DEF DaemonStep, setup, TakeEvent, RefreshAll, Request, Refresh, read_stamp,
     Parse, QueryDefault, QueryUids, Install, push_cache, Swap, Installed,
     ioctl_uid_should_umount, Read, query_uid, Reply, DaemonRest
<1> QED BY <1>1, <1>2 DEF TaskType

\* Most steps of a daemon do not concern the cache.
LEMMA BystanderSteps ==
    ASSUME Types, NEW d \in Daemon, DaemonStep(d),
           \/ setup(d) \/ TakeEvent(d) \/ RefreshAll(d) \/ \E u \in Uid : Request(d, u)
           \/ Refresh(d) \/ query_uid(d) \/ Reply(d)
           \/ push_cache(d) /\ RefreshFails(d) /\ UNCHANGED <<mem, ptr>>
           \/ ioctl_uid_should_umount(d) /\ ptr' = ptr /\ pc'[d] # "read"
    PROVE  Bystander(d)
<1>1. TaskType /\ WorkType /\ d \in Task
  BY DEF Types, Task
<1>2. \A t \in Task \ {d} : pc'[t] = pc[t]
  BY <1>1, OthersKept
<1>3. UNCHANGED kernel
  BY DaemonKeepsKernel
<1>4. CASE setup(d) \/ TakeEvent(d) \/ RefreshAll(d) \/ \E u \in Uid : Request(d, u)
  BY <1>1, <1>2, <1>4 DEF setup, TakeEvent, RefreshAll, Request, Begin, Go, DaemonRest,
     Bystander, Apart, TaskType
<1>5. CASE RefreshFails(d) /\ pc[d] \in {"parse", "push"} /\ UNCHANGED <<memory, ptr, wait>>
  BY <1>1, <1>2, <1>3, <1>5, RefreshFailsTo DEF Bystander, Apart, TaskType
<1>6. CASE Refresh(d)
  <2>1. UNCHANGED <<memory, ptr, wait>>
    BY <1>6 DEF Refresh, read_stamp, Parse, QueryDefault, QueryUids, DaemonRest
  <2>2. then[d] \notin {"swap", "grace", "read"}
    BY <1>1 DEF WorkType
  <2>3. \/ RefreshFails(d) /\ pc[d] = "parse"
        \/ /\ pc[d] \in {"stamp", "parse", "default", "query"}
           /\ \E x \in {then[d], "parse", "default", "push", "query"} :
                 pc' = [pc EXCEPT ![d] = x]
    BY <1>6 DEF Refresh, read_stamp, Parse, QueryDefault, QueryUids, Go
  <2> QED BY <1>1, <1>2, <1>3, <1>5, <2>1, <2>2, <2>3 DEF Bystander, Apart, TaskType
<1>7. CASE query_uid(d) \/ Reply(d)
  BY <1>1, <1>2, <1>7 DEF query_uid, Reply, Begin, Answered, Go, DaemonRest, Bystander, Apart,
     TaskType
<1>8. CASE push_cache(d) /\ RefreshFails(d) /\ UNCHANGED <<mem, ptr>>
  BY <1>5, <1>8 DEF push_cache, memory
<1>9. CASE ioctl_uid_should_umount(d) /\ ptr' = ptr /\ pc'[d] # "read"
  BY <1>1, <1>2, <1>9 DEF ioctl_uid_should_umount, Answered, Go, Bystander, Apart, TaskType
<1> QED BY <1>4, <1>6, <1>7, <1>8, <1>9

\* A cache is allocated for the owner that the installation found.
LEMMA AllocateKeepsLife ==
    ASSUME CacheInv, NEW d \in Daemon, DaemonStep(d), pc[d] = "push", stage = "up",
           fallback, owner = root, UNCHANGED <<kernel, cache, wait>>,
           mem' = [mem EXCEPT ![FreeSlot] = [snap |-> g[d].snap, owner |-> root, by |-> d]],
           ptr' = [ptr EXCEPT ![d] = FreeSlot], pc' = [pc EXCEPT ![d] = "swap"]
    PROVE  LifeInv'
<1> DEFINE a == FreeSlot
           new == [snap |-> g[d].snap, owner |-> root, by |-> d]
<1>1. /\ Types /\ TaskType /\ MemType /\ KernelType
      /\ Ownership /\ ReadersWaitedFor /\ TeardownOrder
      /\ Exit \in Task /\ d \in Task /\ Daemon \subseteq Task /\ d # Exit
  BY ConstantsOK DEF CacheInv, Types, LifeInv, Task
<1>2. a \in Slot /\ mem[a] = Free /\ a # None
  BY <1>1, FreeSlotExists, ConstantsOK
<1>3. new # Free /\ new.owner = owner
  <2>1. new.owner \in {"kernelsu", "kernelpatch"} /\ Free.owner = "none"
    BY <1>1 DEF KernelType, Free
  <2> QED BY <2>1
<1> HIDE DEF a
<1>4. /\ mem' = [mem EXCEPT ![a] = new] /\ cache' = cache /\ wait' = wait
      /\ stage' = stage /\ owner' = owner /\ fallback' = fallback
  BY DEF a, kernel
<1> HIDE DEF new
<1>5. mem'[a] = new /\ \A b \in Slot \ {a} : mem'[b] = mem[b]
  BY <1>1, <1>2, <1>4 DEF MemType
<1>6. /\ pc'[d] = "swap" /\ ptr'[d] = a
      /\ \A t \in Task \ {d} : pc'[t] = pc[t] /\ ptr'[t] = ptr[t]
  BY <1>1 DEF TaskType, a
<1>7. /\ \A t \in Task \ {d} : Owns(t)' <=> Owns(t)
      /\ Owns(d)' /\ ~Owns(d)
  BY <1>2, <1>6 DEF Owns
<1>8. \A t \in Task : Owns(t) => ptr[t] \in Slot \ {a}
  BY <1>1, <1>2 DEF Ownership, Owns, TaskType
<1>9. cache # None => cache \in Slot \ {a}
  BY <1>1, <1>2 DEF Ownership, MemType
<1>10. Ownership'
  <2>1. \A t \in Task : Owns(t)' => mem'[ptr'[t]] # Free /\ ptr'[t] # cache'
    <3> SUFFICES ASSUME NEW t \in Task, Owns(t)'
                 PROVE  mem'[ptr'[t]] # Free /\ ptr'[t] # cache'
      OBVIOUS
    <3>1. CASE t = d
      BY <1>2, <1>3, <1>4, <1>5, <1>6, <1>9, <3>1
    <3>2. CASE t # d
      BY <1>1, <1>4, <1>5, <1>6, <1>7, <1>8, <3>2 DEF Ownership
    <3> QED BY <3>1, <3>2
  <2>2. \A t, u \in Task : Owns(t)' /\ Owns(u)' /\ ptr'[t] = ptr'[u] => t = u
    BY <1>1, <1>6, <1>7, <1>8 DEF Ownership
  <2>3. cache' # None => mem'[cache'] # Free
    BY <1>1, <1>4, <1>5, <1>9 DEF Ownership
  <2>4. \A t \in Task : /\ pc'[t] \notin {"swap", "grace", "read"} => ptr'[t] = None
                        /\ pc'[t] = "swap" => ptr'[t] # None
    BY <1>1, <1>2, <1>6 DEF Ownership
  <2>5. \A b \in Slot : mem'[b] # Free =>
           b = cache' \/ \E t \in Task : Owns(t)' /\ ptr'[t] = b
    BY <1>1, <1>4, <1>5, <1>6, <1>7 DEF Ownership
  <2> QED BY <2>1, <2>2, <2>3, <2>4, <2>5 DEF Ownership
<1>11. ReadersWaitedFor'
  BY <1>1, <1>4, <1>6 DEF ReadersWaitedFor
<1>12. TeardownOrder'
  <2>1. OwnerStable'
    <3> SUFFICES ASSUME NEW e \in Daemon, pc'[e] = "swap" PROVE StillOwner(e)'
      BY DEF OwnerStable
    <3>1. CASE e = d
      BY <1>3, <1>4, <1>5, <1>6, <3>1 DEF StillOwner
    <3>2. CASE e # d
      <4>1. ptr'[e] = ptr[e] /\ Owns(e) /\ StillOwner(e)
        BY <1>1, <1>6, <3>2 DEF TeardownOrder, OwnerStable, Ownership, Owns
      <4> QED BY <1>1, <1>4, <1>5, <1>8, <4>1 DEF StillOwner
    <3> QED BY <3>1, <3>2
  <2> QED BY <1>1, <1>4, <1>6, <2>1 DEF TeardownOrder
<1> QED BY <1>10, <1>11, <1>12 DEF LifeInv

\* The cache is published and the old one taken, under the lock.
LEMMA SwapKeepsLife ==
    ASSUME CacheInv, NEW d \in Daemon, Swap(d)
    PROVE  LifeInv'
<1>1. /\ Types /\ TaskType /\ MemType
      /\ Ownership /\ ReadersWaitedFor /\ TeardownOrder
      /\ Exit \in Task /\ d \in Task /\ Daemon \subseteq Task /\ d # Exit
  BY ConstantsOK DEF CacheInv, Types, LifeInv, Task
<1>2. pc[d] = "swap" /\ StillOwner(d) /\ stage = "up"
  BY <1>1 DEF Swap, TeardownOrder, OwnerStable, InIoctl
<1>3. /\ cache' = ptr[d] /\ mem' = mem /\ stage' = stage
      /\ owner' = owner /\ fallback' = fallback
  BY <1>2 DEF Swap, kernel
<1>4. /\ pc'[d] = "grace" /\ ptr'[d] = cache /\ wait'[d] = Readers
      /\ \A t \in Task \ {d} : pc'[t] = pc[t] /\ ptr'[t] = ptr[t] /\ wait'[t] = wait[t]
  BY <1>1, <1>2 DEF Swap, Go, TaskType
<1>5. Owns(d) /\ ptr[d] # None /\ ptr[d] # cache /\ mem[ptr[d]] # Free
  BY <1>1, <1>2 DEF Ownership, Owns
<1>6. /\ \A t \in Task \ {d} : Owns(t)' <=> Owns(t)
      /\ Owns(d)' <=> cache # None
  BY <1>4 DEF Owns
<1>7. Ownership'
  <2>1. \A t \in Task : Owns(t)' => mem'[ptr'[t]] # Free /\ ptr'[t] # cache'
    BY <1>1, <1>3, <1>4, <1>5, <1>6 DEF Ownership
  <2>2. \A t, u \in Task : Owns(t)' /\ Owns(u)' /\ ptr'[t] = ptr'[u] => t = u
    BY <1>1, <1>4, <1>6 DEF Ownership
  <2>3. \A t \in Task : /\ pc'[t] \notin {"swap", "grace", "read"} => ptr'[t] = None
                        /\ pc'[t] = "swap" => ptr'[t] # None
    BY <1>1, <1>4 DEF Ownership
  <2>4. \A b \in Slot : mem'[b] # Free =>
           b = cache' \/ \E t \in Task : Owns(t)' /\ ptr'[t] = b
    BY <1>1, <1>3, <1>4, <1>6, ConstantsOK DEF Ownership
  <2> QED BY <1>3, <1>5, <2>1, <2>2, <2>3, <2>4 DEF Ownership
<1>8. ReadersWaitedFor'
  <2> SUFFICES ASSUME NEW e \in Daemon, pc'[e] = "read", ptr'[e] # None
               PROVE  \/ ptr'[e] = cache'
                      \/ \E t \in Task : pc'[t] = "grace" /\ ptr'[t] = ptr'[e] /\ e \in wait'[t]
    BY DEF ReadersWaitedFor
  <2>1. e # d /\ pc[e] = "read" /\ ptr'[e] = ptr[e] /\ e \in Readers
    BY <1>1, <1>4 DEF Readers
  <2>2. CASE ptr[e] = cache
    BY <1>1, <1>4, <2>1, <2>2
  <2>3. CASE ptr[e] # cache
    <3>1. PICK t \in Task : pc[t] = "grace" /\ ptr[t] = ptr[e] /\ e \in wait[t]
      BY <1>1, <2>1, <2>3 DEF ReadersWaitedFor
    <3>2. t # d
      BY <1>2, <3>1
    <3> QED BY <1>4, <2>1, <3>1, <3>2
  <2> QED BY <2>2, <2>3
<1>9. TeardownOrder'
  BY <1>1, <1>2, <1>3, <1>4 DEF TeardownOrder, OwnerStable, StillOwner
<1> QED BY <1>7, <1>8, <1>9 DEF LifeInv

\* The old cache is freed: no reader is left that holds it.
LEMMA InstalledKeepsLife ==
    ASSUME CacheInv, NEW d \in Daemon, Installed(d)
    PROVE  LifeInv'
<1>1. /\ Types /\ TaskType /\ MemType /\ WorkType
      /\ Ownership /\ ReadersWaitedFor /\ TeardownOrder
      /\ Exit \in Task /\ d \in Task /\ Daemon \subseteq Task /\ d # Exit
  BY ConstantsOK DEF CacheInv, Types, LifeInv, Task
<1>2. pc[d] = "grace" /\ wait[d] = {} /\ stage = "up"
  BY <1>1 DEF Installed, GraceOver, TeardownOrder, InIoctl
<1>3. /\ cache' = cache /\ mem' = Released(d) /\ wait' = wait /\ stage' = stage
      /\ owner' = owner /\ fallback' = fallback
  BY DEF Installed, kernel
<1>4. /\ pc'[d] \notin {"swap", "grace", "read"} /\ ptr'[d] = None
      /\ \A t \in Task \ {d} : pc'[t] = pc[t] /\ ptr'[t] = ptr[t]
  BY <1>1 DEF Installed, Go, TaskType, WorkType
<1>5. \A b \in Slot : mem'[b] = IF b = ptr[d] THEN Free ELSE mem[b]
  BY <1>1, <1>3, ConstantsOK DEF Released, MemType
<1>6. /\ \A t \in Task \ {d} : Owns(t)' <=> Owns(t)
      /\ ~Owns(d)'
  BY <1>4 DEF Owns
<1>7. \A t \in Task \ {d} : Owns(t) => ptr[t] \in Slot /\ ptr[t] # ptr[d]
  BY <1>1, <1>2 DEF Ownership, Owns, TaskType
<1>8. cache # None => cache \in Slot /\ cache # ptr[d]
  BY <1>1, <1>2 DEF Ownership, Owns, MemType
<1>9. Ownership'
  <2>1. \A t \in Task : Owns(t)' => mem'[ptr'[t]] # Free /\ ptr'[t] # cache'
    BY <1>1, <1>3, <1>4, <1>5, <1>6, <1>7 DEF Ownership
  <2>2. \A t, u \in Task : Owns(t)' /\ Owns(u)' /\ ptr'[t] = ptr'[u] => t = u
    BY <1>1, <1>4, <1>6 DEF Ownership
  <2>3. \A t \in Task : /\ pc'[t] \notin {"swap", "grace", "read"} => ptr'[t] = None
                        /\ pc'[t] = "swap" => ptr'[t] # None
    BY <1>1, <1>4 DEF Ownership
  <2>4. \A b \in Slot : mem'[b] # Free =>
           b = cache' \/ \E t \in Task : Owns(t)' /\ ptr'[t] = b
    BY <1>1, <1>3, <1>4, <1>5, <1>6 DEF Ownership
  <2>5. cache' # None => mem'[cache'] # Free
    BY <1>1, <1>3, <1>5, <1>8 DEF Ownership
  <2> QED BY <2>1, <2>2, <2>3, <2>4, <2>5 DEF Ownership
<1>10. ReadersWaitedFor'
  <2> SUFFICES ASSUME NEW e \in Daemon, pc'[e] = "read", ptr'[e] # None
               PROVE  \/ ptr'[e] = cache'
                      \/ \E t \in Task : pc'[t] = "grace" /\ ptr'[t] = ptr'[e] /\ e \in wait'[t]
    BY DEF ReadersWaitedFor
  <2>1. e # d /\ pc[e] = "read" /\ ptr'[e] = ptr[e]
    BY <1>1, <1>4
  <2>2. CASE ptr[e] = cache
    BY <1>3, <2>1, <2>2
  <2>3. CASE ptr[e] # cache
    <3>1. PICK t \in Task : pc[t] = "grace" /\ ptr[t] = ptr[e] /\ e \in wait[t]
      BY <1>1, <2>1, <2>3 DEF ReadersWaitedFor
    <3>2. t # d
      BY <1>2, <3>1
    <3> QED BY <1>3, <1>4, <2>1, <3>1, <3>2
  <2> QED BY <2>2, <2>3
<1>11. TeardownOrder'
  <2>1. OwnerStable'
    <3> SUFFICES ASSUME NEW e \in Daemon, pc'[e] = "swap" PROVE StillOwner(e)'
      BY DEF OwnerStable
    <3>1. e # d /\ pc[e] = "swap" /\ ptr'[e] = ptr[e] /\ Owns(e) /\ StillOwner(e)
      BY <1>1, <1>4 DEF TeardownOrder, OwnerStable, Ownership, Owns
    <3> QED BY <1>1, <1>3, <1>5, <1>7, <3>1 DEF StillOwner
  <2> QED BY <1>1, <1>2, <1>3, <1>4, <2>1 DEF TeardownOrder
<1> QED BY <1>9, <1>10, <1>11 DEF LifeInv

\* A reader takes the published cache in hand.
LEMMA EnterKeepsLife ==
    ASSUME CacheInv, NEW d \in Daemon, pc[d] = "ioctl", stage = "up",
           UNCHANGED <<kernel, memory, wait>>,
           ptr' = [ptr EXCEPT ![d] = cache], pc' = [pc EXCEPT ![d] = "read"]
    PROVE  LifeInv'
<1>1. /\ TaskType /\ Ownership /\ ReadersWaitedFor /\ TeardownOrder
      /\ Exit \in Task /\ d \in Task /\ Daemon \subseteq Task /\ d # Exit
  BY ConstantsOK DEF CacheInv, Types, LifeInv, Task
<1>2. UNCHANGED <<cache, mem, wait, stage, owner, fallback>>
  BY DEF kernel, memory
<1>3. /\ pc'[d] = "read" /\ ptr'[d] = cache
      /\ \A t \in Task \ {d} : pc'[t] = pc[t] /\ ptr'[t] = ptr[t]
  BY <1>1 DEF TaskType
<1>4. \A t \in Task : (Owns(t)' <=> Owns(t)) /\ (Owns(t) => ptr'[t] = ptr[t])
  BY <1>3 DEF Owns
<1>5. Ownership'
  BY <1>1, <1>2, <1>3, <1>4 DEF Ownership
<1>6. ReadersWaitedFor'
  BY <1>1, <1>2, <1>3 DEF ReadersWaitedFor
<1>7. TeardownOrder'
  BY <1>1, <1>2, <1>3 DEF TeardownOrder, OwnerStable, StillOwner
<1> QED BY <1>5, <1>6, <1>7 DEF LifeInv

\* A reader leaves: those that wait for it wait no longer.
LEMMA ReadKeepsLife ==
    ASSUME CacheInv, NEW d \in Daemon, Read(d)
    PROVE  LifeInv'
<1>1. /\ TaskType /\ Ownership /\ ReadersWaitedFor /\ TeardownOrder
      /\ Exit \in Task /\ d \in Task /\ Daemon \subseteq Task /\ d # Exit
  BY ConstantsOK DEF CacheInv, Types, LifeInv, Task
<1>2. UNCHANGED <<cache, mem, stage, owner, fallback>> /\ pc[d] = "read"
  BY DEF Read, kernel, memory
<1>3. /\ pc'[d] \in {"stamp", "answered"} /\ ptr'[d] = None
      /\ \A t \in Task \ {d} : pc'[t] = pc[t] /\ ptr'[t] = ptr[t]
      /\ \A t \in Task : wait'[t] = wait[t] \ {d}
  BY <1>1 DEF Read, Begin, Answered, Go, TaskType
<1>4. \A t \in Task : (Owns(t)' <=> Owns(t)) /\ (Owns(t) => ptr'[t] = ptr[t])
  BY <1>2, <1>3 DEF Owns
<1>5. Ownership'
  BY <1>1, <1>2, <1>3, <1>4 DEF Ownership
<1>6. ReadersWaitedFor'
  <2> SUFFICES ASSUME NEW e \in Daemon, pc'[e] = "read", ptr'[e] # None
               PROVE  \/ ptr'[e] = cache'
                      \/ \E t \in Task : pc'[t] = "grace" /\ ptr'[t] = ptr'[e] /\ e \in wait'[t]
    BY DEF ReadersWaitedFor
  <2>1. e # d /\ pc[e] = "read" /\ ptr'[e] = ptr[e]
    BY <1>1, <1>3
  <2>2. CASE ptr[e] = cache
    BY <1>2, <2>1, <2>2
  <2>3. CASE ptr[e] # cache
    <3>1. PICK t \in Task : pc[t] = "grace" /\ ptr[t] = ptr[e] /\ e \in wait[t]
      BY <1>1, <2>1, <2>3 DEF ReadersWaitedFor
    <3> QED BY <1>2, <1>3, <2>1, <3>1
  <2> QED BY <2>2, <2>3
<1>7. TeardownOrder'
  BY <1>1, <1>2, <1>3 DEF TeardownOrder, OwnerStable, StillOwner, InIoctl
<1> QED BY <1>5, <1>6, <1>7 DEF LifeInv

LEMMA StepLife == CacheInv /\ [Next]_vars => LifeInv'
<1> SUFFICES ASSUME CacheInv, [Next]_vars PROVE LifeInv'
  OBVIOUS
<1>1. CASE UNCHANGED <<kernel, memory, pc, ptr, wait>>
  <2>1. UNCHANGED <<cache, mem, pc, ptr, wait, stage, owner, fallback>>
    BY <1>1 DEF kernel, memory
  <2> QED BY <2>1 DEF CacheInv, LifeInv, Ownership, Owns, ReadersWaitedFor, TeardownOrder,
          InIoctl, OwnerStable, StillOwner
<1>2. ASSUME NEW d \in Daemon, DaemonStep(d)
      PROVE  LifeInv'
  <2>1. CASE Bystander(d)
    BY <2>1, BystanderKeepsLife DEF CacheInv
  <2>2. CASE push_cache(d)
    <3>1. \/ /\ pc[d] = "push" /\ stage = "up" /\ fallback /\ owner = root
             /\ mem' = [mem EXCEPT ![FreeSlot] = [snap |-> g[d].snap, owner |-> root, by |-> d]]
             /\ ptr' = [ptr EXCEPT ![d] = FreeSlot] /\ pc' = [pc EXCEPT ![d] = "swap"]
          \/ RefreshFails(d) /\ UNCHANGED <<mem, ptr>>
      BY <2>2 DEF push_cache, FreeSlot, Go
    <3>2. UNCHANGED <<kernel, cache, wait>>
      BY <2>2 DEF push_cache
    <3>3. CASE RefreshFails(d) /\ UNCHANGED <<mem, ptr>>
      BY <1>2, <2>1, <2>2, <3>3, BystanderSteps DEF CacheInv
    <3> QED BY <1>2, <3>1, <3>2, <3>3, AllocateKeepsLife
  <2>3. CASE ioctl_uid_should_umount(d)
    <3>1. \/ ptr' = ptr /\ pc' = [pc EXCEPT ![d] = "answered"]
          \/ /\ stage = "up"
             /\ ptr' = [ptr EXCEPT ![d] = cache] /\ pc' = [pc EXCEPT ![d] = "read"]
      BY <2>3 DEF ioctl_uid_should_umount, Answered, Go
    <3>2. UNCHANGED <<kernel, memory, wait>> /\ pc[d] = "ioctl"
      BY <2>3 DEF ioctl_uid_should_umount
    <3>3. CASE ptr' = ptr /\ pc' = [pc EXCEPT ![d] = "answered"]
      <4>1. pc'[d] # "read"
        BY <3>3 DEF CacheInv, Types, TaskType, Task
      <4> QED BY <1>2, <2>1, <2>3, <3>3, <4>1, BystanderSteps DEF CacheInv
    <3> QED BY <3>1, <3>2, <3>3, EnterKeepsLife
  <2>4. CASE \/ setup(d) \/ TakeEvent(d) \/ RefreshAll(d) \/ \E u \in Uid : Request(d, u)
             \/ Refresh(d) \/ query_uid(d) \/ Reply(d)
    BY <1>2, <2>1, <2>4, BystanderSteps DEF CacheInv
  <2> QED BY <1>2, <2>2, <2>3, <2>4, SwapKeepsLife, InstalledKeepsLife, ReadKeepsLife
          DEF DaemonStep, Install
<1> QED BY <1>1, <1>2, NextSorted, ManagerKeeps, KernelKeepsLife DEF vars

LEMMA InitCache == Init => CacheInv
<1> SUFFICES ASSUME Init PROVE LifeInv
  BY InitTypes DEF CacheInv
<1>1. \A t \in Task : pc[t] = "off" /\ ptr[t] = None
  BY DEF Init
<1>2. cache = None /\ stage = "down" /\ \A a \in Slot : mem[a] = Free
  BY DEF Init
<1>3. Exit \in Task /\ Daemon \subseteq Task
  BY DEF Task
<1> QED BY <1>1, <1>2, <1>3 DEF LifeInv, Ownership, Owns, ReadersWaitedFor, TeardownOrder,
        InIoctl, OwnerStable

LEMMA StepCache == CacheInv /\ [Next]_vars => CacheInv'
BY StepTypes, StepLife DEF CacheInv, LifeInv

\* The kernel's policy cache, for any number of daemons that read and replace
\* it while the root manager edits and the host is torn down: a lookup never
\* meets freed memory, every allocated cache has one owner and is gone after
\* the exit, and an installation is never answered with ESTALE.
THEOREM CacheLifeAlwaysSound == Spec => []CacheLifeSound
<1>1. CacheInv => CacheLifeSound
  <2> SUFFICES ASSUME CacheInv PROVE CacheLifeSound
    OBVIOUS
  <2>1. TypeOK
    BY Typed DEF CacheInv
  <2>2. /\ MemType /\ TaskType /\ Ownership /\ ReadersWaitedFor /\ TeardownOrder
        /\ Exit \in Task /\ Daemon \subseteq Task
    BY DEF CacheInv, Types, LifeInv, Task
  <2>3. NoUseAfterFree
    <3> SUFFICES ASSUME NEW d \in Daemon, pc[d] = "read", ptr[d] # None
                 PROVE  mem[ptr[d]] # Free
      BY DEF NoUseAfterFree
    <3>1. CASE ptr[d] = cache
      BY <2>2, <3>1 DEF Ownership
    <3>2. ASSUME NEW t \in Task, pc[t] = "grace", ptr[t] = ptr[d]
          PROVE  mem[ptr[d]] # Free
      BY <2>2, <3>2 DEF Ownership, Owns
    <3> QED BY <2>2, <3>1, <3>2 DEF ReadersWaitedFor
  <2>4. NoCacheLeaked
    <3>1. \A a \in Slot : mem[a] # Free => a = cache \/ \E t \in Task : ptr[t] = a
      BY <2>2 DEF Ownership
    <3>2. ASSUME stage = "exited"
          PROVE  mem = [a \in Slot |-> Free]
      <4>1. cache = None /\ \A t \in Task : pc[t] \notin {"swap", "grace"}
        BY <2>2, <3>2 DEF TeardownOrder, InIoctl, Task
      <4>2. \A a \in Slot : mem[a] = Free
        BY <2>2, <4>1, ConstantsOK DEF Ownership, Owns
      <4> QED BY <2>2, <4>2 DEF MemType
    <3> QED BY <3>1, <3>2 DEF NoCacheLeaked
  <2>5. OwnerStable
    BY <2>2 DEF TeardownOrder
  <2> QED BY <2>1, <2>3, <2>4, <2>5 DEF CacheLifeSound
<1> QED BY <1>1, InitCache, StepCache, PTL DEF Spec

-----------------------------------------------------------------------------
(* The decisions of the daemons and of the kernel's cache.  While a        *)
(* daemon has the stamp of the file, or has read it for the refresh it is  *)
(* at, what it made of the decisions so far is right, unless a save kept   *)
(* the stamp a daemon had read.                                            *)

\* The manager would not decide otherwise, as far as a snapshot can tell.
Agrees(p, s) == \A u \in Uid : Lookup(s, u) \in {"again", Decide(p, u)}

\* Between the parse of KernelSU's list and the last query every entry is
\* right, and what is missing is still to be asked for or was given up.
Halfway(p, left, s) ==
    /\ \A u \in Uid : s.dec[u] \in {"unset", Decide(p, u)}
    /\ s.complete => \A u \in Listed(p) : u \in left \/ s.dec[u] # "unset"

DefaultAsked(p, s) == s.complete => s.default = p.default /\ s.manager

\* The stamp is the one of this file alone, and there is nothing left to save.
Fresh(d) == ~dirty /\ ~blurred /\ g[d].stamp = stamp
Reading(d) == ~dirty /\ ~blurred /\ cur[d] = stamp

\* Only KernelSU has a default and saves late; nobody lists the manager.
SourceInv ==
    /\ stage = "down" => root = "none"
    /\ now.who[Manager] = "unset"
    /\ root # "kernelsu" => ~now.default /\ ~dirty
    /\ ~dirty => listed = Listed(now)

\* Stamps are of the past, and one is only held during a refresh.
StampOf(d) ==
    /\ g[d].stamp <= stamp /\ cur[d] <= stamp
    /\ pc[d] \notin {"parse", "default", "query", "push", "swap", "grace"} =>
          cur[d] = Unread

\* A daemon keeps a snapshot exactly where the kernel needs the fallback, and
\* once it installed one there is a cache until the teardown.
SetupOf(d) ==
    /\ pc[d] = "off" => ~g[d].enabled /\ g[d].stamp = Unread
    /\ pc[d] # "off" => stage \notin {"down", "refused"}
    /\ pc[d] # "off" /\ stage = "up" => g[d].enabled = fallback
    /\ pc[d] \in {"default", "query"} => root = "kernelsu"
    /\ stage = "up" /\ (g[d].stamp # Unread \/ pc[d] = "grace") => cache # None

\* What a refresh has made of the snapshot.
SnapOf(d) ==
    /\ pc[d] \notin {"default", "query"} /\ Fresh(d) => Agrees(now, g[d].snap)
    /\ pc[d] \in {"push", "swap", "grace"} /\ Reading(d) => Agrees(now, g[d].snap)
    /\ pc[d] \in {"default", "query"} /\ (Fresh(d) \/ Reading(d)) =>
          /\ Halfway(now, uids[d], g[d].snap)
          /\ pc[d] = "query" => DefaultAsked(now, g[d].snap)

\* The daemon has the stamp, or has just published its cache.
Relies(d) == Fresh(d) \/ (pc[d] = "grace" /\ Reading(d))

\* A cache to be published is the snapshot; the published one agrees while its
\* daemon relies on it.
PublishOf(d) ==
    /\ pc[d] = "swap" => mem[ptr[d]].snap = g[d].snap /\ mem[ptr[d]].by = d
    /\ cache # None /\ mem[cache].by = d /\ Relies(d) => Agrees(now, mem[cache].snap)

DaemonInv(d) == StampOf(d) /\ SetupOf(d) /\ SnapOf(d) /\ PublishOf(d)

CurrentInv == CacheInv /\ SourceInv /\ \A d \in Daemon : DaemonInv(d)

-----------------------------------------------------------------------------
(* What the steps of a refresh make of a snapshot.                         *)

LEMMA PolicyParts ==
    ASSUME SourceType
    PROVE  /\ now.who \in [Uid -> Answer \cup {"unset"}] /\ now.default \in BOOLEAN
           /\ dirty \in BOOLEAN /\ stamp \in Nat /\ stamp # Unread
BY DEF SourceType, Policy, Unread

\* When nothing is left to be asked for, the snapshot agrees.
LEMMA HalfwayDone ==
    ASSUME NEW p, NEW s, Manager \in Uid,
           \A u \in Uid : Decide(p, u) \in Answer,
           Halfway(p, {}, s), DefaultAsked(p, s)
    PROVE  Agrees(p, s)
<1> SUFFICES ASSUME NEW u \in Uid PROVE Lookup(s, u) \in {"again", Decide(p, u)}
  BY DEF Agrees
<1>1. s.dec[u] \in {"unset", Decide(p, u)}
  BY DEF Halfway
<1>2. s.complete /\ s.dec[u] = "unset" => p.who[u] = "unset"
  BY DEF Halfway, Listed
<1>3. s.complete => s.default = p.default /\ s.manager
  BY DEF DefaultAsked
<1>4. CASE u = Manager
  BY <1>1, <1>3, <1>4 DEF Lookup, Decide
<1>5. CASE u # Manager
  BY <1>1, <1>2, <1>3, <1>5 DEF Lookup, Decide
<1> QED BY <1>4, <1>5

\* query_uid adds the manager's answer.
LEMMA EntryAdded ==
    ASSUME NEW p, NEW s, NEW r, NEW u \in Uid, Agrees(p, s), Decide(p, u) \in Answer,
           s.dec \in Decisions,
           r.dec = [s.dec EXCEPT ![u] = Decide(p, u)],
           r.default = s.default, r.complete = s.complete, r.manager = s.manager
    PROVE  Agrees(p, r)
<1> SUFFICES ASSUME NEW v \in Uid PROVE Lookup(r, v) \in {"again", Decide(p, v)}
  BY DEF Agrees
<1>1. Lookup(s, v) \in {"again", Decide(p, v)}
  BY DEF Agrees
<1>2. CASE v = u
  <2>1. r.dec[v] = Decide(p, v) /\ r.dec[v] # "unset"
    BY <1>2 DEF Decisions, Answer
  <2> QED BY <2>1 DEF Lookup, Decide
<1>3. CASE v # u
  <2>1. r.dec[v] = s.dec[v]
    BY <1>3 DEF Decisions
  <2> QED BY <1>1, <2>1 DEF Lookup
<1> QED BY <1>2, <1>3

\* parse_apatch has the policy in one go, or a part of it.
LEMMA PackagesParsed ==
    ASSUME SourceType, SourceInv, root # "kernelsu", NEW s, NEW kept,
           (s.dec = Partly(now.who, kept) /\ ~s.complete) \/ s.dec = now.who,
           ~s.default, ~s.manager
    PROVE  Agrees(now, s)
<1> SUFFICES ASSUME NEW u \in Uid PROVE Lookup(s, u) \in {"again", Decide(now, u)}
  BY DEF Agrees
<1>1. now.who[Manager] = "unset" /\ ~now.default
  BY DEF SourceInv
<1>2. now.who[u] # "unset" => Decide(now, u) = now.who[u]
  BY <1>1 DEF Decide
<1>3. now.who[u] = "unset" => Decide(now, u) = "no"
  BY <1>1 DEF Decide, Yes
<1>4. s.dec[u] = now.who[u] \/ (s.dec[u] = "unset" /\ ~s.complete)
  BY DEF Partly
<1> QED BY <1>2, <1>3, <1>4 DEF Lookup, Yes

-----------------------------------------------------------------------------
(* Steps of the manager and of the kernel.                                 *)

\* A change makes every stamp old, leaves something to save, or keeps a stamp;
\* a kept stamp that no daemon has read is as good as a new one.
LEMMA ManagerKeepsCurrent ==
    ASSUME CurrentInv, ManagerStep
    PROVE  SourceInv' /\ \A d \in Daemon : DaemonInv(d)'
<1>1. /\ Types /\ SourceType /\ SnapType /\ WorkType /\ RestType /\ KernelType
      /\ SourceInv /\ \A d \in Daemon : DaemonInv(d)
  BY DEF CurrentInv, CacheInv, Types
<1>2. /\ root' = root /\ stage' = stage /\ fallback' = fallback /\ cache' = cache
      /\ mem' = mem /\ pc' = pc /\ ptr' = ptr /\ g' = g /\ cur' = cur /\ uids' = uids
      /\ then' = then
  BY ManagerKeeps DEF kernel, memory, work
<1>3. \/ dirty' /\ stamp' = stamp /\ root = "kernelsu"
      \/ dirty' = FALSE /\ Written /\ listed' = Listed(now')
  <2>1. CASE Edit
    <3>1. dirty \in BOOLEAN /\ (root # "kernelsu" => ~dirty)
      BY <1>1 DEF SourceType, SourceInv
    <3>2. CASE root = "kernelsu"
      BY <2>1, <3>2 DEF Edit
    <3>3. CASE root # "kernelsu"
      <4>1. dirty' = dirty /\ Written /\ listed' = Listed(now')
        BY <2>1, <3>3 DEF Edit
      <4> QED BY <3>1, <3>3, <4>1
    <3> QED BY <3>2, <3>3
  <2>2. CASE Save
    <3>1. dirty' = FALSE /\ listed' = Listed(now) /\ now' = now /\ Written
      BY <2>2 DEF Save
    <3>2. Listed(now') = Listed(now)
      BY <3>1
    <3> QED BY <3>1, <3>2
  <2> QED BY <2>1, <2>2 DEF ManagerStep
<1>5. stamp \in Nat /\ stamp >= 1 /\ stamp' \in Nat /\ stamp' >= stamp
  <2>1. stamp' \in {stamp, stamp + 1}
    BY <1>3 DEF Written
  <2>2. stamp \in Nat /\ stamp >= 1
    BY <1>1 DEF SourceType
  <2> QED BY <2>1, <2>2
<1>6. \A d \in Daemon : g[d].stamp \in Nat /\ cur[d] \in Nat
  BY <1>1, ContextParts DEF WorkType
<1>7. \A d \in Daemon : g[d].stamp <= stamp /\ cur[d] <= stamp
  BY <1>1 DEF DaemonInv, StampOf
<1>8. ASSUME NEW d \in Daemon PROVE ~Fresh(d)' /\ ~Reading(d)'
  <2>1. CASE dirty' /\ stamp' = stamp
    BY <2>1 DEF Fresh, Reading
  <2>2. CASE Written /\ stamp' = stamp + 1
    BY <1>2, <1>5, <1>6, <1>7, <2>2 DEF Fresh, Reading
  <2>3. CASE Written /\ stamp' = stamp
    <3>1. ~blurred' => stamp # cur[d] /\ stamp # g[d].stamp
      BY <2>3 DEF Written
    <3> QED BY <1>2, <2>3, <3>1 DEF Fresh, Reading
  <2> QED BY <1>3, <2>1, <2>2, <2>3 DEF Written
<1>9. SourceInv'
  <2>1. now'.who[Manager] = "unset" /\ (root # "kernelsu" => ~now'.default)
    <3>1. CASE Save
      BY <1>1, <3>1 DEF Save, SourceInv
    <3>2. now \in Policy
      BY <1>1 DEF SourceType
    <3>3. CASE Edit /\ root = "kernelsu" /\ now' = [now EXCEPT !.default = ~@]
      BY <1>1, <3>2, <3>3 DEF SourceInv, Policy
    <3>4. ASSUME NEW u \in Uid \ {Manager}, NEW a \in Answer, now' = [now EXCEPT !.who[u] = a]
          PROVE  now'.who[Manager] = "unset" /\ (root # "kernelsu" => ~now'.default)
      <4>1. now'.who = [now.who EXCEPT ![u] = a] /\ now'.default = now.default
        BY <3>2, <3>4 DEF Policy
      <4> QED BY <1>1, <4>1 DEF SourceInv
    <3> QED BY <3>1, <3>3, <3>4 DEF ManagerStep, Edit
  <2> QED BY <1>1, <1>2, <1>3, <2>1 DEF SourceInv
<1>10. ASSUME NEW d \in Daemon
       PROVE  DaemonInv(d)'
  <2>1. DaemonInv(d) /\ ~Fresh(d)' /\ ~Reading(d)'
    BY <1>1, <1>8
  <2>2. StampOf(d)'
    BY <1>2, <1>5, <1>6, <2>1 DEF DaemonInv, StampOf
  <2>3. SetupOf(d)'
    BY <1>2, <2>1 DEF DaemonInv, SetupOf
  <2>4. SnapOf(d)'
    BY <2>1 DEF SnapOf
  <2>5. PublishOf(d)'
    BY <1>2, <2>1 DEF DaemonInv, PublishOf, Relies
  <2> QED BY <2>2, <2>3, <2>4, <2>5 DEF DaemonInv
<1> QED BY <1>9, <1>10

\* The kernel comes up before any daemon and goes down without one inside.
LEMMA KernelKeepsCurrent ==
    ASSUME CurrentInv, KernelStep
    PROVE  SourceInv' /\ \A d \in Daemon : DaemonInv(d)'
<1>1. /\ Types /\ SourceType /\ SnapType /\ WorkType /\ TaskType /\ MemType /\ RestType
      /\ SourceInv /\ TeardownOrder /\ Ownership
      /\ \A d \in Daemon : DaemonInv(d)
  BY DEF CurrentInv, CacheInv, Types, LifeInv
<1>2. /\ now' = now /\ listed' = listed /\ dirty' = dirty /\ stamp' = stamp /\ blurred' = blurred
      /\ g' = g /\ cur' = cur /\ uids' = uids /\ req' = req /\ then' = then /\ res' = res
     
  BY KernelKeeps DEF source, work
<1>3. Exit \in Task /\ Daemon \subseteq Task /\ \A d \in Daemon : d # Exit
  BY ConstantsOK DEF Task
<1>4. \A d \in Daemon : /\ pc'[d] = pc[d] /\ ptr'[d] = ptr[d]
  BY <1>1, <1>3 DEF KernelStep, yz_host_root_detect, yukizygisk_control_exit,
     yz_host_root_exit, yz_policy_cache_clear, ClearDone, Go, TaskType
<1>5. CASE yz_host_root_detect
  <2>1. stage = "down" /\ cache' = cache /\ mem' = mem /\ stage' \in {"up", "refused"}
    BY <1>5 DEF yz_host_root_detect, memory
  <2>2. root = "none" /\ ~now.default /\ ~dirty
    BY <1>1, <2>1 DEF SourceInv
  <2>3. SourceInv'
    BY <1>1, <1>2, <2>1, <2>2 DEF SourceInv
  <2>4. \A d \in Daemon : pc[d] = "off"
    BY <1>1, <2>1 DEF DaemonInv, SetupOf
  <2>5. ASSUME NEW d \in Daemon
        PROVE  DaemonInv(d)'
    <3>1. DaemonInv(d) /\ pc[d] = "off" /\ pc'[d] = "off" /\ ptr'[d] = ptr[d]
      BY <1>1, <1>4, <2>4
    <3>2. Fresh(d)' <=> Fresh(d)
      BY <1>2 DEF Fresh
    <3>3. StampOf(d)'
      BY <1>2, <3>1 DEF DaemonInv, StampOf
    <3>4. SetupOf(d)'
      BY <1>2, <3>1 DEF DaemonInv, SetupOf
    <3>5. SnapOf(d)'
      BY <1>2, <3>1, <3>2 DEF DaemonInv, SnapOf
    <3>6. PublishOf(d)'
      BY <1>2, <2>1, <3>1, <3>2 DEF DaemonInv, PublishOf, Relies
    <3> QED BY <3>3, <3>4, <3>5, <3>6 DEF DaemonInv
  <2> QED BY <2>3, <2>5
<1>6. CASE yukizygisk_control_exit \/ yz_host_root_exit \/ yz_policy_cache_clear \/ ClearDone
  <2>1. /\ root' = root /\ stage # "down" /\ stage' \notin {"up", "down", "refused"}
        /\ stage \notin {"down", "refused"}
    BY <1>6 DEF yukizygisk_control_exit, yz_host_root_exit, yz_policy_cache_clear, ClearDone
  <2>2. SourceInv'
    BY <1>1, <1>2, <2>1 DEF SourceInv
  <2>3. \/ cache' = cache /\ mem' = mem
        \/ cache' = None
    BY <1>1, <1>6 DEF yukizygisk_control_exit, yz_host_root_exit, yz_policy_cache_clear,
       ClearDone, TeardownOrder, memory
  <2>4. mem' = mem \/ \A d \in Daemon : ~InIoctl(d)
    BY <1>1, <1>6 DEF yukizygisk_control_exit, yz_host_root_exit, yz_policy_cache_clear,
       ClearDone, TeardownOrder, memory
  <2>5. ASSUME NEW d \in Daemon
        PROVE  DaemonInv(d)'
    <3>1. DaemonInv(d) /\ pc'[d] = pc[d] /\ ptr'[d] = ptr[d]
      BY <1>1, <1>4
    <3>2. (Fresh(d)' <=> Fresh(d)) /\ (Reading(d)' <=> Reading(d))
      BY <1>2 DEF Fresh, Reading
    <3>3. Relies(d)' <=> Relies(d)
      BY <1>2, <3>1, <3>2 DEF Relies
    <3>4. StampOf(d)'
      BY <1>2, <3>1 DEF DaemonInv, StampOf
    <3>5. SetupOf(d)'
      BY <1>2, <2>1, <3>1 DEF DaemonInv, SetupOf
    <3>6. SnapOf(d)'
      BY <1>2, <3>1, <3>2 DEF DaemonInv, SnapOf
    <3>7. PublishOf(d)'
      BY <1>2, <2>3, <2>4, <3>1, <3>3 DEF DaemonInv, PublishOf, InIoctl
    <3> QED BY <3>4, <3>5, <3>6, <3>7 DEF DaemonInv
  <2> QED BY <2>2, <2>5
<1> QED BY <1>5, <1>6 DEF KernelStep

-----------------------------------------------------------------------------
(* A step of one daemon, as the others see it.                             *)

LEMMA OthersWork ==
    ASSUME Types, NEW d \in Daemon, DaemonStep(d), NEW e \in Daemon \ {d}
    PROVE  /\ pc'[e] = pc[e] /\ ptr'[e] = ptr[e] /\ g'[e] = g[e] /\ cur'[e] = cur[e]
           /\ uids'[e] = uids[e] /\ req'[e] = req[e] /\ then'[e] = then[e]
           /\ res'[e] = res[e]
<1>1. TaskType /\ SnapType /\ WorkType /\ RestType /\ e \in Task
  BY DEF Types, Task
<1>2. pc'[e] = pc[e] /\ ptr'[e] = ptr[e]
  BY <1>1, OthersKept
<1>3. g'[e] = g[e]
  BY <1>1 DEF DaemonStep, setup, TakeEvent, RefreshAll, Request, Refresh, read_stamp,
     Parse, QueryDefault, QueryUids, Install, push_cache, Swap, Installed, RefreshFails,
     StampNow, ioctl_uid_should_umount, Read, query_uid, Reply, SnapType
<1>4. cur'[e] = cur[e] /\ uids'[e] = uids[e]
  BY <1>1 DEF DaemonStep, setup, TakeEvent, RefreshAll, Request, Refresh, read_stamp,
     Parse, QueryDefault, QueryUids, Install, push_cache, Swap, Installed, RefreshFails,
     StampNow, ioctl_uid_should_umount, Read, query_uid, Reply, WorkType
<1>5. req'[e] = req[e] /\ then'[e] = then[e] /\ res'[e] = res[e]
  BY <1>1 DEF DaemonStep, setup, TakeEvent, RefreshAll, Request, Refresh, read_stamp,
     Parse, QueryDefault, QueryUids, Install, push_cache, Swap, Installed, Begin, Answered,
     ioctl_uid_should_umount, Read, query_uid, Reply, WorkType
<1> QED BY <1>2, <1>3, <1>4, <1>5

\* A daemon changes no cache that is published, owned by another or being read.
LEMMA MemoryKept ==
    ASSUME CacheInv, NEW d \in Daemon, DaemonStep(d)
    PROVE  /\ \/ cache' = cache
              \/ pc[d] = "swap" /\ pc'[d] = "grace" /\ cache' = ptr[d] /\ mem' = mem
           /\ cache # None /\ cache' = cache => mem'[cache] = mem[cache]
           /\ \A e \in Daemon \ {d} :
                 pc[e] \in {"swap", "read"} /\ ptr[e] # None => mem'[ptr[e]] = mem[ptr[e]]
<1>1. /\ Types /\ TaskType /\ MemType /\ WorkType
      /\ Ownership /\ ReadersWaitedFor /\ TeardownOrder
      /\ d \in Task /\ Daemon \subseteq Task
  BY DEF CacheInv, Types, LifeInv, Task
<1>2. CASE mem' = mem /\ cache' = cache
  BY <1>2
<1>3. CASE push_cache(d) /\ mem' # mem
  <2>1. FreeSlot \in Slot /\ mem[FreeSlot] = Free
    BY <1>1, <1>3, FreeSlotExists DEF push_cache
  <2>2. cache' = cache /\ \A a \in Slot \ {FreeSlot} : mem'[a] = mem[a]
    BY <1>1, <1>3, <2>1 DEF push_cache, FreeSlot, MemType
  <2>3. cache # None => cache \in Slot \ {FreeSlot}
    BY <1>1, <2>1 DEF Ownership, MemType
  <2>4. \A e \in Daemon : pc[e] \in {"swap", "read"} /\ ptr[e] # None => ptr[e] # FreeSlot
    <3>1. NoUseAfterFree
      <4> SUFFICES ASSUME NEW e \in Daemon, pc[e] = "read", ptr[e] # None
                   PROVE  mem[ptr[e]] # Free
        BY DEF NoUseAfterFree
      <4>1. ptr[e] = cache \/ \E t \in Task : pc[t] = "grace" /\ ptr[t] = ptr[e]
        BY <1>1 DEF ReadersWaitedFor
      <4> QED BY <1>1, <4>1 DEF Ownership, Owns
    <3> QED BY <1>1, <2>1, <3>1 DEF NoUseAfterFree, Ownership, Owns
  <2> QED BY <1>1, <2>2, <2>3, <2>4 DEF TaskType
<1>4. CASE Swap(d)
  <2>1. StillOwner(d) /\ pc[d] = "swap"
    BY <1>1, <1>4 DEF Swap, TeardownOrder, OwnerStable
  <2> QED BY <1>1, <1>4, <2>1 DEF Swap, Go, TaskType
<1>5. CASE Installed(d)
  <2>1. pc[d] = "grace" /\ wait[d] = {} /\ cache' = cache /\ mem' = Released(d)
    BY <1>5 DEF Installed, GraceOver
  <2>2. CASE ptr[d] = None
    BY <2>1, <2>2 DEF Released
  <2>3. CASE ptr[d] # None
    <3>1. \A a \in Slot \ {ptr[d]} : mem'[a] = mem[a]
      BY <1>1, <2>1, <2>3 DEF Released, MemType
    <3>2. Owns(d) /\ ptr[d] # cache
      BY <1>1, <2>1, <2>3 DEF Owns, Ownership
    <3>3. ASSUME NEW e \in Daemon \ {d}, pc[e] \in {"swap", "read"}, ptr[e] # None
          PROVE  ptr[e] # ptr[d]
      <4>1. CASE pc[e] = "swap"
        BY <1>1, <3>2, <3>3, <4>1 DEF Owns, Ownership
      <4>2. CASE pc[e] = "read" /\ ptr[e] = ptr[d]
        <5>1. PICK t \in Task : pc[t] = "grace" /\ ptr[t] = ptr[e] /\ e \in wait[t]
          BY <1>1, <3>2, <3>3, <4>2 DEF ReadersWaitedFor
        <5>2. t = d
          BY <1>1, <2>3, <3>2, <4>2, <5>1 DEF Owns, Ownership
        <5> QED BY <2>1, <5>1, <5>2
      <4> QED BY <3>3, <4>1, <4>2
    <3> QED BY <1>1, <2>1, <3>1, <3>2, <3>3 DEF MemType, TaskType
  <2> QED BY <2>2, <2>3
<1>6. \/ mem' = mem /\ cache' = cache
      \/ push_cache(d) /\ mem' # mem
      \/ Swap(d) \/ Installed(d)
  BY DEF DaemonStep, setup, TakeEvent, RefreshAll, Request, Refresh, read_stamp,
     Parse, QueryDefault, QueryUids, Install, push_cache, memory,
     ioctl_uid_should_umount, Read, query_uid, Reply, DaemonRest
<1> QED BY <1>2, <1>3, <1>4, <1>5, <1>6

LEMMA OthersCurrent ==
    ASSUME CurrentInv, NEW d \in Daemon, DaemonStep(d), NEW e \in Daemon \ {d}
    PROVE  DaemonInv(e)'
<1>1. /\ CacheInv /\ Types /\ TaskType /\ Ownership
      /\ DaemonInv(e) /\ DaemonInv(d)
  BY DEF CurrentInv, CacheInv, Types, LifeInv
<1>2. /\ root' = root /\ stage' = stage /\ fallback' = fallback
      /\ now' = now /\ dirty' = dirty /\ stamp' = stamp /\ blurred' = blurred
  BY DaemonKeepsKernel DEF kernel, source
<1>3. /\ pc'[e] = pc[e] /\ ptr'[e] = ptr[e] /\ g'[e] = g[e] /\ cur'[e] = cur[e]
      /\ uids'[e] = uids[e] /\ req'[e] = req[e] /\ then'[e] = then[e]
      /\ res'[e] = res[e]
  BY <1>1, OthersWork
<1>4. (Fresh(e)' <=> Fresh(e)) /\ (Reading(e)' <=> Reading(e))
  BY <1>2, <1>3 DEF Fresh, Reading
<1>5. Relies(e)' => Relies(e)
  BY <1>3, <1>4 DEF Relies
<1>6. /\ pc[d] = "swap" => ptr[d] # None /\ mem[ptr[d]].by = d
      /\ pc[e] = "swap" => ptr[e] # None
  BY <1>1 DEF DaemonInv, PublishOf, Ownership, Task
<1>7. /\ \/ cache' = cache
         \/ pc[d] = "swap" /\ cache' = ptr[d] /\ mem' = mem
      /\ cache # None /\ cache' = cache => mem'[cache] = mem[cache]
      /\ pc[e] \in {"swap", "read"} /\ ptr[e] # None => mem'[ptr[e]] = mem[ptr[e]]
  BY <1>1, MemoryKept
<1>8. StampOf(e)'
  BY <1>1, <1>2, <1>3 DEF DaemonInv, StampOf
<1>9. SetupOf(e)'
  BY <1>1, <1>2, <1>3, <1>6, <1>7 DEF DaemonInv, SetupOf
<1>10. SnapOf(e)'
  BY <1>1, <1>2, <1>3, <1>4 DEF DaemonInv, SnapOf
<1>11. PublishOf(e)'
  <2>1. pc'[e] = "swap" => mem'[ptr'[e]].snap = g'[e].snap /\ mem'[ptr'[e]].by = e
    BY <1>1, <1>3, <1>6, <1>7 DEF DaemonInv, PublishOf
  <2>2. cache' # None /\ mem'[cache'].by = e /\ Relies(e)' => Agrees(now', mem'[cache'].snap)
    <3>1. CASE cache' = cache
      BY <1>1, <1>2, <1>5, <1>7, <3>1 DEF DaemonInv, PublishOf
    <3>2. CASE pc[d] = "swap" /\ cache' = ptr[d] /\ mem' = mem
      BY <1>6, <3>2
    <3> QED BY <1>7, <3>1, <3>2
  <2> QED BY <2>1, <2>2 DEF PublishOf
<1> QED BY <1>8, <1>9, <1>10, <1>11 DEF DaemonInv

-----------------------------------------------------------------------------
(* A step of a daemon, as it sees it itself.                               *)

\* What the steps of d have in common.
LEMMA OwnFrame ==
    ASSUME CurrentInv, NEW d \in Daemon, DaemonStep(d)
    PROVE  /\ Types /\ SnapType /\ WorkType /\ TaskType /\ MemType /\ RestType /\ SourceType
           /\ SourceInv /\ Ownership /\ TeardownOrder /\ d \in Task
           /\ StampOf(d) /\ SetupOf(d) /\ SnapOf(d) /\ PublishOf(d)
           /\ root' = root /\ stage' = stage /\ fallback' = fallback
           /\ now' = now /\ dirty' = dirty /\ stamp' = stamp /\ blurred' = blurred
           /\ stamp \in Nat /\ stamp # Unread
           /\ g[d].stamp \in Nat /\ g[d].enabled \in BOOLEAN /\ cur[d] \in Nat
           /\ dirty \in BOOLEAN
<1>1. /\ Types /\ SnapType /\ WorkType /\ TaskType /\ MemType /\ RestType /\ SourceType
      /\ SourceInv /\ Ownership /\ TeardownOrder /\ d \in Task /\ DaemonInv(d)
  BY DEF CurrentInv, CacheInv, Types, LifeInv, Task
<1>2. UNCHANGED <<kernel, source>>
  BY DaemonKeepsKernel
<1>3. g[d].stamp \in Nat /\ g[d].enabled \in BOOLEAN /\ cur[d] \in Nat
  BY <1>1, ContextParts DEF WorkType, RestType
<1> QED BY <1>1, <1>2, <1>3, PolicyParts DEF DaemonInv, kernel, source

\* A step that leaves decisions, stamps and caches alone and takes d to a place
\* where it relies on nothing new.
LEMMA QuietStep ==
    ASSUME CurrentInv, NEW d \in Daemon, DaemonStep(d),
           mem' = mem, cache' = cache,
           g'[d].snap = g[d].snap, g'[d].stamp = g[d].stamp,
           pc[d] \notin {"default", "query", "grace"},
           pc'[d] \in {"idle", "stamp", "parse", "ioctl", "asked", "answered", "dead"},
           StampOf(d)', SetupOf(d)'
    PROVE  DaemonInv(d)'
<1>1. /\ SnapOf(d) /\ PublishOf(d) /\ now' = now /\ dirty' = dirty /\ stamp' = stamp /\ blurred' = blurred
  BY OwnFrame
<1>2. Fresh(d)' <=> Fresh(d)
  BY <1>1 DEF Fresh
<1>3. Relies(d)' => Relies(d)
  BY <1>2 DEF Relies
<1>4. SnapOf(d)'
  BY <1>1, <1>2 DEF SnapOf
<1>5. PublishOf(d)'
  BY <1>1, <1>3 DEF PublishOf
<1> QED BY <1>4, <1>5 DEF DaemonInv

\* Work is taken up and answered.
LEMMA IdleKeepsCurrent ==
    ASSUME CurrentInv, NEW d \in Daemon,
           \/ setup(d) \/ TakeEvent(d) \/ RefreshAll(d) \/ \E u \in Uid : Request(d, u)
           \/ Reply(d)
    PROVE  DaemonInv(d)'
<1>1. DaemonStep(d)
  BY DEF DaemonStep
<1>2. /\ Types /\ SnapType /\ WorkType /\ TaskType /\ RestType /\ d \in Task
      /\ StampOf(d) /\ SetupOf(d)
      /\ root' = root /\ stage' = stage /\ fallback' = fallback
      /\ now' = now /\ dirty' = dirty /\ stamp' = stamp /\ blurred' = blurred
      /\ g[d].stamp \in Nat /\ g[d].enabled \in BOOLEAN /\ dirty \in BOOLEAN
  BY <1>1, OwnFrame
<1>3. mem' = mem /\ cache' = cache /\ cur' = cur
  BY DEF setup, TakeEvent, RefreshAll, Request, Reply, DaemonRest, memory
<1>4. g'[d].snap = g[d].snap /\ g'[d].stamp = g[d].stamp
  BY <1>2 DEF setup, TakeEvent, RefreshAll, Request, Reply, SnapType
<1>5. /\ pc[d] \in {"off", "idle", "answered"} /\ pc'[d] \in {"stamp", "idle", "ioctl"}
      /\ pc[d] = "off" => stage = "up"
      /\ pc'[d] = "ioctl" => g'[d].enabled = FALSE
  BY <1>2 DEF setup, TakeEvent, RefreshAll, Request, Reply, Begin, Go, TaskType
<1>6. /\ pc[d] # "off" => g'[d].enabled = g[d].enabled
      /\ pc[d] = "off" => g'[d].enabled = fallback
  <2>1. fallback \in BOOLEAN
    BY <1>2 DEF Types, KernelType
  <2>2. CASE setup(d)
    <3>1. pc[d] = "off" /\ g[d].enabled = FALSE
      BY <1>2, <2>2 DEF setup, SetupOf
    <3>2. IF fallback THEN g'[d].enabled = TRUE ELSE g' = g
      BY <1>2, <2>2 DEF setup, SnapType
    <3> QED BY <2>1, <3>1, <3>2
  <2>3. CASE ~setup(d)
    BY <2>3 DEF TakeEvent, RefreshAll, Request, Reply
  <2> QED BY <2>2, <2>3
<1>7. StampOf(d)'
  BY <1>2, <1>3, <1>4, <1>5 DEF StampOf
<1>8. SetupOf(d)'
  BY <1>2, <1>3, <1>4, <1>5, <1>6 DEF SetupOf
<1> QED BY <1>1, <1>3, <1>4, <1>5, <1>7, <1>8, QuietStep

\* A refresh that fails changes neither the decisions nor the stamp.
LEMMA RefreshFailsKeepsCurrent ==
    ASSUME CurrentInv, NEW d \in Daemon, DaemonStep(d), RefreshFails(d),
           UNCHANGED <<mem, cache>>, pc[d] \in {"parse", "push"}
    PROVE  DaemonInv(d)'
<1>1. /\ SnapType /\ WorkType /\ TaskType /\ RestType /\ d \in Task
      /\ StampOf(d) /\ SetupOf(d)
      /\ root' = root /\ stage' = stage /\ fallback' = fallback /\ stamp' = stamp
      /\ g[d].stamp \in Nat /\ stamp \in Nat
  BY OwnFrame
<1>2. cur'[d] = Unread
  BY <1>1 DEF RefreshFails, StampNow, WorkType, RestType
<1>3. g'[d].snap = g[d].snap /\ g'[d].stamp = g[d].stamp /\ g'[d].enabled = g[d].enabled
  BY <1>1 DEF RefreshFails, StampNow, StampKept, SnapType
<1>4. pc'[d] \in {"dead", "idle", "ioctl", "asked", "answered"}
  BY <1>1, RefreshFailsTo DEF TaskType
<1>5. StampOf(d)'
  BY <1>1, <1>2, <1>3 DEF StampOf, Unread
<1>6. SetupOf(d)'
  BY <1>1, <1>3, <1>4 DEF SetupOf
<1> QED BY <1>2, <1>3, <1>4, <1>5, <1>6, QuietStep

\* The stamp of the file: unchanged it means that the decisions are good.
LEMMA StampKeepsCurrent ==
    ASSUME CurrentInv, NEW d \in Daemon, read_stamp(d)
    PROVE  DaemonInv(d)'
<1>1. DaemonStep(d)
  BY DEF DaemonStep, Refresh
<1>2. /\ Types /\ SnapType /\ WorkType /\ TaskType /\ RestType /\ d \in Task
      /\ StampOf(d) /\ SetupOf(d) /\ SnapOf(d)
      /\ root' = root /\ stage' = stage /\ fallback' = fallback
      /\ now' = now /\ dirty' = dirty /\ stamp' = stamp /\ blurred' = blurred /\ stamp \in Nat
      /\ g[d].stamp \in Nat /\ cur[d] \in Nat
  BY <1>1, OwnFrame
<1>3. /\ mem' = mem /\ cache' = cache /\ g' = g /\ then' = then
      /\ res' = res /\ req' = req /\ pc[d] = "stamp"
  BY DEF read_stamp, DaemonRest, memory
<1>4. \/ /\ pc'[d] = then[d] /\ cur'[d] = cur[d] /\ g[d].stamp = stamp /\ then[d] # "serve"
      \/ pc'[d] = "parse" /\ cur'[d] \in {cur[d], stamp}
  <2>1. then[d] # "serve" \/ Forced(d)
    BY <1>2 DEF Types, ReqOfWork, Forced
  <2> QED BY <1>2, <2>1 DEF read_stamp, Go, same_stamp, TaskType, WorkType
<1>5. then[d] \in {"idle", "ioctl", "asked", "serve", "answered"}
  BY <1>2 DEF WorkType
<1>6. StampOf(d)'
  BY <1>2, <1>3, <1>4, <1>5 DEF StampOf
<1>7. SetupOf(d)'
  BY <1>2, <1>3, <1>4, <1>5 DEF SetupOf
<1> QED BY <1>1, <1>3, <1>4, <1>5, <1>6, <1>7, QuietStep

\* A step between the stamp and the push: it works at the snapshot alone.
LEMMA RefreshStep ==
    ASSUME CurrentInv, NEW d \in Daemon, DaemonStep(d),
           mem' = mem, cache' = cache, cur' = cur,
           then' = then, res' = res, req' = req,
           g'[d].stamp = g[d].stamp, g'[d].enabled = g[d].enabled,
           pc[d] \in {"parse", "default", "query"}, pc'[d] \in {"default", "query", "push"},
           pc'[d] # "push" => root = "kernelsu",
           Fresh(d) \/ Reading(d) =>
              IF pc'[d] = "push" THEN Agrees(now, g'[d].snap)
              ELSE /\ Halfway(now, uids'[d], g'[d].snap)
                   /\ pc'[d] = "query" => DefaultAsked(now, g'[d].snap)
    PROVE  DaemonInv(d)'
<1>1. /\ StampOf(d) /\ SetupOf(d) /\ SnapOf(d) /\ PublishOf(d)
      /\ root' = root /\ stage' = stage /\ fallback' = fallback
      /\ now' = now /\ dirty' = dirty /\ stamp' = stamp /\ blurred' = blurred
  BY OwnFrame
<1>2. (Fresh(d)' <=> Fresh(d)) /\ (Reading(d)' <=> Reading(d))
  BY <1>1 DEF Fresh, Reading
<1>3. Relies(d)' => Relies(d)
  BY <1>2 DEF Relies
<1>4. StampOf(d)'
  BY <1>1 DEF StampOf
<1>5. SetupOf(d)'
  BY <1>1 DEF SetupOf
<1>6. SnapOf(d)'
  BY <1>1, <1>2 DEF SnapOf
<1>7. PublishOf(d)'
  BY <1>1, <1>3 DEF PublishOf
<1> QED BY <1>4, <1>5, <1>6, <1>7 DEF DaemonInv

\* The part of the snapshot that an assignment to g[d].snap sets.
LEMMA SnapAssigned ==
    ASSUME SnapType, NEW d \in Daemon, NEW s, g' = [g EXCEPT ![d].snap = s]
    PROVE  g'[d].snap = s /\ g'[d].stamp = g[d].stamp /\ g'[d].enabled = g[d].enabled
BY DEF SnapType

\* One decision is added.
LEMMA EntryAssigned ==
    ASSUME SnapType, NEW d \in Daemon, NEW u \in Uid, NEW x,
           g' = [g EXCEPT ![d].snap.dec[u] = x]
    PROVE  /\ g'[d].stamp = g[d].stamp /\ g'[d].enabled = g[d].enabled
           /\ g'[d].snap.dec = [g[d].snap.dec EXCEPT ![u] = x]
           /\ g'[d].snap.default = g[d].snap.default
           /\ g'[d].snap.manager = g[d].snap.manager
           /\ g'[d].snap.complete = g[d].snap.complete
<1>1. g[d] \in Context /\ g[d].snap \in Snapshot
  BY ContextParts
<1> DEFINE s == [g[d].snap EXCEPT !.dec[u] = x]
<1>2. g' = [g EXCEPT ![d].snap = s]
  OBVIOUS
<1>3. /\ s.dec = [g[d].snap.dec EXCEPT ![u] = x] /\ s.default = g[d].snap.default
      /\ s.manager = g[d].snap.manager /\ s.complete = g[d].snap.complete
  BY <1>1 DEF Snapshot
<1> HIDE DEF s
<1> QED BY <1>2, <1>3, SnapAssigned

\* The list of KernelSU is to be asked for uid by uid; APatch's file is the
\* policy.
LEMMA ParseKeepsCurrent ==
    ASSUME CurrentInv, NEW d \in Daemon, Parse(d)
    PROVE  DaemonInv(d)'
<1>1. DaemonStep(d)
  BY DEF DaemonStep, Refresh
<1>2. /\ Types /\ SnapType /\ WorkType /\ TaskType /\ RestType /\ SourceType /\ d \in Task
      /\ SourceInv
  BY <1>1, OwnFrame
<1>3. /\ mem' = mem /\ cache' = cache /\ pc[d] = "parse"
      /\ then' = then /\ res' = res /\ req' = req
  BY DEF Parse, DaemonRest, memory
<1>4. CASE RefreshFails(d)
  BY <1>1, <1>3, <1>4, RefreshFailsKeepsCurrent
<1>5. Fresh(d) \/ Reading(d) => listed = Listed(now)
  BY <1>2 DEF SourceInv, Fresh, Reading
<1>6. CASE /\ root = "kernelsu" /\ cur' = cur
           /\ pc' = [pc EXCEPT ![d] = "default"]
           /\ \/ /\ uids' = [uids EXCEPT ![d] = listed]
                 /\ g' = [g EXCEPT ![d].snap = [Empty EXCEPT !.complete = TRUE]]
              \/ g' = [g EXCEPT ![d].snap = Empty]
  <2>1. pc'[d] = "default"
    BY <1>2, <1>6 DEF TaskType
  <2>2. CASE g' = [g EXCEPT ![d].snap = Empty]
    <3>1. g'[d].snap = Empty /\ g'[d].stamp = g[d].stamp /\ g'[d].enabled = g[d].enabled
      BY <1>2, <2>2, SnapAssigned
    <3>2. Halfway(now, uids'[d], g'[d].snap)
      BY <3>1 DEF Halfway, Empty
    <3> QED BY <1>1, <1>3, <1>6, <2>1, <3>1, <3>2, RefreshStep
  <2>3. CASE /\ uids' = [uids EXCEPT ![d] = listed]
             /\ g' = [g EXCEPT ![d].snap = [Empty EXCEPT !.complete = TRUE]]
    <3> DEFINE s == [Empty EXCEPT !.complete = TRUE]
    <3>1. s.dec = [u \in Uid |-> "unset"]
      BY DEF Empty
    <3>2. uids'[d] = listed
      BY <1>2, <2>3 DEF WorkType
    <3>3. g' = [g EXCEPT ![d].snap = s]
      BY <2>3
    <3> HIDE DEF s
    <3>4. g'[d].snap = s /\ g'[d].stamp = g[d].stamp /\ g'[d].enabled = g[d].enabled
      BY <1>2, <3>3, SnapAssigned
    <3>5. listed = Listed(now) => Halfway(now, uids'[d], s)
      BY <3>1, <3>2 DEF Halfway
    <3> QED BY <1>1, <1>3, <1>5, <1>6, <2>1, <3>4, <3>5, RefreshStep
  <2> QED BY <1>6, <2>2, <2>3
<1>7. ASSUME root = "kernelpatch", cur' = cur,
             pc' = [pc EXCEPT ![d] = "push"], NEW kept, NEW s,
             (s.dec = Partly(now.who, kept) /\ ~s.complete) \/ s.dec = now.who,
             ~s.default, ~s.manager,
             g' = [g EXCEPT ![d].snap = s]
      PROVE  DaemonInv(d)'
  <2>1. pc'[d] = "push"
    BY <1>2, <1>7 DEF TaskType
  <2>2. g'[d].snap = s /\ g'[d].stamp = g[d].stamp /\ g'[d].enabled = g[d].enabled
    BY <1>2, <1>7, SnapAssigned
  <2>3. Agrees(now, s)
    BY <1>2, <1>7, PackagesParsed
  <2> QED BY <1>1, <1>3, <1>7, <2>1, <2>2, <2>3, RefreshStep
<1>8. CASE /\ root = "kernelpatch" /\ cur' = cur
           /\ pc' = [pc EXCEPT ![d] = "push"]
           /\ g' = [g EXCEPT ![d].snap = [Empty EXCEPT !.dec = now.who, !.complete = TRUE]]
  <2> DEFINE s == [Empty EXCEPT !.dec = now.who, !.complete = TRUE]
  <2>1. s.dec = now.who /\ ~s.default /\ ~s.manager
    BY DEF Empty
  <2>2. g' = [g EXCEPT ![d].snap = s]
    BY <1>8
  <2> HIDE DEF s
  <2> QED BY <1>7, <1>8, <2>1, <2>2
<1>9. ASSUME root = "kernelpatch", cur' = cur,
             pc' = [pc EXCEPT ![d] = "push"], NEW kept \in SUBSET Uid,
             g' = [g EXCEPT ![d].snap = [Empty EXCEPT !.dec = Partly(now.who, kept)]]
      PROVE  DaemonInv(d)'
  <2> DEFINE s == [Empty EXCEPT !.dec = Partly(now.who, kept)]
  <2>1. s.dec = Partly(now.who, kept) /\ ~s.default /\ ~s.manager /\ ~s.complete
    BY DEF Empty
  <2>2. g' = [g EXCEPT ![d].snap = s]
    BY <1>9
  <2> HIDE DEF s
  <2> QED BY <1>7, <1>9, <2>1, <2>2
<1>10. \/ RefreshFails(d)
       \/ /\ root = "kernelsu" /\ cur' = cur
          /\ pc' = [pc EXCEPT ![d] = "default"]
          /\ \/ /\ uids' = [uids EXCEPT ![d] = listed]
                /\ g' = [g EXCEPT ![d].snap = [Empty EXCEPT !.complete = TRUE]]
             \/ g' = [g EXCEPT ![d].snap = Empty]
       \/ /\ root = "kernelpatch" /\ cur' = cur
          /\ pc' = [pc EXCEPT ![d] = "push"]
          /\ \/ g' = [g EXCEPT ![d].snap = [Empty EXCEPT !.dec = now.who, !.complete = TRUE]]
             \/ \E kept \in SUBSET Uid :
                  g' = [g EXCEPT ![d].snap = [Empty EXCEPT !.dec = Partly(now.who, kept)]]
  BY DEF Parse, Go
<1> QED BY <1>4, <1>6, <1>8, <1>9, <1>10

\* The default and the manager are known, or the snapshot is not complete.
LEMMA DefaultKeepsCurrent ==
    ASSUME CurrentInv, NEW d \in Daemon, QueryDefault(d)
    PROVE  DaemonInv(d)'
<1>1. DaemonStep(d)
  BY DEF DaemonStep, Refresh
<1>2. /\ Types /\ SnapType /\ WorkType /\ TaskType /\ SourceType /\ d \in Task
      /\ SetupOf(d) /\ SnapOf(d)
  BY <1>1, OwnFrame
<1>3. /\ mem' = mem /\ cache' = cache /\ pc[d] = "default" /\ cur' = cur
      /\ then' = then /\ res' = res /\ req' = req /\ uids' = uids
  BY DEF QueryDefault, DaemonRest, memory
<1>4. pc'[d] = IF uids[d] = {} THEN "push" ELSE "query"
  BY <1>2 DEF QueryDefault, Go, TaskType
<1>5. PICK profile, manager \in BOOLEAN :
         g' = [g EXCEPT ![d].snap.default = profile /\ now.default,
                         ![d].snap.manager = manager,
                         ![d].snap.complete = @ /\ profile /\ manager]
  BY DEF QueryDefault
<1>6. g[d] \in Context /\ g[d].snap \in Snapshot
  BY <1>2, ContextParts
<1>7. /\ g'[d].stamp = g[d].stamp /\ g'[d].enabled = g[d].enabled
      /\ g'[d].snap.dec = g[d].snap.dec
      /\ g'[d].snap.default = (profile /\ now.default)
      /\ g'[d].snap.manager = manager
      /\ g'[d].snap.complete = (g[d].snap.complete /\ profile /\ manager)
  BY <1>2, <1>5, <1>6 DEF SnapType, Context, Snapshot
<1>8. now.default \in BOOLEAN
  BY <1>2, PolicyParts
<1>9. DefaultAsked(now, g'[d].snap)
  BY <1>7, <1>8 DEF DefaultAsked
<1>10. root = "kernelsu"
  BY <1>2, <1>3 DEF SetupOf
<1>11. Halfway(now, uids[d], g[d].snap) => Halfway(now, uids[d], g'[d].snap)
  BY <1>7 DEF Halfway
<1>12. Halfway(now, {}, g'[d].snap) => Agrees(now, g'[d].snap)
  BY <1>2, <1>9, HalfwayDone, DecideAnswers, ConstantsOK
<1>13. Fresh(d) \/ Reading(d) => Halfway(now, uids[d], g[d].snap)
  BY <1>2, <1>3 DEF SnapOf
<1> QED BY <1>1, <1>3, <1>4, <1>7, <1>9, <1>10, <1>11, <1>12, <1>13, RefreshStep

\* One uid less to ask for.
LEMMA QueryKeepsCurrent ==
    ASSUME CurrentInv, NEW d \in Daemon, QueryUids(d)
    PROVE  DaemonInv(d)'
<1>1. DaemonStep(d)
  BY DEF DaemonStep, Refresh
<1>2. /\ Types /\ SnapType /\ WorkType /\ TaskType /\ SourceType /\ d \in Task
      /\ SetupOf(d) /\ SnapOf(d)
  BY <1>1, OwnFrame
<1>3. /\ mem' = mem /\ cache' = cache /\ pc[d] = "query" /\ cur' = cur
      /\ then' = then /\ res' = res /\ req' = req
  BY DEF QueryUids, DaemonRest, memory
<1>4. PICK u \in uids[d] :
         /\ uids' = [uids EXCEPT ![d] = @ \ {u}]
         /\ \/ g' = [g EXCEPT ![d].snap.dec[u] = Decide(now, u)]
            \/ g' = [g EXCEPT ![d].snap.complete = FALSE]
  BY DEF QueryUids
<1>5. uids'[d] = uids[d] \ {u} /\ u \in Uid
  BY <1>2, <1>4 DEF WorkType
<1>6. pc'[d] = IF uids'[d] = {} THEN "push" ELSE "query"
  BY <1>2 DEF QueryUids, Go, TaskType
<1>7. g[d] \in Context /\ g[d].snap \in Snapshot /\ g[d].snap.dec \in Decisions
  BY <1>2, ContextParts
<1>8. /\ g'[d].stamp = g[d].stamp /\ g'[d].enabled = g[d].enabled
      /\ g'[d].snap.default = g[d].snap.default /\ g'[d].snap.manager = g[d].snap.manager
      /\ \/ /\ g'[d].snap.dec = [g[d].snap.dec EXCEPT ![u] = Decide(now, u)]
            /\ g'[d].snap.complete = g[d].snap.complete
         \/ g'[d].snap.dec = g[d].snap.dec /\ g'[d].snap.complete = FALSE
  <2>1. CASE g' = [g EXCEPT ![d].snap.dec[u] = Decide(now, u)]
    BY <1>2, <1>5, <2>1, EntryAssigned
  <2>2. CASE g' = [g EXCEPT ![d].snap.complete = FALSE]
    BY <1>2, <1>7, <2>2 DEF SnapType, Context, Snapshot
  <2> QED BY <1>4, <2>1, <2>2
<1>9. Decide(now, u) # "unset"
  BY <1>2, <1>5, DecideAnswers DEF Answer
<1>10. Halfway(now, uids[d], g[d].snap) => Halfway(now, uids'[d], g'[d].snap)
  <2>1. CASE /\ g'[d].snap.dec = [g[d].snap.dec EXCEPT ![u] = Decide(now, u)]
             /\ g'[d].snap.complete = g[d].snap.complete
    <3>1. \A v \in Uid : g'[d].snap.dec[v] = IF v = u THEN Decide(now, u) ELSE g[d].snap.dec[v]
      BY <1>7, <2>1 DEF Decisions
    <3> QED BY <1>5, <1>9, <2>1, <3>1 DEF Halfway, Listed
  <2>2. CASE g'[d].snap.dec = g[d].snap.dec /\ g'[d].snap.complete = FALSE
    BY <2>2 DEF Halfway
  <2> QED BY <1>8, <2>1, <2>2
<1>11. DefaultAsked(now, g[d].snap) => DefaultAsked(now, g'[d].snap)
  BY <1>8 DEF DefaultAsked
<1>12. root = "kernelsu"
  BY <1>2, <1>3 DEF SetupOf
<1>13. Halfway(now, {}, g'[d].snap) /\ DefaultAsked(now, g'[d].snap) => Agrees(now, g'[d].snap)
  BY <1>2, HalfwayDone, DecideAnswers, ConstantsOK
<1>14. Fresh(d) \/ Reading(d) =>
          Halfway(now, uids[d], g[d].snap) /\ DefaultAsked(now, g[d].snap)
  BY <1>2, <1>3 DEF SnapOf
<1> QED BY <1>1, <1>3, <1>6, <1>8, <1>10, <1>11, <1>12, <1>13, <1>14, RefreshStep

-----------------------------------------------------------------------------
(* push_cache, the installation and the lookup.                            *)

\* The cache that is allocated is the snapshot.
LEMMA PushKeepsCurrent ==
    ASSUME CurrentInv, NEW d \in Daemon, push_cache(d)
    PROVE  DaemonInv(d)'
<1>1. DaemonStep(d)
  BY DEF DaemonStep, Install
<1>2. /\ Types /\ MemType /\ TaskType /\ d \in Task /\ Ownership
      /\ StampOf(d) /\ SetupOf(d) /\ SnapOf(d) /\ PublishOf(d)
      /\ root' = root /\ stage' = stage /\ fallback' = fallback
      /\ now' = now /\ dirty' = dirty /\ stamp' = stamp /\ blurred' = blurred
  BY <1>1, OwnFrame
<1>3. pc[d] = "push" /\ cache' = cache
  BY DEF push_cache
<1>4. CASE RefreshFails(d) /\ UNCHANGED <<mem, ptr>>
  BY <1>1, <1>3, <1>4, RefreshFailsKeepsCurrent
<1>5. CASE /\ pc' = [pc EXCEPT ![d] = "swap"] /\ g' = g /\ cur' = cur
           /\ mem' = [mem EXCEPT ![FreeSlot] = [snap |-> g[d].snap, owner |-> root, by |-> d]]
           /\ ptr' = [ptr EXCEPT ![d] = FreeSlot]
  <2>1. FreeSlot \in Slot /\ mem[FreeSlot] = Free
    BY <1>2, <1>3, FreeSlotExists
  <2>2. /\ pc'[d] = "swap" /\ ptr'[d] = FreeSlot
        /\ mem'[FreeSlot].snap = g[d].snap /\ mem'[FreeSlot].by = d
    BY <1>2, <1>5, <2>1 DEF TaskType, MemType
  <2>3. cache # None => mem'[cache] = mem[cache]
    BY <1>1, <1>3, MemoryKept DEF CurrentInv
  <2>4. then' = then /\ res' = res /\ req' = req /\ uids' = uids
    BY DEF push_cache
  <2>5. (Fresh(d)' <=> Fresh(d)) /\ (Reading(d)' <=> Reading(d))
    BY <1>2, <1>5 DEF Fresh, Reading
  <2>6. Relies(d)' => Relies(d)
    BY <2>2, <2>5 DEF Relies
  <2>7. StampOf(d)'
    BY <1>2, <1>3, <1>5 DEF StampOf
  <2>8. SetupOf(d)'
    BY <1>2, <1>3, <1>5, <2>2 DEF SetupOf
  <2>9. SnapOf(d)'
    BY <1>2, <1>3, <1>5, <2>2, <2>5 DEF SnapOf
  <2>10. PublishOf(d)'
    BY <1>2, <1>3, <1>5, <2>2, <2>3, <2>6 DEF PublishOf
  <2> QED BY <2>7, <2>8, <2>9, <2>10 DEF DaemonInv
<1> QED BY <1>4, <1>5 DEF push_cache, FreeSlot, Go

\* What is published is what was allocated.
LEMMA SwapKeepsCurrent ==
    ASSUME CurrentInv, NEW d \in Daemon, Swap(d)
    PROVE  DaemonInv(d)'
<1>1. DaemonStep(d)
  BY DEF DaemonStep, Install
<1>2. /\ TaskType /\ RestType /\ d \in Task /\ Ownership /\ TeardownOrder
      /\ StampOf(d) /\ SetupOf(d) /\ SnapOf(d) /\ PublishOf(d)
      /\ root' = root /\ stage' = stage /\ fallback' = fallback
      /\ now' = now /\ dirty' = dirty /\ stamp' = stamp /\ blurred' = blurred
  BY <1>1, OwnFrame
<1>3. pc[d] = "swap" /\ StillOwner(d)
  BY <1>2 DEF Swap, TeardownOrder, OwnerStable
<1>4. /\ cache' = ptr[d] /\ mem' = mem /\ g' = g /\ cur' = cur /\ uids' = uids
      /\ then' = then /\ res' = res /\ req' = req
      /\ pc'[d] = "grace"
  BY <1>2, <1>3 DEF Swap, Go, TaskType, RestType
<1>5. ptr[d] # None
  BY <1>2, <1>3 DEF Ownership
<1>6. (Fresh(d)' <=> Fresh(d)) /\ (Reading(d)' <=> Reading(d))
  BY <1>2, <1>4 DEF Fresh, Reading
<1>7. StampOf(d)'
  BY <1>2, <1>3, <1>4 DEF StampOf
<1>8. SetupOf(d)'
  BY <1>2, <1>3, <1>4, <1>5 DEF SetupOf
<1>9. SnapOf(d)'
  BY <1>2, <1>3, <1>4, <1>6 DEF SnapOf
<1>10. PublishOf(d)'
  <2>1. mem[ptr[d]].snap = g[d].snap
    BY <1>2, <1>3 DEF PublishOf
  <2>2. Relies(d)' => Agrees(now, g[d].snap)
    BY <1>2, <1>3, <1>4, <1>6 DEF Relies, SnapOf
  <2> QED BY <1>2, <1>4, <2>1, <2>2 DEF PublishOf
<1> QED BY <1>7, <1>8, <1>9, <1>10 DEF DaemonInv

\* The stamp that is kept is the one read before the file.
LEMMA InstalledKeepsCurrent ==
    ASSUME CurrentInv, NEW d \in Daemon, Installed(d)
    PROVE  DaemonInv(d)'
<1>1. DaemonStep(d)
  BY DEF DaemonStep, Install
<1>2. /\ SnapType /\ WorkType /\ TaskType /\ RestType /\ d \in Task
      /\ StampOf(d) /\ SetupOf(d) /\ SnapOf(d) /\ PublishOf(d)
      /\ root' = root /\ stage' = stage /\ fallback' = fallback
      /\ now' = now /\ dirty' = dirty /\ stamp' = stamp /\ blurred' = blurred /\ stamp \in Nat /\ stamp # Unread
      /\ g[d].stamp \in Nat /\ cur[d] \in Nat
  BY <1>1, OwnFrame
<1>3. /\ pc[d] = "grace" /\ cache' = cache
      /\ then' = then /\ res' = res /\ req' = req /\ uids' = uids
  BY DEF Installed
<1>4. /\ g'[d].snap = g[d].snap /\ g'[d].enabled = g[d].enabled /\ cur'[d] = Unread
      /\ g'[d].stamp = IF cur[d] # Unread THEN cur[d] ELSE g[d].stamp
  BY <1>2 DEF Installed, StampNow, StampKept, SnapType, WorkType
<1>5. pc'[d] = IF then[d] = "serve" THEN "idle" ELSE then[d]
  BY <1>2 DEF Installed, Go, TaskType
<1>6. then[d] \in {"idle", "ioctl", "asked", "serve", "answered"}
  BY <1>2 DEF WorkType
<1>7. cache # None => mem'[cache] = mem[cache]
  BY <1>1, <1>3, MemoryKept DEF CurrentInv
<1>8. Fresh(d)' => Fresh(d) \/ Reading(d)
  BY <1>2, <1>4 DEF Fresh, Reading
<1>9. Relies(d)' => Relies(d)
  BY <1>3, <1>5, <1>6, <1>8 DEF Relies
<1>10. StampOf(d)'
  BY <1>2, <1>4 DEF StampOf, Unread
<1>11. SetupOf(d)'
  BY <1>2, <1>3, <1>4, <1>5, <1>6 DEF SetupOf
<1>12. SnapOf(d)'
  BY <1>2, <1>3, <1>4, <1>5, <1>6, <1>8 DEF SnapOf
<1>13. PublishOf(d)'
  BY <1>2, <1>3, <1>5, <1>6, <1>7, <1>9 DEF PublishOf
<1> QED BY <1>10, <1>11, <1>12, <1>13 DEF DaemonInv

\* A reader takes the cache it relies on.
LEMMA EnterKeepsCurrent ==
    ASSUME CurrentInv, NEW d \in Daemon, ioctl_uid_should_umount(d)
    PROVE  DaemonInv(d)'
<1>1. DaemonStep(d)
  BY DEF DaemonStep
<1>2. /\ WorkType /\ TaskType /\ RestType /\ MemType /\ d \in Task
      /\ StampOf(d) /\ SetupOf(d) /\ SnapOf(d) /\ PublishOf(d)
      /\ root' = root /\ stage' = stage /\ fallback' = fallback
      /\ now' = now /\ dirty' = dirty /\ stamp' = stamp /\ blurred' = blurred
  BY <1>1, OwnFrame
<1>3. /\ pc[d] = "ioctl" /\ cache' = cache /\ mem' = mem /\ g' = g /\ cur' = cur
      /\ uids' = uids /\ then' = then /\ req' = req
  BY DEF ioctl_uid_should_umount, memory
<1>4. \/ /\ pc'[d] = "answered"
         /\ res'[d] \in {"failed", Decide(now, req[d])}
      \/ /\ pc'[d] = "read" /\ stage = "up" /\ fallback /\ ptr'[d] = cache /\ res' = res
  BY <1>2 DEF ioctl_uid_should_umount, Answered, Go, TaskType, RestType, WorkType
<1>5. Fresh(d)' <=> Fresh(d)
  BY <1>2, <1>3, <1>4 DEF Fresh
<1>6. Relies(d)' => Relies(d)
  BY <1>4, <1>5 DEF Relies
<1>7. StampOf(d)'
  BY <1>2, <1>3, <1>4 DEF StampOf
<1>8. SetupOf(d)'
  BY <1>2, <1>3, <1>4 DEF SetupOf
<1>9. SnapOf(d)'
  BY <1>2, <1>3, <1>4, <1>5 DEF SnapOf
<1>10. PublishOf(d)'
  BY <1>2, <1>3, <1>4, <1>6 DEF PublishOf
<1> QED BY <1>7, <1>8, <1>9, <1>10 DEF DaemonInv

\* A reader that was not disturbed answers from a cache that agrees.
LEMMA ReadKeepsCurrent ==
    ASSUME CurrentInv, NEW d \in Daemon, Read(d)
    PROVE  DaemonInv(d)'
<1>1. DaemonStep(d)
  BY DEF DaemonStep
<1>2. /\ Types /\ WorkType /\ TaskType /\ RestType /\ MemType /\ d \in Task
      /\ StampOf(d) /\ SetupOf(d) /\ SnapOf(d) /\ PublishOf(d)
      /\ root' = root /\ stage' = stage /\ fallback' = fallback
      /\ now' = now /\ dirty' = dirty /\ stamp' = stamp /\ blurred' = blurred
  BY <1>1, OwnFrame
<1>3. /\ pc[d] = "read" /\ cache' = cache /\ mem' = mem /\ g' = g /\ cur' = cur
      /\ uids' = uids /\ req' = req
  BY DEF Read, memory
<1>4. req[d] \in Uid /\ then[d] \in {"ioctl", "asked", "answered"}
  BY <1>2, <1>3 DEF Types, ReqOfWork
<1>5. \/ pc'[d] = "stamp" /\ then'[d] = "asked" /\ res' = res
      \/ /\ pc'[d] = "answered" /\ then' = then /\ ptr[d] # None
         /\ \/ mem[ptr[d]] = Free
            \/ res'[d] = Lookup(mem[ptr[d]].snap, req[d]) /\ res'[d] # "again"
  BY <1>2 DEF Read, Begin, Answered, Go, TaskType, WorkType
<1>6. ptr[d] # None => mem[ptr[d]] # Free
  <2>1. CacheInv /\ ReadersWaitedFor /\ Ownership
    BY DEF CurrentInv, CacheInv, LifeInv
  <2>2. ptr[d] # None => ptr[d] = cache \/ \E t \in Task : pc[t] = "grace" /\ ptr[t] = ptr[d]
    BY <1>3, <2>1 DEF ReadersWaitedFor
  <2> QED BY <2>1, <2>2 DEF Ownership, Owns
<1>7. StampOf(d)'
  BY <1>2, <1>3, <1>5 DEF StampOf
<1>8. SetupOf(d)'
  BY <1>2, <1>3, <1>5 DEF SetupOf
<1> QED BY <1>1, <1>3, <1>5, <1>7, <1>8, QuietStep

\* KernelSU's answer goes into the snapshot; APatch's is in it.
LEMMA AskKeepsCurrent ==
    ASSUME CurrentInv, NEW d \in Daemon, query_uid(d)
    PROVE  DaemonInv(d)'
<1>1. DaemonStep(d)
  BY DEF DaemonStep
<1>2. /\ Types /\ SnapType /\ SourceType /\ WorkType /\ TaskType /\ RestType /\ d \in Task
      /\ StampOf(d) /\ SetupOf(d) /\ SnapOf(d) /\ PublishOf(d)
      /\ root' = root /\ stage' = stage /\ fallback' = fallback
      /\ now' = now /\ dirty' = dirty /\ stamp' = stamp /\ blurred' = blurred /\ stamp # Unread
  BY <1>1, OwnFrame
<1>3. /\ pc[d] = "asked" /\ cache' = cache /\ mem' = mem /\ cur' = cur
      /\ uids' = uids /\ req' = req
  BY DEF query_uid, DaemonRest, memory
<1>4. req[d] \in Uid /\ then[d] \in {"ioctl", "asked", "answered"}
  BY <1>2, <1>3 DEF Types, ReqOfWork
<1>5. CASE /\ g' = [g EXCEPT ![d].snap.dec[req[d]] = Decide(now, req[d])]
           /\ res'[d] = Decide(now, req[d]) /\ pc'[d] = "push" /\ then'[d] = "answered"
  <2>1. Decide(now, req[d]) \in Answer
    BY <1>2, <1>4, DecideAnswers
  <2>2. /\ g'[d].stamp = g[d].stamp /\ g'[d].enabled = g[d].enabled
        /\ g'[d].snap.dec = [g[d].snap.dec EXCEPT ![req[d]] = Decide(now, req[d])]
        /\ g'[d].snap.default = g[d].snap.default
        /\ g'[d].snap.manager = g[d].snap.manager
        /\ g'[d].snap.complete = g[d].snap.complete
    BY <1>2, <1>4, <1>5, EntryAssigned
  <2>3. g[d].snap.dec \in Decisions
    BY <1>2, ContextParts
  <2>4. Agrees(now, g[d].snap) => Agrees(now, g'[d].snap)
    BY <1>4, <2>1, <2>2, <2>3, EntryAdded
  <2>5. Fresh(d)' <=> Fresh(d)
    BY <1>2, <2>2 DEF Fresh
  <2>6. ~Reading(d)'
    BY <1>2, <1>3 DEF StampOf, Reading
  <2>7. Relies(d)' => Relies(d)
    BY <1>5, <2>5 DEF Relies
  <2>8. StampOf(d)'
    BY <1>2, <1>3, <2>2 DEF StampOf
  <2>9. SetupOf(d)'
    BY <1>2, <1>3, <1>5, <2>2 DEF SetupOf
  <2>10. SnapOf(d)'
    BY <1>2, <1>3, <1>5, <2>4, <2>5, <2>6 DEF SnapOf
  <2>11. PublishOf(d)'
    BY <1>2, <1>3, <1>5, <2>7 DEF PublishOf
  <2> QED BY <2>8, <2>9, <2>10, <2>11 DEF DaemonInv
<1>6. CASE /\ g' = g /\ then' = then /\ pc'[d] = "answered"
           /\ res'[d] \in {"failed", Lookup(g[d].snap, req[d])} /\ res'[d] # "again"
  <2>2. StampOf(d)'
    BY <1>2, <1>3, <1>6 DEF StampOf
  <2>3. SetupOf(d)'
    BY <1>2, <1>3, <1>6 DEF SetupOf
  <2> QED BY <1>1, <1>3, <1>6, <2>2, <2>3, QuietStep
<1> QED BY <1>2, <1>5, <1>6 DEF query_uid, Begin, Answered, Go, TaskType, WorkType

LEMMA OwnCurrent ==
    ASSUME CurrentInv, NEW d \in Daemon, DaemonStep(d)
    PROVE  DaemonInv(d)'
BY IdleKeepsCurrent, StampKeepsCurrent, ParseKeepsCurrent, DefaultKeepsCurrent,
   QueryKeepsCurrent, PushKeepsCurrent, SwapKeepsCurrent, InstalledKeepsCurrent,
   EnterKeepsCurrent, ReadKeepsCurrent, AskKeepsCurrent DEF DaemonStep, Refresh, Install

LEMMA StepCurrent == CurrentInv /\ [Next]_vars => CurrentInv'
<1> SUFFICES ASSUME CurrentInv, [Next]_vars PROVE CurrentInv'
  OBVIOUS
<1>1. CacheInv'
  BY StepCache DEF CurrentInv
<1>2. SourceInv' /\ \A d \in Daemon : DaemonInv(d)'
  <2>1. CASE UNCHANGED vars
    BY <2>1 DEF vars, kernel, memory, source, work, CurrentInv, SourceInv, DaemonInv,
       StampOf, SetupOf, SnapOf, PublishOf, Fresh, Reading, Relies
  <2>2. ASSUME NEW d \in Daemon, DaemonStep(d)
        PROVE  SourceInv' /\ \A e \in Daemon : DaemonInv(e)'
    <3>1. SourceInv'
      BY <2>2, DaemonKeepsKernel DEF CurrentInv, SourceInv, kernel, source
    <3> QED BY <2>2, <3>1, OwnCurrent, OthersCurrent
  <2> QED BY <2>1, <2>2, NextSorted, ManagerKeepsCurrent, KernelKeepsCurrent
<1> QED BY <1>1, <1>2 DEF CurrentInv

LEMMA InitCurrent == Init => CurrentInv
<1> SUFFICES ASSUME Init PROVE CurrentInv
  OBVIOUS
<1>1. CacheInv
  BY InitCache
<1>2. SourceInv
  BY ConstantsOK DEF Init, SourceInv, Listed
<1>3. ASSUME NEW d \in Daemon
      PROVE  DaemonInv(d)
  <2>1. /\ pc[d] = "off" /\ g[d].enabled = FALSE /\ g[d].stamp = 0 /\ cur[d] = 0
        /\ stamp = 1 /\ cache = None /\ stage = "down"
    BY DEF Init, Task, Unread
  <2>2. ~Fresh(d) /\ ~Reading(d)
    BY <2>1 DEF Fresh, Reading
  <2> QED BY <2>1, <2>2 DEF DaemonInv, StampOf, SetupOf, SnapOf, PublishOf, Unread
<1> QED BY <1>1, <1>2, <1>3 DEF CurrentInv

\* A daemon that takes its decisions for current is right, and once each daemon
\* has seen the file as it is, so is the cache of the kernel, whichever daemon
\* published it, unless a save kept a stamp that a daemon had read (refresh and push_cache of root_policy.cpp,
\* yz_host_install_policy_cache).
THEOREM DecisionsAlwaysCurrent == Spec => []DecisionsCurrent
<1>1. CurrentInv => DecisionsCurrent
  <2> SUFFICES ASSUME CurrentInv PROVE DecisionsCurrent
    OBVIOUS
  <2>1. /\ Types /\ MemType /\ SourceType /\ Ownership
        /\ \A d \in Daemon : SetupOf(d) /\ SnapOf(d) /\ PublishOf(d)
    BY DEF CurrentInv, CacheInv, Types, LifeInv, DaemonInv
  <2>2. StampMeansCurrent
    <3> SUFFICES ASSUME NEW d \in Daemon, Settled(d), ~dirty, ~blurred, g[d].stamp = stamp
                 PROVE  Agrees(now, g[d].snap)
      BY DEF StampMeansCurrent, Agrees
    <3> QED BY <2>1 DEF Settled, Fresh, SnapOf
  <2>3. KernelAgrees
    <3> SUFFICES ASSUME \A d \in Daemon : g[d].stamp = stamp, ~dirty, ~blurred, stage = "up"
                 PROVE  cache # None /\ Agrees(now, mem[cache].snap)
      BY DEF KernelAgrees, Agrees
    <3>1. cache # None
      BY <2>1, ConstantsOK, PolicyParts DEF SetupOf
    <3>2. mem[cache].by \in Daemon
      BY <2>1, <3>1 DEF MemType, Ownership, Cache
    <3>3. Relies(mem[cache].by)
      BY <3>2 DEF Relies, Fresh
    <3> QED BY <2>1, <3>1, <3>2, <3>3 DEF PublishOf
  <2> QED BY <2>2, <2>3 DEF DecisionsCurrent
<1> QED BY <1>1, InitCurrent, StepCurrent, PTL DEF Spec
=============================================================================
