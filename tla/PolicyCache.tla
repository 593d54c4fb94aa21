----------------------------- MODULE PolicyCache -----------------------------
(***************************************************************************)
(* Which uids lose their module mounts: the root implementation found by   *)
(* the kernel (src/kernel/host/root_impl.c) and, where it offers no        *)
(* function the kernel may call, the cache of its decisions that the       *)
(* daemons fill from userspace                                             *)
(* (src/userspace/zygisk/daemon/root_policy.cpp).                          *)
(*                                                                         *)
(* Every daemon, 64-bit and 32-bit, keeps its own copy of the decisions    *)
(* and replaces the one cache of the kernel; each serves one request or    *)
(* event at a time.  The root manager changes its decisions and saves its  *)
(* file later.                                                             *)
(***************************************************************************)
EXTENDS Naturals, FiniteSets

CONSTANTS
    Uid, Manager,    \* app uids, and the one of the root manager
    Daemon,          \* processes that run root_policy.cpp
    Slot,            \* addresses of caches
    EditMax,         \* changes of the policy
    RequestMax,      \* requests and forced refreshes of the daemons
    FailMax          \* failing queries, parses and installations

Exit == "exit"                 \* the task that tears the host down
None == 0                      \* NULL

ASSUME ConstantsOK ==
    /\ Manager \in Uid /\ Exit \notin Daemon /\ None \notin Slot
    /\ Daemon # {} /\ IsFiniteSet(Daemon) /\ IsFiniteSet(Slot)
    /\ Cardinality(Slot) >= Cardinality(Daemon) + 2
    /\ {EditMax, RequestMax, FailMax} \subseteq Nat

VARIABLES
    root,                 \* the root implementation of the device
    stage, owner, fallback,  \* kernel: life cycle and yz_root_*
    cache, mem,           \* yz_policy_cache and the caches allocated
    now, listed, dirty, stamp, edits, \* root manager: decisions and file
    pc, ptr, wait,        \* tasks: program counter, cache in hand, RCU readers
    g, cur, uids,         \* daemons: Context, stamp read, uids parsed
    req, then, res,       \* uid asked for, what follows, answer
    events,               \* netlink messages not taken yet
    requests, fails,
    blurred               \* a save kept a stamp that a daemon had read

kernel == <<root, stage, owner, fallback>>
memory == <<cache, mem>>
source == <<now, listed, dirty, stamp, edits, blurred>>
work == <<g, cur, uids, req, then, res>>
bounds == <<requests, fails>>
vars == <<kernel, memory, source, pc, ptr, wait, work, events, bounds>>

Task == Daemon \cup {Exit}
Unread == 0                    \* SourceStamp{valid = false}
All == "all"                   \* YZ_POLICY_REFRESH_ALL
Default == "default"           \* kKsuDefaultProfileUid
Answer == {"yes", "no"}
Yes(b) == IF b THEN "yes" ELSE "no"

Policy == [who: [Uid -> Answer \cup {"unset"}], default: BOOLEAN]
Snapshot == [dec: [Uid -> Answer \cup {"unset"}], default: BOOLEAN,
             complete: BOOLEAN, manager: BOOLEAN]
Cache == [snap: Snapshot, owner: {"kernelsu", "kernelpatch"}, by: Daemon]
Empty == [dec |-> [u \in Uid |-> "unset"], default |-> FALSE,
          complete |-> FALSE, manager |-> FALSE]
Free == [snap |-> Empty, owner |-> "none", by |-> "none"]

TypeOK ==
    /\ stage \in {"down", "up", "refused", "closed", "clear", "exiting", "exited"}
    /\ {root, owner} \subseteq {"none", "kernelsu", "kernelpatch"}
    /\ fallback \in BOOLEAN
    /\ cache \in Slot \cup {None} /\ mem \in [Slot -> Cache \cup {Free}]
    /\ now \in Policy /\ listed \subseteq Uid
    /\ dirty \in BOOLEAN /\ stamp \in 1..EditMax + 1 /\ edits \in 0..EditMax
    /\ blurred \in BOOLEAN
    /\ pc \in [Task -> {"off", "idle", "stamp", "parse", "default",
                        "query", "push", "swap", "grace", "kept", "ioctl",
                        "read", "ask", "asked", "answered", "dead"}]
    /\ ptr \in [Task -> Slot \cup {None}]
    /\ wait \in [Task -> SUBSET Daemon]
    /\ g \in [Daemon -> [snap: Snapshot, enabled: BOOLEAN, stamp: Nat]]
    /\ cur \in [Daemon -> Nat]
    /\ uids \in [Daemon -> SUBSET Uid]
    /\ req \in [Daemon -> Uid \cup {All}]
    /\ then \in [Daemon -> {"idle", "ioctl", "asked", "serve", "answered"}]
    /\ res \in [Daemon -> Answer \cup {"none", "failed"}]
    /\ events \in [Daemon -> SUBSET Uid]
    /\ requests \in 0..RequestMax /\ fails \in 0..FailMax

\* What the root manager decides for a uid; it never loses its own mounts.
Decide(p, u) == IF u = Manager THEN "no"
                ELSE IF p.who[u] = "unset" THEN Yes(p.default) ELSE p.who[u]

Init ==
    /\ stage = "down" /\ root = "none" /\ owner = "none" /\ fallback = FALSE
    /\ cache = None /\ mem = [a \in Slot |-> Free]
    /\ now = [who |-> [u \in Uid |-> "unset"], default |-> FALSE]
    /\ listed = {} /\ dirty = FALSE /\ stamp = 1 /\ edits = 0 /\ blurred = FALSE
    /\ pc = [t \in Task |-> "off"] /\ ptr = [t \in Task |-> None]
    /\ wait = [t \in Task |-> {}]
    /\ g = [d \in Daemon |-> [snap |-> Empty, enabled |-> FALSE, stamp |-> Unread]]
    /\ cur = [d \in Daemon |-> Unread] /\ uids = [d \in Daemon |-> {}]
    /\ req = [d \in Daemon |-> All] /\ then = [d \in Daemon |-> "idle"]
    /\ res = [d \in Daemon |-> "none"]
    /\ events = [d \in Daemon |-> {}] 
    /\ requests = 0 /\ fails = 0

Go(t, to) == pc' = [pc EXCEPT ![t] = to]
MayFail == fails < FailMax /\ fails' = fails + 1
Works == UNCHANGED fails

(***************************************************************************)
(* The kernel finds the root implementation.                               *)
(***************************************************************************)
\* A socket hears only what is sent while it is bound.  Nothing makes a daemon
\* take an event: one that is never taken is one that was lost.
Emit(e) ==
    events' = [d \in Daemon |-> IF pc[d] \in {"off", "dead"} THEN events[d]
                                ELSE events[d] \cup {e}]

\* yz_host_root_detect: more than one root, Magisk alone or none is refused;
\* the fallback is needed where no function can be called, or forced.
yz_host_root_detect ==
    /\ stage = "down"
    /\ \E ksu, apatch, magisk, callable, forced \in BOOLEAN :
         LET roots == {r \in {<<"kernelsu", ksu>>, <<"kernelpatch", apatch>>,
                              <<"magisk", magisk>>} : r[2]}
         IN IF Cardinality(roots) # 1 \/ magisk
            THEN stage' = "refused" /\ UNCHANGED <<root, owner, fallback>>
            ELSE /\ stage' = "up"
                 /\ owner' = (CHOOSE r \in roots : TRUE)[1] /\ root' = owner'
                 /\ fallback' = (forced \/ ~callable)
    /\ UNCHANGED <<memory, source, pc, ptr, wait, work, events, bounds>>

InIoctl(d) == pc[d] \in {"swap", "grace", "read"}

\* Mutant: the teardown does not wait for the ioctls
yukizygisk_control_exit_NoWait ==
    /\ stage = "up" /\ stage' = "closed"
    /\ UNCHANGED <<root, owner, fallback, memory, source, pc, ptr, wait, work, events, bounds>>

\* The teardown starts with the control fd: the semaphore waits for the ioctls.
yukizygisk_control_exit ==
    /\ stage = "up" /\ stage' = "closed"
    /\ \A d \in Daemon : ~InIoctl(d)
    /\ UNCHANGED <<root, owner, fallback, memory, source, pc, ptr, wait, work, events, bounds>>

\* yz_host_root_exit: the flags first, the cache after.
yz_host_root_exit ==
    /\ stage = "closed" /\ stage' = "clear"
    /\ owner' = "none" /\ fallback' = FALSE
    /\ UNCHANGED <<root, memory, source, pc, ptr, wait, work, events, bounds>>

Readers == {d \in Daemon : pc[d] = "read"}

\* yz_policy_cache_clear, under the lock.
yz_policy_cache_clear ==
    /\ stage = "clear" /\ stage' = "exiting"
    /\ ptr' = [ptr EXCEPT ![Exit] = cache] /\ cache' = None
    /\ wait' = [wait EXCEPT ![Exit] = Readers] /\ Go(Exit, "grace")
    /\ UNCHANGED <<root, owner, fallback, mem, source, work, events, bounds>>

\* Mutant: the old cache is not freed
Released_Kept(t) == mem

Released(t) == IF ptr[t] = None THEN mem ELSE [mem EXCEPT ![ptr[t]] = Free]

\* Mutant: the old cache is freed at once
GraceOver_Never(t) == TRUE

\* synchronize_rcu returns when the readers that were there have left.
GraceOver(t) == wait[t] = {}

ClearDone ==
    /\ stage = "exiting" /\ pc[Exit] = "grace" /\ GraceOver(Exit)
    /\ mem' = Released(Exit) /\ ptr' = [ptr EXCEPT ![Exit] = None]
    /\ stage' = "exited" /\ Go(Exit, "off")
    /\ UNCHANGED <<root, owner, fallback, cache, source, wait, work, events, bounds>>

(***************************************************************************)
(* The root manager.  KernelSU decides in memory and saves its list later; *)
(* APatch's package_config is the policy.                                  *)
(***************************************************************************)
Listed(p) == {u \in Uid : p.who[u] # "unset"}

\* same_stamp compares device, inode, size and mtime: a save within the tick of
\* the last one that leaves the size alone cannot be told from it.
Written ==
    /\ stamp' \in {stamp, stamp + 1}
    /\ blurred' = /\ stamp' = stamp
                  /\ blurred \/ \E d \in Daemon : stamp \in {cur[d], g[d].stamp}

Edit ==
    /\ stage = "up" /\ edits < EditMax /\ edits' = edits + 1
    /\ \/ /\ root = "kernelsu"
          /\ now' = [now EXCEPT !.default = ~@]
       \/ \E u \in Uid \ {Manager}, a \in Answer :
             a # Decide(now, u) /\ now' = [now EXCEPT !.who[u] = a]
    /\ IF root = "kernelsu" THEN dirty' = TRUE /\ UNCHANGED <<listed, stamp, blurred>>
       ELSE /\ listed' = Listed(now') /\ Written /\ UNCHANGED dirty
    /\ UNCHANGED <<kernel, memory, pc, ptr, wait, work, events, bounds>>

Save ==
    /\ dirty /\ dirty' = FALSE
    /\ listed' = Listed(now) /\ Written
    /\ UNCHANGED <<kernel, memory, now, edits, pc, ptr, wait, work, events, bounds>>

(***************************************************************************)
(* A daemon: setup, and the work it takes up.                              *)
(***************************************************************************)
Begin(d, to, after) ==
    /\ Go(d, to) /\ then' = [then EXCEPT ![d] = after]

DaemonRest == UNCHANGED <<kernel, memory, source, ptr, wait>>

\* The socket is bound first; setup refreshes and fails with it.
setup(d) ==
    /\ stage = "up" /\ pc[d] = "off"
    /\ IF fallback
       THEN /\ g' = [g EXCEPT ![d].enabled = TRUE]
            /\ Begin(d, "stamp", "serve") /\ req' = [req EXCEPT ![d] = All]
       ELSE Go(d, "idle") /\ UNCHANGED <<g, then, req>>
    /\ DaemonRest /\ UNCHANGED <<cur, uids, res, events, bounds>>

\* Work taken up after the exit would meet neither an owner nor a cache.
TakeUp == stage = "up" /\ requests < RequestMax /\ requests' = requests + 1

\* uid_should_umount for an app, from GetProcessFlags.
Request(d, u) ==
    /\ pc[d] = "idle" /\ TakeUp
    /\ req' = [req EXCEPT ![d] = u] /\ res' = [res EXCEPT ![d] = "none"]
    /\ Begin(d, IF g[d].enabled THEN "stamp" ELSE "ioctl", "ioctl")
    /\ DaemonRest /\ UNCHANGED <<g, cur, uids, events, fails>>

\* handle_refresh_request for a uid the kernel could not tell.
TakeEvent(d) ==
    /\ pc[d] = "idle" /\ g[d].enabled
    /\ \E e \in events[d] :
         /\ events' = [events EXCEPT ![d] = @ \ {e}]
         /\ req' = [req EXCEPT ![d] = e] /\ Begin(d, "stamp", "asked")
    /\ DaemonRest /\ UNCHANGED <<g, cur, uids, res, bounds>>

\* A refresh of all is asked for at any time: by a reload, by module init and
\* by any GET_ROOT_STATUS that finds no cache.
RefreshAll(d) ==
    /\ pc[d] = "idle" /\ g[d].enabled /\ TakeUp
    /\ req' = [req EXCEPT ![d] = All] /\ Begin(d, "stamp", "idle")
    /\ DaemonRest /\ UNCHANGED <<g, cur, uids, res, events, fails>>

(***************************************************************************)
(* refresh                                                                 *)
(***************************************************************************)
Forced(d) == req[d] = All

\* Mutant: the file is looked at again for its stamp
StampKept_Later(d, ok) == IF ok THEN stamp ELSE g[d].stamp

\* Mutant: the stamp is kept although the cache was not installed
StampKept_Failed(d, ok) == IF cur[d] # Unread THEN cur[d] ELSE g[d].stamp

StampKept(d, ok) == IF ok /\ cur[d] # Unread THEN cur[d] ELSE g[d].stamp

\* refresh keeps the stamp it read first if the cache was installed.
StampNow(d, ok) ==
    /\ g' = [g EXCEPT ![d].stamp = StampKept(d, ok)]
    /\ cur' = [cur EXCEPT ![d] = Unread]

\* A refresh that fails leaves the kernel's cache and the stamp as they are;
\* setup fails with it and the daemon gives up.
RefreshFails(d) ==
    /\ StampNow(d, FALSE)
    /\ Go(d, IF then[d] = "serve" THEN "dead" ELSE then[d])

same_stamp(d) == g[d].stamp = stamp

\* The stamp is read first, unless stat fails; an unchanged file is not read.
read_stamp(d) ==
    /\ pc[d] = "stamp"
    /\ \/ /\ Works
          /\ IF ~Forced(d) /\ same_stamp(d) THEN Go(d, then[d]) /\ UNCHANGED cur
             ELSE Go(d, "parse") /\ cur' = [cur EXCEPT ![d] = stamp]
       \/ MayFail /\ UNCHANGED cur /\ Go(d, "parse")
    /\ DaemonRest
    /\ UNCHANGED <<g, uids, req, then, res, events, requests>>

\* What a parser that stops or skips a line leaves of the decisions.
Partly(who, kept) == [u \in Uid |-> IF u \in kept THEN who[u] ELSE "unset"]

\* parse_ksu_uids and parse_apatch; the latter gives the decisions at once.
\* A parse that fails keeps what it had read.  Without KernelSU's interface
\* nothing is changed and the refresh fails.
Parse(d) ==
    /\ pc[d] = "parse"
    /\ \/ /\ root = "kernelsu" /\ UNCHANGED cur
          /\ \/ /\ Works /\ uids' = [uids EXCEPT ![d] = listed]
                /\ g' = [g EXCEPT ![d].snap = [Empty EXCEPT !.complete = TRUE]]
             \/ /\ MayFail
                /\ \E kept \in SUBSET listed : uids' = [uids EXCEPT ![d] = kept]
                /\ g' = [g EXCEPT ![d].snap = Empty]
          /\ Go(d, "default")
       \/ /\ root = "kernelsu" /\ MayFail /\ RefreshFails(d) /\ UNCHANGED uids
       \/ /\ root = "kernelpatch" /\ UNCHANGED <<cur, uids>>
          /\ \/ /\ Works
                /\ g' = [g EXCEPT ![d].snap = [Empty EXCEPT !.dec = now.who,
                                                            !.complete = TRUE]]
             \/ /\ MayFail
                /\ \E kept \in SUBSET Uid :
                     g' = [g EXCEPT ![d].snap = [Empty EXCEPT !.dec = Partly(now.who, kept)]]
          /\ Go(d, "push")
    /\ DaemonRest /\ UNCHANGED <<req, then, res, events, requests>>

\* refresh_ksu asks for the default profile, which sorts before the apps, and
\* for the manager, which never changes; complete needs both.
QueryDefault(d) ==
    /\ pc[d] = "default"
    /\ \E profile, manager \in BOOLEAN :
         /\ IF profile /\ manager THEN Works ELSE MayFail
         /\ g' = [g EXCEPT ![d].snap.default = profile /\ now.default,
                          ![d].snap.manager = manager,
                          ![d].snap.complete = @ /\ profile /\ manager]
    /\ Go(d, IF uids[d] = {} THEN "push" ELSE "query") /\ DaemonRest
    /\ UNCHANGED <<cur, uids, req, then, res, events, requests>>

\* Then every listed uid, one query each; the WebView zygote, always asked for,
\* is like any other.
QueryUids(d) ==
    /\ pc[d] = "query"
    /\ \E u \in uids[d] :
         /\ uids' = [uids EXCEPT ![d] = @ \ {u}]
         /\ \/ Works /\ g' = [g EXCEPT ![d].snap.dec[u] = Decide(now, u)]
            \/ MayFail /\ g' = [g EXCEPT ![d].snap.complete = FALSE]
    /\ Go(d, IF uids'[d] = {} THEN "push" ELSE "query") /\ DaemonRest
    /\ UNCHANGED <<cur, req, then, res, events, requests>>

(***************************************************************************)
(* push_cache and yz_host_install_policy_cache.                            *)
(***************************************************************************)
\* memfd, seals, the checks of the header and the allocation, without a lock;
\* an ioctl after control_exit gets ENODEV.
push_cache(d) ==
    /\ pc[d] = "push"
    /\ \/ /\ stage = "up" /\ fallback /\ owner = root /\ Works
          /\ LET a == CHOOSE x \in Slot : mem[x] = Free
             IN /\ mem' = [mem EXCEPT ![a] = [snap |-> g[d].snap,
                                              owner |-> root, by |-> d]]
                /\ ptr' = [ptr EXCEPT ![d] = a]
          /\ Go(d, "swap") /\ UNCHANGED <<g, cur>>
       \/ /\ IF stage = "up" THEN MayFail ELSE Works
          /\ RefreshFails(d) /\ UNCHANGED <<mem, ptr>>
    /\ UNCHANGED <<kernel, cache, source, wait, uids, req, then, res, events, requests>>

StillOwner(d) == fallback /\ mem[ptr[d]].owner = owner

\* Under yz_policy_cache_lock: the cache is published if it is still wanted.
Swap(d) ==
    /\ pc[d] = "swap"
    /\ IF StillOwner(d)
       THEN /\ cache' = ptr[d] /\ ptr' = [ptr EXCEPT ![d] = cache]
            /\ wait' = [wait EXCEPT ![d] = Readers]
            /\ Go(d, "grace") /\ UNCHANGED <<mem, g, cur>>
       ELSE /\ mem' = Released(d) /\ ptr' = [ptr EXCEPT ![d] = None]
            /\ RefreshFails(d) /\ UNCHANGED <<cache, wait>>
    /\ UNCHANGED <<kernel, source, uids, req, then, res, events, bounds>>

\* The old cache goes after a grace period; then refresh keeps its stamp; a
\* query_uid has read none.
Installed(d) ==
    /\ pc[d] = "grace" /\ GraceOver(d)
    /\ mem' = Released(d) /\ ptr' = [ptr EXCEPT ![d] = None]
    /\ StampNow(d, TRUE)
    /\ Go(d, IF then[d] = "serve" THEN "idle" ELSE then[d])
    /\ UNCHANGED <<kernel, cache, source, wait, uids, req, then, res, events,
                   bounds>>

(***************************************************************************)
(* yz_host_uid_should_umount, and query_uid where the cache cannot tell.   *)
(***************************************************************************)
\* Mutant: what the search ends at is taken for an entry
Lookup_Raw(c, u) == IF c.manager /\ u = Manager THEN "no" ELSE c.dec[u]

\* yz_policy_cache_lookup; "again" stands for -EAGAIN.
Lookup(c, u) ==
    IF c.manager /\ u = Manager THEN "no"
    ELSE IF c.dec[u] # "unset" THEN c.dec[u]
    ELSE IF c.complete THEN Yes(c.default) ELSE "again"

Answered(d, a) == res' = [res EXCEPT ![d] = a] /\ Go(d, "answered")

\* A callable decides by itself; after control_exit there is only ENODEV.
ioctl_uid_should_umount(d) ==
    /\ pc[d] = "ioctl"
    /\ \/ stage # "up" /\ Answered(d, "failed") /\ UNCHANGED ptr
       \/ /\ stage = "up" /\ ~fallback
          /\ Answered(d, Decide(now, req[d])) /\ UNCHANGED ptr
       \/ /\ stage = "up" /\ fallback
          /\ ptr' = [ptr EXCEPT ![d] = cache]
          /\ Go(d, "read") /\ UNCHANGED res
    /\ UNCHANGED <<kernel, memory, source, wait, g, cur, uids, req, then,
                   events, bounds>>

\* The reader leaves its critical section; without an answer the kernel asks
\* every daemon for a refresh of the uid and returns EAGAIN to this one.
Read(d) ==
    /\ pc[d] = "read"
    /\ LET a == IF ptr[d] = None THEN "again"
                ELSE IF mem[ptr[d]] = Free THEN "no"
                ELSE Lookup(mem[ptr[d]].snap, req[d])
       IN IF a = "again"
          THEN /\ Begin(d, "stamp", "asked") /\ Emit(req[d]) /\ UNCHANGED res
          ELSE /\ Answered(d, a) /\ UNCHANGED <<then, events>>
    /\ ptr' = [ptr EXCEPT ![d] = None]
    /\ wait' = [t \in Task |-> wait[t] \ {d}]
    /\ UNCHANGED <<kernel, memory, source, g, cur, uids, req, requests, fails>>

\* query_uid after its refresh: KernelSU is asked and the decision added to
\* the cache; for APatch the parsed file has to do.
query_uid(d) ==
    /\ pc[d] = "asked"
    /\ \/ /\ root = "kernelsu"
          /\ LET a == Decide(now, req[d])
             IN /\ g' = [g EXCEPT ![d].snap.dec[req[d]] = a]
                /\ res' = [res EXCEPT ![d] = a]
          /\ Begin(d, "push", "answered")
       \/ /\ root = "kernelsu"
          /\ Answered(d, "failed") /\ UNCHANGED <<g, then>>
       \/ /\ root = "kernelpatch"
          /\ LET a == Lookup(g[d].snap, req[d])
             IN Answered(d, IF a = "again" THEN "failed" ELSE a)
          /\ UNCHANGED <<g, then>>
    /\ DaemonRest /\ UNCHANGED <<cur, uids, req, events, bounds>>

\* The answer is sent; an answer that failed is sent as no.
Reply(d) ==
    /\ pc[d] = "answered"
    /\ Go(d, "idle") /\ res' = [res EXCEPT ![d] = "none"]
    /\ req' = [req EXCEPT ![d] = All] /\ then' = [then EXCEPT ![d] = "idle"]
    /\ DaemonRest /\ UNCHANGED <<g, cur, uids, events, bounds>>

Refresh(d) == read_stamp(d) \/ Parse(d) \/ QueryDefault(d) \/ QueryUids(d)
Install(d) == push_cache(d) \/ Swap(d) \/ Installed(d)

Next ==
    \/ yz_host_root_detect \/ yukizygisk_control_exit \/ yz_host_root_exit
    \/ yz_policy_cache_clear \/ ClearDone
    \/ Edit \/ Save
    \/ \E d \in Daemon :
         \/ setup(d) \/ TakeEvent(d) \/ RefreshAll(d) \/ \E u \in Uid : Request(d, u)
         \/ Refresh(d) \/ Install(d)
         \/ ioctl_uid_should_umount(d) \/ Read(d) \/ query_uid(d) \/ Reply(d)

Spec == Init /\ [][Next]_vars

-----------------------------------------------------------------------------
(* Properties.                                                             *)

\* A lookup never uses a cache that was freed: whoever replaces or clears the
\* cache waits for the readers that may hold it (root_impl.c:147-160, 251-293).
NoUseAfterFree ==
    \A d \in Daemon : pc[d] = "read" /\ ptr[d] # None => mem[ptr[d]] # Free

\* No cache is lost: one that is allocated is the published one or in the hands
\* of a task that will publish or free it, and none is left after the exit
\* (root_impl.c:147-249).
NoCacheLeaked ==
    /\ \A a \in Slot : mem[a] # Free => a = cache \/ \E t \in Task : ptr[t] = a
    /\ stage = "exited" => mem = [a \in Slot |-> Free]

\* The root implementation that an installation was checked against is still
\* the owner when the lock is taken: -ESTALE (root_impl.c:229-235) is never
\* answered, because the teardown closes the control fd first.
OwnerStable == \A d \in Daemon : pc[d] = "swap" => StillOwner(d)

Settled(d) == pc[d] \in {"idle", "ioctl", "read"}

\* A daemon that has the stamp of the file, with nothing left to save, has no
\* decision that the manager would not take now: the stamp is read before the
\* file and the decisions (root_policy.cpp refresh).  It may, until the next
\* save, if the last one kept a stamp that a daemon had read: same_stamp is then
\* true of another file (root_policy.cpp:148-151).
StampMeansCurrent ==
    \A d \in Daemon :
       Settled(d) /\ ~dirty /\ ~blurred /\ g[d].stamp = stamp /\ stage = "up" =>
          \A u \in Uid : Lookup(g[d].snap, u) \in {"again", Decide(now, u)}

\* Two daemons replace each other's cache and nothing orders them, yet once
\* each has seen the file as it is, and the stamps tell the file from those
\* before, the kernel answers as the manager would (root_policy.cpp push_cache,
\* root_impl.c:229-248).
KernelAgrees ==
    /\ \A d \in Daemon : Settled(d) /\ g[d].enabled /\ g[d].stamp = stamp
    /\ ~dirty /\ ~blurred /\ stage = "up"
    => /\ cache # None
       /\ \A u \in Uid : Lookup(mem[cache].snap, u) \in {"again", Decide(now, u)}

\* The kernel's policy cache through its life: it is read only while it is
\* allocated, freed by somebody in the end, and installed only for the owner it
\* was checked against (yz_root_install_policy_cache, lookups, control_exit).
CacheLifeSound == TypeOK /\ NoUseAfterFree /\ NoCacheLeaked /\ OwnerStable

\* A daemon that takes its decisions for current is right, and the kernel's
\* cache then agrees with them, while the stamps tell the saved files apart
\* (refresh and push of root_policy.cpp).
DecisionsCurrent == StampMeansCurrent /\ KernelAgrees
=============================================================================
