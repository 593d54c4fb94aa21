--------------------------- MODULE RuntimeRecords ---------------------------
(***************************************************************************)
(* What the kernel remembers of its injections (kernel/feature/            *)
(* zygote_probe.c): the table of runtime records, the zygote restart       *)
(* guards with safe mode, and the order in which zp_inject_tw_func uses    *)
(* them.                                                                   *)
(*                                                                         *)
(* An injection begins a base record, asks safe mode, and ends in          *)
(* SAFEMODE, REDIRECTED or FAILED.  zygiskd later reports that the image   *)
(* came up, for a pid and a generation it read earlier, which turns the    *)
(* record INJECTED and adds a record per native module.  Processes die and *)
(* their pids are used again at any time; a record is of the process with  *)
(* its pid and its start_boottime.                                         *)
(***************************************************************************)
EXTENDS Naturals, FiniteSets, FiniteSetsExt

CONSTANTS
    Pid,        \* pids of injected processes
    Zygote,     \* zygote socket names
    Native,     \* native targets
    Module,     \* native module ids
    RecordMax,  \* YZ_RUNTIME_RECORD_MAX
    GuardMax,   \* ZP_ZYGOTE_GUARD_MAX
    Threshold,  \* YZ_ZYGOTE_CRASH_THRESHOLD
    LifeMax,    \* bound: processes in a behaviour
    BeginMax    \* bound: injections in a behaviour

Target == Zygote \cup Native
Slot == 1 .. RecordMax
NoPid == "none"
NoModule == "none"

\* Pids are finitely many, and a name is of a zygote or of a native target.
ASSUME RecordBounds ==
    /\ RecordMax \in Nat \ {0} /\ GuardMax \in Nat /\ Threshold \in Nat \ {0}
    /\ LifeMax \in Nat /\ BeginMax \in Nat
    /\ IsFiniteSet(Pid) /\ NoPid \notin Pid \cup Target
    /\ NoModule \notin Module /\ Zygote \cap Native = {}

Kind(t) == IF t \in Zygote THEN "zygote" ELSE "native"

VARIABLES
    table,      \* zp_runtime_records
    gen,        \* zp_runtime_generation
    start,      \* pid -> start_boottime of its present or last process
    alive,      \* pids in use
    inj,        \* pid -> its injection: step, target, generation
    guards,     \* zygote name -> last pid and crashes, while it has a slot
    safe,       \* zp_safemode_active
    report,     \* the report zygiskd is making
    redirected, \* history: the redirected injections
    spawned,    \* processes so far
    begun       \* injections so far

procVars == <<start, alive, spawned>>
safeVars == <<guards, safe>>
vars == <<table, gen, procVars, inj, safeVars, report, redirected, begun>>

Empty == [pid |-> NoPid, start |-> 0, gen |-> 0, kind |-> "none",
          target |-> NoPid, mod |-> NoModule, state |-> "none"]
Idle == [step |-> "idle", target |-> NoPid, gen |-> 0]
NoReport == [step |-> "idle", pid |-> NoPid, gen |-> 0, kind |-> "none",
             mod |-> NoModule, start |-> 0]

Init ==
    /\ table = [s \in Slot |-> Empty]
    /\ gen = 0
    /\ start = [p \in Pid |-> 0]
    /\ alive = {}
    /\ spawned = 0
    /\ inj = [p \in Pid |-> Idle]
    /\ guards = <<>>
    /\ safe = FALSE
    /\ report = NoReport
    /\ redirected = {}
    /\ begun = 0

-----------------------------------------------------------------------------
(* The table.  Every change of a state moves the generation by one.        *)

Used(tb) == {s \in Slot : tb[s].pid # NoPid}
IsBase(r) == r.pid # NoPid /\ r.mod = NoModule
IsAlive(r) == r.pid \in alive /\ r.start = start[r.pid]

\* zp_runtime_set_state_locked on some slots
Move(tb, slots, st) ==
    [s \in Slot |-> IF s \in slots THEN [tb[s] EXCEPT !.state = st] ELSE tb[s]]
Moved(tb, slots, st) == Cardinality({s \in slots : tb[s].state # st})

\* zp_runtime_refresh_exited_locked
Gone == {s \in Used(table) : ~IsAlive(table[s])}
Refreshed == Move(table, Gone, "EXITED")
RefreshedGen_Still == gen
RefreshedGen == gen + Moved(table, Gone, "EXITED")

\* The first slot of the oldest generation
Oldest(tb, slots) ==
    CHOOSE s \in slots : \A t \in slots :
        tb[s].gen < tb[t].gen \/ (tb[s].gen = tb[t].gen /\ s <= t)

\* Mutant: any used record may go
Picks_Any(tb, exclude) ==
    IF Slot \ (Used(tb) \cup exclude) # {} THEN {Min(Slot \ (Used(tb) \cup exclude))}
    ELSE IF Used(tb) \ exclude # {} THEN {Oldest(tb, Used(tb) \ exclude)} ELSE {}

\* zp_runtime_pick_slot_locked: a free slot, an exited record or, last, a
\* module record; none if all are base records of live processes
Picks(tb, exclude) ==
    LET free == Slot \ (Used(tb) \cup exclude)
        used == Used(tb) \ exclude
        exited == {s \in used : tb[s].state = "EXITED"}
        modules == {s \in used : tb[s].mod # NoModule}
    IN IF free # {} THEN {Min(free)}
       ELSE IF exited # {} THEN {Oldest(tb, exited)}
       ELSE IF modules # {} THEN {Oldest(tb, modules)} ELSE {}

\* Mutant: the record of another life of the pid is not looked for
BaseOf_SameLife(tb, p, t) ==
    {s \in Slot :
        /\ IsBase(tb[s]) /\ tb[s].kind = Kind(t)
        /\ IF t \in Zygote THEN tb[s].target = t
           ELSE tb[s].pid = p /\ tb[s].start = start[p]}

\* zp_runtime_find_zygote_locked and zp_runtime_find_native_pid_locked
BaseOf(tb, p, t) ==
    {s \in Slot :
        /\ IsBase(tb[s]) /\ tb[s].kind = Kind(t)
        /\ IF t \in Zygote THEN tb[s].target = t ELSE tb[s].pid = p}

\* Mutant: they stay
ModulesOf_None(tb, p, t) == {}

\* A native process that execs again leaves its modules behind
ModulesOf(tb, p, t) ==
    IF t \in Native
    THEN {s \in Slot : tb[s].pid = p /\ tb[s].kind = "native" /\ tb[s].mod # NoModule}
    ELSE {}

-----------------------------------------------------------------------------
(* Processes.                                                              *)

Spawn(p) ==
    /\ p \notin alive /\ spawned < LifeMax
    /\ spawned' = spawned + 1
    /\ alive' = alive \cup {p}
    /\ start' = [start EXCEPT ![p] = @ + 1]
    /\ UNCHANGED <<table, gen, inj, safeVars, report, redirected, begun>>

\* A process does not go while it is inside its own task_work
Die(p) ==
    /\ p \in alive /\ inj[p].step = "idle"
    /\ alive' = alive \ {p}
    /\ UNCHANGED <<table, gen, start, spawned, inj, safeVars, report, redirected, begun>>

-----------------------------------------------------------------------------
(* zp_inject_tw_func.                                                      *)

\* zp_runtime_begin
Begin(p, t) ==
    LET tb == Move(Refreshed, ModulesOf(Refreshed, p, t), "EXITED")
        g == RefreshedGen + Moved(Refreshed, ModulesOf(Refreshed, p, t), "EXITED")
        found == BaseOf(tb, p, t)
        slots == IF found # {} THEN {Min(found)} ELSE Picks(tb, {})
    IN
    /\ p \in alive /\ inj[p].step = "idle" /\ begun < BeginMax
    /\ begun' = begun + 1
    /\ IF slots = {}
       THEN /\ table' = tb /\ gen' = g
            /\ inj' = [inj EXCEPT ![p] = [step |-> "begun", target |-> t, gen |-> 0]]
       ELSE /\ gen' = g + 1
            /\ table' = [s \in Slot |->
                  IF s \in slots
                  THEN [pid |-> p, start |-> start[p], gen |-> g + 1, kind |-> Kind(t),
                        target |-> t, mod |-> NoModule, state |-> "DETECTED"]
                  ELSE tb[s]]
            /\ inj' = [inj EXCEPT ![p] =
                  [step |-> "begun", target |-> t, gen |-> g + 1]]
    /\ UNCHANGED <<procVars, safeVars, report, redirected>>

\* zp_runtime_set_state: the base record of that pid and generation, if any
SetState(p, g, st) ==
    LET slots == {s \in Slot : g # 0 /\ table[s].pid = p /\ table[s].gen = g
                                 /\ table[s].mod = NoModule}
    IN table' = Move(table, slots, st) /\ gen' = gen + Moved(table, slots, st)

\* zp_zygote_safemode_should_skip: a new pid under a known name is a crash;
\* a name without a guard slot is not counted
Crashes(t, p) ==
    IF t \notin DOMAIN guards \/ guards[t].last = p THEN 0 ELSE guards[t].crashes + 1
Trips_Late(t, p) == safe \/ Crashes(t, p) > Threshold
Trips(t, p) == safe \/ Crashes(t, p) >= Threshold

NoteZygote_NoLimit(t, p) ==
    /\ guards' = [n \in DOMAIN guards \cup {t} |->
                    IF n = t THEN [last |-> p, crashes |-> 0] ELSE guards[n]]
    /\ safe' = Trips(t, p)

NoteZygote(t, p) ==
    LET known == t \in DOMAIN guards
        crashes == IF ~known THEN 0
                   ELSE IF safe \/ guards[t].last = p THEN guards[t].crashes
                   ELSE guards[t].crashes + 1
    IN
    /\ guards' = IF known \/ Cardinality(DOMAIN guards) < GuardMax
                 THEN [n \in DOMAIN guards \cup {t} |->
                          IF n = t THEN [last |-> p, crashes |-> crashes] ELSE guards[n]]
                 ELSE guards
    /\ safe' = Trips(t, p)

\* Safe mode ends the injection, otherwise the payload is staged
Check(p) ==
    LET t == inj[p].target IN
    /\ inj[p].step = "begun"
    /\ IF t \in Zygote THEN NoteZygote(t, p) ELSE UNCHANGED safeVars
    /\ IF (t \in Zygote /\ Trips(t, p)) \/ (t \in Native /\ safe)
       THEN SetState(p, inj[p].gen, "SAFEMODE") /\ inj' = [inj EXCEPT ![p] = Idle]
       ELSE inj' = [inj EXCEPT ![p].step = "staging"] /\ UNCHANGED <<table, gen>>
    /\ UNCHANGED <<procVars, report, redirected, begun>>

\* The entry point is rewritten
Redirect(p) ==
    /\ inj[p].step = "staging"
    /\ SetState(p, inj[p].gen, "REDIRECTED")
    /\ redirected' = redirected \cup
           {[pid |-> p, target |-> inj[p].target, gen |-> inj[p].gen]}
    /\ inj' = [inj EXCEPT ![p] = Idle]
    /\ UNCHANGED <<procVars, safeVars, report, begun>>

\* Any of the error paths
Fail(p) ==
    /\ inj[p].step \in {"begun", "staging"}
    /\ SetState(p, inj[p].gen, "FAILED")
    /\ inj' = [inj EXCEPT ![p] = Idle]
    /\ UNCHANGED <<procVars, safeVars, report, redirected, begun>>

-----------------------------------------------------------------------------
(* The ioctls.                                                             *)

\* yz_zygote_probe_get_runtime
GetRuntime ==
    /\ table' = Refreshed /\ gen' = RefreshedGen
    /\ UNCHANGED <<procVars, inj, safeVars, report, redirected, begun>>

\* Generations zygiskd may hold: of records, of images that came up
SeenGen ==
    ({table[s].gen : s \in Slot} \cup {r.gen : r \in redirected}) \ {0}

\* yz_zygote_probe_report_runtime: the start time is read before the lock
ReportRead(p, g, k, m) ==
    /\ report.step = "idle" /\ p \in alive
    /\ k = "native" <=> m # NoModule
    /\ report' = [step |-> "apply", pid |-> p, gen |-> g, kind |-> k,
                  mod |-> m, start |-> start[p]]
    /\ UNCHANGED <<table, gen, procVars, inj, safeVars, redirected, begun>>

\* zp_runtime_find_base_locked, after the refresh
ReportBase ==
    {s \in Slot :
        LET r == Refreshed[s] IN
        /\ IsBase(r) /\ r.pid = report.pid /\ r.start = report.start
        /\ r.kind = report.kind /\ r.gen = report.gen /\ r.state # "EXITED"}

\* A report counts once the image is redirected; mutant: at once
Reportable_AtOnce == {"DETECTED", "REDIRECTED", "INJECTED"}
Reportable == {"REDIRECTED", "INJECTED"}

\* -ESRCH without a live base record, -EAGAIN before it is redirected
ReportRefused ==
    /\ report.step = "apply"
    /\ \A s \in ReportBase : Refreshed[s].state \notin Reportable
    /\ table' = Refreshed /\ gen' = RefreshedGen
    /\ report' = NoReport
    /\ UNCHANGED <<procVars, inj, safeVars, redirected, begun>>

\* The base record is INJECTED; a native report also needs a module record,
\* found by pid and id or picked, and copies the base record to it
ReportApply ==
    /\ report.step = "apply"
    /\ \E b \in ReportBase :
        /\ Refreshed[b].state \in Reportable
        /\ LET tb == Move(Refreshed, {b}, "INJECTED")
               g == RefreshedGen + Moved(Refreshed, {b}, "INJECTED")
               same == {s \in Slot : tb[s].pid = report.pid /\ tb[s].kind = "native"
                                       /\ tb[s].mod = report.mod}
               slots == IF same # {} THEN {Min(same)} ELSE Picks(tb, {b})
               stale == {s \in slots : \/ tb[s].gen # tb[b].gen
                                       \/ tb[s].state # "INJECTED"
                                       \/ tb[s].start # tb[b].start}
           IN IF report.kind = "zygote" \/ stale = {}
              THEN table' = tb /\ gen' = g
              ELSE /\ table' = [s \in Slot |->
                          IF s \in stale THEN [tb[b] EXCEPT !.mod = report.mod] ELSE tb[s]]
                   /\ gen' = g + 1
    /\ report' = NoReport
    /\ UNCHANGED <<procVars, inj, safeVars, redirected, begun>>

-----------------------------------------------------------------------------
Next ==
    \/ \E p \in Pid : Spawn(p) \/ Die(p) \/ Check(p) \/ Redirect(p) \/ Fail(p)
    \/ \E p \in Pid, t \in Target : Begin(p, t)
    \/ GetRuntime
    \/ \E p \in Pid, g \in SeenGen, k \in {"zygote", "native"},
          m \in Module \cup {NoModule} : ReportRead(p, g, k, m)
    \/ ReportRefused \/ ReportApply

Spec == Init /\ [][Next]_vars

-----------------------------------------------------------------------------
(* Properties.                                                             *)

Record == [pid : Pid \cup {NoPid}, start : 0 .. LifeMax, gen : 0 .. gen,
           kind : {"none", "zygote", "native"}, target : Target \cup {NoPid},
           mod : Module \cup {NoModule},
           state : {"none", "DETECTED", "REDIRECTED", "INJECTED", "FAILED",
                    "SAFEMODE", "EXITED"}]

\* Types and table bounds: no record is ahead of the generation counter of
\* zp_runtime_next_generation_locked, no more guards than ZP_ZYGOTE_GUARD_MAX.
TypeOK ==
    /\ \A s \in Slot : table[s] \in Record
    /\ gen \in Nat
    /\ start \in [Pid -> 0 .. LifeMax] /\ alive \subseteq Pid
    /\ \A p \in Pid : inj[p].step \in {"idle", "begun", "staging"}
    /\ DOMAIN guards \subseteq Zygote /\ Cardinality(DOMAIN guards) <= GuardMax
    /\ safe \in BOOLEAN
    /\ report.step \in {"idle", "apply"}
    /\ spawned \in 0 .. LifeMax /\ begun \in 0 .. BeginMax

\* INJECTED is never shown for an image that was not redirected: a report
\* that is late, or about an earlier owner of the pid, changes no record of
\* the present one (zp_runtime_find_base_locked).
InjectedWasRedirected ==
    \A s \in Slot :
        table[s].state = "INJECTED" =>
            \E r \in redirected : r.pid = table[s].pid /\ r.gen = table[s].gen

\* The base record of an injection under way
Held(p) ==
    {s \in Slot : IsBase(table[s]) /\ table[s].state # "EXITED"
                     /\ table[s].pid = p /\ table[s].gen = inj[p].gen}

\* While an injection is under way its base record stays in the table,
\* whatever zp_runtime_pick_slot_locked evicts for others; only a newer
\* zygote of the same name takes it over, in zp_runtime_begin.
RecordHeld ==
    [][\A p \in Pid :
        (inj[p].step # "idle" /\ inj'[p] # Idle /\ Held(p) # {}) =>
            \/ Held(p)' # {}
            \/ /\ inj[p].target \in Zygote
               /\ \E s \in Slot : table'[s].target = inj[p].target
                                    /\ table'[s].gen = gen' /\ gen' > gen]_vars

\* A module that is shown as loaded in a process that still runs has the
\* base record of the same image beside it: yz_zygote_probe_report_runtime
\* copies the base record, and an exec or an eviction takes the module first.
ModuleHasBase ==
    \A s \in Slot :
        LET r == table[s] IN
        (r.mod # NoModule /\ r.state # "EXITED" /\ IsAlive(r)) =>
            \E b \in Slot : /\ IsBase(table[b]) /\ table[b].state = "INJECTED"
                            /\ table[b].pid = r.pid /\ table[b].start = r.start
                            /\ table[b].gen = r.gen

\* A process never has two native base records, nor a zygote name two: the
\* searches of zp_runtime_begin return the first they meet.
BaseUnique ==
    \A s, t \in Slot :
        LET q == table[s]
            r == table[t]
        IN (IsBase(q) /\ IsBase(r) /\ q.kind = r.kind
              /\ (IF q.kind = "native" THEN q.pid = r.pid ELSE q.target = r.target)) => s = t

\* Who polls yz_zygote_probe_get_runtime by generation misses nothing:
\* every change of a record moves the generation up.
GenerationMoves == [][table' # table => gen' > gen]_vars

\* A zygote that keeps restarting is redirected in at most Threshold
\* different processes before safe mode stops it, as long as its name has a
\* guard slot (zp_zygote_safemode_should_skip).
CrashLoopStops ==
    \A t \in DOMAIN guards :
        Cardinality({r.pid : r \in {q \in redirected : q.target = t}}) <= Threshold

\* What yz_zygote_probe_get_runtime shows is true of the processes: injected
\* images were redirected, modules stand beside the base record of their image,
\* and there is one base record per process or zygote name, through pid reuse,
\* late reports and evictions from the full table.
RecordsTruthful ==
    TypeOK /\ InjectedWasRedirected /\ ModuleHasBase /\ BaseUnique
=============================================================================
