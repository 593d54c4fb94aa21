------------------------ MODULE RuntimeRecordsProofs ------------------------
(***************************************************************************)
(* What the runtime records and the zygote guards say is true, for any     *)
(* pids, names, modules, table sizes and thresholds.                       *)
(*                                                                         *)
(* The argument rests on two facts that no single operation shows.  The    *)
(* record of an injection under way is as zp_runtime_begin wrote it        *)
(* (Untouched), so the end of an injection never takes a record away from  *)
(* the modules that lean on it, and a report never reaches it.  And a pid  *)
(* that gets past safe mode was counted before (CrashInv).                 *)
(***************************************************************************)
EXTENDS RuntimeRecords, FiniteSetTheorems, WellFoundedInduction, TLAPS

-----------------------------------------------------------------------------
(* The invariant of a table and its generation.  The operations of the     *)
(* code change the table several times in one critical section, so it is   *)
(* stated of any table tb with generation g.                               *)

State == {"none", "DETECTED", "REDIRECTED", "INJECTED", "FAILED", "SAFEMODE", "EXITED"}

RecordUpTo(g) ==
    [pid : Pid \cup {NoPid}, start : 0 .. LifeMax, gen : 0 .. g,
     kind : {"none", "zygote", "native"}, target : Target \cup {NoPid},
     mod : Module \cup {NoModule}, state : State]

Typed(tb, g) == tb \in [Slot -> RecordUpTo(g)] /\ g \in Nat

\* A slot in use describes a process of the present or of the past.
UsedSound(tb) ==
    \A s \in Slot :
        /\ tb[s].pid = NoPid => tb[s].mod = NoModule /\ tb[s].state = "none"
        /\ tb[s].pid # NoPid =>
              /\ tb[s].target \in Target /\ tb[s].kind = Kind(tb[s].target)
              /\ tb[s].gen > 0 /\ tb[s].start <= start[tb[s].pid]
              /\ tb[s].mod # NoModule => tb[s].kind = "native"

\* A record only gets to INJECTED from REDIRECTED.
RedirectSound(tb) ==
    \A s \in Slot :
        tb[s].state \in {"REDIRECTED", "INJECTED"} =>
            \E r \in redirected : r.pid = tb[s].pid /\ r.gen = tb[s].gen

\* The base record beside a module is of the native kind.
BaseBeside(tb) ==
    \A s \in Slot :
        (tb[s].mod # NoModule /\ tb[s].state # "EXITED" /\ IsAlive(tb[s])) =>
            \E b \in Slot : /\ IsBase(tb[b]) /\ tb[b].state = "INJECTED"
                            /\ tb[b].kind = "native"
                            /\ tb[b].pid = tb[s].pid /\ tb[b].start = tb[s].start
                            /\ tb[b].gen = tb[s].gen

UniqueBase(tb) ==
    \A s, t \in Slot :
        (IsBase(tb[s]) /\ IsBase(tb[t]) /\ tb[s].kind = tb[t].kind
            /\ (IF tb[s].kind = "native" THEN tb[s].pid = tb[t].pid
                ELSE tb[s].target = tb[t].target)) => s = t

\* The record of an injection under way is as zp_runtime_begin wrote it: no
\* report and no other injection has touched it.
Untouched(tb) ==
    \A p \in Pid, s \in Slot :
        (inj[p].step # "idle" /\ tb[s].pid = p /\ tb[s].gen = inj[p].gen) =>
            /\ tb[s].state = "DETECTED" /\ tb[s].mod = NoModule
            /\ tb[s].start = start[p] /\ tb[s].target = inj[p].target

TableInv(tb, g) ==
    /\ Typed(tb, g) /\ UsedSound(tb) /\ RedirectSound(tb)
    /\ BaseBeside(tb) /\ UniqueBase(tb) /\ Untouched(tb)

-----------------------------------------------------------------------------
(* The other state.                                                        *)

ProcInv ==
    /\ alive \subseteq Pid /\ start \in [Pid -> Nat]
    /\ spawned \in 0 .. LifeMax /\ \A p \in Pid : start[p] <= spawned

InjInv ==
    /\ inj \in [Pid -> [step : {"idle", "begun", "staging"},
                        target : Target \cup {NoPid}, gen : Nat]]
    /\ \A p \in Pid :
          /\ inj[p].gen <= gen
          /\ inj[p].step # "idle" => p \in alive /\ inj[p].target \in Target
    /\ redirected \subseteq [pid : Pid, target : Target, gen : Nat]
    /\ begun \in 0 .. BeginMax

ReportInv ==
    /\ report \in [step : {"idle", "apply"}, pid : Pid \cup {NoPid}, gen : Nat,
                   kind : {"none", "zygote", "native"},
                   mod : Module \cup {NoModule}, start : Nat]
    /\ report.step = "apply" =>
          report.pid \in Pid /\ (report.kind = "native" <=> report.mod # NoModule)

-----------------------------------------------------------------------------
(* Safe mode.                                                              *)

\* The pids of a zygote name that got past safe mode
Passed(t) ==
    {r.pid : r \in {q \in redirected : q.target = t}}
        \cup {p \in Pid : inj[p].step = "staging" /\ inj[p].target = t}

GuardInv ==
    /\ IsFiniteSet(DOMAIN guards) /\ DOMAIN guards \subseteq Zygote
    /\ Cardinality(DOMAIN guards) <= GuardMax
    /\ guards = [t \in DOMAIN guards |-> guards[t]]
    /\ \A t \in DOMAIN guards : guards[t] \in [last : Pid, crashes : Nat]
    /\ safe \in BOOLEAN

\* A name that got past without a guard never gets one: the table was full.
\* Until safe mode a new pid past it is a crash counted, except the first.
CrashInv ==
    /\ \A t \in Zygote \ DOMAIN guards :
          Passed(t) # {} => Cardinality(DOMAIN guards) = GuardMax
    /\ \A t \in DOMAIN guards : Cardinality(Passed(t)) <= Threshold
    /\ ~safe => \A t \in DOMAIN guards :
          /\ guards[t].crashes < Threshold
          /\ Cardinality(Passed(t) \cup {guards[t].last}) <= guards[t].crashes + 1

\* The inductive invariant.
RecordsInv ==
    TableInv(table, gen) /\ ProcInv /\ InjInv /\ ReportInv /\ GuardInv /\ CrashInv

-----------------------------------------------------------------------------
(* The operators of the table.                                             *)

\* A set of numbers that is not empty has a least one.
LEMMA LeastNat ==
    ASSUME NEW T, T \subseteq Nat, T # {}
    PROVE  \E x \in T : \A y \in T : x <= y
<1>1. PICK x \in T : \A y \in T : ~(<<y, x>> \in OpToRel(<, Nat))
    BY NatLessThanWellFounded, WFMin, Zenon
<1>2. \A y \in T : ~(y < x)
    BY <1>1 DEF OpToRel
<1> QED  BY <1>2

\* Min is a member of a set of slots that is not empty.
LEMMA MinSlot ==
    ASSUME NEW T, T \subseteq Slot, T # {}
    PROVE  Min(T) \in T
<1>1. T \subseteq Nat  BY RecordBounds DEF Slot
<1>2. \E x \in T : \A y \in T : x <= y  BY <1>1, LeastNat
<1> QED  BY <1>2 DEF Min

\* So is Oldest.
LEMMA OldestSlot ==
    ASSUME NEW tb, NEW g, Typed(tb, g), NEW T, T \subseteq Slot, T # {}
    PROVE  Oldest(tb, T) \in T
<1> DEFINE G == {tb[s].gen : s \in T}
<1>1. T \subseteq Nat  BY RecordBounds DEF Slot
<1>2. \A s \in T : tb[s].gen \in Nat  BY DEF Typed, RecordUpTo
<1>3. G \subseteq Nat /\ G # {}  BY <1>2
<1>4. PICK x \in G : \A y \in G : x <= y  BY <1>3, LeastNat
<1> DEFINE E == {s \in T : tb[s].gen = x}
<1>5. E \subseteq Nat /\ E # {}  BY <1>1, <1>4
<1>6. PICK s \in E : \A t \in E : s <= t  BY <1>5, LeastNat
<1>7. \A t \in T : tb[s].gen < tb[t].gen \/ (tb[s].gen = tb[t].gen /\ s <= t)
  <2> TAKE t \in T
  <2>1. tb[s].gen = x /\ x <= tb[t].gen /\ x \in Nat  BY <1>3, <1>4, <1>6
  <2>2. tb[t].gen = x => s <= t  BY <1>6
  <2> QED  BY <2>1, <2>2, <1>2
<1> QED  BY <1>6, <1>7 DEF Oldest

\* zp_runtime_pick_slot_locked returns at most one slot, none of those it is
\* told to leave alone and no base record that is in use.
LEMMA PickedSlot ==
    ASSUME NEW tb, NEW g, Typed(tb, g), NEW X, NEW s \in Picks(tb, X)
    PROVE  /\ s \in Slot \ X /\ Picks(tb, X) = {s}
           /\ tb[s].pid = NoPid \/ tb[s].state = "EXITED" \/ tb[s].mod # NoModule
<1> DEFINE free == Slot \ (Used(tb) \cup X)
           used == Used(tb) \ X
           exited == {t \in used : tb[t].state = "EXITED"}
           modules == {t \in used : tb[t].mod # NoModule}
<1>1. free # {} => Min(free) \in free  BY MinSlot
<1>2. exited # {} => Oldest(tb, exited) \in exited
    BY OldestSlot DEF Used
<1>3. modules # {} => Oldest(tb, modules) \in modules
    BY OldestSlot DEF Used
<1>4. Picks(tb, X) = IF free # {} THEN {Min(free)}
                     ELSE IF exited # {} THEN {Oldest(tb, exited)}
                     ELSE IF modules # {} THEN {Oldest(tb, modules)} ELSE {}
    BY DEF Picks
<1>5. \A t \in Slot : t \notin Used(tb) => tb[t].pid = NoPid  BY DEF Used
<1>6. used \subseteq Slot \ X  BY DEF Used
<1> HIDE DEF free, used
<1>7. free = Slot \ (Used(tb) \cup X)  BY DEF free
<1> QED  BY <1>1, <1>2, <1>3, <1>4, <1>5, <1>6, <1>7

\* Table n is tb with the slots S in state st.
Moves(n, tb, S, st) ==
    \A s \in Slot :
        /\ n[s].pid = tb[s].pid /\ n[s].start = tb[s].start /\ n[s].gen = tb[s].gen
        /\ n[s].kind = tb[s].kind /\ n[s].target = tb[s].target /\ n[s].mod = tb[s].mod
        /\ n[s].state = IF s \in S THEN st ELSE tb[s].state
        /\ s \notin S => n[s] = tb[s]

\* Moving some slots to a state counts the records it changes.
LEMMA MoveCounts ==
    ASSUME NEW tb, NEW g, Typed(tb, g), NEW S, S \subseteq Slot, NEW st \in State
    PROVE  /\ Moved(tb, S, st) \in Nat
           /\ Move(tb, S, st) # tb => Moved(tb, S, st) > 0
           /\ Moves(Move(tb, S, st), tb, S, st)
           /\ Typed(Move(tb, S, st), g + Moved(tb, S, st))
<1> DEFINE D == {s \in S : tb[s].state # st}
<1>1. IsFiniteSet(D)
  <2>1. IsFiniteSet(Slot)  BY RecordBounds, FS_Interval DEF Slot
  <2> QED  BY <2>1, FS_Subset
<1>2. Cardinality(D) \in Nat /\ (Cardinality(D) = 0 <=> D = {})
    BY <1>1, FS_CardinalityType, FS_EmptySet
<1>3. Moved(tb, S, st) = Cardinality(D)  BY DEF Moved
<1>4. Moves(Move(tb, S, st), tb, S, st)
    BY DEF Move, Moves, Typed, RecordUpTo
<1>5. D = {} => Move(tb, S, st) = tb
  <2> SUFFICES ASSUME D = {} PROVE Move(tb, S, st) = tb  OBVIOUS
  <2>1. \A s \in Slot : s \in S => [tb[s] EXCEPT !.state = st] = tb[s]
      BY DEF Typed, RecordUpTo
  <2> QED  BY <2>1 DEF Move, Typed
<1>6. Typed(Move(tb, S, st), g + Moved(tb, S, st))
  <2>0. g \in Nat /\ g + Moved(tb, S, st) \in Nat  BY <1>2, <1>3 DEF Typed
  <2>1. \A r \in RecordUpTo(g) : r \in RecordUpTo(g + Moved(tb, S, st))
                                  /\ [r EXCEPT !.state = st] \in RecordUpTo(g + Moved(tb, S, st))
      BY <2>0, <1>2, <1>3 DEF RecordUpTo
  <2> QED  BY <2>0, <2>1 DEF Typed, Move
<1> QED  BY <1>2, <1>3, <1>4, <1>5, <1>6

-----------------------------------------------------------------------------
(* What the operations do to the invariant of the table.                   *)

\* Records of processes that are gone, and modules, may be marked EXITED.
LEMMA ExitKeeps ==
    ASSUME NEW tb, NEW g, TableInv(tb, g), NEW S, S \subseteq Slot, ProcInv, InjInv,
           \A s \in S : tb[s].pid # NoPid /\ (~IsAlive(tb[s]) \/ tb[s].mod # NoModule)
    PROVE  TableInv(Move(tb, S, "EXITED"), g + Moved(tb, S, "EXITED"))
<1> DEFINE n == Move(tb, S, "EXITED")
<1>1. "EXITED" \in State  BY DEF State
<1>2. /\ Typed(n, g + Moved(tb, S, "EXITED"))
      /\ Moves(n, tb, S, "EXITED")
    BY <1>1, MoveCounts DEF TableInv
<1> HIDE DEF n
<1>3. UsedSound(n)  BY <1>2 DEF Moves, TableInv, UsedSound
<1>4. RedirectSound(n)  BY <1>2 DEF Moves, TableInv, RedirectSound
<1>5. BaseBeside(n)
  <2> SUFFICES ASSUME NEW s \in Slot,
                      n[s].mod # NoModule, n[s].state # "EXITED", IsAlive(n[s])
               PROVE  \E b \in Slot : /\ IsBase(n[b]) /\ n[b].state = "INJECTED"
                            /\ n[b].kind = "native"
                            /\ n[b].pid = n[s].pid /\ n[b].start = n[s].start
                            /\ n[b].gen = n[s].gen
      BY DEF BaseBeside
  <2>1. s \notin S /\ tb[s].mod # NoModule /\ tb[s].state # "EXITED" /\ IsAlive(tb[s])
      BY <1>2 DEF Moves, IsAlive
  <2>2. PICK b \in Slot : /\ IsBase(tb[b]) /\ tb[b].state = "INJECTED"
                          /\ tb[b].kind = "native"
                          /\ tb[b].pid = tb[s].pid /\ tb[b].start = tb[s].start
                          /\ tb[b].gen = tb[s].gen
      BY <2>1 DEF TableInv, BaseBeside
  <2>3. b \notin S  BY <2>1, <2>2 DEF IsBase, IsAlive
  <2> QED  BY <1>2, <2>1, <2>2, <2>3 DEF Moves, IsBase
<1>6. UniqueBase(n)  BY <1>2 DEF Moves, TableInv, UniqueBase, IsBase
<1>7. Untouched(n)
  <2> SUFFICES ASSUME NEW p \in Pid, NEW s \in Slot, inj[p].step # "idle",
                      n[s].pid = p, n[s].gen = inj[p].gen
               PROVE  /\ n[s].state = "DETECTED" /\ n[s].mod = NoModule
                      /\ n[s].start = start[p] /\ n[s].target = inj[p].target
      BY DEF Untouched
  <2>1. /\ tb[s].state = "DETECTED" /\ tb[s].mod = NoModule
        /\ tb[s].start = start[p] /\ tb[s].target = inj[p].target
      BY <1>2 DEF Moves, TableInv, Untouched
  <2>2. p \in alive  BY DEF InjInv
  <2>3. s \notin S  BY <2>1, <2>2, <1>2 DEF Moves, IsAlive
  <2> QED  BY <2>1, <2>3, <1>2 DEF Moves
<1>8. Typed(n, g + Moved(tb, S, "EXITED"))  BY <1>2
<1>9. TableInv(n, g + Moved(tb, S, "EXITED"))
    BY <1>3, <1>4, <1>5, <1>6, <1>7, <1>8 DEF TableInv
<1> QED  BY <1>9 DEF n

\* zp_runtime_refresh_exited_locked
LEMMA RefreshKeeps ==
    ASSUME RecordsInv
    PROVE  /\ TableInv(Refreshed, RefreshedGen)
           /\ RefreshedGen \in Nat /\ RefreshedGen >= gen
           /\ Refreshed # table => RefreshedGen > gen
           /\ Moves(Refreshed, table, Gone, "EXITED")
           /\ Gone \subseteq Slot
           /\ \A s \in Gone : table[s].pid # NoPid /\ ~IsAlive(table[s])
<1>1. /\ Gone \subseteq Slot
      /\ \A s \in Gone : table[s].pid # NoPid /\ ~IsAlive(table[s])
    BY DEF Gone, Used
<1>2. TableInv(Refreshed, RefreshedGen)
    BY <1>1, ExitKeeps DEF Refreshed, RefreshedGen, RecordsInv
<1>3. /\ Moved(table, Gone, "EXITED") \in Nat
      /\ Refreshed # table => Moved(table, Gone, "EXITED") > 0
      /\ Moves(Refreshed, table, Gone, "EXITED")
  <2>1. "EXITED" \in State  BY DEF State
  <2> QED  BY <1>1, <2>1, MoveCounts DEF Refreshed, RecordsInv, TableInv
<1>4. gen \in Nat  BY DEF RecordsInv, TableInv, Typed
<1> QED  BY <1>1, <1>2, <1>3, <1>4 DEF RefreshedGen

\* The modules an exec leaves behind
LEMMA ModulesKeep ==
    ASSUME NEW tb, NEW g, TableInv(tb, g), ProcInv, InjInv, NEW p \in Pid, NEW t \in Target
    PROVE  /\ ModulesOf(tb, p, t) \subseteq Slot
           /\ TableInv(Move(tb, ModulesOf(tb, p, t), "EXITED"),
                       g + Moved(tb, ModulesOf(tb, p, t), "EXITED"))
           /\ Moved(tb, ModulesOf(tb, p, t), "EXITED") \in Nat
           /\ Move(tb, ModulesOf(tb, p, t), "EXITED") # tb =>
                 Moved(tb, ModulesOf(tb, p, t), "EXITED") > 0
           /\ Moves(Move(tb, ModulesOf(tb, p, t), "EXITED"), tb,
                    ModulesOf(tb, p, t), "EXITED")
<1>1. /\ ModulesOf(tb, p, t) \subseteq Slot
      /\ \A s \in ModulesOf(tb, p, t) : tb[s].pid # NoPid /\ tb[s].mod # NoModule
    BY RecordBounds DEF ModulesOf
<1>2. "EXITED" \in State  BY DEF State
<1> HIDE DEF ModulesOf
<1> QED  BY <1>1, <1>2, ExitKeeps, MoveCounts DEF TableInv

-----------------------------------------------------------------------------
(* zp_runtime_begin.                                                       *)

\* The record that zp_runtime_begin writes
NewRecord(p, t, g) ==
    [pid |-> p, start |-> start[p], gen |-> g, kind |-> Kind(t),
     target |-> t, mod |-> NoModule, state |-> "DETECTED"]

\* Only records of processes that are gone and, for a native target, the
\* modules of the process itself are EXITED before a slot is picked.
Aged(tb, p, t) ==
    \A s \in Slot :
        /\ tb[s].pid = table[s].pid /\ tb[s].start = table[s].start
        /\ tb[s].gen = table[s].gen /\ tb[s].kind = table[s].kind
        /\ tb[s].target = table[s].target /\ tb[s].mod = table[s].mod
        /\ \/ tb[s] = table[s]
           \/ /\ tb[s].state = "EXITED"
              /\ ~IsAlive(table[s]) \/ (tb[s].pid = p /\ tb[s].mod # NoModule)
        /\ (t \in Native /\ tb[s].pid = p /\ tb[s].kind = "native" /\ tb[s].mod # NoModule)
              => tb[s].state = "EXITED"

\* No slot was to be had.
BeganWithout(tb, g, p, t) ==
    /\ table' = tb /\ gen' = g
    /\ inj' = [inj EXCEPT ![p] = [step |-> "begun", target |-> t, gen |-> 0]]

\* Slot n was found or picked.
BeganAt(tb, g, p, t, n) ==
    /\ table' = [s \in Slot |-> IF s = n THEN NewRecord(p, t, g + 1) ELSE tb[s]]
    /\ gen' = g + 1
    /\ inj' = [inj EXCEPT ![p] = [step |-> "begun", target |-> t, gen |-> g + 1]]
    /\ \/ n \in BaseOf(tb, p, t)
       \/ /\ BaseOf(tb, p, t) = {}
          /\ tb[n].pid = NoPid \/ tb[n].state = "EXITED" \/ tb[n].mod # NoModule

LEMMA BeginSplits ==
    ASSUME RecordsInv, NEW p \in Pid, NEW t \in Target, Begin(p, t)
    PROVE  \E tb, g :
              /\ TableInv(tb, g) /\ g >= gen /\ (tb # table => g > gen)
              /\ Aged(tb, p, t)
              /\ \/ BeganWithout(tb, g, p, t)
                 \/ \E n \in Slot : BeganAt(tb, g, p, t, n)
<1> DEFINE S == ModulesOf(Refreshed, p, t)
           tb == Move(Refreshed, S, "EXITED")
           g == RefreshedGen + Moved(Refreshed, S, "EXITED")
           found == BaseOf(tb, p, t)
           slots == IF found # {} THEN {Min(found)} ELSE Picks(tb, {})
<1>1. /\ TableInv(Refreshed, RefreshedGen)
      /\ RefreshedGen \in Nat /\ RefreshedGen >= gen
      /\ Refreshed # table => RefreshedGen > gen
      /\ Moves(Refreshed, table, Gone, "EXITED")
      /\ \A s \in Gone : table[s].pid # NoPid /\ ~IsAlive(table[s])
    BY RefreshKeeps
<1>2. /\ TableInv(tb, g) /\ Moved(Refreshed, S, "EXITED") \in Nat
      /\ tb # Refreshed => Moved(Refreshed, S, "EXITED") > 0
      /\ Moves(tb, Refreshed, S, "EXITED")
    BY <1>1, ModulesKeep DEF RecordsInv
<1>3. gen \in Nat  BY DEF RecordsInv, TableInv, Typed
<1>4. g >= gen /\ (tb # table => g > gen)
  <2> HIDE DEF tb
  <2> QED  BY <1>1, <1>2, <1>3
<1>5. Aged(tb, p, t)
  <2>1. \A s \in Slot : s \in S <=>
           /\ t \in Native /\ Refreshed[s].pid = p /\ Refreshed[s].kind = "native"
           /\ Refreshed[s].mod # NoModule
      BY DEF ModulesOf
  <2> HIDE DEF tb, S
  <2> QED  BY <1>1, <1>2, <2>1 DEF Moves, Aged
<1>6. /\ found \subseteq Slot
      /\ found # {} => Min(found) \in found
      /\ \A n \in Picks(tb, {}) :
            /\ n \in Slot /\ Picks(tb, {}) = {n}
            /\ tb[n].pid = NoPid \/ tb[n].state = "EXITED" \/ tb[n].mod # NoModule
  <2>1. found \subseteq Slot  BY DEF BaseOf
  <2>2. Typed(tb, g)  BY <1>2 DEF TableInv
  <2> HIDE DEF tb, found
  <2>3. found # {} => Min(found) \in found  BY <2>1, MinSlot
  <2>4. \A n \in Picks(tb, {}) :
            /\ n \in Slot /\ Picks(tb, {}) = {n}
            /\ tb[n].pid = NoPid \/ tb[n].state = "EXITED" \/ tb[n].mod # NoModule
      BY <2>2, PickedSlot
  <2> QED  BY <2>1, <2>3, <2>4
<1>7. \/ slots = {}
      \/ \E n \in Slot : /\ slots = {n}
                         /\ \/ n \in BaseOf(tb, p, t)
                            \/ /\ BaseOf(tb, p, t) = {}
                               /\ \/ tb[n].pid = NoPid \/ tb[n].state = "EXITED"
                                  \/ tb[n].mod # NoModule
  <2> HIDE DEF tb
  <2> QED  BY <1>6
<1>8. IF slots = {}
      THEN BeganWithout(tb, g, p, t)
      ELSE /\ gen' = g + 1
           /\ table' = [s \in Slot |-> IF s \in slots THEN NewRecord(p, t, g + 1) ELSE tb[s]]
           /\ inj' = [inj EXCEPT ![p] = [step |-> "begun", target |-> t, gen |-> g + 1]]
    BY DEF Begin, NewRecord, BeganWithout
<1> HIDE DEF tb, g, slots
<1>9. \/ BeganWithout(tb, g, p, t)
      \/ \E n \in Slot : BeganAt(tb, g, p, t, n)
  <2>1. CASE slots = {}  BY <2>1, <1>8
  <2>2. CASE slots # {}
    <3>1. PICK n \in Slot : /\ slots = {n}
                            /\ \/ n \in BaseOf(tb, p, t)
                               \/ /\ BaseOf(tb, p, t) = {}
                                  /\ \/ tb[n].pid = NoPid \/ tb[n].state = "EXITED"
                                     \/ tb[n].mod # NoModule
        BY <2>2, <1>7
    <3>2. table' = [s \in Slot |-> IF s = n THEN NewRecord(p, t, g + 1) ELSE tb[s]]
        BY <2>2, <1>8, <3>1
    <3>3. BeganAt(tb, g, p, t, n)
        BY <2>2, <1>8, <3>1, <3>2 DEF BeganAt
    <3> QED  BY <3>3
  <2> QED  BY <2>1, <2>2
<1> QED  BY <1>2, <1>4, <1>5, <1>9

\* The table after zp_runtime_begin
LEMMA BeginKeepsTable ==
    ASSUME RecordsInv, NEW p \in Pid, NEW t \in Target, Begin(p, t)
    PROVE  TableInv(table, gen)'
<1>1. PICK tb, g :
         /\ TableInv(tb, g) /\ g >= gen /\ (tb # table => g > gen)
         /\ Aged(tb, p, t)
         /\ \/ BeganWithout(tb, g, p, t)
            \/ \E n \in Slot : BeganAt(tb, g, p, t, n)
    BY BeginSplits
<1>2. /\ UNCHANGED <<start, alive, redirected>> /\ p \in alive
      /\ inj[p].step = "idle"
    BY DEF Begin, procVars
<1>3. /\ inj \in [Pid -> [step : {"idle", "begun", "staging"},
                          target : Target \cup {NoPid}, gen : Nat]]
      /\ \A q \in Pid : inj[q].gen <= g
      /\ g \in Nat /\ gen \in Nat
    BY <1>1 DEF RecordsInv, InjInv, TableInv, Typed
<1>4. p # NoPid /\ t # NoPid  BY RecordBounds DEF Target
<1>5. CASE BeganWithout(tb, g, p, t)
  <2>1. /\ table' = tb /\ gen' = g
        /\ \A q \in Pid : inj'[q] = IF q = p THEN [step |-> "begun", target |-> t, gen |-> 0]
                                    ELSE inj[q]
      BY <1>3, <1>5 DEF BeganWithout
  <2>2. Untouched(table)'
    <3>1. \A s \in Slot : tb[s].pid = p => tb[s].gen # 0
        BY <1>1, <1>4 DEF TableInv, UsedSound, Typed, RecordUpTo
    <3>2. \A q \in Pid : q # p => inj'[q] = inj[q]  BY <2>1
    <3>3. inj'[p].gen = 0  BY <2>1
    <3> QED  BY <1>1, <1>2, <2>1, <3>1, <3>2, <3>3 DEF TableInv, Untouched
  <2>3. /\ Typed(table, gen)' /\ UsedSound(table)' /\ RedirectSound(table)'
        /\ BaseBeside(table)' /\ UniqueBase(table)'
      BY <1>1, <1>2, <2>1 DEF TableInv, Typed, UsedSound, RedirectSound,
         BaseBeside, UniqueBase, IsAlive
  <2> QED  BY <2>2, <2>3 DEF TableInv
<1>6. ASSUME NEW n \in Slot, BeganAt(tb, g, p, t, n)
      PROVE  TableInv(table, gen)'
  <2>1. /\ gen' = g + 1
        /\ \A q \in Pid : q # p => inj'[q] = inj[q]
        /\ inj'[p].step = "begun" /\ inj'[p].target = t /\ inj'[p].gen = g + 1
        /\ \A s \in Slot \ {n} : table'[s] = tb[s]
        /\ table'[n] = NewRecord(p, t, g + 1)
      BY <1>3, <1>6 DEF BeganAt
  <2>2. /\ table'[n].pid = p /\ table'[n].start = start[p] /\ table'[n].gen = g + 1
        /\ table'[n].kind = Kind(t) /\ table'[n].target = t
        /\ table'[n].mod = NoModule /\ table'[n].state = "DETECTED"
      BY <2>1 DEF NewRecord
  <2>3. Typed(table, gen)'
    <3>1. start[p] \in 0 .. LifeMax
        BY RecordBounds DEF RecordsInv, ProcInv
    <3>2. NewRecord(p, t, g + 1) \in RecordUpTo(g + 1)
        BY <3>1, <1>3 DEF NewRecord, RecordUpTo, State, Kind
    <3>3. \A r \in RecordUpTo(g) : r \in RecordUpTo(g + 1)
        BY <1>3 DEF RecordUpTo
    <3>4. table' \in [Slot -> RecordUpTo(g + 1)]
        BY <1>1, <1>6, <3>2, <3>3 DEF BeganAt, TableInv, Typed
    <3>5. RecordUpTo(gen)' = RecordUpTo(g + 1)
        BY <2>1 DEF RecordUpTo
    <3> QED  BY <1>3, <2>1, <3>4, <3>5 DEF Typed
  <2>4. UsedSound(table)'
    <3>1. \A s \in Slot \ {n} : table'[s] = tb[s]  BY <2>1
    <3>2. start[p] \in Nat  BY DEF RecordsInv, ProcInv
    <3> QED  BY <1>1, <1>2, <1>3, <1>4, <2>2, <3>1, <3>2 DEF TableInv, UsedSound
  <2>5. RedirectSound(table)'
      BY <1>1, <1>2, <2>1, <2>2 DEF TableInv, RedirectSound
  <2>6. UniqueBase(table)'
    <3>1. ASSUME NEW s \in Slot \ {n}, IsBase(tb[s]), tb[s].kind = Kind(t),
                 IF Kind(t) = "native" THEN tb[s].pid = p ELSE tb[s].target = t
          PROVE  FALSE
      <4>1. s \in BaseOf(tb, p, t)
          BY <3>1 DEF BaseOf, Kind
      <4>2. n \in BaseOf(tb, p, t)
          BY <1>6, <4>1 DEF BeganAt
      <4>3. /\ IsBase(tb[n]) /\ tb[n].kind = Kind(t)
            /\ IF Kind(t) = "native" THEN tb[n].pid = p ELSE tb[n].target = t
          BY <4>2 DEF BaseOf, Kind
      <4> QED  BY <1>1, <3>1, <4>3 DEF TableInv, UniqueBase
    <3>2. ASSUME NEW s \in Slot, NEW u \in Slot, s # u,
                 IsBase(table'[s]), IsBase(table'[u]), table'[s].kind = table'[u].kind,
                 IF table'[s].kind = "native" THEN table'[s].pid = table'[u].pid
                 ELSE table'[s].target = table'[u].target
          PROVE  FALSE
      <4>1. CASE s # n /\ u # n
          BY <4>1, <3>2, <2>1, <1>1 DEF TableInv, UniqueBase
      <4>2. CASE s = n
        <5>1. table'[u] = tb[u] /\ u # n  BY <4>2, <3>2, <2>1
        <5> QED  BY <5>1, <4>2, <3>1, <3>2, <2>2
      <4>3. CASE u = n
        <5>1. table'[s] = tb[s] /\ s # n  BY <4>3, <3>2, <2>1
        <5> QED  BY <5>1, <4>3, <3>1, <3>2, <2>2
      <4> QED  BY <4>1, <4>2, <4>3
    <3> QED  BY <3>2 DEF UniqueBase, IsBase
  <2>7. BaseBeside(table)'
    <3> SUFFICES ASSUME NEW s \in Slot, table'[s].mod # NoModule,
                        table'[s].state # "EXITED", IsAlive(table'[s])
                 PROVE  \E b \in Slot : /\ IsBase(table'[b]) /\ table'[b].state = "INJECTED"
                            /\ table'[b].kind = "native"
                            /\ table'[b].pid = table'[s].pid /\ table'[b].start = table'[s].start
                            /\ table'[b].gen = table'[s].gen
        BY <1>2 DEF BaseBeside, IsAlive, IsBase
    <3>1. s # n /\ table'[s] = tb[s]  BY <2>1, <2>2
    <3>2. PICK b \in Slot : /\ IsBase(tb[b]) /\ tb[b].state = "INJECTED"
                          /\ tb[b].kind = "native"
                          /\ tb[b].pid = tb[s].pid /\ tb[b].start = tb[s].start
                          /\ tb[b].gen = tb[s].gen
        BY <1>1, <3>1 DEF TableInv, BaseBeside
    <3>3. b # n
      <4> SUFFICES ASSUME b = n PROVE FALSE  OBVIOUS
      <4>1. n \in BaseOf(tb, p, t)
          BY <1>6, <3>2 DEF BeganAt, IsBase
      <4>2. t \notin Zygote /\ tb[n].pid = p  BY <4>1, <3>2 DEF BaseOf, Kind
      <4>3. t \in Native  BY <4>2 DEF Target
      <4>4. tb[s].pid = p /\ tb[s].kind = "native"
          BY <1>1, <3>1, <3>2, <4>2, <1>4 DEF TableInv, UsedSound
      <4> QED  BY <1>1, <3>1, <4>3, <4>4 DEF Aged
    <3> QED  BY <3>1, <3>2, <3>3, <2>1
  <2>8. Untouched(table)'
    <3> SUFFICES ASSUME NEW q \in Pid, NEW s \in Slot, inj'[q].step # "idle",
                        table'[s].pid = q, table'[s].gen = inj'[q].gen
                 PROVE  /\ table'[s].state = "DETECTED" /\ table'[s].mod = NoModule
                        /\ table'[s].start = start[q] /\ table'[s].target = inj'[q].target
        BY <1>2 DEF Untouched
    <3>1. s # n => table'[s].gen <= g /\ table'[s].gen \in Nat /\ table'[s] = tb[s]
        BY <1>1, <2>1 DEF TableInv, Typed, RecordUpTo
    <3>2. CASE q = p
        BY <3>1, <3>2, <2>1, <2>2, <1>3
    <3>3. CASE q # p
      <4>1. s # n /\ inj'[q] = inj[q]  BY <3>3, <2>1, <2>2
      <4> QED  BY <4>1, <3>1, <1>1 DEF TableInv, Untouched
    <3> QED  BY <3>2, <3>3
  <2> QED  BY <2>3, <2>4, <2>5, <2>6, <2>7, <2>8 DEF TableInv
<1> QED  BY <1>1, <1>5, <1>6

-----------------------------------------------------------------------------
(* zp_runtime_set_state and yz_zygote_probe_report_runtime.                *)

\* The end of an injection moves only its own record, which nothing leans on.
LEMMA SetStateKeepsTable ==
    ASSUME RecordsInv, NEW p \in Pid, inj[p].step # "idle",
           NEW st \in {"SAFEMODE", "REDIRECTED", "FAILED"},
           SetState(p, inj[p].gen, st), inj' = [inj EXCEPT ![p] = Idle],
           UNCHANGED <<start, alive>>, redirected \subseteq redirected',
           st = "REDIRECTED" => \E r \in redirected' : r.pid = p /\ r.gen = inj[p].gen
    PROVE  /\ TableInv(table, gen)'
           /\ gen' \in Nat /\ gen' >= gen /\ (table' # table => gen' > gen)
           /\ \A s \in Slot : table[s].pid # p => table'[s] = table[s]
<1> DEFINE g == inj[p].gen
           S == {s \in Slot : g # 0 /\ table[s].pid = p /\ table[s].gen = g
                                 /\ table[s].mod = NoModule}
<1>1. table' = Move(table, S, st) /\ gen' = gen + Moved(table, S, st)
    BY DEF SetState
<1>2. Typed(table, gen) /\ gen \in Nat  BY DEF RecordsInv, TableInv, Typed
<1>3. st \in State  BY DEF State
<1>4. S \subseteq Slot  OBVIOUS
<1>5. /\ Moved(table, S, st) \in Nat
      /\ table' # table => Moved(table, S, st) > 0
      /\ Moves(table', table, S, st)
      /\ Typed(table', gen')
    BY <1>1, <1>2, <1>3, <1>4, MoveCounts
<1>6. \A s \in S : table[s].pid = p /\ table[s].gen = inj[p].gen
                     /\ table[s].state = "DETECTED" /\ table[s].mod = NoModule
    BY DEF RecordsInv, TableInv, Untouched
<1>7. /\ \A q \in Pid : q # p => inj'[q] = inj[q]
      /\ inj'[p].step = "idle"
    BY DEF RecordsInv, InjInv, Idle
<1> HIDE DEF S, g
<1>8. Typed(table, gen)'  BY <1>5 DEF Typed, RecordUpTo
<1>9. UsedSound(table)'  BY <1>4, <1>5, <1>6, RecordBounds DEF Moves, RecordsInv, TableInv, UsedSound
<1>10. RedirectSound(table)'
    BY <1>4, <1>5, <1>6 DEF Moves, RecordsInv, TableInv, RedirectSound
<1>11. BaseBeside(table)'
  <2> SUFFICES ASSUME NEW s \in Slot, table'[s].mod # NoModule,
                      table'[s].state # "EXITED", IsAlive(table'[s])
               PROVE  \E b \in Slot : /\ IsBase(table'[b]) /\ table'[b].state = "INJECTED"
                            /\ table'[b].kind = "native"
                            /\ table'[b].pid = table'[s].pid /\ table'[b].start = table'[s].start
                            /\ table'[b].gen = table'[s].gen
      BY DEF BaseBeside, IsAlive, IsBase
  <2>1. s \notin S /\ table'[s] = table[s]  BY <1>5, <1>6 DEF Moves
  <2>2. PICK b \in Slot : /\ IsBase(table[b]) /\ table[b].state = "INJECTED"
                          /\ table[b].kind = "native"
                          /\ table[b].pid = table[s].pid /\ table[b].start = table[s].start
                          /\ table[b].gen = table[s].gen
      BY <2>1 DEF RecordsInv, TableInv, BaseBeside
  <2>3. b \notin S  BY <2>2, <1>6
  <2> QED  BY <2>1, <2>2, <2>3, <1>5 DEF Moves
<1>12. UniqueBase(table)'
    BY <1>5 DEF Moves, RecordsInv, TableInv, UniqueBase, IsBase
<1>13. Untouched(table)'
  <2> SUFFICES ASSUME NEW q \in Pid, NEW s \in Slot, inj'[q].step # "idle",
                      table'[s].pid = q, table'[s].gen = inj'[q].gen
               PROVE  /\ table'[s].state = "DETECTED" /\ table'[s].mod = NoModule
                      /\ table'[s].start = start[q] /\ table'[s].target = inj'[q].target
      BY DEF Untouched
  <2>1. q # p /\ inj'[q] = inj[q]  BY <1>7
  <2>2. s \notin S  BY <2>1, <1>5, <1>6 DEF Moves
  <2> QED  BY <2>1, <2>2, <1>5 DEF Moves, RecordsInv, TableInv, Untouched
<1>14. \A s \in Slot : table[s].pid # p => table'[s] = table[s]
    BY <1>5, <1>6 DEF Moves
<1>15. TableInv(table, gen)'
    BY <1>8, <1>9, <1>10, <1>11, <1>12, <1>13 DEF TableInv
<1>16. gen' \in Nat /\ gen' >= gen /\ (table' # table => gen' > gen)
    BY <1>1, <1>2, <1>5
<1> QED  BY <1>14, <1>15, <1>16

\* A base record that is redirected may turn INJECTED.
LEMMA InjectKeeps ==
    ASSUME NEW tb, NEW g, TableInv(tb, g), InjInv, NEW b \in Slot, IsBase(tb[b]),
           tb[b].state \in Reportable
    PROVE  /\ TableInv(Move(tb, {b}, "INJECTED"), g + Moved(tb, {b}, "INJECTED"))
           /\ Moved(tb, {b}, "INJECTED") \in Nat
           /\ Move(tb, {b}, "INJECTED") # tb => Moved(tb, {b}, "INJECTED") > 0
           /\ Moves(Move(tb, {b}, "INJECTED"), tb, {b}, "INJECTED")
<1> DEFINE n == Move(tb, {b}, "INJECTED")
<1>1. "INJECTED" \in State /\ {b} \subseteq Slot  BY DEF State
<1>2. Typed(tb, g)  BY DEF TableInv
<1>3. /\ Typed(n, g + Moved(tb, {b}, "INJECTED"))
      /\ Moves(n, tb, {b}, "INJECTED")
      /\ Moved(tb, {b}, "INJECTED") \in Nat
      /\ n # tb => Moved(tb, {b}, "INJECTED") > 0
    BY <1>1, <1>2, MoveCounts
<1> HIDE DEF n
<1>4. UsedSound(n)  BY <1>3 DEF Moves, TableInv, UsedSound, IsBase
<1>5. RedirectSound(n)  BY <1>3 DEF Moves, TableInv, RedirectSound, Reportable
<1>6. BaseBeside(n)
  <2> SUFFICES ASSUME NEW s \in Slot,
                      n[s].mod # NoModule, n[s].state # "EXITED", IsAlive(n[s])
               PROVE  \E c \in Slot : /\ IsBase(n[c]) /\ n[c].state = "INJECTED"
                            /\ n[c].kind = "native"
                            /\ n[c].pid = n[s].pid /\ n[c].start = n[s].start
                            /\ n[c].gen = n[s].gen
      BY DEF BaseBeside
  <2>1. s # b /\ n[s] = tb[s]  BY <1>3 DEF Moves, IsBase
  <2>2. PICK c \in Slot : /\ IsBase(tb[c]) /\ tb[c].state = "INJECTED"
                          /\ tb[c].kind = "native"
                          /\ tb[c].pid = tb[s].pid /\ tb[c].start = tb[s].start
                          /\ tb[c].gen = tb[s].gen
      BY <2>1 DEF TableInv, BaseBeside
  <2> QED  BY <1>3, <2>1, <2>2 DEF Moves, IsBase
<1>7. UniqueBase(n)  BY <1>3 DEF Moves, TableInv, UniqueBase, IsBase
<1>8. Untouched(n)
    BY <1>3 DEF Moves, TableInv, Untouched, Reportable
<1>9. TableInv(n, g + Moved(tb, {b}, "INJECTED"))
    BY <1>3, <1>4, <1>5, <1>6, <1>7, <1>8 DEF TableInv
<1> QED  BY <1>3, <1>9 DEF n

\* The base record of a live image may be copied for a module, over a slot
\* that is free, exited or a module's.
LEMMA CopyKeeps ==
    ASSUME NEW tb, NEW g, TableInv(tb, g), InjInv, NEW b \in Slot, IsBase(tb[b]),
           tb[b].state = "INJECTED", tb[b].kind = "native", NEW m \in Module,
           NEW T, T \subseteq Slot \ {b},
           \A s \in T : tb[s].pid = NoPid \/ tb[s].state = "EXITED" \/ tb[s].mod # NoModule
    PROVE  TableInv([s \in Slot |-> IF s \in T THEN [tb[b] EXCEPT !.mod = m] ELSE tb[s]], g + 1)
<1> DEFINE c == [tb[b] EXCEPT !.mod = m]
           n == [s \in Slot |-> IF s \in T THEN c ELSE tb[s]]
<1>1. /\ c.pid = tb[b].pid /\ c.start = tb[b].start /\ c.gen = tb[b].gen
      /\ c.kind = "native" /\ c.target = tb[b].target /\ c.mod = m
      /\ c.state = "INJECTED" /\ c \in RecordUpTo(g + 1) /\ g \in Nat
    BY DEF TableInv, Typed, RecordUpTo
<1> HIDE DEF c
<1>2. \A s \in Slot : n[s] = IF s \in T THEN c ELSE tb[s]  OBVIOUS
<1>3. Typed(n, g + 1)
  <2>1. \A r \in RecordUpTo(g) : r \in RecordUpTo(g + 1)
      BY <1>1 DEF RecordUpTo
  <2> QED  BY <1>1, <2>1 DEF TableInv, Typed
<1> HIDE DEF n
<1>4. m # NoModule /\ tb[b].pid # NoPid  BY RecordBounds DEF IsBase
<1>5. UsedSound(n)  BY <1>1, <1>2, <1>4 DEF TableInv, UsedSound
<1>6. RedirectSound(n)  BY <1>1, <1>2 DEF TableInv, RedirectSound
<1>7. BaseBeside(n)
  <2> SUFFICES ASSUME NEW s \in Slot,
                      n[s].mod # NoModule, n[s].state # "EXITED", IsAlive(n[s])
               PROVE  \E d \in Slot : /\ IsBase(n[d]) /\ n[d].state = "INJECTED"
                            /\ n[d].kind = "native"
                            /\ n[d].pid = n[s].pid /\ n[d].start = n[s].start
                            /\ n[d].gen = n[s].gen
      BY DEF BaseBeside
  <2>1. CASE s \in T  BY <2>1, <1>1, <1>2
  <2>2. CASE s \notin T
    <3>1. n[s] = tb[s]  BY <2>2, <1>2
    <3>2. PICK d \in Slot : /\ IsBase(tb[d]) /\ tb[d].state = "INJECTED"
                            /\ tb[d].kind = "native"
                            /\ tb[d].pid = tb[s].pid /\ tb[d].start = tb[s].start
                            /\ tb[d].gen = tb[s].gen
        BY <3>1 DEF TableInv, BaseBeside
    <3>3. d \notin T  BY <3>2 DEF IsBase
    <3> QED  BY <1>2, <3>1, <3>2, <3>3
  <2> QED  BY <2>1, <2>2
<1>8. UniqueBase(n)  BY <1>1, <1>2, <1>4 DEF TableInv, UniqueBase, IsBase
<1>9. Untouched(n)  BY <1>1, <1>2 DEF TableInv, Untouched
<1>10. TableInv(n, g + 1)
    BY <1>3, <1>5, <1>6, <1>7, <1>8, <1>9 DEF TableInv
<1> QED  BY <1>10 DEF n, c

\* No base record of a live process leaves its slot.
LiveBasesStay ==
    \A s \in Slot :
        (IsBase(table[s]) /\ table[s].state # "EXITED" /\ IsAlive(table[s])) =>
            /\ table'[s].pid = table[s].pid /\ table'[s].gen = table[s].gen
            /\ table'[s].mod = NoModule /\ table'[s].state # "EXITED"

\* A refresh alone
LEMMA RefreshStep ==
    ASSUME RecordsInv, table' = Refreshed, gen' = RefreshedGen,
           UNCHANGED <<procVars, inj, redirected>>
    PROVE  /\ TableInv(table, gen)'
           /\ gen' \in Nat /\ gen' >= gen /\ (table' # table => gen' > gen)
           /\ LiveBasesStay
<1>1. TableInv(table', gen')  BY RefreshKeeps
<1>2. TableInv(table, gen)'
    BY <1>1 DEF TableInv, Typed, RecordUpTo, UsedSound, RedirectSound, BaseBeside,
       UniqueBase, Untouched, IsAlive, procVars
<1>3. LiveBasesStay
    BY RefreshKeeps DEF LiveBasesStay, Moves, IsBase
<1> QED  BY <1>2, <1>3, RefreshKeeps

\* A report that counts
LEMMA ReportStep ==
    ASSUME RecordsInv, ReportApply
    PROVE  /\ TableInv(table, gen)'
           /\ gen' \in Nat /\ gen' >= gen /\ (table' # table => gen' > gen)
           /\ LiveBasesStay
<1>1. PICK b \in ReportBase :
        /\ Refreshed[b].state \in Reportable
        /\ LET tb == Move(Refreshed, {b}, "INJECTED")
               g == RefreshedGen + Moved(Refreshed, {b}, "INJECTED")
               same == {s \in Slot : tb[s].pid = report.pid /\ tb[s].kind = "native"
                                       /\ tb[s].mod = report.mod}
               slots == IF same # {} THEN {Min(same)} ELSE Picks(tb, {b})
               stale == {s \in slots : \/ tb[s].gen # tb[b].gen
                                       \/ tb[s].state # "INJECTED"
                                       \/ tb[s].start # tb[b].start}
           IN IF report.kind = "zygote" \/ stale = {}
              THEN table' = tb /\ gen' = g
              ELSE /\ table' = [s \in Slot |->
                          IF s \in stale THEN [tb[b] EXCEPT !.mod = report.mod] ELSE tb[s]]
                   /\ gen' = g + 1
    BY DEF ReportApply
<1> DEFINE tb == Move(Refreshed, {b}, "INJECTED")
           g == RefreshedGen + Moved(Refreshed, {b}, "INJECTED")
           same == {s \in Slot : tb[s].pid = report.pid /\ tb[s].kind = "native"
                                       /\ tb[s].mod = report.mod}
           slots == IF same # {} THEN {Min(same)} ELSE Picks(tb, {b})
           stale == {s \in slots : \/ tb[s].gen # tb[b].gen
                                   \/ tb[s].state # "INJECTED"
                                   \/ tb[s].start # tb[b].start}
<1>2. IF report.kind = "zygote" \/ stale = {}
      THEN table' = tb /\ gen' = g
      ELSE /\ table' = [s \in Slot |->
                  IF s \in stale THEN [tb[b] EXCEPT !.mod = report.mod] ELSE tb[s]]
           /\ gen' = g + 1
    BY <1>1
<1>3. /\ b \in Slot /\ IsBase(Refreshed[b]) /\ Refreshed[b].kind = report.kind
    BY DEF ReportBase
<1>4. /\ TableInv(Refreshed, RefreshedGen)
      /\ RefreshedGen \in Nat /\ RefreshedGen >= gen
      /\ Refreshed # table => RefreshedGen > gen
      /\ Moves(Refreshed, table, Gone, "EXITED")
      /\ \A s \in Gone : table[s].pid # NoPid /\ ~IsAlive(table[s])
    BY RefreshKeeps
<1>5. /\ TableInv(tb, g) /\ Moved(Refreshed, {b}, "INJECTED") \in Nat
      /\ tb # Refreshed => Moved(Refreshed, {b}, "INJECTED") > 0
      /\ Moves(tb, Refreshed, {b}, "INJECTED")
    BY <1>1, <1>3, <1>4, InjectKeeps DEF RecordsInv
<1>6. gen \in Nat  BY DEF RecordsInv, TableInv, Typed
<1>7. g \in Nat /\ g >= gen /\ (tb # table => g > gen)
  <2> HIDE DEF tb
  <2> QED  BY <1>4, <1>5, <1>6
<1>8. /\ IsBase(tb[b]) /\ tb[b].state = "INJECTED" /\ tb[b].kind = report.kind
    BY <1>3, <1>5 DEF Moves, IsBase
<1>9. report.kind # "zygote" => report.mod \in Module /\ report.mod # NoModule
  <2>1. report.step = "apply"  BY DEF ReportApply
  <2>2. tb[b].kind # "none"
      BY <1>3, <1>5, <1>8 DEF TableInv, UsedSound, IsBase, Kind
  <2> QED  BY <2>1, <2>2, <1>8 DEF RecordsInv, ReportInv
<1>10. report.kind # "zygote" =>
          /\ stale \subseteq Slot \ {b}
          /\ \A s \in stale : tb[s].pid = NoPid \/ tb[s].state = "EXITED"
                                \/ tb[s].mod # NoModule
  <2> SUFFICES ASSUME report.kind # "zygote", NEW s \in stale
               PROVE  /\ s \in Slot \ {b}
                      /\ tb[s].pid = NoPid \/ tb[s].state = "EXITED" \/ tb[s].mod # NoModule
      OBVIOUS
  <2>1. s \in slots  OBVIOUS
  <2>2. same \subseteq Slot /\ \A u \in same : tb[u].mod = report.mod  OBVIOUS
  <2>3. Typed(tb, g)  BY <1>5 DEF TableInv
  <2> HIDE DEF tb, same
  <2>4. CASE same # {}
    <3>1. Min(same) \in same  BY <2>2, <2>4, MinSlot
    <3> QED  BY <3>1, <2>1, <2>2, <2>4, <1>8, <1>9 DEF IsBase
  <2>5. CASE same = {}
    <3>1. s \in Picks(tb, {b})  BY <2>1, <2>5
    <3> QED  BY <3>1, <2>3, PickedSlot
  <2> QED  BY <2>4, <2>5
<1>11. UNCHANGED <<start, alive, inj, redirected>>  BY DEF ReportApply, procVars
<1> HIDE DEF tb, g, slots, stale
<1>12. /\ TableInv(table', gen') /\ gen' \in Nat /\ gen' >= gen
       /\ table' # table => gen' > gen
  <2>1. CASE report.kind = "zygote" \/ stale = {}
    <3>1. table' = tb /\ gen' = g  BY <2>1, <1>2
    <3> QED  BY <3>1, <1>5, <1>7
  <2>2. CASE ~(report.kind = "zygote" \/ stale = {})
    <3>1. /\ table' = [s \in Slot |->
                  IF s \in stale THEN [tb[b] EXCEPT !.mod = report.mod] ELSE tb[s]]
          /\ gen' = g + 1
        BY <2>2, <1>2
    <3>2. tb[b].kind = "native"
        BY <1>3, <1>5, <1>8, <2>2 DEF TableInv, UsedSound, IsBase, Kind
    <3>3. InjInv  BY DEF RecordsInv
    <3>4. TableInv([s \in Slot |->
                  IF s \in stale THEN [tb[b] EXCEPT !.mod = report.mod] ELSE tb[s]], g + 1)
        BY <1>3, <1>5, <1>8, <1>9, <1>10, <2>2, <3>2, <3>3, CopyKeeps
    <3>5. TableInv(table', gen')  BY <3>1, <3>4
    <3>6. gen' \in Nat /\ gen' > gen  BY <3>1, <1>6, <1>7
    <3> QED  BY <3>5, <3>6, <1>6
  <2> QED  BY <2>1, <2>2
<1>13. TableInv(table, gen)'
    BY <1>11, <1>12 DEF TableInv, Typed, RecordUpTo, UsedSound, RedirectSound, BaseBeside,
       UniqueBase, Untouched, IsAlive
<1>14. LiveBasesStay
  <2> SUFFICES ASSUME NEW s \in Slot, IsBase(table[s]), table[s].state # "EXITED",
                      IsAlive(table[s])
               PROVE  /\ table'[s].pid = table[s].pid /\ table'[s].gen = table[s].gen
                      /\ table'[s].mod = NoModule /\ table'[s].state # "EXITED"
      BY DEF LiveBasesStay
  <2>1. s \notin Gone /\ Refreshed[s] = table[s]  BY <1>4 DEF Moves
  <2>2. /\ tb[s].pid = table[s].pid /\ tb[s].gen = table[s].gen
        /\ tb[s].mod = NoModule /\ tb[s].state # "EXITED" /\ tb[s].pid # NoPid
      BY <2>1, <1>5 DEF Moves, IsBase
  <2>3. table'[s] = tb[s]
    <3>1. CASE report.kind = "zygote" \/ stale = {}  BY <3>1, <1>2
    <3>2. CASE ~(report.kind = "zygote" \/ stale = {})
      <4>1. s \notin stale  BY <3>2, <2>2, <1>10
      <4> QED  BY <4>1, <3>2, <1>2
    <3> QED  BY <3>1, <3>2
  <2> QED  BY <2>2, <2>3
<1> QED  BY <1>12, <1>13, <1>14

-----------------------------------------------------------------------------
(* Safe mode.                                                              *)

LEMMA PassedFinite ==
    ASSUME InjInv, NEW t
    PROVE  /\ Passed(t) \subseteq Pid /\ IsFiniteSet(Passed(t))
           /\ Cardinality(Passed(t)) \in Nat
<1>1. Passed(t) \subseteq Pid  BY DEF Passed, InjInv
<1> QED  BY <1>1, RecordBounds, FS_Subset, FS_CardinalityType

\* Cardinalities of subsets of the pids
LEMMA PidSubset ==
    ASSUME NEW A, NEW B, A \subseteq B, B \subseteq Pid
    PROVE  /\ Cardinality(A) \in Nat /\ Cardinality(B) \in Nat
           /\ Cardinality(A) <= Cardinality(B) /\ (A # {} => Cardinality(A) > 0)
<1>1. IsFiniteSet(B)  BY RecordBounds, FS_Subset
<1>2. IsFiniteSet(A)  BY <1>1, FS_Subset
<1> QED  BY <1>1, <1>2, FS_Subset, FS_CardinalityType, FS_EmptySet

LEMMA PidAdd ==
    ASSUME NEW A, A \subseteq Pid, NEW p \in Pid
    PROVE  Cardinality(A \cup {p}) <= Cardinality(A) + 1
<1>1. IsFiniteSet(A)  BY RecordBounds, FS_Subset
<1>2. Cardinality(A) \in Nat  BY <1>1, FS_CardinalityType
<1>3. Cardinality(A \cup {p}) = IF p \in A THEN Cardinality(A) ELSE Cardinality(A) + 1
    BY <1>1, FS_AddElement
<1> QED  BY <1>2, <1>3

\* A step that touches no guard and lets nobody past keeps the counts.
LEMMA CrashShrinks ==
    ASSUME RecordsInv, UNCHANGED safeVars, \A t \in Zygote : Passed(t)' \subseteq Passed(t)
    PROVE  CrashInv'
<1>1. InjInv /\ GuardInv /\ CrashInv  BY DEF RecordsInv
<1>2. \A t \in Zygote : Passed(t) \subseteq Pid  BY <1>1, PassedFinite
<1>3. \A t \in Zygote : Cardinality(Passed(t)') <= Cardinality(Passed(t))
                          /\ Cardinality(Passed(t)) \in Nat /\ Cardinality(Passed(t)') \in Nat
    BY <1>2, PidSubset
<1>4. \A t \in DOMAIN guards :
         /\ Cardinality(Passed(t)' \cup {guards[t].last})
              <= Cardinality(Passed(t) \cup {guards[t].last})
         /\ Cardinality(Passed(t) \cup {guards[t].last}) \in Nat
         /\ Cardinality(Passed(t)' \cup {guards[t].last}) \in Nat
  <2> TAKE t \in DOMAIN guards
  <2>1. t \in Zygote /\ guards[t].last \in Pid  BY <1>1 DEF GuardInv
  <2>2. /\ Passed(t)' \cup {guards[t].last} \subseteq Passed(t) \cup {guards[t].last}
        /\ Passed(t) \cup {guards[t].last} \subseteq Pid
      BY <2>1, <1>2
  <2> QED  BY <2>2, PidSubset
<1>5. \A t \in DOMAIN guards : t \in Zygote /\ guards[t].crashes \in Nat
    BY <1>1 DEF GuardInv
<1>6. guards' = guards /\ safe' = safe  BY DEF safeVars
<1>7. Threshold \in Nat  BY RecordBounds
<1>8. \A t \in DOMAIN guards : Cardinality(Passed(t)') <= Threshold
    BY <1>1, <1>3, <1>5, <1>7 DEF CrashInv
<1>9. ~safe => \A t \in DOMAIN guards :
          /\ guards[t].crashes < Threshold
          /\ Cardinality(Passed(t)' \cup {guards[t].last}) <= guards[t].crashes + 1
  <2> SUFFICES ASSUME ~safe, NEW t \in DOMAIN guards
               PROVE  /\ guards[t].crashes < Threshold
                      /\ Cardinality(Passed(t)' \cup {guards[t].last}) <= guards[t].crashes + 1
      OBVIOUS
  <2>1. /\ guards[t].crashes < Threshold
        /\ Cardinality(Passed(t) \cup {guards[t].last}) <= guards[t].crashes + 1
      BY <1>1 DEF CrashInv
  <2>2. guards[t].crashes \in Nat  BY <1>5
  <2> QED  BY <2>1, <2>2, <1>4
<1>10. \A t \in Zygote \ DOMAIN guards :
          Passed(t)' # {} => Cardinality(DOMAIN guards) = GuardMax
    BY <1>1 DEF CrashInv
<1> HIDE DEF Passed
<1> QED  BY <1>6, <1>8, <1>9, <1>10 DEF CrashInv

\* zp_zygote_safemode_should_skip counts a new pid before it lets it past.
LEMMA NoteCounts ==
    ASSUME RecordsInv, NEW p \in Pid, NEW t \in Zygote, NoteZygote(t, p),
           \A u \in Zygote : Passed(u)' \subseteq
               IF u = t /\ ~Trips(t, p) THEN Passed(u) \cup {p} ELSE Passed(u)
    PROVE  GuardInv' /\ CrashInv'
<1> DEFINE D == DOMAIN guards
           room == Cardinality(D) < GuardMax
           c == IF t \notin D THEN 0
                ELSE IF safe \/ guards[t].last = p THEN guards[t].crashes
                ELSE guards[t].crashes + 1
<1>1. InjInv /\ GuardInv /\ CrashInv  BY DEF RecordsInv
<1>2. \A u \in Zygote : Passed(u) \subseteq Pid  BY <1>1, PassedFinite
<1>3. GuardMax \in Nat /\ Threshold \in Nat /\ Threshold > 0  BY RecordBounds
<1>4. IsFiniteSet(D) /\ Cardinality(D) \in Nat /\ Cardinality(D) <= GuardMax
    BY <1>1, FS_CardinalityType DEF GuardInv
<1>5. \A u \in D : u \in Zygote /\ guards[u].last \in Pid /\ guards[u].crashes \in Nat
    BY <1>1 DEF GuardInv
<1>6. /\ safe' = Trips(t, p)
      /\ guards' = IF t \in D \/ room
                   THEN [n \in D \cup {t} |->
                            IF n = t THEN [last |-> p, crashes |-> c] ELSE guards[n]]
                   ELSE guards
    BY DEF NoteZygote
<1>7. c \in Nat  BY <1>5
<1>8. safe \in BOOLEAN /\ Trips(t, p) \in BOOLEAN
    BY <1>1 DEF GuardInv, Trips
<1>9. t \notin D /\ room => Passed(t) = {}
    BY <1>1, <1>4 DEF CrashInv
<1>10. ~Trips(t, p) => ~safe /\ c < Threshold
  <2>1. safe => Trips(t, p)  BY DEF Trips
  <2>2. ASSUME ~Trips(t, p), t \in D, guards[t].last # p
        PROVE  guards[t].crashes + 1 < Threshold
      BY <2>2, <1>3, <1>5 DEF Trips, Crashes
  <2> QED  BY <2>1, <2>2, <1>1, <1>3, <1>5 DEF CrashInv
<1> DEFINE E == DOMAIN guards'
<1>11. /\ E = IF t \in D \/ room THEN D \cup {t} ELSE D
       /\ \A u \in E : u # t => u \in D /\ guards'[u] = guards[u]
       /\ t \in E => /\ t \in D \/ room
                     /\ guards'[t].last = p /\ guards'[t].crashes = c
       /\ guards' = [u \in E |-> guards'[u]]
  <2> HIDE DEF c
  <2>1. CASE t \in D \/ room  BY <2>1, <1>6
  <2>2. CASE ~(t \in D \/ room)
    <3>1. guards' = guards  BY <2>2, <1>6
    <3> QED  BY <2>2, <3>1, <1>1 DEF GuardInv
  <2> QED  BY <2>1, <2>2
<1>12. \A u \in E : guards'[u] \in [last : Pid, crashes : Nat]
  <2>1. \A u \in D : guards[u] \in [last : Pid, crashes : Nat]  BY <1>1 DEF GuardInv
  <2>2. t \in E => guards'[t] = [last |-> p, crashes |-> c]
    <3> HIDE DEF c
    <3> QED  BY <1>6, <1>11
  <2> HIDE DEF c, E, D
  <2> QED  BY <1>7, <1>11, <2>1, <2>2
<1> HIDE DEF E
<1>13. /\ IsFiniteSet(E) /\ Cardinality(E) <= GuardMax
       /\ E # D => t \notin D /\ room
       /\ E \subseteq Zygote
  <2>1. /\ IsFiniteSet(D \cup {t})
        /\ Cardinality(D \cup {t}) = IF t \in D THEN Cardinality(D) ELSE Cardinality(D) + 1
      BY <1>4, FS_AddElement
  <2> HIDE DEF D
  <2>2. D \subseteq Zygote  BY <1>1 DEF GuardInv, D
  <2>3. CASE t \in D  BY <2>3, <2>2, <1>11, <1>4
  <2>4. CASE t \notin D /\ room  BY <2>4, <2>1, <2>2, <1>11, <1>4, <1>3
  <2>5. CASE t \notin D /\ ~room  BY <2>5, <2>2, <1>11, <1>4
  <2> QED  BY <2>3, <2>4, <2>5
<1>14. GuardInv'
    BY <1>6, <1>8, <1>11, <1>12, <1>13 DEF GuardInv, E
\* A name without a guard
<1>15. \A u \in Zygote \ E : Passed(u)' # {} => Cardinality(E) = GuardMax
  <2> SUFFICES ASSUME NEW u \in Zygote, u \notin E, Passed(u)' # {}
               PROVE  Cardinality(E) = GuardMax
      OBVIOUS
  <2>1. CASE u = t
    <3>1. E = D /\ ~room  BY <2>1, <1>11, <1>13
    <3> QED  BY <3>1, <1>4, <1>3
  <2>2. CASE u # t
    <3>1. u \notin D  BY <2>2, <1>11
    <3>2. Passed(u) # {}  BY <2>2
    <3>3. Cardinality(D) = GuardMax  BY <3>1, <3>2, <1>1 DEF CrashInv
    <3>4. E = D  BY <3>3, <1>13, <1>3
    <3> QED  BY <3>3, <3>4
  <2> QED  BY <2>1, <2>2
\* The name itself, when it is let past
<1>16. ASSUME t \in E, ~Trips(t, p)
       PROVE  Cardinality(Passed(t)' \cup {p}) <= c + 1
  <2>1. Passed(t)' \cup {p} \subseteq Passed(t) \cup {p}  BY <1>16
  <2>2. ~safe  BY <1>10, <1>16
  <2>3. CASE t \notin D
    <3>1. Passed(t)' \cup {p} \subseteq {} \cup {p}  BY <2>1, <2>3, <1>9, <1>11, <1>16
    <3>2. Cardinality({} \cup {p}) <= Cardinality({}) + 1  BY PidAdd
    <3>3. Cardinality({}) = 0  BY FS_EmptySet
    <3>4. /\ Cardinality(Passed(t)' \cup {p}) <= Cardinality({} \cup {p})
          /\ Cardinality(Passed(t)' \cup {p}) \in Nat /\ Cardinality({} \cup {p}) \in Nat
        BY <3>1, PidSubset
    <3> QED  BY <2>3, <3>2, <3>3, <3>4
  <2>4. CASE t \in D
    <3> DEFINE L == Passed(t) \cup {guards[t].last}
    <3>1. L \subseteq Pid /\ guards[t].crashes \in Nat  BY <1>2, <1>5, <2>4
    <3>2. Cardinality(L) <= guards[t].crashes + 1
        BY <2>2, <2>4, <1>1 DEF CrashInv
    <3>3. Passed(t)' \cup {p} \subseteq L \cup {p} /\ L \cup {p} \subseteq Pid
        BY <2>1, <3>1
    <3>4. guards[t].last = p => L \cup {p} = L  OBVIOUS
    <3> HIDE DEF L
    <3>5. /\ Cardinality(Passed(t)' \cup {p}) <= Cardinality(L \cup {p})
          /\ Cardinality(Passed(t)' \cup {p}) \in Nat /\ Cardinality(L \cup {p}) \in Nat
        BY <3>3, PidSubset
    <3>6. Cardinality(L) \in Nat  BY <3>1, PidSubset
    <3>7. Cardinality(L \cup {p}) <= Cardinality(L) + 1  BY <3>1, PidAdd
    <3>8. CASE guards[t].last = p
      <4>1. c = guards[t].crashes  BY <3>8, <2>4
      <4>2. Cardinality(L \cup {p}) = Cardinality(L)  BY <3>8, <3>4
      <4> HIDE DEF c
      <4> QED  BY <4>1, <4>2, <3>1, <3>2, <3>5, <3>6
    <3>9. CASE guards[t].last # p
      <4>1. c = guards[t].crashes + 1  BY <3>9, <2>2, <2>4
      <4> HIDE DEF c
      <4> QED  BY <4>1, <3>1, <3>2, <3>5, <3>6, <3>7
    <3> QED  BY <3>8, <3>9
  <2> QED  BY <2>3, <2>4
\* Every name with a guard
<1>17. \A u \in E : Cardinality(Passed(u)') <= Threshold
  <2> TAKE u \in E
  <2>1. CASE u = t /\ ~Trips(t, p)
    <3>1. Passed(t)' \subseteq Passed(t)' \cup {p} /\ Passed(t)' \cup {p} \subseteq Pid
        BY <2>1, <1>2
    <3>2. /\ Cardinality(Passed(t)') <= Cardinality(Passed(t)' \cup {p})
          /\ Cardinality(Passed(t)') \in Nat /\ Cardinality(Passed(t)' \cup {p}) \in Nat
        BY <3>1, PidSubset
    <3>3. c < Threshold /\ Cardinality(Passed(t)' \cup {p}) <= c + 1
        BY <2>1, <1>10, <1>16
    <3> HIDE DEF c
    <3> QED  BY <3>2, <3>3, <2>1, <1>3, <1>7
  <2>2. CASE ~(u = t /\ ~Trips(t, p))
    <3>1. u \in Zygote /\ Passed(u)' \subseteq Passed(u) /\ Passed(u) \subseteq Pid
        BY <2>2, <1>13, <1>2
    <3>2. /\ Cardinality(Passed(u)') <= Cardinality(Passed(u))
          /\ Cardinality(Passed(u)') \in Nat /\ Cardinality(Passed(u)) \in Nat
        BY <3>1, PidSubset
    <3>3. Cardinality(Passed(u)) <= Threshold
      <4>1. CASE u \in D  BY <4>1, <1>1 DEF CrashInv
      <4>2. CASE u \notin D
        <5>1. Passed(u) = {}  BY <4>2, <1>9, <1>11
        <5> QED  BY <5>1, FS_EmptySet, <1>3
      <4> QED  BY <4>1, <4>2
    <3> QED  BY <3>2, <3>3, <1>3
  <2> QED  BY <2>1, <2>2
\* Until safe mode
<1>18. ASSUME ~safe', NEW u \in E
       PROVE  /\ guards'[u].crashes < Threshold
              /\ Cardinality(Passed(u)' \cup {guards'[u].last}) <= guards'[u].crashes + 1
  <2>1. ~Trips(t, p) /\ ~safe  BY <1>18, <1>6, <1>10
  <2>2. CASE u = t
    <3>1. guards'[u].last = p /\ guards'[u].crashes = c  BY <2>2, <1>11
    <3> HIDE DEF c
    <3> QED  BY <3>1, <2>1, <2>2, <1>10, <1>16
  <2>3. CASE u # t
    <3>1. u \in D /\ guards'[u] = guards[u] /\ u \in Zygote
        BY <2>3, <1>11, <1>5
    <3>2. /\ Passed(u)' \cup {guards[u].last} \subseteq Passed(u) \cup {guards[u].last}
          /\ Passed(u) \cup {guards[u].last} \subseteq Pid
        BY <2>3, <3>1, <1>2, <1>5
    <3>3. /\ Cardinality(Passed(u)' \cup {guards[u].last})
               <= Cardinality(Passed(u) \cup {guards[u].last})
          /\ Cardinality(Passed(u)' \cup {guards[u].last}) \in Nat
          /\ Cardinality(Passed(u) \cup {guards[u].last}) \in Nat
        BY <3>2, PidSubset
    <3>4. /\ guards[u].crashes < Threshold
          /\ Cardinality(Passed(u) \cup {guards[u].last}) <= guards[u].crashes + 1
        BY <2>1, <3>1, <1>1 DEF CrashInv
    <3>5. guards[u].crashes \in Nat  BY <3>1, <1>5
    <3> QED  BY <3>1, <3>3, <3>4, <3>5
  <2> QED  BY <2>2, <2>3
<1>19. CrashInv'
    BY <1>15, <1>17, <1>18 DEF CrashInv, E
<1> QED  BY <1>14, <1>19

-----------------------------------------------------------------------------
(* The invariant.                                                          *)

LEMMA InitRecords == Init => RecordsInv
<1> SUFFICES ASSUME Init PROVE RecordsInv  OBVIOUS
<1> USE RecordBounds DEF Init
<1>1. \A s \in Slot : table[s] = Empty  OBVIOUS
<1>2. Typed(table, gen)
  <2>1. Empty \in RecordUpTo(0)  BY DEF Empty, RecordUpTo, State
  <2> QED  BY <2>1 DEF Typed
<1>3. UsedSound(table) /\ RedirectSound(table) /\ BaseBeside(table)
        /\ UniqueBase(table)
    BY <1>1 DEF Empty, UsedSound, RedirectSound, BaseBeside, UniqueBase, IsBase
<1>4. \A p \in Pid : inj[p].step = "idle" /\ inj[p].target = NoPid /\ inj[p].gen = 0
    BY DEF Idle
<1>5. Untouched(table)  BY <1>4 DEF Untouched
<1>6. ProcInv  BY DEF ProcInv
<1>7. InjInv
  <2>1. Idle \in [step : {"idle", "begun", "staging"},
                  target : Target \cup {NoPid}, gen : Nat]
      BY DEF Idle
  <2> QED  BY <1>4, <2>1 DEF InjInv
<1>8. ReportInv  BY DEF ReportInv, NoReport
<1>9. DOMAIN guards = {}  OBVIOUS
<1>10. GuardInv
  <2>1. IsFiniteSet({}) /\ Cardinality({}) = 0  BY FS_EmptySet
  <2>2. guards = [t \in DOMAIN guards |-> guards[t]]  BY <1>9
  <2>3. Cardinality(DOMAIN guards) <= GuardMax  BY <1>9, <2>1
  <2>4. safe \in BOOLEAN  OBVIOUS
  <2>5. /\ IsFiniteSet(DOMAIN guards) /\ DOMAIN guards \subseteq Zygote
        /\ \A t \in DOMAIN guards : guards[t] \in [last : Pid, crashes : Nat]
      BY <1>9, <2>1
  <2> HIDE DEF Init
  <2> QED  BY <2>2, <2>3, <2>4, <2>5 DEF GuardInv
<1>11. \A t : Passed(t) = {}  BY <1>4 DEF Passed
<1>12. CrashInv
  <2>1. Cardinality({}) = 0  BY FS_EmptySet
  <2> QED  BY <1>9, <1>11, <2>1 DEF CrashInv
<1> QED  BY <1>2, <1>3, <1>5, <1>6, <1>7, <1>8, <1>10, <1>12 DEF RecordsInv, TableInv

\* A step that leaves the injections and the guards alone keeps the rest.
LEMMA RestKeeps ==
    ASSUME RecordsInv, gen' >= gen, gen' \in Nat,
           UNCHANGED <<procVars, inj, safeVars, redirected, begun>>
    PROVE  ProcInv' /\ InjInv' /\ GuardInv' /\ CrashInv'
<1>1. ProcInv'  BY DEF RecordsInv, ProcInv, procVars
<1>2. InjInv'
  <2>1. gen \in Nat  BY DEF RecordsInv, TableInv, Typed
  <2> QED  BY <2>1 DEF RecordsInv, InjInv, procVars
<1>3. GuardInv'  BY DEF RecordsInv, GuardInv, safeVars
<1>4. CrashInv'  BY CrashShrinks DEF Passed
<1> QED  BY <1>1, <1>2, <1>3, <1>4

LEMMA TableSteps ==
    ASSUME RecordsInv, GetRuntime \/ ReportRefused \/ ReportApply
    PROVE  RecordsInv' /\ (table' # table => gen' > gen) /\ LiveBasesStay
<1>1. /\ TableInv(table, gen)'
      /\ gen' \in Nat /\ gen' >= gen /\ (table' # table => gen' > gen)
      /\ LiveBasesStay
  <2>1. CASE GetRuntime  BY <2>1, RefreshStep DEF GetRuntime
  <2>2. CASE ReportRefused  BY <2>2, RefreshStep DEF ReportRefused
  <2>3. CASE ReportApply  BY <2>3, ReportStep
  <2> QED  BY <2>1, <2>2, <2>3
<1>2. UNCHANGED <<procVars, inj, safeVars, redirected, begun>>
    BY DEF GetRuntime, ReportRefused, ReportApply
<1>3. ReportInv'
  <2>1. report' = report \/ report' = NoReport
      BY DEF GetRuntime, ReportRefused, ReportApply
  <2> QED  BY <2>1 DEF RecordsInv, ReportInv, NoReport
<1>4. ProcInv' /\ InjInv' /\ GuardInv' /\ CrashInv'  BY <1>1, <1>2, RestKeeps
<1> QED  BY <1>1, <1>3, <1>4 DEF RecordsInv

LEMMA ReadStep ==
    ASSUME RecordsInv, NEW p \in Pid, NEW g \in SeenGen, NEW k \in {"zygote", "native"},
           NEW m \in Module \cup {NoModule}, ReportRead(p, g, k, m)
    PROVE  RecordsInv'
<1>1. UNCHANGED <<table, gen, procVars, inj, safeVars, redirected, begun>>
    BY DEF ReportRead
<1>2. gen \in Nat  BY DEF RecordsInv, TableInv, Typed
<1>3. ProcInv' /\ InjInv' /\ GuardInv' /\ CrashInv'  BY <1>1, <1>2, RestKeeps
<1>4. TableInv(table, gen)'
    BY <1>1 DEF RecordsInv, TableInv, Typed, RecordUpTo, UsedSound, RedirectSound, BaseBeside,
       UniqueBase, Untouched, IsAlive, procVars
<1>5. g \in Nat
    BY DEF SeenGen, RecordsInv, TableInv, Typed, RecordUpTo, InjInv
<1>6. ReportInv'
  <2>1. start[p] \in Nat  BY DEF RecordsInv, ProcInv
  <2>2. report' = [step |-> "apply", pid |-> p, gen |-> g, kind |-> k,
                   mod |-> m, start |-> start[p]] /\ (k = "native" <=> m # NoModule)
      BY DEF ReportRead
  <2> QED  BY <1>5, <2>1, <2>2 DEF ReportInv
<1> QED  BY <1>3, <1>4, <1>6 DEF RecordsInv

LEMMA ProcessSteps ==
    ASSUME RecordsInv, NEW p \in Pid, Spawn(p) \/ Die(p)
    PROVE  RecordsInv' /\ UNCHANGED <<table, gen, inj>>
<1>1. UNCHANGED <<table, gen, inj, safeVars, report, redirected, begun>>
    BY DEF Spawn, Die
<1>2. /\ \A q \in Pid : q # p => start'[q] = start[q] /\ (q \in alive' <=> q \in alive)
      /\ start'[p] \in Nat /\ start'[p] >= start[p]
      /\ \/ start'[p] > start[p] /\ p \notin alive
         \/ start' = start /\ p \notin alive' /\ inj[p].step = "idle"
    BY DEF RecordsInv, ProcInv, Spawn, Die
<1>3. ProcInv'
  <2>1. CASE Spawn(p)
      BY <2>1, RecordBounds DEF RecordsInv, ProcInv, Spawn
  <2>2. CASE Die(p)
      BY <2>2 DEF RecordsInv, ProcInv, Die
  <2> QED  BY <2>1, <2>2
<1>4. InjInv'  BY <1>1, <1>2 DEF RecordsInv, InjInv
<1>5. GuardInv'  BY <1>1 DEF RecordsInv, GuardInv, safeVars
<1>6. CrashInv'  BY <1>1, CrashShrinks DEF Passed
<1>7. ReportInv'  BY <1>1 DEF RecordsInv, ReportInv
<1>8. Typed(table, gen) /\ UsedSound(table) /\ RedirectSound(table) /\ BaseBeside(table)
        /\ UniqueBase(table) /\ Untouched(table)
    BY DEF RecordsInv, TableInv
<1>9. Typed(table, gen)' /\ RedirectSound(table)' /\ UniqueBase(table)'
    BY <1>1, <1>8 DEF Typed, RecordUpTo, RedirectSound, UniqueBase, IsBase
<1>10. \A s \in Slot : table[s].pid \in Pid \cup {NoPid} /\ table[s].start \in Nat
    BY <1>8 DEF Typed, RecordUpTo
<1>11. UsedSound(table)'
  <2>1. start \in [Pid -> Nat]  BY DEF RecordsInv, ProcInv
  <2>2. \A q \in Pid : start[q] \in Nat /\ start'[q] \in Nat /\ start'[q] >= start[q]
      BY <1>2, <2>1
  <2> QED  BY <1>1, <1>8, <1>10, <2>2 DEF UsedSound
<1>12. \A s \in Slot : table[s].pid # NoPid /\ IsAlive(table[s])' => IsAlive(table[s])
  <2> SUFFICES ASSUME NEW s \in Slot, table[s].pid # NoPid, table[s].pid \in alive',
                      table[s].start = start'[table[s].pid]
               PROVE  IsAlive(table[s])
      BY <1>1 DEF IsAlive
  <2>1. table[s].pid \in Pid /\ table[s].start <= start[table[s].pid]
      BY <1>8, <1>10 DEF UsedSound
  <2>2. start[table[s].pid] \in Nat  BY <2>1 DEF RecordsInv, ProcInv
  <2> QED  BY <1>2, <2>1, <2>2, <1>10 DEF IsAlive
<1>13. BaseBeside(table)'
    BY <1>1, <1>8, <1>12 DEF BaseBeside, UsedSound
<1>14. Untouched(table)'
  <2>1. \A q \in Pid : inj[q].step # "idle" => q \in alive  BY DEF RecordsInv, InjInv
  <2>2. \A q \in Pid : inj[q].step # "idle" => start'[q] = start[q]  BY <1>2, <2>1
  <2> QED  BY <1>1, <1>8, <2>2 DEF Untouched
<1> QED
    BY <1>1, <1>3, <1>4, <1>5, <1>6, <1>7, <1>9, <1>11, <1>13, <1>14 DEF RecordsInv, TableInv

LEMMA BeginStep ==
    ASSUME RecordsInv, NEW p \in Pid, NEW t \in Target, Begin(p, t)
    PROVE  RecordsInv' /\ (table' # table => gen' > gen)
<1>1. TableInv(table, gen)'  BY BeginKeepsTable
<1>2. /\ UNCHANGED <<procVars, safeVars, report, redirected>> /\ begun' = begun + 1
      /\ p \in alive /\ inj[p].step = "idle" /\ begun < BeginMax
    BY DEF Begin
<1>3. PICK tb, g :
         /\ TableInv(tb, g) /\ g >= gen /\ (tb # table => g > gen)
         /\ Aged(tb, p, t)
         /\ \/ BeganWithout(tb, g, p, t)
            \/ \E n \in Slot : BeganAt(tb, g, p, t, n)
    BY BeginSplits
<1>4. gen \in Nat /\ g \in Nat  BY <1>3 DEF RecordsInv, TableInv, Typed
<1>5. /\ inj \in [Pid -> [step : {"idle", "begun", "staging"},
                          target : Target \cup {NoPid}, gen : Nat]]
      /\ \A q \in Pid : inj[q].gen \in Nat /\ inj[q].gen <= gen
    BY DEF RecordsInv, InjInv
<1>6. gen' \in Nat /\ gen' >= gen /\ (table' # table => gen' > gen)
  <2>1. (table' = tb /\ gen' = g) \/ gen' = g + 1
      BY <1>3 DEF BeganWithout, BeganAt
  <2> QED  BY <2>1, <1>3, <1>4
<1>7. ASSUME NEW x \in Nat,
             inj' = [inj EXCEPT ![p] = [step |-> "begun", target |-> t, gen |-> x]]
      PROVE  /\ inj' \in [Pid -> [step : {"idle", "begun", "staging"},
                                  target : Target \cup {NoPid}, gen : Nat]]
             /\ \A q \in Pid : q # p => inj'[q] = inj[q]
             /\ inj'[p].step = "begun" /\ inj'[p].target = t /\ inj'[p].gen = x
    BY <1>5, <1>7
<1>8. /\ inj' \in [Pid -> [step : {"idle", "begun", "staging"},
                           target : Target \cup {NoPid}, gen : Nat]]
      /\ \A q \in Pid : q # p => inj'[q] = inj[q]
      /\ inj'[p].step = "begun" /\ inj'[p].target = t
      /\ inj'[p].gen \in Nat /\ inj'[p].gen <= gen'
  <2>1. CASE BeganWithout(tb, g, p, t)
    <3>1. /\ inj' = [inj EXCEPT ![p] = [step |-> "begun", target |-> t, gen |-> 0]]
          /\ gen' = g /\ 0 \in Nat
        BY <2>1 DEF BeganWithout
    <3>2. /\ inj' \in [Pid -> [step : {"idle", "begun", "staging"},
                               target : Target \cup {NoPid}, gen : Nat]]
          /\ \A q \in Pid : q # p => inj'[q] = inj[q]
          /\ inj'[p].step = "begun" /\ inj'[p].target = t /\ inj'[p].gen = 0
        BY <3>1, <1>7
    <3>3. gen' \in Nat /\ 0 <= gen'  BY <3>1, <1>4
    <3> QED  BY <3>1, <3>2, <3>3
  <2>2. CASE \E n \in Slot : BeganAt(tb, g, p, t, n)
    <3>1. /\ inj' = [inj EXCEPT ![p] = [step |-> "begun", target |-> t, gen |-> g + 1]]
          /\ gen' = g + 1 /\ g + 1 \in Nat
        BY <2>2, <1>4 DEF BeganAt
    <3>2. /\ inj' \in [Pid -> [step : {"idle", "begun", "staging"},
                               target : Target \cup {NoPid}, gen : Nat]]
          /\ \A q \in Pid : q # p => inj'[q] = inj[q]
          /\ inj'[p].step = "begun" /\ inj'[p].target = t /\ inj'[p].gen = g + 1
        BY <3>1, <1>7
    <3>3. gen' \in Nat /\ g + 1 <= gen'  BY <3>1, <1>4
    <3> QED  BY <3>1, <3>2, <3>3
  <2> QED  BY <1>3, <2>1, <2>2
<1>9. InjInv'
  <2>2. \A q \in Pid : inj'[q].gen <= gen'  BY <1>4, <1>5, <1>6, <1>8
  <2>3. \A q \in Pid : inj'[q].step # "idle" => q \in alive' /\ inj'[q].target \in Target
      BY <1>2, <1>8 DEF RecordsInv, InjInv, procVars
  <2>4. begun' \in 0 .. BeginMax  BY <1>2, RecordBounds DEF RecordsInv, InjInv
  <2>5. redirected' \subseteq [pid : Pid, target : Target, gen : Nat]
      BY <1>2 DEF RecordsInv, InjInv
  <2> QED  BY <1>8, <2>2, <2>3, <2>4, <2>5 DEF InjInv
<1>10. CrashInv'
  <2>1. \A u \in Zygote : Passed(u)' \subseteq Passed(u)
      BY <1>2, <1>8 DEF Passed
  <2> QED  BY <1>2, <2>1, CrashShrinks
<1>11. ProcInv' /\ ReportInv'  BY <1>2 DEF RecordsInv, ProcInv, ReportInv, procVars
<1>12. GuardInv'  BY <1>2 DEF RecordsInv, GuardInv, safeVars
<1> QED  BY <1>1, <1>6, <1>9, <1>10, <1>11, <1>12 DEF RecordsInv

\* An injection that ends, at safe mode, redirected or failed
LEMMA EndKeeps ==
    ASSUME RecordsInv, NEW p \in Pid, inj[p].step # "idle",
           NEW st \in {"SAFEMODE", "REDIRECTED", "FAILED"},
           SetState(p, inj[p].gen, st), inj' = [inj EXCEPT ![p] = Idle],
           UNCHANGED <<procVars, report, begun>>,
           redirected' = IF st = "REDIRECTED"
               THEN redirected \cup {[pid |-> p, target |-> inj[p].target, gen |-> inj[p].gen]}
               ELSE redirected
    PROVE  /\ TableInv(table, gen)' /\ ProcInv' /\ InjInv' /\ ReportInv'
           /\ table' # table => gen' > gen
           /\ \A s \in Slot : table[s].pid # p => table'[s] = table[s]
           /\ \A q \in Pid : q # p => inj'[q] = inj[q]
           /\ inj'[p] = Idle /\ inj'[p].step = "idle"
<1> DEFINE r == [pid |-> p, target |-> inj[p].target, gen |-> inj[p].gen]
<1>1. UNCHANGED <<start, alive, spawned>>  BY DEF procVars
<1>2. redirected \subseteq redirected'  OBVIOUS
<1>3. st = "REDIRECTED" => r \in redirected'  OBVIOUS
<1>4. r.pid = p /\ r.gen = inj[p].gen  OBVIOUS
<1>5. st = "REDIRECTED" => \E q \in redirected' : q.pid = p /\ q.gen = inj[p].gen
    BY <1>3, <1>4
<1>6. /\ TableInv(table, gen)'
      /\ gen' \in Nat /\ gen' >= gen /\ (table' # table => gen' > gen)
      /\ \A s \in Slot : table[s].pid # p => table'[s] = table[s]
    BY <1>1, <1>2, <1>5, SetStateKeepsTable
<1>7. inj \in [Pid -> [step : {"idle", "begun", "staging"},
                       target : Target \cup {NoPid}, gen : Nat]]
    BY DEF RecordsInv, InjInv
<1>8. Idle \in [step : {"idle", "begun", "staging"}, target : Target \cup {NoPid}, gen : Nat]
        /\ Idle.step = "idle" /\ Idle.gen = 0
    BY DEF Idle
<1>9. /\ inj' \in [Pid -> [step : {"idle", "begun", "staging"},
                           target : Target \cup {NoPid}, gen : Nat]]
      /\ \A q \in Pid : q # p => inj'[q] = inj[q]
      /\ inj'[p] = Idle
    BY <1>7, <1>8
<1>10. InjInv'
  <2>1. gen \in Nat  BY DEF RecordsInv, TableInv, Typed
  <2>2. \A q \in Pid : inj[q].gen \in Nat /\ inj[q].gen <= gen  BY <1>7 DEF RecordsInv, InjInv
  <2>3. \A q \in Pid : inj'[q].gen <= gen'
    <3> TAKE q \in Pid
    <3>1. CASE q = p  BY <3>1, <1>6, <1>8, <1>9
    <3>2. CASE q # p  BY <3>2, <1>6, <1>9, <2>1, <2>2
    <3> QED  BY <3>1, <3>2
  <2>4. \A q \in Pid : inj'[q].step # "idle" => q \in alive' /\ inj'[q].target \in Target
      BY <1>1, <1>8, <1>9 DEF RecordsInv, InjInv
  <2>5. r \in [pid : Pid, target : Target, gen : Nat]
      BY <2>2 DEF RecordsInv, InjInv
  <2>6. redirected' \subseteq [pid : Pid, target : Target, gen : Nat]
      BY <2>5 DEF RecordsInv, InjInv
  <2>7. begun' \in 0 .. BeginMax  BY DEF RecordsInv, InjInv
  <2> QED  BY <1>9, <2>3, <2>4, <2>6, <2>7 DEF InjInv
<1>11. ProcInv' /\ ReportInv'  BY <1>1 DEF RecordsInv, ProcInv, ReportInv
<1> QED  BY <1>6, <1>8, <1>9, <1>10, <1>11

\* What a step of an injection leaves alone
OthersStay(p) ==
    /\ \A s \in Slot : table[s].pid # p => table'[s] = table[s]
    /\ \A q \in Pid : q # p => inj'[q] = inj[q]
    /\ inj'[p] = Idle \/ (table' = table /\ inj'[p].gen = inj[p].gen)

LEMMA RedirectFailStep ==
    ASSUME RecordsInv, NEW p \in Pid, Redirect(p) \/ Fail(p)
    PROVE  RecordsInv' /\ (table' # table => gen' > gen) /\ OthersStay(p)
<1> DEFINE r == [pid |-> p, target |-> inj[p].target, gen |-> inj[p].gen]
<1>1. /\ inj[p].step # "idle" /\ inj' = [inj EXCEPT ![p] = Idle]
      /\ UNCHANGED <<procVars, safeVars, report, begun>>
    BY DEF Redirect, Fail
<1>2. /\ TableInv(table, gen)' /\ ProcInv' /\ InjInv' /\ ReportInv'
      /\ table' # table => gen' > gen
      /\ \A s \in Slot : table[s].pid # p => table'[s] = table[s]
      /\ \A q \in Pid : q # p => inj'[q] = inj[q]
      /\ inj'[p] = Idle /\ inj'[p].step = "idle"
  <2>1. CASE Redirect(p)
    <3>1. "REDIRECTED" \in {"SAFEMODE", "REDIRECTED", "FAILED"}  OBVIOUS
    <3>2. SetState(p, inj[p].gen, "REDIRECTED") /\ redirected' = redirected \cup {r}
        BY <2>1 DEF Redirect
    <3> QED  BY <1>1, <3>1, <3>2, EndKeeps
  <2>2. CASE Fail(p)
    <3>1. "FAILED" \in {"SAFEMODE", "REDIRECTED", "FAILED"}  OBVIOUS
    <3>2. SetState(p, inj[p].gen, "FAILED") /\ redirected' = redirected
        BY <2>2 DEF Fail
    <3> QED  BY <1>1, <3>1, <3>2, EndKeeps
  <2> QED  BY <2>1, <2>2
<1>3. \A u \in Zygote : Passed(u)' \subseteq Passed(u)
  <2> SUFFICES ASSUME NEW u \in Zygote, NEW q \in Passed(u)'
               PROVE  q \in Passed(u)
      OBVIOUS
  <2>1. r.pid = p /\ r.target = inj[p].target  OBVIOUS
  <2>2. CASE Redirect(p)
    <3>1. inj[p].step = "staging" /\ redirected' = redirected \cup {r}
        BY <2>2 DEF Redirect
    <3> HIDE DEF r
    <3> QED  BY <1>2, <2>1, <3>1 DEF Passed
  <2>3. CASE Fail(p)
    <3>1. redirected' = redirected  BY <2>3 DEF Fail
    <3> QED  BY <1>2, <3>1 DEF Passed
  <2> QED  BY <2>2, <2>3
<1>4. CrashInv'  BY <1>1, <1>3, CrashShrinks
<1>5. GuardInv'  BY <1>1 DEF RecordsInv, GuardInv, safeVars
<1> QED  BY <1>2, <1>4, <1>5 DEF RecordsInv, OthersStay

LEMMA CheckStep ==
    ASSUME RecordsInv, NEW p \in Pid, Check(p)
    PROVE  RecordsInv' /\ (table' # table => gen' > gen) /\ OthersStay(p)
<1> DEFINE t == inj[p].target
           skip == (t \in Zygote /\ Trips(t, p)) \/ (t \in Native /\ safe)
<1>1. /\ inj[p].step = "begun"
      /\ IF t \in Zygote THEN NoteZygote(t, p) ELSE UNCHANGED safeVars
      /\ IF skip
         THEN SetState(p, inj[p].gen, "SAFEMODE") /\ inj' = [inj EXCEPT ![p] = Idle]
         ELSE inj' = [inj EXCEPT ![p].step = "staging"] /\ UNCHANGED <<table, gen>>
      /\ UNCHANGED <<procVars, report, redirected, begun>>
    BY DEF Check
<1>2. inj[p].step # "idle" /\ t \in Target /\ p \in alive
    BY <1>1 DEF RecordsInv, InjInv
<1>3. /\ TableInv(table, gen)' /\ ProcInv' /\ InjInv' /\ ReportInv'
      /\ table' # table => gen' > gen
      /\ OthersStay(p)
      /\ \A u \in Zygote : Passed(u)' \subseteq
            IF u = t /\ ~skip THEN Passed(u) \cup {p} ELSE Passed(u)
  <2>1. CASE skip
    <3>1. "SAFEMODE" \in {"SAFEMODE", "REDIRECTED", "FAILED"}  OBVIOUS
    <3>2. SetState(p, inj[p].gen, "SAFEMODE") /\ inj' = [inj EXCEPT ![p] = Idle]
        BY <1>1, <2>1
    <3>3. /\ TableInv(table, gen)' /\ ProcInv' /\ InjInv' /\ ReportInv'
          /\ table' # table => gen' > gen
          /\ \A s \in Slot : table[s].pid # p => table'[s] = table[s]
          /\ \A q \in Pid : q # p => inj'[q] = inj[q]
          /\ inj'[p] = Idle /\ inj'[p].step = "idle"
        BY <1>1, <1>2, <3>1, <3>2, EndKeeps
    <3>4. \A u \in Zygote : Passed(u)' \subseteq Passed(u)
        BY <1>1, <3>3 DEF Passed
    <3> QED  BY <2>1, <3>3, <3>4 DEF OthersStay
  <2>2. CASE ~skip
    <3>1. inj' = [inj EXCEPT ![p].step = "staging"] /\ UNCHANGED <<table, gen>>
        BY <1>1, <2>2
    <3>2. inj \in [Pid -> [step : {"idle", "begun", "staging"},
                           target : Target \cup {NoPid}, gen : Nat]]
        BY DEF RecordsInv, InjInv
    <3>3. /\ inj' \in [Pid -> [step : {"idle", "begun", "staging"},
                               target : Target \cup {NoPid}, gen : Nat]]
          /\ \A q \in Pid : q # p => inj'[q] = inj[q]
          /\ inj'[p].step = "staging" /\ inj'[p].target = t /\ inj'[p].gen = inj[p].gen
        BY <3>1, <3>2
    <3>4. InjInv'
        BY <1>1, <1>2, <3>1, <3>3 DEF RecordsInv, InjInv, procVars
    <3>5. TableInv(table, gen)'
      <4>1. \A q \in Pid : inj'[q].step # "idle" =>
               inj[q].step # "idle" /\ inj'[q].gen = inj[q].gen /\ inj'[q].target = inj[q].target
          BY <1>2, <3>3
      <4>2. Untouched(table)'
          BY <1>1, <3>1, <4>1 DEF RecordsInv, TableInv, Untouched, procVars
      <4> QED
          BY <1>1, <3>1, <4>2 DEF RecordsInv, TableInv, Typed, RecordUpTo, UsedSound,
             RedirectSound, BaseBeside, UniqueBase, IsAlive, IsBase, procVars
    <3>6. ProcInv' /\ ReportInv'  BY <1>1 DEF RecordsInv, ProcInv, ReportInv, procVars
    <3>7. \A u \in Zygote : Passed(u)' \subseteq
             IF u = t THEN Passed(u) \cup {p} ELSE Passed(u)
        BY <1>1, <3>3 DEF Passed
    <3>8. OthersStay(p)  BY <3>1, <3>3 DEF OthersStay
    <3> HIDE DEF skip, t
    <3> QED  BY <2>2, <3>1, <3>4, <3>5, <3>6, <3>7, <3>8
  <2> QED  BY <2>1, <2>2
<1>4. GuardInv' /\ CrashInv'
  <2>1. CASE t \in Zygote
    <3>1. t \notin Native  BY <2>1, RecordBounds
    <3>2. \A u \in Zygote : Passed(u)' \subseteq
             IF u = t /\ ~Trips(t, p) THEN Passed(u) \cup {p} ELSE Passed(u)
        BY <1>3, <2>1, <3>1
    <3> QED  BY <1>1, <2>1, <3>2, NoteCounts
  <2>2. CASE t \notin Zygote
    <3>1. \A u \in Zygote : Passed(u)' \subseteq Passed(u)
        BY <1>3, <2>2
    <3>2. UNCHANGED safeVars  BY <1>1, <2>2
    <3>3. CrashInv'  BY <3>1, <3>2, CrashShrinks
    <3> QED  BY <3>2, <3>3 DEF RecordsInv, GuardInv, safeVars
  <2> QED  BY <2>1, <2>2
<1> QED  BY <1>3, <1>4 DEF RecordsInv

LEMMA StepRecords == RecordsInv /\ [Next]_vars => RecordsInv'
<1> SUFFICES ASSUME RecordsInv, [Next]_vars PROVE RecordsInv'  OBVIOUS
<1>1. ASSUME NEW p \in Pid, Spawn(p) \/ Die(p) PROVE RecordsInv'
    BY <1>1, ProcessSteps
<1>2. ASSUME NEW p \in Pid, Check(p) PROVE RecordsInv'  BY <1>2, CheckStep
<1>3. ASSUME NEW p \in Pid, Redirect(p) \/ Fail(p) PROVE RecordsInv'
    BY <1>3, RedirectFailStep
<1>4. ASSUME NEW p \in Pid, NEW t \in Target, Begin(p, t) PROVE RecordsInv'
    BY <1>4, BeginStep
<1>5. CASE GetRuntime \/ ReportRefused \/ ReportApply  BY <1>5, TableSteps
<1>6. ASSUME NEW p \in Pid, NEW g \in SeenGen, NEW k \in {"zygote", "native"},
             NEW m \in Module \cup {NoModule}, ReportRead(p, g, k, m)
      PROVE  RecordsInv'
    BY <1>6, ReadStep
<1>7. CASE UNCHANGED vars
  <2>1. gen \in Nat  BY DEF RecordsInv, TableInv, Typed
  <2>2. ProcInv' /\ InjInv' /\ GuardInv' /\ CrashInv'
      BY <1>7, <2>1, RestKeeps DEF vars
  <2>3. ReportInv'  BY <1>7 DEF vars, RecordsInv, ReportInv
  <2>4. TableInv(table, gen)'
      BY <1>7 DEF vars, procVars, RecordsInv, TableInv, Typed, RecordUpTo, UsedSound,
         RedirectSound, BaseBeside, UniqueBase, Untouched, IsAlive
  <2> QED  BY <2>2, <2>3, <2>4 DEF RecordsInv
<1> QED  BY <1>1, <1>2, <1>3, <1>4, <1>5, <1>6, <1>7 DEF Next

LEMMA RecordsInvariant == Spec => []RecordsInv
BY InitRecords, StepRecords, PTL DEF Spec

-----------------------------------------------------------------------------
(* The theorems.                                                           *)

\* What yz_zygote_probe_get_runtime shows is true of the processes: an
\* INJECTED image was redirected, a live module stands beside the base record
\* of its image, and there is one base record per process or zygote name.
THEOREM RecordsAlwaysTruthful == Spec => []RecordsTruthful
<1>1. RecordsInv => RecordsTruthful
  <2> SUFFICES ASSUME RecordsInv PROVE RecordsTruthful  OBVIOUS
  <2>1. TypeOK
    <3>1. \A s \in Slot : table[s] \in Record
        BY DEF RecordsInv, TableInv, Typed, RecordUpTo, State, Record
    <3>2. gen \in Nat  BY DEF RecordsInv, TableInv, Typed
    <3>3. start \in [Pid -> 0 .. LifeMax] /\ alive \subseteq Pid /\ spawned \in 0 .. LifeMax
        BY RecordBounds DEF RecordsInv, ProcInv
    <3>4. /\ \A p \in Pid : inj[p].step \in {"idle", "begun", "staging"}
          /\ begun \in 0 .. BeginMax
        BY DEF RecordsInv, InjInv
    <3>5. report.step \in {"idle", "apply"}  BY DEF RecordsInv, ReportInv
    <3>6. /\ DOMAIN guards \subseteq Zygote /\ Cardinality(DOMAIN guards) <= GuardMax
          /\ safe \in BOOLEAN
        BY DEF RecordsInv, GuardInv
    <3> QED  BY <3>1, <3>2, <3>3, <3>4, <3>5, <3>6 DEF TypeOK
  <2>2. InjectedWasRedirected
      BY DEF RecordsInv, TableInv, RedirectSound, InjectedWasRedirected
  <2>3. ModuleHasBase
      BY DEF RecordsInv, TableInv, BaseBeside, ModuleHasBase
  <2>4. BaseUnique
      BY DEF RecordsInv, TableInv, UniqueBase, BaseUnique
  <2> QED  BY <2>1, <2>2, <2>3, <2>4 DEF RecordsTruthful
<1> QED  BY <1>1, RecordsInvariant, PTL

\* A zygote that keeps restarting is redirected in at most Threshold
\* processes, as long as its name has a guard (zp_zygote_safemode_should_skip).
THEOREM CrashLoopAlwaysStops == Spec => []CrashLoopStops
<1>1. RecordsInv => CrashLoopStops
  <2> SUFFICES ASSUME RecordsInv, NEW t \in DOMAIN guards
               PROVE  Cardinality({r.pid : r \in {q \in redirected : q.target = t}}) <= Threshold
      BY DEF CrashLoopStops
  <2> DEFINE R == {r.pid : r \in {q \in redirected : q.target = t}}
  <2>1. R \subseteq Passed(t)  BY DEF Passed
  <2>2. Passed(t) \subseteq Pid  BY PassedFinite DEF RecordsInv
  <2>3. Cardinality(Passed(t)) <= Threshold  BY DEF RecordsInv, CrashInv
  <2> HIDE DEF R
  <2>4. /\ Cardinality(R) <= Cardinality(Passed(t))
        /\ Cardinality(R) \in Nat /\ Cardinality(Passed(t)) \in Nat
      BY <2>1, <2>2, PidSubset
  <2>5. Threshold \in Nat  BY RecordBounds
  <2>6. Cardinality(R) <= Threshold  BY <2>3, <2>4, <2>5
  <2> QED  BY <2>6 DEF R
<1> QED  BY <1>1, RecordsInvariant, PTL

\* Every change of a record moves the generation that
\* yz_zygote_probe_get_runtime returns up.
THEOREM GenerationAlwaysMoves == Spec => GenerationMoves
<1>1. RecordsInv /\ [Next]_vars => [table' # table => gen' > gen]_vars
  <2> SUFFICES ASSUME RecordsInv, Next PROVE table' # table => gen' > gen
      BY DEF vars
  <2>1. ASSUME NEW p \in Pid, Spawn(p) \/ Die(p) PROVE table' = table
      BY <2>1 DEF Spawn, Die
  <2>2. ASSUME NEW p \in Pid, Check(p) \/ Redirect(p) \/ Fail(p)
        PROVE  table' # table => gen' > gen
      BY <2>2, CheckStep, RedirectFailStep
  <2>3. ASSUME NEW p \in Pid, NEW t \in Target, Begin(p, t)
        PROVE  table' # table => gen' > gen
      BY <2>3, BeginStep
  <2>4. CASE GetRuntime \/ ReportRefused \/ ReportApply  BY <2>4, TableSteps
  <2>5. ASSUME NEW p \in Pid, NEW g \in SeenGen, NEW k \in {"zygote", "native"},
               NEW m \in Module \cup {NoModule}, ReportRead(p, g, k, m)
        PROVE  table' = table
      BY <2>5 DEF ReportRead
  <2> QED  BY <2>1, <2>2, <2>3, <2>4, <2>5 DEF Next
<1> QED  BY <1>1, RecordsInvariant, PTL DEF Spec, GenerationMoves

\* The base record of an injection under way stays in the table, whatever
\* zp_runtime_pick_slot_locked evicts; only zp_runtime_begin for a newer
\* zygote of the same name takes it over.
THEOREM RecordAlwaysHeld == Spec => RecordHeld
<1> DEFINE Stays(p) ==
       (inj[p].step # "idle" /\ inj'[p] # Idle /\ Held(p) # {}) =>
            \/ Held(p)' # {}
            \/ /\ inj[p].target \in Zygote
               /\ \E s \in Slot : table'[s].target = inj[p].target
                                    /\ table'[s].gen = gen' /\ gen' > gen
<1>1. RecordsInv /\ [Next]_vars => [\A p \in Pid : Stays(p)]_vars
  <2> SUFFICES ASSUME RecordsInv, Next, NEW p \in Pid, NEW s \in Held(p),
                      inj[p].step # "idle", inj'[p] # Idle
               PROVE  \/ Held(p)' # {}
                      \/ /\ inj[p].target \in Zygote
                         /\ \E x \in Slot : table'[x].target = inj[p].target
                                              /\ table'[x].gen = gen' /\ gen' > gen
      BY DEF vars
  <2>1. /\ s \in Slot /\ IsBase(table[s]) /\ table[s].state # "EXITED"
        /\ table[s].pid = p /\ table[s].gen = inj[p].gen
      BY DEF Held
  <2>2. table[s].start = start[p] /\ table[s].target = inj[p].target /\ p \in alive
      BY <2>1 DEF RecordsInv, TableInv, Untouched, InjInv
  <2>3. IsAlive(table[s])  BY <2>1, <2>2 DEF IsAlive
  <2>4. ASSUME table'[s] = table[s], inj'[p].gen = inj[p].gen
        PROVE  Held(p)' # {}
      BY <2>1, <2>4 DEF Held, IsBase
  <2>5. ASSUME NEW q \in Pid, Spawn(q) \/ Die(q) PROVE Held(p)' # {}
      BY <2>4, <2>5 DEF Spawn, Die
  <2>6. ASSUME NEW q \in Pid, Check(q) \/ Redirect(q) \/ Fail(q) PROVE Held(p)' # {}
    <3>1. OthersStay(q)  BY <2>6, CheckStep, RedirectFailStep
    <3> QED  BY <2>1, <2>4, <3>1 DEF OthersStay
  <2>7. CASE GetRuntime \/ ReportRefused \/ ReportApply
    <3>1. LiveBasesStay  BY <2>7, TableSteps
    <3>2. inj' = inj  BY <2>7 DEF GetRuntime, ReportRefused, ReportApply
    <3>3. /\ table'[s].pid = p /\ table'[s].gen = inj'[p].gen
          /\ table'[s].mod = NoModule /\ table'[s].state # "EXITED"
        BY <2>1, <2>3, <3>1, <3>2 DEF LiveBasesStay
    <3> QED  BY <2>1, <3>3 DEF Held, IsBase
  <2>8. ASSUME NEW q \in Pid, NEW g \in SeenGen, NEW k \in {"zygote", "native"},
               NEW m \in Module \cup {NoModule}, ReportRead(q, g, k, m)
        PROVE  Held(p)' # {}
      BY <2>4, <2>8 DEF ReportRead
  <2>9. ASSUME NEW q \in Pid, NEW t \in Target, Begin(q, t)
        PROVE  \/ Held(p)' # {}
               \/ /\ inj[p].target \in Zygote
                  /\ \E x \in Slot : table'[x].target = inj[p].target
                                       /\ table'[x].gen = gen' /\ gen' > gen
    <3>1. q # p  BY <2>9 DEF Begin
    <3>2. PICK tb, g :
             /\ TableInv(tb, g) /\ g >= gen /\ (tb # table => g > gen)
             /\ Aged(tb, q, t)
             /\ \/ BeganWithout(tb, g, q, t)
                \/ \E n \in Slot : BeganAt(tb, g, q, t, n)
        BY <2>9, BeginSplits
    <3>3. tb[s] = table[s]  BY <2>1, <2>3, <3>1, <3>2 DEF Aged
    <3>4. inj \in [Pid -> [step : {"idle", "begun", "staging"},
                           target : Target \cup {NoPid}, gen : Nat]]
        BY DEF RecordsInv, InjInv
    <3>5. CASE BeganWithout(tb, g, q, t)
      <4>1. table'[s] = table[s] /\ inj'[p] = inj[p]
          BY <3>1, <3>3, <3>4, <3>5 DEF BeganWithout
      <4> QED  BY <2>4, <4>1
    <3>6. ASSUME NEW n \in Slot, BeganAt(tb, g, q, t, n)
          PROVE  \/ Held(p)' # {}
                 \/ /\ inj[p].target \in Zygote
                    /\ \E x \in Slot : table'[x].target = inj[p].target
                                         /\ table'[x].gen = gen' /\ gen' > gen
      <4>1. inj'[p] = inj[p]  BY <3>1, <3>4, <3>6 DEF BeganAt
      <4>2. CASE n # s
        <5>1. table'[s] = table[s]  BY <2>1, <3>3, <3>6, <4>2 DEF BeganAt
        <5> QED  BY <2>4, <4>1, <5>1
      <4>3. CASE n = s
        <5>1. n \in BaseOf(tb, q, t)
            BY <2>1, <3>3, <3>6, <4>3 DEF BeganAt, IsBase
        <5>2. t \in Zygote /\ inj[p].target = t
            BY <2>1, <2>2, <3>1, <3>3, <4>3, <5>1 DEF BaseOf
        <5>3. table'[n] = NewRecord(q, t, g + 1) /\ gen' = g + 1
            BY <3>6 DEF BeganAt
        <5>4. table'[n].target = t /\ table'[n].gen = gen'
            BY <5>3 DEF NewRecord
        <5>5. gen' > gen
            BY <3>2, <5>3 DEF TableInv, Typed, RecordsInv
        <5> QED  BY <5>2, <5>4, <5>5
      <4> QED  BY <4>2, <4>3
    <3> QED  BY <3>2, <3>5, <3>6
  <2> QED  BY <2>5, <2>6, <2>7, <2>8, <2>9 DEF Next
<1> QED  BY <1>1, RecordsInvariant, PTL DEF Spec, RecordHeld
=============================================================================
