-------------------------- MODULE NativeLoaderProofs --------------------------
(***************************************************************************)
(* Proofs about zygiskd and the native loader, for any directories,        *)
(* lines, processes, targets, edits and faults: the 32-bit daemon never    *)
(* outlives its parent, the kernel is told ready only when all is prepared *)
(* that did not fail, an announced change of the directory is never        *)
(* missed, and what the loader asks for by position is one module as long  *)
(* as the list did not move.                                               *)
(***************************************************************************)
EXTENDS NativeLoader, FiniteSetTheorems, TLAPS

-----------------------------------------------------------------------------
(* The inductive invariants.                                               *)

Listed(list) == { list[i] : i \in DOMAIN list }

\* What the stages of the start have left behind.
StartInv ==
    /\ phase \in {"bind", "claim", "prepare", "listen", "root", "scan", "offsets",
                  "compat"} => compat = "none"
    /\ phase \in {"listen", "root", "scan", "offsets", "compat", "wait", "ready",
                  "serve"} => prepared
    /\ phase \in {"compat", "wait", "ready", "serve"} => offsets
    /\ phase = "ready" /\ needs_compat_daemon => compat = "serving"
    /\ "targets" \notin missed => \A i \in DOMAIN gNative : Target[gNative[i]] \in targets
    /\ NoOrphanCompat

\* From the first scan on the lists are those of the directory, unless a
\* change was not announced, its event still waits, or the scan fell short.
ScanInv ==
    phase \in {"offsets", "compat", "wait", "ready", "serve"} /\ events = 0 /\ ~dirty =>
      /\ "modules" \notin missed => Listed(gModules) = disk \cap Zygisk
      /\ "native" \notin missed => Listed(gNative) = native_modules \ Compat
      /\ missed \cap {"native", "targets"} = {} =>
           targets = { Target[l] : l \in native_modules }

Served == phase \in {"serve", "dead"}

\* The entry of a companion table is of the module at its position.
Indexed(table, list) ==
    \A i \in DOMAIN table : table[i] # None => i \in DOMAIN list /\ table[i].mod = list[i]

\* Nobody has a position or a companion before the daemon served, and the
\* tables and the apps keep to the lists until these move.
TableInv ==
    /\ ~Served => apps = {} /\ gCompanions = <<>> /\ gNativeCompanions = <<>>
    /\ ~moved =>
         /\ Indexed(gCompanions, gModules) /\ Indexed(gNativeCompanions, gNative)
         /\ Serving => \A a \in apps : a[2] \in DOMAIN gModules /\ gModules[a[2]] = a[1]
         /\ \A c \in connected : c[1] = c[2]
         /\ \A c \in nativeConnected : c[1] = c[2][1]

\* The threads of one process: the deferred pass and the main thread never
\* use idx at the same time.
ThreadInv(p) ==
    /\ sync[p] \in {"look", "report"} => pc[p] \in {"sync", "restore", "done"}
    /\ sync[p] \in {"try", "restore", "done", "timedOut"} => pc[p] \in {"restore", "done"}
    /\ packet[p] \subseteq EarlyFor(p)
    /\ \A m \in todo[p] : handles[p][m] # None
    /\ seek[p] # None => handles[p][seek[p]] # None
    /\ sync[p] = "report" => seek[p] # None
    /\ pc[p] = "report" => info[p] # None /\ handles[p][info[p][1]] # None
    /\ pc[p] = "fd" => info[p] # None /\ info[p] \in Wanted(p)
    /\ sync[p] \in {"restore", "done"} => PendingEarly(p) = {}

\* Line l is the one at position i of the list the daemon serves; a line of
\* module m is there.
At(i, l) == Serving => i \in DOMAIN gNative /\ gNative[i] = l
Holds(i, m) == Serving => i \in DOMAIN gNative /\ gNative[i][1] = m

HandlesSound(p) ==
    \A m \in Native : handles[p][m] # None =>
      /\ handles[p][m].lib[1] = m /\ handles[p][m].lib \in Wanted(p)
      /\ handles[p][m].index # NoIndex => Holds(handles[p][m].index, m)
      /\ handles[p][m].early /\ handles[p][m].reported => <<p, m>> \in reports

ReportsLoaded(p) == \A m \in Native : <<p, m>> \in reports => handles[p][m] # None

PositionInv(p) ==
    /\ ~Served => /\ pc[p] \notin {"fd", "report"} /\ sync[p] # "report"
                  /\ \A m \in Native : handles[p][m] # None => handles[p][m].index = NoIndex
    /\ ~moved =>
         /\ pc[p] \in {"fd", "report"} => At(idx[p], info[p])
         /\ sync[p] = "report" => Holds(idx[p], seek[p])
         /\ HandlesSound(p)
         /\ ReportsLoaded(p)

LoaderInv ==
    /\ TypeOK /\ events <= reloads
    /\ StartInv /\ ScanInv /\ TableInv
    /\ \A p \in Proc : ThreadInv(p) /\ PositionInv(p)

-----------------------------------------------------------------------------
(* Lists.                                                                  *)

\* A scan returns each thing it finds and no other.
LEMMA OrdersList ==
    ASSUME NEW S, IsFiniteSet(S), NEW s \in Orders(S)
    PROVE  s \in Seq(S) /\ Listed(s) = S
<1>1. Cardinality(S) \in Nat
  BY FS_CardinalityType
<1>2. s \in [1..Cardinality(S) -> S] /\ \A d \in S : \E i \in DOMAIN s : s[i] = d
  BY DEF Orders
<1>3. s \in Seq(S)
  BY <1>1, <1>2
<1>4. Listed(s) = S
  BY <1>2 DEF Listed
<1> QED BY <1>3, <1>4

\* Whatever the scan misses and the kernel refuses, it says so in missed.
LEMMA RescanLists ==
    ASSUME ZTypeOK, rescan_modules
    PROVE  /\ faults' \in 0..FaultMax
           /\ gModules' \in Seq(Zygisk) /\ gTargets' \in Seq(Line)
           /\ gNative' \in Seq(Line \ Compat)
           /\ targets' \subseteq {Target[l] : l \in Line}
           /\ missed' \subseteq {"modules", "native", "targets"}
           /\ "modules" \notin missed' => Listed(gModules') = disk \cap Zygisk
           /\ "native" \notin missed' => Listed(gNative') = native_modules \ Compat
           /\ missed' \cap {"native", "targets"} = {} =>
                targets' = {Target[l] : l \in native_modules}
           /\ "targets" \notin missed' =>
                \A i \in DOMAIN gNative' : Target[gNative'[i]] \in targets'
           /\ moved' \in BOOLEAN /\ (moved => moved')
           /\ phase = "serve" /\ ~moved' => UNCHANGED <<gModules, gNative>>
<1>1. PICK M \in SUBSET zygisk_modules, S \in SUBSET native_modules, ok \in BOOLEAN :
        /\ \/ UNCHANGED faults
           \/ faults < FaultMax /\ faults' = faults + 1
        /\ gModules' \in Orders(M)
        /\ gTargets' \in ManifestOrders(S)
        /\ gNative' \in OfThisClass(gTargets')
        /\ publish_native_targets(gTargets', ok)
        /\ missed' = { w \in {"modules", "native", "targets"} :
                         \/ w = "modules" /\ M # zygisk_modules
                         \/ w = "native" /\ S # native_modules
                         \/ /\ w = "targets"
                            /\ ~ok \/ Published(gTargets') # { Target[l] : l \in S } }
  BY ZenonT(60) DEF rescan_modules, scan_modules, scan_native_modules
<1>2. M \subseteq Zygisk /\ IsFiniteSet(M) /\ S \subseteq Line /\ IsFiniteSet(S)
  <2>1. M \subseteq Zygisk /\ S \subseteq Line
    BY DEF zygisk_modules, native_modules
  <2> QED BY <2>1, ZygiskdAssumption, FS_Subset
<1>3. gModules' \in Seq(M) /\ Listed(gModules') = M
  BY <1>1, <1>2, OrdersList
<1>4. gTargets' \in Seq(S) /\ Listed(gTargets') = S
  BY <1>1, <1>2, OrdersList DEF ManifestOrders
<1>5. gNative' \in Seq(S \ Compat) /\ Listed(gNative') = S \ Compat
  <2>1. gNative' \in Orders(S \ Compat)
    BY <1>1, <1>4 DEF OfThisClass, Listed
  <2>2. IsFiniteSet(S \ Compat)
    BY <1>2, FS_Subset
  <2> QED BY <2>1, <2>2, OrdersList
<1>6. Published(gTargets') \subseteq {Target[l] : l \in S}
  <2>1. \A i \in DOMAIN gTargets' : gTargets'[i] \in S
    BY <1>4 DEF Listed
  <2> QED BY <2>1 DEF Published
<1>7. targets' \subseteq {Target[l] : l \in Line}
  BY <1>1, <1>2, <1>6 DEF publish_native_targets, ZTypeOK
<1>8. "targets" \notin missed' => targets' = {Target[l] : l \in S}
  <2>1. "targets" \notin missed' => ok /\ Published(gTargets') = {Target[l] : l \in S}
    BY <1>1
  <2> QED BY <1>1, <2>1 DEF publish_native_targets
<1>9. /\ "modules" \notin missed' => M = disk \cap Zygisk
      /\ "native" \notin missed' => S = native_modules
  BY <1>1 DEF zygisk_modules
<1>10. "targets" \notin missed' => \A i \in DOMAIN gNative' : Target[gNative'[i]] \in targets'
  <2>1. \A i \in DOMAIN gNative' : gNative'[i] \in S
    BY <1>5 DEF Listed
  <2> QED BY <1>8, <2>1
<1>11. faults' \in 0..FaultMax
  BY <1>1, ZygiskdAssumption DEF ZTypeOK
<1>12. /\ moved' \in BOOLEAN /\ (moved => moved')
       /\ phase = "serve" /\ ~moved' => UNCHANGED <<gModules, gNative>>
  BY DEF rescan_modules, ZTypeOK
<1>13. /\ gModules' \in Seq(Zygisk) /\ gTargets' \in Seq(Line)
       /\ gNative' \in Seq(Line \ Compat)
  BY <1>2, <1>3, <1>4, <1>5
<1>14. missed' \subseteq {"modules", "native", "targets"}
  BY <1>1
<1>15. missed' \cap {"native", "targets"} = {} => targets' = {Target[l] : l \in native_modules}
  BY <1>8, <1>9
<1> QED BY <1>3, <1>5, <1>7, <1>9, <1>10, <1>11, <1>12, <1>13, <1>14, <1>15

-----------------------------------------------------------------------------
(* The daemon's own state.                                                 *)

ZInv == ZTypeOK /\ events <= reloads

LEMMA Stages ==
    Starting = {"bind", "claim", "prepare", "listen", "root", "scan", "offsets",
                "compat", "wait", "ready"}
<1>1. DOMAIN StartOrder = 1..10
  BY DEF StartOrder
<1>2. /\ StartOrder[1] = "bind" /\ StartOrder[2] = "claim" /\ StartOrder[3] = "prepare"
      /\ StartOrder[4] = "listen" /\ StartOrder[5] = "root" /\ StartOrder[6] = "scan"
      /\ StartOrder[7] = "offsets" /\ StartOrder[8] = "compat" /\ StartOrder[9] = "wait"
      /\ StartOrder[10] = "ready"
  BY DEF StartOrder
<1>3. 1..10 = {1, 2, 3, 4, 5, 6, 7, 8, 9, 10}
  OBVIOUS
<1> QED BY <1>1, <1>2, <1>3 DEF Starting

LEMMA InitZ == ZInit => ZInv
<1> SUFFICES ASSUME ZInit PROVE ZInv
  OBVIOUS
<1>1. /\ gModules \in Seq(Zygisk) /\ gTargets \in Seq(Line) /\ gNative \in Seq(Line \ Compat)
      /\ gCompanions \in Seq(Companion \cup {None})
      /\ gNativeCompanions \in Seq(Companion \cup {None})
  BY DEF ZInit
<1>2. /\ edits \in 0..EditMax /\ reloads \in 0..ReloadMax /\ faults \in 0..FaultMax
      /\ events \in 0..ReloadMax /\ events <= reloads
  <2>1. edits = 0 /\ reloads = 0 /\ faults = 0 /\ events = 0
    BY DEF ZInit
  <2>2. EditMax \in Nat /\ ReloadMax \in Nat /\ FaultMax \in Nat
    BY ZygiskdAssumption
  <2> QED BY <2>1, <2>2
<1>3. disk \subseteq Dir /\ dirty \in BOOLEAN
  BY ZygiskdAssumption DEF ZInit
<1>4. phase \in Starting \cup {"serve", "dead"}
  BY Stages DEF ZInit
<1> QED BY <1>1, <1>2, <1>3, <1>4 DEF ZInit, ZInv, ZTypeOK

\* The end of the process, from whatever stage.
LEMMA GoneType ==
    ASSUME ZInv, ProcessGone, UNCHANGED <<diskVars, kernelVars>>,
           told' \in {"none", "1", "0"},
           compat' \in {"none", "forked", "armed", "exec", "serving", "gone"}
    PROVE  ZInv'
<1>1. /\ gModules' \in Seq(Zygisk) /\ gTargets' \in Seq(Line)
      /\ gNative' \in Seq(Line \ Compat)
      /\ gCompanions' \in Seq(Companion \cup {None})
      /\ gNativeCompanions' \in Seq(Companion \cup {None})
  BY DEF ProcessGone
<1>2. /\ events' \in 0..ReloadMax /\ events' <= reloads'
      /\ phase' \in Starting \cup {"serve", "dead"}
  BY ZygiskdAssumption DEF ProcessGone, diskVars, ZInv, ZTypeOK
<1> QED BY <1>1, <1>2 DEF ProcessGone, diskVars, kernelVars, ZInv, ZTypeOK

LEMMA FailsType ==
    ASSUME ZInv, NEW stage, StartFails(stage),
           compat' \in {"none", "forked", "armed", "exec", "serving", "gone"}
    PROVE  ZInv'
BY GoneType DEF StartFails

LEMMA StartType ==
    ASSUME ZInv, Start
    PROVE  ZInv'
<1>0. compat \in {"none", "forked", "armed", "exec", "serving", "gone"}
  BY DEF ZInv, ZTypeOK
<1> USE Stages DEF ZInv, ZTypeOK, Stage, diskVars, kernelVars, listVars, companionVars
<1>1. CASE bind_listen \/ claim_control_fd
  <2>1. CASE \E stage : StartFails(stage) /\ UNCHANGED compat
    BY <1>0, <2>1, FailsType
  <2>2. CASE ~ \E stage : StartFails(stage) /\ UNCHANGED compat
    BY ZenonT(60), <1>1, <2>2 DEF bind_listen, claim_control_fd
  <2> QED BY <2>1, <2>2
<1>2. CASE PreparePolicy \/ nl_listen \/ RootPolicySetup
  <2>1. CASE \E stage : StartFails(stage) /\ UNCHANGED compat
    BY <1>0, <2>1, FailsType
  <2>2. CASE ~ \E stage : StartFails(stage) /\ UNCHANGED compat
    BY ZenonT(60), <1>2, <2>2 DEF PreparePolicy, nl_listen, RootPolicySetup
  <2> QED BY <2>1, <2>2
<1>3. CASE FirstScan
  BY <1>3, RescanLists DEF FirstScan
<1>4. CASE send_dlopen_offset \/ spawn_compat_daemon
  <2>1. CASE \E stage : StartFails(stage) /\ UNCHANGED compat
    BY <1>0, <2>1, FailsType
  <2>2. CASE ~ \E stage : StartFails(stage) /\ UNCHANGED compat
    BY ZenonT(60), <1>4, <2>2 DEF send_dlopen_offset, spawn_compat_daemon
  <2> QED BY <2>1, <2>2
<1>5. CASE CompatWait \/ DaemonReady
  <2>1. CASE \E stage : StartFails(stage) /\ compat' \in {"none", "gone"}
    BY <2>1, FailsType
  <2>2. CASE ~ \E stage : StartFails(stage) /\ compat' \in {"none", "gone"}
    BY <1>5, <2>2 DEF CompatWait, DaemonReady
  <2> QED BY <2>1, <2>2
<1> QED BY <1>1, <1>2, <1>3, <1>4, <1>5 DEF Start

LEMMA DaemonType ==
    ASSUME ZInv, CompatStep \/ DaemonDies \/ EditDisk \/ Reload \/ nl_drain
    PROVE  ZInv'
<1> USE DEF diskVars, kernelVars, listVars, companionVars, startVars
<1>1. CASE CompatStep
  <2>1. compat' \in {"none", "forked", "armed", "exec", "serving", "gone"}
    BY <1>1 DEF CompatStep, CompatArm, CompatCheckParent, CompatServe
  <2>2. CompatUnchanged
    BY <1>1 DEF CompatStep, CompatArm, CompatCheckParent, CompatServe
  <2> QED BY <2>1, <2>2 DEF CompatUnchanged, ZInv, ZTypeOK
<1>2. CASE DaemonDies
  <2>1. compat' \in {"none", "forked", "armed", "exec", "serving", "gone"} /\ told' = told
    BY <1>2 DEF DaemonDies, ZInv, ZTypeOK
  <2> QED BY <1>2, <2>1, GoneType DEF DaemonDies, ZInv, ZTypeOK
<1>3. CASE EditDisk
  <2>1. /\ edits' \in 0..EditMax /\ disk' \subseteq Dir /\ dirty' \in BOOLEAN
        /\ UNCHANGED <<reloads, faults, startVars, events, kernelVars, compat, listVars,
                       companionVars>>
    BY <1>3, ZygiskdAssumption DEF EditDisk, ZInv, ZTypeOK
  <2> QED BY <2>1 DEF ZInv, ZTypeOK
<1>4. CASE Reload
  <2>1. /\ reloads \in 0..ReloadMax /\ reloads < ReloadMax /\ reloads' = reloads + 1
        /\ faults \in 0..FaultMax /\ events \in 0..ReloadMax /\ events <= reloads
        /\ dirty \in BOOLEAN
    BY <1>4 DEF Reload, ZInv, ZTypeOK
  <2>2. \/ dirty' = FALSE /\ faults' = faults /\ events' \in {events, events + 1}
        \/ /\ faults < FaultMax /\ faults' = faults + 1
           /\ UNCHANGED <<dirty, events>>
    BY <1>4 DEF Reload
  <2>3. reloads' \in 0..ReloadMax /\ faults' \in 0..FaultMax
    BY <2>1, <2>2, ZygiskdAssumption
  <2>4. events' \in 0..ReloadMax /\ events' <= reloads'
    BY <2>1, <2>2, ZygiskdAssumption
  <2>5. dirty' \in BOOLEAN
    BY <2>1, <2>2
  <2>6. UNCHANGED <<disk, edits, startVars, kernelVars, compat, listVars, companionVars>>
    BY <1>4 DEF Reload
  <2> QED BY <2>3, <2>4, <2>5, <2>6 DEF ZInv, ZTypeOK
<1>5. CASE nl_drain
  <2>1. events' \in 0..ReloadMax /\ events' <= reloads
    BY <1>5, ZygiskdAssumption DEF nl_drain, ZInv, ZTypeOK
  <2> QED BY SMTT(40), <1>5, <2>1, RescanLists, ZygiskdAssumption DEF nl_drain, ZInv, ZTypeOK
<1> QED BY <1>1, <1>2, <1>3, <1>4, <1>5

\* A companion table after an ensure step, and whom it may connect.
LEMMA EnsuredType ==
    ASSUME NEW table \in Seq(Companion \cup {None}), NEW list \in Seq(Dir \cup Line),
           NEW i \in DOMAIN list, NEW t \in Ensured(table, list, i)
    PROVE  /\ t \in Seq(Companion \cup {None})
           /\ Len(t) = Len(list)
           /\ Indexed(table, list) => Indexed(t, list)
<1> DEFINE R == Resized(table, list)
<1>1. Len(list) \in Nat /\ Len(table) \in Nat /\ i \in 1..Len(list)
  OBVIOUS
<1>2. R \in Seq(Companion \cup {None}) /\ Len(R) = Len(list)
  <2>1. CASE Len(table) = Len(list)
    BY <2>1 DEF Resized
  <2>2. CASE Len(table) # Len(list)
    <3>1. R = [j \in 1..Len(list) |-> IF j <= Len(table) THEN table[j] ELSE None]
      BY <2>2 DEF Resized
    <3>2. R \in [1..Len(list) -> Companion \cup {None}]
      BY <1>1, <3>1
    <3> HIDE DEF R
    <3> QED BY <1>1, <3>2
  <2> QED BY <2>1, <2>2
<1>3. Indexed(table, list) => Indexed(R, list)
  <2>1. CASE Len(table) = Len(list)
    BY <2>1 DEF Resized
  <2>2. CASE Len(table) # Len(list)
    <3>1. R = [j \in 1..Len(list) |-> IF j <= Len(table) THEN table[j] ELSE None]
      BY <2>2 DEF Resized
    <3> HIDE DEF R
    <3> QED BY <1>1, <3>1 DEF Indexed
  <2> QED BY <2>1, <2>2
<1>4. t = R \/ \E e \in BOOLEAN : t = [R EXCEPT ![i] = [mod |-> list[i], entry |-> e]]
  BY DEF Ensured
<1> HIDE DEF R
<1>5. CASE t = R
  BY <1>2, <1>3, <1>5
<1>6. ASSUME NEW e \in BOOLEAN, t = [R EXCEPT ![i] = [mod |-> list[i], entry |-> e]]
      PROVE  /\ t \in Seq(Companion \cup {None})
             /\ Len(t) = Len(list)
             /\ Indexed(table, list) => Indexed(t, list)
  <2>1. [mod |-> list[i], entry |-> e] \in Companion
    BY <1>1 DEF Companion
  <2>2. t \in Seq(Companion \cup {None}) /\ Len(t) = Len(list)
    BY <1>1, <1>2, <1>6, <2>1
  <2>3. ASSUME Indexed(R, list) PROVE Indexed(t, list)
    <3>1. \A j \in DOMAIN t : j \in DOMAIN R /\ (j # i => t[j] = R[j])
      BY <1>2, <1>6
    <3>2. t[i].mod = list[i]
      BY <1>1, <1>2, <1>6
    <3> QED BY <2>3, <3>1, <3>2 DEF Indexed
  <2> QED BY <1>3, <2>2, <2>3
<1> QED BY <1>4, <1>5, <1>6

LEMMA LinkedPairs ==
    ASSUME NEW pairs, NEW table, NEW i, NEW caller, NEW C \in Linked(pairs, table, i, caller)
    PROVE  C = pairs \/ (table[i] # None /\ C = pairs \cup {<<caller, table[i].mod>>})
BY DEF Linked

-----------------------------------------------------------------------------
(* The handles of a process.                                               *)

Handles == [Proc -> [Native -> Handle \cup {None}]]

\* A handle takes over the position and the companion flag of a description.
LEMMA HandleLocated ==
    ASSUME handles \in Handles, NEW p \in Proc, NEW d \in Native, handles[p][d] # None,
           NEW l, NEW i \in Nat, Located(p, d, l, i)
    PROVE  /\ handles' \in Handles
           /\ \A q \in Proc \ {p} : handles'[q] = handles[q]
           /\ \A e \in Native \ {d} : handles'[p][e] = handles[p][e]
           /\ handles'[p][d] # None
           /\ handles'[p][d].index = i /\ handles'[p][d].lib = handles[p][d].lib
           /\ handles'[p][d].early = handles[p][d].early
           /\ handles'[p][d].reported = handles[p][d].reported
<1> DEFINE c == l \in WithCompanion
           h == [handles[p][d] EXCEPT !.index = i, !.companion = c]
<1>0. c \in BOOLEAN /\ handles' = [handles EXCEPT ![p][d].index = i, ![p][d].companion = c]
  BY DEF Located
<1> HIDE DEF c
<1>1. handles[p] \in [Native -> Handle \cup {None}] /\ handles[p][d] \in Handle
  BY DEF Handles
<1>2. /\ h \in Handle /\ h.index = i /\ h.lib = handles[p][d].lib
      /\ h.early = handles[p][d].early /\ h.reported = handles[p][d].reported
  BY <1>0, <1>1 DEF Handle
<1>3. h # None
  BY <1>2, LoaderAssumption
<1>4. handles' = [handles EXCEPT ![p] = [handles[p] EXCEPT ![d] = h]]
  BY <1>0 DEF Handles
<1> HIDE DEF h
<1>5. [handles[p] EXCEPT ![d] = h] \in [Native -> Handle \cup {None}]
  BY <1>1, <1>2
<1>6. handles' \in Handles /\ handles'[p] = [handles[p] EXCEPT ![d] = h]
      /\ \A q \in Proc \ {p} : handles'[q] = handles[q]
  <2> DEFINE f == [handles[p] EXCEPT ![d] = h]
  <2>1. f \in [Native -> Handle \cup {None}] /\ handles' = [handles EXCEPT ![p] = f]
    BY <1>4, <1>5
  <2> HIDE DEF f
  <2>2. handles' \in Handles /\ handles'[p] = f
        /\ \A q \in Proc \ {p} : handles'[q] = handles[q]
    BY <2>1 DEF Handles
  <2> QED BY <2>2 DEF f
<1>7. handles'[p][d] = h /\ \A e \in Native \ {d} : handles'[p][e] = handles[p][e]
  BY <1>1, <1>6
<1> QED BY <1>2, <1>3, <1>6, <1>7

\* A handle is marked reported.
LEMMA HandleMarked ==
    ASSUME handles \in Handles, NEW p \in Proc, NEW d \in Native, handles[p][d] # None,
           handles' = [handles EXCEPT ![p][d].reported = TRUE]
    PROVE  /\ handles' \in Handles
           /\ \A q \in Proc \ {p} : handles'[q] = handles[q]
           /\ \A e \in Native \ {d} : handles'[p][e] = handles[p][e]
           /\ handles'[p][d] # None
           /\ handles'[p][d].index = handles[p][d].index
           /\ handles'[p][d].lib = handles[p][d].lib
<1> DEFINE h == [handles[p][d] EXCEPT !.reported = TRUE]
<1>1. handles[p] \in [Native -> Handle \cup {None}] /\ handles[p][d] \in Handle
  BY DEF Handles
<1>2. h \in Handle /\ h.index = handles[p][d].index /\ h.lib = handles[p][d].lib
  BY <1>1 DEF Handle
<1>3. h # None
  BY <1>2, LoaderAssumption
<1>4. handles' = [handles EXCEPT ![p] = [handles[p] EXCEPT ![d] = h]]
  BY DEF Handles
<1> HIDE DEF h
<1>5. [handles[p] EXCEPT ![d] = h] \in [Native -> Handle \cup {None}]
  BY <1>1, <1>2
<1>6. handles' \in Handles /\ handles'[p] = [handles[p] EXCEPT ![d] = h]
      /\ \A q \in Proc \ {p} : handles'[q] = handles[q]
  <2> DEFINE f == [handles[p] EXCEPT ![d] = h]
  <2>1. f \in [Native -> Handle \cup {None}] /\ handles' = [handles EXCEPT ![p] = f]
    BY <1>4, <1>5
  <2> HIDE DEF f
  <2>2. handles' \in Handles /\ handles'[p] = f
        /\ \A q \in Proc \ {p} : handles'[q] = handles[q]
    BY <2>1 DEF Handles
  <2> QED BY <2>2 DEF f
<1>7. handles'[p][d] = h /\ \A e \in Native \ {d} : handles'[p][e] = handles[p][e]
  BY <1>1, <1>6
<1> QED BY <1>2, <1>3, <1>6, <1>7

\* The update of LoadModule.
Placed(p, d, h) == handles' = [handles EXCEPT ![p][d] = h]

\* A module gets a handle.
LEMMA HandleSet ==
    ASSUME handles \in Handles, NEW p \in Proc, NEW d \in Native, NEW h \in Handle,
           Placed(p, d, h)
    PROVE  /\ handles' \in Handles
           /\ \A q \in Proc \ {p} : handles'[q] = handles[q]
           /\ \A e \in Native \ {d} : handles'[p][e] = handles[p][e]
           /\ handles'[p][d] = h /\ h # None
<1>1. handles[p] \in [Native -> Handle \cup {None}]
  BY DEF Handles
<1>2. handles' = [handles EXCEPT ![p] = [handles[p] EXCEPT ![d] = h]]
  BY DEF Handles, Placed
<1>3. [handles[p] EXCEPT ![d] = h] \in [Native -> Handle \cup {None}]
  BY <1>1
<1>4. handles' \in Handles /\ handles'[p] = [handles[p] EXCEPT ![d] = h]
      /\ \A q \in Proc \ {p} : handles'[q] = handles[q]
  BY <1>2, <1>3 DEF Handles
<1>5. handles'[p][d] = h /\ \A e \in Native \ {d} : handles'[p][e] = handles[p][e]
  BY <1>1, <1>4
<1> QED BY <1>4, <1>5, LoaderAssumption

\* The early modules get handles without a position, those that have one keep
\* it.
LEMMA HandlesEarly ==
    ASSUME handles \in Handles, NEW p \in Proc, NEW S \in SUBSET Line,
           NEW first \in [Native -> S \cup {None}],
           \A m \in Native : first[m] # None => first[m][1] = m,
           handles' = [handles EXCEPT ![p] =
             [m \in Native |-> IF first[m] # None /\ handles[p][m] = None
                              THEN EarlyHandle(first[m]) ELSE handles[p][m]]]
    PROVE  /\ handles' \in Handles
           /\ \A q \in Proc \ {p} : handles'[q] = handles[q]
           /\ \A m \in Native :
                \/ handles'[p][m] = handles[p][m]
                \/ /\ handles[p][m] = None /\ handles'[p][m] # None
                   /\ handles'[p][m].lib \in S /\ handles'[p][m].lib[1] = m
                   /\ handles'[p][m].index = NoIndex /\ handles'[p][m].reported = FALSE
<1> DEFINE F == [m \in Native |-> IF first[m] # None /\ handles[p][m] = None
                                 THEN EarlyHandle(first[m]) ELSE handles[p][m]]
<1>1. \A l \in S : /\ EarlyHandle(l) \in Handle /\ EarlyHandle(l).lib = l
                   /\ EarlyHandle(l).index = NoIndex /\ EarlyHandle(l).reported = FALSE
  BY DEF EarlyHandle, Handle, NoIndex
<1>2. \A l \in S : EarlyHandle(l) # None
  BY <1>1, LoaderAssumption
<1>3. handles[p] \in [Native -> Handle \cup {None}]
  BY DEF Handles
<1>4. \A m \in Native : first[m] # None => first[m] \in S
  OBVIOUS
<1>5. F \in [Native -> Handle \cup {None}]
  BY <1>1, <1>3, <1>4
<1>6. \A m \in Native : \/ F[m] = handles[p][m]
                        \/ /\ handles[p][m] = None /\ first[m] \in S /\ first[m][1] = m
                           /\ F[m] = EarlyHandle(first[m])
  BY <1>4
<1>7. handles' = [handles EXCEPT ![p] = F]
  OBVIOUS
<1> HIDE DEF F
<1>8. handles' \in Handles /\ handles'[p] = F
      /\ \A q \in Proc \ {p} : handles'[q] = handles[q]
  BY <1>5, <1>7 DEF Handles
<1>9. \A m \in Native :
         \/ handles'[p][m] = handles[p][m]
         \/ /\ handles[p][m] = None /\ handles'[p][m] # None
            /\ handles'[p][m].lib \in S /\ handles'[p][m].lib[1] = m
            /\ handles'[p][m].index = NoIndex /\ handles'[p][m].reported = FALSE
  <2> TAKE m \in Native
  <2>1. CASE F[m] = handles[p][m]
    BY <1>8, <2>1
  <2>2. CASE /\ handles[p][m] = None /\ first[m] \in S /\ first[m][1] = m
             /\ F[m] = EarlyHandle(first[m])
    BY <1>1, <1>2, <1>8, <2>2
  <2> QED BY <1>6, <2>1, <2>2
<1> QED BY <1>8, <1>9

-----------------------------------------------------------------------------
(* Steps of the loader in one process.                                     *)

\* The types of the loader's own state.
LoaderType ==
    /\ snapshot \in {"unread", "disabled", "enabled"}
    /\ pc \in [Proc -> {"none", "generation", "early", "count", "info", "fd",
                        "report", "sync", "restore", "done"}]
    /\ sync \in [Proc -> {"none", "look", "report", "try", "restore", "done",
                          "timedOut"}]
    /\ packet \in [Proc -> SUBSET Snapshot]
    /\ count \in [Proc -> Nat] /\ idx \in [Proc -> Nat]
    /\ info \in [Proc -> Line \cup {None}]
    /\ handles \in Handles
    /\ todo \in [Proc -> SUBSET Native] /\ seek \in [Proc -> Native \cup {None}]
    /\ attempts \in [Proc -> 0..AttemptMax]
    /\ reports \subseteq Proc \X Native
    /\ restores \subseteq Proc

LEMMA TypeParts == TypeOK <=> ZTypeOK /\ LoaderType /\ apps \subseteq Zygisk \X Nat
BY DEF TypeOK, LoaderType, Handles

\* The processes other than p see nothing of its steps.
OthersKept(p) ==
    \A q \in Proc \ {p} :
       /\ pc'[q] = pc[q] /\ sync'[q] = sync[q] /\ packet'[q] = packet[q]
       /\ idx'[q] = idx[q] /\ info'[q] = info[q] /\ handles'[q] = handles[q]
       /\ todo'[q] = todo[q] /\ seek'[q] = seek[q]
       /\ \A m \in Native : <<q, m>> \in reports' <=> <<q, m>> \in reports

LEMMA ProcKept ==
    ASSUME NEW q \in Proc, ThreadInv(q), PositionInv(q), UNCHANGED zvars,
           pc'[q] = pc[q], sync'[q] = sync[q], packet'[q] = packet[q],
           idx'[q] = idx[q], info'[q] = info[q], handles'[q] = handles[q],
           todo'[q] = todo[q], seek'[q] = seek[q],
           \A m \in Native : <<q, m>> \in reports' <=> <<q, m>> \in reports
    PROVE  ThreadInv(q)' /\ PositionInv(q)'
<1>1. UNCHANGED <<phase, gNative, moved>>
  BY DEF zvars, startVars, listVars
<1>2. ThreadInv(q)'
  BY DEF ThreadInv, PendingEarly
<1>3. PositionInv(q)'
  BY <1>1 DEF PositionInv, HandlesSound, ReportsLoaded, At, Holds, Served, Serving
<1> QED BY <1>2, <1>3

LEMMA OwnStep ==
    ASSUME LoaderInv, NEW p \in Proc, UNCHANGED <<zvars, apps>>,
           LoaderType', OthersKept(p), ThreadInv(p)', PositionInv(p)'
    PROVE  LoaderInv'
<1>1. ASSUME NEW q \in Proc PROVE ThreadInv(q)' /\ PositionInv(q)'
  <2>1. CASE q = p
    BY <2>1
  <2>2. CASE q # p
    BY <2>2, ProcKept DEF OthersKept, LoaderInv
  <2> QED BY <2>1, <2>2
<1>2. TypeOK'
  <2>1. ZTypeOK' /\ apps' \subseteq Zygisk \X Nat
    BY DEF LoaderInv, TypeOK, ZTypeOK, zvars, diskVars, startVars, kernelVars, listVars,
       companionVars
  <2> QED BY <2>1 DEF TypeOK, LoaderType, Handles
<1>3. (events <= reloads)' /\ StartInv' /\ ScanInv' /\ TableInv'
  BY DEF LoaderInv, StartInv, ScanInv, TableInv, NoOrphanCompat, needs_compat_daemon,
     native_modules, Served, Serving, zvars, diskVars, startVars, kernelVars, listVars,
     companionVars
<1> QED BY <1>1, <1>2, <1>3 DEF LoaderInv

LEMMA Facts ==
    ASSUME LoaderInv, NEW p \in Proc
    PROVE  /\ ZTypeOK /\ LoaderType /\ ThreadInv(p) /\ PositionInv(p)
           /\ handles[p] \in [Native -> Handle \cup {None}]
           /\ idx[p] \in Nat /\ count[p] \in Nat
           /\ info[p] \in Line \cup {None} /\ seek[p] \in Native \cup {None}
           /\ Len(gNative) \in Nat /\ DOMAIN gNative = 1..Len(gNative)
           /\ \A i \in DOMAIN gNative : gNative[i] \in Line
           /\ None \notin Native /\ None \notin Line
           /\ \A l \in Line : l[1] \in Native
<1>1. ZTypeOK /\ LoaderType /\ ThreadInv(p) /\ PositionInv(p)
  BY TypeParts DEF LoaderInv
<1>2. gNative \in Seq(Line \ Compat)
  BY <1>1 DEF ZTypeOK
<1>3. \A l \in Line : l[1] \in Native
  BY DEF Native
<1>4. None \notin Native
  BY ZygiskdAssumption DEF Native
<1> QED BY <1>1, <1>2, <1>3, <1>4, ZygiskdAssumption DEF LoaderType, Handles

\* Steps that leave the handles, the position and the reports alone, where
\* the threads end up outside of the places that use them.
LEMMA QuietStep ==
    ASSUME LoaderInv, NEW p \in Proc, UNCHANGED <<zvars, apps>>,
           LoaderType', OthersKept(p), ThreadInv(p)',
           UNCHANGED <<handles, reports>>,
           \/ /\ idx'[p] = idx[p] /\ info'[p] = info[p] /\ seek'[p] = seek[p]
              /\ pc'[p] = pc[p] /\ sync'[p] = sync[p]
           \/ pc'[p] \notin {"fd", "report"} /\ sync'[p] # "report"
    PROVE  LoaderInv'
<1>1. UNCHANGED <<phase, gNative, moved>>
  BY DEF zvars, startVars, listVars
<1>2. PositionInv(p)
  BY Facts
<1>3. PositionInv(p)'
  <2>1. /\ ~Served' => /\ pc'[p] \notin {"fd", "report"} /\ sync'[p] # "report"
                       /\ \A m \in Native : handles'[p][m] # None => handles'[p][m].index = NoIndex
    BY <1>1, <1>2 DEF PositionInv, Served
  <2>2. ~moved' /\ pc'[p] \in {"fd", "report"} => At(idx[p], info[p])'
    BY <1>1, <1>2 DEF PositionInv, At, Serving
  <2>3. ~moved' /\ sync'[p] = "report" => Holds(idx[p], seek[p])'
    BY <1>1, <1>2 DEF PositionInv, Holds, Serving
  <2>4. ~moved' => HandlesSound(p)' /\ ReportsLoaded(p)'
    BY <1>1, <1>2 DEF PositionInv, HandlesSound, ReportsLoaded, Holds, Serving
  <2> QED BY <2>1, <2>2, <2>3, <2>4 DEF PositionInv
<1> QED BY <1>3, OwnStep

LEMMA OneThread ==
    ASSUME LoaderInv, NEW p \in Proc
    PROVE  /\ pc[p] \notin {"sync", "restore", "done"} => sync[p] = "none"
           /\ pc[p] = "sync" => sync[p] \in {"none", "look", "report"}
           /\ sync[p] = "try" => pc[p] \in {"restore", "done"}
BY Facts DEF LoaderType, ThreadInv

LEMMA ExecHookInv ==
    ASSUME LoaderInv, NEW p \in Proc, ExecHook(p)
    PROVE  LoaderInv'
<1>1. LoaderType /\ ThreadInv(p) /\ sync[p] = "none" /\ pc[p] = "none"
  BY Facts, OneThread DEF ExecHook
<1>2. /\ snapshot' \in {"unread", "disabled", "enabled"}
      /\ \E s \in {"generation", "done"} : pc' = [pc EXCEPT ![p] = s]
      /\ packet' = packet \/ packet' = [packet EXCEPT ![p] = EarlyFor(p)]
      /\ UNCHANGED <<zvars, sync, count, idx, info, handles, todo, seek, attempts, apps,
                     reports, restores>>
  BY <1>1 DEF ExecHook, zp_load_early_native, LoaderType
<1>3. EarlyFor(p) \in SUBSET Snapshot
  BY DEF EarlyFor
<1>4. LoaderType'
  BY <1>1, <1>2, <1>3 DEF LoaderType
<1>5. OthersKept(p)
  BY <1>1, <1>2 DEF LoaderType, OthersKept
<1>6. packet'[p] \subseteq EarlyFor(p)
  BY <1>1, <1>2 DEF LoaderType, ThreadInv
<1>7. pc'[p] \in {"generation", "done"}
  BY <1>1, <1>2 DEF LoaderType
<1>8. ThreadInv(p)'
  BY <1>1, <1>2, <1>6, <1>7 DEF ThreadInv, PendingEarly, EarlyFor
<1> QED BY <1>1, <1>2, <1>4, <1>5, <1>7, <1>8, QuietStep

LEMMA RequestsInv ==
    ASSUME LoaderInv, NEW p \in Proc, RequestGeneration(p) \/ RequestCount(p)
    PROVE  LoaderInv'
<1>1. /\ LoaderType /\ ThreadInv(p) /\ sync[p] = "none" /\ Len(gNative) \in Nat
      /\ pc[p] \in {"generation", "count"}
  BY Facts, OneThread DEF RequestGeneration, RequestCount
<1>2. /\ \E s \in {"early", "info", "sync"} : pc' = [pc EXCEPT ![p] = s]
      /\ UNCHANGED <<zvars, snapshot, sync, packet, info, handles, todo, seek, attempts, apps,
                     reports, restores>>
  BY DEF RequestGeneration, RequestCount, Go
<1>3. /\ count' = count \/ count' = [count EXCEPT ![p] = Len(gNative)]
      /\ idx' = idx \/ idx' = [idx EXCEPT ![p] = 1]
  BY DEF RequestGeneration, RequestCount
<1>4. pc'[p] \in {"early", "info", "sync"}
  BY <1>1, <1>2 DEF LoaderType
<1>5. count' \in [Proc -> Nat] /\ idx' \in [Proc -> Nat]
  <2>1. count' \in [Proc -> Nat]
    BY <1>1, <1>3 DEF LoaderType
  <2>2. idx' \in [Proc -> Nat]
    BY <1>1, <1>3 DEF LoaderType
  <2> QED BY <2>1, <2>2
<1>6. LoaderType'
  BY <1>1, <1>2, <1>5 DEF LoaderType
<1>7. OthersKept(p)
  BY <1>1, <1>2, <1>3 DEF LoaderType, OthersKept
<1>8. ThreadInv(p)'
  BY <1>1, <1>2, <1>4 DEF ThreadInv, PendingEarly
<1> QED BY <1>1, <1>2, <1>4, <1>6, <1>7, <1>8, QuietStep

\* A pass begins or ends at once; either way it touches no handle.
LEMMA PassBeginsStep ==
    ASSUME LoaderInv, NEW p \in Proc, PassBegins(p)
    PROVE  /\ \/ sync' = [sync EXCEPT ![p] = "look"] /\ pc' = pc
              \/ /\ Inline(p) /\ pc' = [pc EXCEPT ![p] = "restore"]
                 /\ \E s \in {"none", "try"} : sync' = [sync EXCEPT ![p] = s]
              \/ ~Inline(p) /\ pc' = pc /\ sync' = [sync EXCEPT ![p] = "try"]
           /\ \/ UNCHANGED <<count, todo>>
              \/ /\ count' = [count EXCEPT ![p] = Len(gNative)]
                 /\ todo' = [todo EXCEPT ![p] = PendingEarly(p)]
<1>1. LoaderType
  BY Facts
<1>2. CASE Serving /\ GoS(p, "look")
  BY <1>1, <1>2 DEF PassBegins, GoS, LoaderType, Refused, Bound, Serving
<1>3. CASE Refused /\ PassEnds(p) /\ UNCHANGED <<count, todo>>
  <2>1. CASE Inline(p)
    BY <1>1, <1>3, <2>1 DEF PassEnds, GoS, Go, LoaderType
  <2>2. CASE ~Inline(p)
    BY <1>1, <1>3, <2>2 DEF PassEnds, GoS, Go, LoaderType
  <2> QED BY <2>1, <2>2
<1> QED BY <1>2, <1>3 DEF PassBegins

LEMMA SyncInv ==
    ASSUME LoaderInv, NEW p \in Proc, MaybeStartSync(p) \/ DeferredSync(p)
    PROVE  LoaderInv'
<1>1. /\ LoaderType /\ ThreadInv(p) /\ Len(gNative) \in Nat
      /\ PendingEarly(p) \in SUBSET Native
  BY Facts DEF PendingEarly
<1>2. \/ pc[p] = "sync" /\ sync[p] = "none"
      \/ sync[p] = "try" /\ pc[p] \in {"restore", "done"}
  BY OneThread DEF MaybeStartSync, DeferredSync, Inline
<1>3. /\ UNCHANGED <<zvars, snapshot, packet, idx, info, handles, seek, apps, reports,
                     restores>>
      /\ \/ attempts' = attempts
         \/ attempts[p] < AttemptMax /\ attempts' = [attempts EXCEPT ![p] = @ + 1]
      /\ \/ UNCHANGED <<count, todo>>
         \/ /\ count' = [count EXCEPT ![p] = Len(gNative)]
            /\ todo' = [todo EXCEPT ![p] = PendingEarly(p)]
  BY PassBeginsStep DEF MaybeStartSync, DeferredSync
<1>4. /\ pc' = pc \/ pc' = [pc EXCEPT ![p] = "restore"]
      /\ \/ sync' = sync
         \/ \E s \in {"none", "look", "try", "restore", "timedOut"} :
               sync' = [sync EXCEPT ![p] = s]
  BY PassBeginsStep DEF MaybeStartSync, DeferredSync, Go, GoS
<1>5. /\ sync'[p] \in {"none", "look", "try", "restore", "timedOut"}
      /\ sync'[p] \in {"try", "restore", "timedOut"} => pc'[p] \in {"restore", "done"}
      /\ pc'[p] \in {"sync", "restore", "done"}
      /\ sync'[p] = "restore" => PendingEarly(p) = {}
  <2>1. CASE PassBegins(p)
    BY <1>1, <1>2, <2>1, PassBeginsStep DEF LoaderType, Inline
  <2>2. CASE MaybeStartSync(p) /\ ~PassBegins(p)
    BY <1>1, <1>2, <2>2 DEF MaybeStartSync, Go, GoS, LoaderType, Inline
  <2>3. CASE DeferredSync(p) /\ ~PassBegins(p)
    BY <1>1, <1>2, <2>3 DEF DeferredSync, Go, GoS, LoaderType
  <2> QED BY <2>1, <2>2, <2>3
<1>6. attempts' \in [Proc -> 0..AttemptMax]
  <2>1. attempts \in [Proc -> 0..AttemptMax]
    BY <1>1 DEF LoaderType
  <2>2. attempts[p] < AttemptMax => attempts[p] + 1 \in 0..AttemptMax
    BY <2>1, LoaderAssumption
  <2> QED BY <1>3, <2>1, <2>2
<1>7. count' \in [Proc -> Nat] /\ todo' \in [Proc -> SUBSET Native]
  <2>1. count' \in [Proc -> Nat]
    BY ZenonT(60), <1>1, <1>3 DEF LoaderType
  <2>2. todo' \in [Proc -> SUBSET Native]
    BY ZenonT(60), <1>1, <1>3 DEF LoaderType
  <2> QED BY <2>1, <2>2
<1>8. LoaderType'
  <2>1. pc' \in [Proc -> {"none", "generation", "early", "count", "info", "fd",
                          "report", "sync", "restore", "done"}]
    BY <1>1, <1>4 DEF LoaderType
  <2>2. sync' \in [Proc -> {"none", "look", "report", "try", "restore", "done", "timedOut"}]
    BY <1>1, <1>4 DEF LoaderType
  <2> QED BY <1>1, <1>3, <1>6, <1>7, <2>1, <2>2 DEF LoaderType
<1>9. OthersKept(p)
  BY <1>1, <1>3, <1>4 DEF LoaderType, OthersKept
<1>10. PendingEarly(p)' = PendingEarly(p) /\ \A d \in todo'[p] : handles'[p][d] # None
  BY <1>1, <1>3 DEF PendingEarly, ThreadInv, LoaderType
<1>11. ThreadInv(p)'
  BY <1>1, <1>3, <1>5, <1>10 DEF ThreadInv, EarlyFor
<1> QED BY <1>1, <1>3, <1>5, <1>8, <1>9, <1>11, QuietStep

LEMMA RestoreInv ==
    ASSUME LoaderInv, NEW p \in Proc, Restore(p) \/ DeferredRestore(p)
    PROVE  LoaderInv'
<1>1. LoaderType /\ ThreadInv(p)
  BY Facts
<1>2. /\ restores' \subseteq Proc
      /\ UNCHANGED <<zvars, snapshot, packet, count, idx, info, handles, todo, seek,
                     attempts, apps, reports>>
      /\ \/ pc[p] = "restore" /\ pc' = [pc EXCEPT ![p] = "done"] /\ sync' = sync
         \/ sync[p] = "restore" /\ sync' = [sync EXCEPT ![p] = "done"] /\ pc' = pc
  BY <1>1 DEF Restore, DeferredRestore, restore_native_load_policy, Go, GoS, LoaderType
<1>3. LoaderType'
  BY <1>1, <1>2 DEF LoaderType
<1>4. OthersKept(p)
  BY <1>1, <1>2 DEF LoaderType, OthersKept
<1>5. \/ pc[p] = "restore" /\ pc'[p] = "done" /\ sync'[p] = sync[p]
      \/ sync[p] = "restore" /\ sync'[p] = "done" /\ pc'[p] = pc[p]
  BY <1>1, <1>2 DEF LoaderType
<1>6. ThreadInv(p)'
  BY <1>1, <1>2, <1>5 DEF ThreadInv, PendingEarly
<1>7. PositionInv(p)'
  <2>1. UNCHANGED <<phase, gNative, moved, handles, idx, info, seek, reports>>
    BY <1>2 DEF zvars, startVars, listVars
  <2>2. PositionInv(p)
    BY Facts
  <2> QED BY <1>5, <2>1, <2>2 DEF PositionInv, HandlesSound, ReportsLoaded, At, Holds, Served,
      Serving
<1> QED BY <1>2, <1>3, <1>4, <1>6, <1>7, OwnStep

\* The modules of the packet match the process, and have no position yet.
LEMMA LoadEarlyInv ==
    ASSUME LoaderInv, NEW p \in Proc, LoadEarly(p)
    PROVE  LoaderInv'
<1>1. /\ LoaderType /\ ThreadInv(p) /\ PositionInv(p) /\ sync[p] = "none"
      /\ handles \in Handles
  BY Facts, OneThread DEF LoadEarly, LoaderType
<1>2. /\ packet' = [packet EXCEPT ![p] = {}] /\ pc' = [pc EXCEPT ![p] = "count"]
      /\ UNCHANGED <<zvars, snapshot, sync, count, idx, info, todo, seek, attempts, apps,
                     reports, restores>>
  BY DEF LoadEarly, Go
<1>3. PICK first \in [Native -> packet[p] \cup {None}] :
         /\ \A m \in Native : first[m] # None => first[m][1] = m
         /\ handles' = [handles EXCEPT ![p] =
              [m \in Native |-> IF first[m] # None /\ handles[p][m] = None
                               THEN EarlyHandle(first[m]) ELSE handles[p][m]]]
  BY DEF LoadEarly
<1>4. packet[p] \subseteq Line /\ packet[p] \subseteq Wanted(p)
  BY <1>1, LoaderAssumption DEF LoaderType, ThreadInv, EarlyFor, Wanted
<1>5. /\ handles' \in Handles
      /\ \A q \in Proc \ {p} : handles'[q] = handles[q]
      /\ \A m \in Native :
           \/ handles'[p][m] = handles[p][m]
           \/ /\ handles[p][m] = None /\ handles'[p][m] # None
              /\ handles'[p][m].lib \in packet[p] /\ handles'[p][m].lib[1] = m
              /\ handles'[p][m].index = NoIndex /\ handles'[p][m].reported = FALSE
  BY <1>1, <1>3, <1>4, HandlesEarly
<1>6. pc'[p] = "count" /\ sync'[p] = "none" /\ packet'[p] = {}
      /\ \A q \in Proc \ {p} : pc'[q] = pc[q] /\ packet'[q] = packet[q]
  BY <1>1, <1>2 DEF LoaderType
<1>7. LoaderType'
  BY <1>1, <1>2, <1>5 DEF LoaderType
<1>8. OthersKept(p)
  BY <1>2, <1>5, <1>6 DEF OthersKept
<1>9. ThreadInv(p)'
  <2>1. todo'[p] = todo[p] /\ todo[p] \subseteq Native
    BY <1>1, <1>2 DEF LoaderType
  <2>2. \A d \in todo'[p] : handles'[p][d] # None
    BY <1>1, <1>5, <2>1 DEF ThreadInv
  <2>3. seek'[p] # None => handles'[p][seek'[p]] # None
    BY <1>1, <1>2, <1>5 DEF ThreadInv, LoaderType
  <2> QED BY <1>6, <2>2, <2>3 DEF ThreadInv
<1>10. PositionInv(p)'
  <2>1. UNCHANGED <<phase, gNative, moved, reports>>
    BY <1>2 DEF zvars, startVars, listVars
  <2>2. ~moved => HandlesSound(p)'
    BY <1>1, <1>4, <1>5, <2>1 DEF PositionInv, HandlesSound, Holds, Serving
  <2>3. ~moved => ReportsLoaded(p)'
    BY <1>1, <1>5, <2>1 DEF PositionInv, ReportsLoaded
  <2> QED BY <1>1, <1>5, <1>6, <2>1, <2>2, <2>3 DEF PositionInv, Served
<1> QED BY <1>2, <1>7, <1>8, <1>9, <1>10, OwnStep

\* GetNativeModuleFd: as long as the list did not move, the image at the
\* position is that of the module described before.
LEMMA LoadModuleInv ==
    ASSUME LoaderInv, NEW p \in Proc, LoadModule(p)
    PROVE  LoaderInv'
<1>1. /\ LoaderType /\ ThreadInv(p) /\ PositionInv(p) /\ sync[p] = "none" /\ pc[p] = "fd"
      /\ handles \in Handles /\ info[p] \in Line /\ info[p][1] \in Native /\ idx[p] \in Nat
      /\ Served /\ info[p] \in Wanted(p)
  BY Facts, OneThread DEF LoadModule, LoaderType, ThreadInv, PositionInv
<1>2. /\ UNCHANGED <<zvars, snapshot, sync, packet, count, todo, seek, attempts, apps,
                     reports, restores>>
      /\ UNCHANGED <<phase, gNative, moved>>
  BY DEF LoadModule, zvars, startVars, listVars
<1>3. CASE /\ Serving /\ Image(idx[p]) # None
           /\ handles' = [handles EXCEPT ![p][info[p][1]] =
                [lib |-> Image(idx[p]), index |-> idx[p], early |-> FALSE,
                 companion |-> info[p] \in WithCompanion, reported |-> FALSE]]
           /\ Go(p, "report") /\ UNCHANGED <<idx, info>>
  <2> DEFINE h == [lib |-> Image(idx[p]), index |-> idx[p], early |-> FALSE,
                   companion |-> info[p] \in WithCompanion, reported |-> FALSE]
             d == info[p][1]
  <2>1. idx[p] \in DOMAIN gNative /\ Image(idx[p]) = gNative[idx[p]] /\ Image(idx[p]) \in Line
    BY <1>3, Facts DEF Image
  <2>2. /\ h \in Handle /\ h.lib = gNative[idx[p]] /\ h.index = idx[p]
        /\ h.reported = FALSE
    BY <1>1, <2>1 DEF Handle
  <2>3. Placed(p, d, h) /\ d \in Native
    BY <1>1, <1>3 DEF Placed
  <2> HIDE DEF h, d
  <2>4. /\ handles' \in Handles
        /\ \A q \in Proc \ {p} : handles'[q] = handles[q]
        /\ \A e \in Native \ {d} : handles'[p][e] = handles[p][e]
        /\ handles'[p][d] = h /\ h # None
    BY <1>1, <2>2, <2>3, HandleSet
  <2>5. pc'[p] = "report" /\ \A q \in Proc \ {p} : pc'[q] = pc[q]
    BY <1>1, <1>3 DEF Go, LoaderType
  <2>6. LoaderType'
    BY <1>1, <1>2, <1>3, <2>4 DEF LoaderType, Go
  <2>7. OthersKept(p)
    BY <1>2, <1>3, <2>4, <2>5 DEF OthersKept
  <2>8. ThreadInv(p)'
    <3>1. todo'[p] = todo[p] /\ todo[p] \subseteq Native
      BY <1>1, <1>2 DEF LoaderType
    <3>2. \A e \in todo'[p] : handles'[p][e] # None
      BY <1>1, <2>4, <3>1 DEF ThreadInv
    <3>3. info'[p] = info[p] /\ info[p] # None /\ sync'[p] = "none" /\ packet'[p] = packet[p]
      BY <1>1, <1>2, <1>3, Facts
    <3>4. handles'[p][info'[p][1]] # None
      BY <2>4, <3>3 DEF d
    <3>5. seek'[p] # None => handles'[p][seek'[p]] # None
      BY <1>1, <1>2, <2>4 DEF ThreadInv, LoaderType
    <3> QED BY <1>1, <2>5, <3>2, <3>3, <3>4, <3>5 DEF ThreadInv, EarlyFor
  <2>9. PositionInv(p)'
    <3>1. ~moved => At(idx[p], info[p]) /\ HandlesSound(p) /\ ReportsLoaded(p)
      BY <1>1 DEF PositionInv
    <3>2. ~moved => h.lib = info[p] /\ Holds(idx[p], d)
      BY <1>3, <2>2, <3>1 DEF At, Holds, d
    <3>3. At(idx[p], info[p])' <=> At(idx[p], info[p])
      BY <1>2, <1>3 DEF At, Serving
    <3>4. \A i, m : Holds(i, m)' <=> Holds(i, m)
      BY <1>2 DEF Holds, Serving
    <3>5. Served' /\ sync'[p] = "none"
      BY <1>1, <1>2 DEF Served
    <3>6. ~moved => HandlesSound(p)'
      <4> SUFFICES ASSUME ~moved, NEW m \in Native, handles'[p][m] # None
                   PROVE  /\ handles'[p][m].lib[1] = m /\ handles'[p][m].lib \in Wanted(p)
                          /\ handles'[p][m].index # NoIndex => Holds(handles'[p][m].index, m)
                          /\ handles'[p][m].early /\ handles'[p][m].reported =>
                               <<p, m>> \in reports
        BY <1>2, <3>4 DEF HandlesSound, Wanted
      <4>1. CASE m = d
        <5>1. handles'[p][m] = h
          BY <2>4, <4>1
        <5>2. h.lib[1] = m /\ h.lib \in Wanted(p)
          BY <1>1, <3>2, <4>1 DEF d
        <5> QED BY <2>2, <3>2, <4>1, <5>1, <5>2
      <4>2. CASE m # d
        BY <2>4, <3>1, <4>2 DEF HandlesSound
      <4> QED BY <4>1, <4>2
    <3>7. ~moved => ReportsLoaded(p)'
      BY <1>2, <2>4, <3>1 DEF ReportsLoaded
    <3> QED BY <1>2, <3>1, <3>3, <3>5, <3>6, <3>7 DEF PositionInv
  <2> QED BY <1>2, <2>6, <2>7, <2>8, <2>9, OwnStep
<1>4. CASE /\ info' = [info EXCEPT ![p] = None]
           /\ Go(p, "info") /\ NextIndex(p) /\ UNCHANGED handles
  <2>1. /\ pc'[p] = "info"
        /\ \A q \in Proc \ {p} : pc'[q] = pc[q] /\ idx'[q] = idx[q] /\ info'[q] = info[q]
    BY <1>1, <1>4 DEF Go, NextIndex, LoaderType
  <2>2. idx' \in [Proc -> Nat] /\ info' \in [Proc -> Line \cup {None}]
    BY <1>1, <1>4 DEF NextIndex, LoaderType
  <2>3. LoaderType'
    BY <1>1, <1>2, <1>4, <2>2 DEF LoaderType, Go
  <2>4. OthersKept(p)
    BY <1>2, <1>4, <2>1 DEF OthersKept
  <2>5. ThreadInv(p)'
    BY <1>1, <1>2, <1>4, <2>1 DEF ThreadInv, PendingEarly, EarlyFor
  <2> QED BY <1>1, <1>2, <1>4, <2>1, <2>3, <2>4, <2>5, QuietStep
<1> QED BY <1>3, <1>4 DEF LoadModule

\* A report names the module at the position, which is the one asked about as
\* long as the list did not move, and marks its handle; or it fails.
LEMMA ReportedStep ==
    ASSUME LoaderInv, NEW p \in Proc, NEW d \in Native, handles[p][d] # None,
           ~moved => Holds(idx[p], d), Reported(p, d, idx[p]),
           UNCHANGED <<phase, gNative, moved>>
    PROVE  /\ handles' \in Handles
           /\ reports' \subseteq Proc \X Native
           /\ \A q \in Proc \ {p} : /\ handles'[q] = handles[q]
                                    /\ \A m \in Native : <<q, m>> \in reports' <=> <<q, m>> \in reports
           /\ \A m \in Native :
                /\ handles[p][m] # None <=> handles'[p][m] # None
                /\ handles[p][m] # None => handles'[p][m].index = handles[p][m].index
           /\ ~moved => HandlesSound(p)' /\ ReportsLoaded(p)'
<1>1. /\ LoaderType /\ PositionInv(p) /\ handles \in Handles
      /\ reports \subseteq Proc \X Native
  BY Facts DEF LoaderType
<1>2. \A i, m : Holds(i, m)' <=> Holds(i, m)
  BY DEF Holds, Serving
<1>3. CASE UNCHANGED <<reports, handles>>
  BY <1>1, <1>2, <1>3 DEF PositionInv, HandlesSound, ReportsLoaded
<1>4. CASE ~ UNCHANGED <<reports, handles>>
  <2> DEFINE m == gNative[idx[p]][1]
  <2>1. /\ Serving /\ idx[p] \in DOMAIN gNative
        /\ reports' = reports \cup {<<p, m>>}
        /\ handles' = [handles EXCEPT ![p][d].reported = TRUE] \/ handles' = handles
    BY <1>4 DEF Reported
  <2>2. m \in Native
    BY <2>1, Facts
  <2>3. ~moved => m = d
    BY <2>1 DEF Holds
  <2> HIDE DEF m
  <2>4. /\ handles' \in Handles
        /\ \A q \in Proc \ {p} : handles'[q] = handles[q]
        /\ \A e \in Native \ {d} : handles'[p][e] = handles[p][e]
        /\ handles'[p][d] # None
        /\ handles'[p][d].index = handles[p][d].index
        /\ handles'[p][d].lib = handles[p][d].lib
    <3>1. CASE handles' = handles
      BY <1>1, <3>1
    <3>2. CASE handles' = [handles EXCEPT ![p][d].reported = TRUE]
      BY <1>1, <3>2, HandleMarked
    <3> QED BY <2>1, <3>1, <3>2
  <2>5. reports' \subseteq Proc \X Native
    BY <1>1, <2>1, <2>2
  <2>6. \A q \in Proc \ {p} : \A e \in Native : <<q, e>> \in reports' <=> <<q, e>> \in reports
    BY <2>1
  <2>7. ~moved => HandlesSound(p)'
    <3> SUFFICES ASSUME ~moved, NEW e \in Native, handles'[p][e] # None
                 PROVE  /\ handles'[p][e].lib[1] = e /\ handles'[p][e].lib \in Wanted(p)
                        /\ handles'[p][e].index # NoIndex => Holds(handles'[p][e].index, e)
                        /\ handles'[p][e].early /\ handles'[p][e].reported =>
                             <<p, e>> \in reports'
      BY <1>2 DEF HandlesSound, Wanted
    <3>1. HandlesSound(p)
      BY <1>1 DEF PositionInv
    <3>2. CASE e = d
      <4>1. <<p, e>> \in reports'
        BY <2>1, <2>3, <3>2
      <4> QED BY ZenonT(60), <2>4, <3>1, <3>2, <4>1 DEF HandlesSound
    <3>3. CASE e # d
      BY <2>1, <2>4, <3>1, <3>3 DEF HandlesSound
    <3> QED BY <3>2, <3>3
  <2>8. ~moved => ReportsLoaded(p)'
    <3> SUFFICES ASSUME ~moved, NEW e \in Native, <<p, e>> \in reports'
                 PROVE  handles'[p][e] # None
      BY DEF ReportsLoaded
    <3>1. ReportsLoaded(p)
      BY <1>1 DEF PositionInv
    <3>2. <<p, e>> \in reports \/ e = d
      BY <2>1, <2>3
    <3> QED BY <2>4, <3>1, <3>2 DEF ReportsLoaded
  <2> QED BY <2>4, <2>5, <2>6, <2>7, <2>8
<1> QED BY <1>3, <1>4

LEMMA ReportInv ==
    ASSUME LoaderInv, NEW p \in Proc, Report(p)
    PROVE  LoaderInv'
<1> DEFINE d == info[p][1]
<1>1. /\ LoaderType /\ ThreadInv(p) /\ PositionInv(p) /\ sync[p] = "none" /\ pc[p] = "report"
      /\ info[p] \in Line /\ d \in Native /\ handles[p][d] # None /\ Served /\ idx[p] \in Nat
      /\ ~moved => At(idx[p], info[p])
      /\ Reported(p, d, idx[p])
  BY Facts, OneThread DEF Report, ThreadInv, PositionInv
<1>2. /\ UNCHANGED <<zvars, snapshot, sync, packet, count, todo, seek, attempts, apps,
                     restores>>
      /\ UNCHANGED <<phase, gNative, moved>>
      /\ pc' = [pc EXCEPT ![p] = "info"] /\ idx' = [idx EXCEPT ![p] = @ + 1]
      /\ info' = [info EXCEPT ![p] = None]
  BY DEF Report, Go, NextIndex, zvars, startVars, listVars
<1>3. ~moved => Holds(idx[p], d)
  BY <1>1 DEF At, Holds
<1> HIDE DEF d
<1>4. /\ handles' \in Handles
      /\ reports' \subseteq Proc \X Native
      /\ \A q \in Proc \ {p} : /\ handles'[q] = handles[q]
                               /\ \A m \in Native : <<q, m>> \in reports' <=> <<q, m>> \in reports
      /\ \A m \in Native :
           /\ handles[p][m] # None <=> handles'[p][m] # None
           /\ handles[p][m] # None => handles'[p][m].index = handles[p][m].index
      /\ ~moved => HandlesSound(p)' /\ ReportsLoaded(p)'
  BY <1>1, <1>2, <1>3, ReportedStep
<1>5. /\ pc'[p] = "info" /\ sync'[p] = "none"
      /\ \A q \in Proc \ {p} : pc'[q] = pc[q] /\ idx'[q] = idx[q] /\ info'[q] = info[q]
  BY <1>1, <1>2 DEF LoaderType
<1>6. idx' \in [Proc -> Nat] /\ info' \in [Proc -> Line \cup {None}]
  BY <1>1, <1>2 DEF LoaderType
<1>7. LoaderType'
  BY <1>1, <1>2, <1>4, <1>6 DEF LoaderType
<1>8. OthersKept(p)
  BY <1>2, <1>4, <1>5 DEF OthersKept
<1>9. ThreadInv(p)'
  <2>1. todo'[p] = todo[p] /\ todo[p] \subseteq Native /\ packet'[p] = packet[p]
    BY <1>1, <1>2 DEF LoaderType
  <2>2. \A m \in todo'[p] : handles'[p][m] # None
    BY <1>1, <1>4, <2>1 DEF ThreadInv
  <2>3. seek'[p] # None => handles'[p][seek'[p]] # None
    BY <1>1, <1>2, <1>4 DEF ThreadInv, LoaderType
  <2> QED BY <1>1, <1>5, <2>1, <2>2, <2>3 DEF ThreadInv, EarlyFor
<1>10. PositionInv(p)'
  <2>1. Served'
    BY <1>1, <1>2 DEF Served
  <2> QED BY <1>2, <1>4, <1>5, <2>1 DEF PositionInv
<1> QED BY <1>2, <1>7, <1>8, <1>9, <1>10, OwnStep

LEMMA SyncReportInv ==
    ASSUME LoaderInv, NEW p \in Proc, SyncReport(p)
    PROVE  LoaderInv'
<1>1. /\ LoaderType /\ ThreadInv(p) /\ PositionInv(p) /\ sync[p] = "report"
      /\ pc[p] \in {"sync", "restore", "done"}
      /\ seek[p] \in Native /\ handles[p][seek[p]] # None /\ Served /\ idx[p] \in Nat
      /\ ~moved => Holds(idx[p], seek[p])
      /\ Reported(p, seek[p], idx[p])
  BY Facts DEF SyncReport, ThreadInv, PositionInv
<1>2. /\ UNCHANGED <<zvars, snapshot, pc, packet, count, idx, info, todo, attempts, apps,
                     restores>>
      /\ UNCHANGED <<phase, gNative, moved>>
      /\ sync' = [sync EXCEPT ![p] = "look"] /\ seek' = [seek EXCEPT ![p] = None]
  BY DEF SyncReport, GoS, zvars, startVars, listVars
<1>3. /\ handles' \in Handles
      /\ reports' \subseteq Proc \X Native
      /\ \A q \in Proc \ {p} : /\ handles'[q] = handles[q]
                               /\ \A m \in Native : <<q, m>> \in reports' <=> <<q, m>> \in reports
      /\ \A m \in Native :
           /\ handles[p][m] # None <=> handles'[p][m] # None
           /\ handles[p][m] # None => handles'[p][m].index = handles[p][m].index
      /\ ~moved => HandlesSound(p)' /\ ReportsLoaded(p)'
  BY <1>1, <1>2, ReportedStep
<1>4. /\ sync'[p] = "look" /\ seek'[p] = None /\ pc'[p] \notin {"fd", "report"}
      /\ \A q \in Proc \ {p} : sync'[q] = sync[q] /\ seek'[q] = seek[q]
  BY <1>1, <1>2 DEF LoaderType
<1>5. seek' \in [Proc -> Native \cup {None}] /\ sync' \in [Proc -> {"none", "look", "report",
                                  "try", "restore", "done", "timedOut"}]
  BY <1>1, <1>2 DEF LoaderType
<1>6. LoaderType'
  BY <1>1, <1>2, <1>3, <1>5 DEF LoaderType
<1>7. OthersKept(p)
  BY <1>2, <1>3, <1>4 DEF OthersKept
<1>8. ThreadInv(p)'
  <2>1. todo'[p] = todo[p] /\ todo[p] \subseteq Native /\ packet'[p] = packet[p]
    BY <1>1, <1>2 DEF LoaderType
  <2>2. \A m \in todo'[p] : handles'[p][m] # None
    BY <1>1, <1>3, <2>1 DEF ThreadInv
  <2> QED BY <1>1, <1>2, <1>4, <2>1, <2>2 DEF ThreadInv, EarlyFor
<1>9. PositionInv(p)'
  <2>1. Served'
    BY <1>1, <1>2 DEF Served
  <2> QED BY <1>2, <1>3, <1>4, <2>1 DEF PositionInv
<1> QED BY <1>2, <1>6, <1>7, <1>8, <1>9, OwnStep

\* A handle takes over the position at which its module is listed now.
LEMMA LocatedStep ==
    ASSUME LoaderInv, NEW p \in Proc, NEW d \in Native, handles[p][d] # None,
           NEW i \in DOMAIN gNative, gNative[i][1] = d, NEW l,
           Located(p, d, l, i), UNCHANGED <<phase, gNative, moved, reports>>
    PROVE  /\ handles' \in Handles
           /\ \A q \in Proc \ {p} : handles'[q] = handles[q]
           /\ \A e \in Native : handles[p][e] # None <=> handles'[p][e] # None
           /\ ~moved => HandlesSound(p)' /\ ReportsLoaded(p)'
<1>1. /\ LoaderType /\ PositionInv(p) /\ handles \in Handles /\ i \in Nat
  BY Facts DEF LoaderType
<1>2. /\ handles' \in Handles
      /\ \A q \in Proc \ {p} : handles'[q] = handles[q]
      /\ \A e \in Native \ {d} : handles'[p][e] = handles[p][e]
      /\ handles'[p][d] # None
      /\ handles'[p][d].index = i /\ handles'[p][d].lib = handles[p][d].lib
      /\ handles'[p][d].early = handles[p][d].early
      /\ handles'[p][d].reported = handles[p][d].reported
  BY <1>1, HandleLocated
<1>3. \A e \in Native : handles[p][e] # None <=> handles'[p][e] # None
  BY <1>2
<1>4. \A j, m : Holds(j, m)' <=> Holds(j, m)
  BY DEF Holds, Serving
<1>5. ~moved => HandlesSound(p)'
  <2> SUFFICES ASSUME ~moved, NEW e \in Native, handles'[p][e] # None
               PROVE  /\ handles'[p][e].lib[1] = e /\ handles'[p][e].lib \in Wanted(p)
                      /\ handles'[p][e].index # NoIndex => Holds(handles'[p][e].index, e)
                      /\ handles'[p][e].early /\ handles'[p][e].reported => <<p, e>> \in reports
    BY <1>4 DEF HandlesSound, Wanted
  <2>1. HandlesSound(p)
    BY <1>1 DEF PositionInv
  <2>2. CASE e = d
    <3>1. Holds(i, d)
      BY DEF Holds
    <3> QED BY <1>2, <2>1, <2>2, <3>1 DEF HandlesSound
  <2>3. CASE e # d
    BY <1>2, <2>1, <2>3 DEF HandlesSound
  <2> QED BY <2>2, <2>3
<1>6. ~moved => ReportsLoaded(p)'
  BY <1>1, <1>3 DEF PositionInv, ReportsLoaded
<1> QED BY <1>2, <1>3, <1>5, <1>6

LEMMA DescribedAt ==
    ASSUME LoaderInv, NEW i, NEW l, l # None, Described(i) = l
    PROVE  i \in DOMAIN gNative /\ gNative[i] = l /\ At(i, l)
BY DEF Described, At

\* GetNativeModuleInfo, for the position the loop is at.
LEMMA RequestInfoInv ==
    ASSUME LoaderInv, NEW p \in Proc, RequestInfo(p)
    PROVE  LoaderInv'
<1>1. /\ LoaderType /\ ThreadInv(p) /\ PositionInv(p) /\ sync[p] = "none" /\ pc[p] = "info"
      /\ handles \in Handles /\ idx[p] \in Nat /\ None \notin Line
      /\ \A l \in Line : l[1] \in Native
  BY Facts, OneThread DEF RequestInfo, LoaderType
<1>2. /\ UNCHANGED <<zvars, snapshot, sync, packet, todo, seek, attempts, apps, reports,
                     restores>>
      /\ UNCHANGED <<phase, gNative, moved>>
  BY DEF RequestInfo, zvars, startVars, listVars
<1>3. todo'[p] = todo[p] /\ todo[p] \subseteq Native /\ packet'[p] = packet[p]
  BY <1>1, <1>2 DEF LoaderType
<1>4. \A i, l : At(i, l)' <=> At(i, l)
  BY <1>2 DEF At, Serving
<1>5. CASE Go(p, "sync") /\ LoopEnds(p) /\ UNCHANGED <<info, handles>>
  <2>1. /\ pc'[p] = "sync"
        /\ \A q \in Proc \ {p} : pc'[q] = pc[q] /\ idx'[q] = idx[q]
    BY <1>1, <1>5 DEF Go, LoopEnds, LoaderType
  <2>2. idx' \in [Proc -> Nat] /\ count' \in [Proc -> Nat]
    BY <1>1, <1>5 DEF LoopEnds, LoaderType
  <2>3. LoaderType'
    BY <1>1, <1>2, <1>5, <2>2 DEF Go, LoaderType
  <2>4. OthersKept(p)
    BY <1>2, <1>5, <2>1 DEF OthersKept
  <2>5. ThreadInv(p)'
    BY <1>1, <1>2, <1>5, <2>1 DEF ThreadInv, EarlyFor
  <2> QED BY <1>1, <1>2, <1>5, <2>1, <2>3, <2>4, <2>5, QuietStep
<1>6. CASE NextIndex(p) /\ UNCHANGED <<count, pc, info, handles>>
  <2>1. idx' \in [Proc -> Nat] /\ \A q \in Proc \ {p} : idx'[q] = idx[q]
    BY <1>1, <1>6 DEF NextIndex, LoaderType
  <2>2. LoaderType'
    BY <1>1, <1>2, <1>6, <2>1 DEF LoaderType
  <2>3. OthersKept(p)
    BY <1>2, <1>6, <2>1 DEF OthersKept
  <2>4. ThreadInv(p)'
    BY <1>1, <1>2, <1>6 DEF ThreadInv, EarlyFor
  <2> QED BY <1>1, <1>2, <1>6, <2>2, <2>3, <2>4, QuietStep
<1>7. CASE \E l \in Wanted(p) :
             /\ Serving /\ Described(idx[p]) = l /\ handles[p][l[1]] # None
             /\ Located(p, l[1], l, idx[p]) /\ UNCHANGED count
             /\ \/ info' = [info EXCEPT ![p] = l] /\ Go(p, "report") /\ UNCHANGED idx
                \/ NextIndex(p) /\ UNCHANGED <<pc, info>>
  <2>1. PICK l \in Line :
             /\ Serving /\ Described(idx[p]) = l /\ handles[p][l[1]] # None
             /\ Located(p, l[1], l, idx[p]) /\ UNCHANGED count
             /\ \/ info' = [info EXCEPT ![p] = l] /\ Go(p, "report") /\ UNCHANGED idx
                \/ NextIndex(p) /\ UNCHANGED <<pc, info>>
    BY <1>7 DEF Wanted
  <2>2. idx[p] \in DOMAIN gNative /\ gNative[idx[p]] = l /\ At(idx[p], l) /\ l[1] \in Native
    BY <1>1, <2>1, DescribedAt
  <2>3. /\ handles' \in Handles
        /\ \A q \in Proc \ {p} : handles'[q] = handles[q]
        /\ \A e \in Native : handles[p][e] # None <=> handles'[p][e] # None
        /\ ~moved => HandlesSound(p)' /\ ReportsLoaded(p)'
    BY <1>2, <2>1, <2>2, LocatedStep
  <2>4. /\ info' \in [Proc -> Line \cup {None}] /\ idx' \in [Proc -> Nat]
        /\ \A q \in Proc \ {p} : info'[q] = info[q] /\ idx'[q] = idx[q]
    BY <1>1, <2>1 DEF NextIndex, LoaderType
  <2>5. pc' = pc \/ pc' = [pc EXCEPT ![p] = "report"]
    BY <2>1 DEF Go
  <2>6. /\ pc'[p] = "info" \/ (pc'[p] = "report" /\ idx' = idx /\ info'[p] = l)
        /\ \A q \in Proc \ {p} : pc'[q] = pc[q]
    BY <1>1, <2>1, <2>5 DEF Go, LoaderType
  <2>7. LoaderType'
    BY <1>1, <1>2, <2>1, <2>3, <2>4, <2>5 DEF LoaderType
  <2>8. OthersKept(p)
    BY <1>2, <2>3, <2>4, <2>6 DEF OthersKept
  <2>9. ThreadInv(p)'
    <3>1. \A e \in todo'[p] : handles'[p][e] # None
      BY <1>1, <1>3, <2>3 DEF ThreadInv
    <3>2. pc'[p] = "report" => info'[p] # None /\ handles'[p][info'[p][1]] # None
      BY <1>1, <2>1, <2>2, <2>3, <2>6
    <3>3. seek'[p] # None => handles'[p][seek'[p]] # None
      BY <1>1, <1>2, <2>3 DEF ThreadInv, LoaderType
    <3> QED BY <1>1, <1>2, <1>3, <2>6, <3>1, <3>2, <3>3 DEF ThreadInv, EarlyFor
  <2>10. PositionInv(p)'
    <3>1. Served'
      BY <1>2, <2>1 DEF Served, Serving
    <3>2. pc'[p] = "report" => At(idx[p], info[p])'
      BY <1>4, <2>2, <2>6
    <3>3. sync'[p] = "none"
      BY <1>1, <1>2
    <3> QED BY <1>2, <2>3, <2>6, <3>1, <3>2, <3>3 DEF PositionInv
  <2> QED BY <1>2, <2>7, <2>8, <2>9, <2>10, OwnStep
<1>8. CASE \E l \in Wanted(p) :
             /\ Serving /\ Described(idx[p]) = l
             /\ info' = [info EXCEPT ![p] = l]
             /\ Go(p, "fd") /\ UNCHANGED <<count, idx, handles>>
  <2>1. PICK l \in Wanted(p) :
             /\ Serving /\ Described(idx[p]) = l
             /\ info' = [info EXCEPT ![p] = l]
             /\ Go(p, "fd") /\ UNCHANGED <<count, idx, handles>>
    BY <1>8
  <2>2. At(idx[p], l) /\ l \in Line /\ l # None
    BY <1>1, <2>1, DescribedAt DEF Wanted
  <2>3. /\ info' \in [Proc -> Line \cup {None}] /\ info'[p] = l
        /\ \A q \in Proc \ {p} : info'[q] = info[q]
    BY <1>1, <2>1, <2>2 DEF LoaderType
  <2>4. pc'[p] = "fd" /\ \A q \in Proc \ {p} : pc'[q] = pc[q]
    BY <1>1, <2>1 DEF Go, LoaderType
  <2>5. LoaderType'
    BY <1>1, <1>2, <2>1, <2>3 DEF LoaderType, Go
  <2>6. OthersKept(p)
    BY <1>2, <2>1, <2>3, <2>4 DEF OthersKept
  <2>7. ThreadInv(p)'
    BY <1>1, <1>2, <2>1, <2>2, <2>3, <2>4 DEF ThreadInv, EarlyFor, Wanted
  <2>8. PositionInv(p)'
    <3>1. Served'
      BY <1>2, <2>1 DEF Served, Serving
    <3>2. At(idx[p], info[p])'
      BY <1>4, <2>1, <2>2, <2>3
    <3>3. ~moved => HandlesSound(p)' /\ ReportsLoaded(p)'
      BY <1>1, <1>2, <2>1 DEF PositionInv, HandlesSound, ReportsLoaded, Holds, Serving
    <3>4. sync'[p] = "none"
      BY <1>1, <1>2
    <3> QED BY <1>2, <3>1, <3>2, <3>3, <3>4 DEF PositionInv
  <2> QED BY <1>2, <2>1, <2>5, <2>6, <2>7, <2>8, OwnStep
<1> QED BY <1>5, <1>6, <1>7, <1>8 DEF RequestInfo

\* One step of a pass: the pass ends, takes the next early module, gives it
\* up, or asks for the description at the position.
LEMMA SyncLookInv ==
    ASSUME LoaderInv, NEW p \in Proc, SyncLook(p)
    PROVE  LoaderInv'
<1>1. /\ LoaderType /\ ThreadInv(p) /\ PositionInv(p) /\ sync[p] = "look"
      /\ pc[p] \in {"sync", "restore", "done"}
      /\ handles \in Handles /\ idx[p] \in Nat
      /\ seek[p] \in Native \cup {None} /\ todo[p] \subseteq Native
  BY Facts DEF SyncLook, LoaderType, ThreadInv
<1>2. /\ UNCHANGED <<zvars, snapshot, packet, info, attempts, apps, reports, restores>>
      /\ UNCHANGED <<phase, gNative, moved>>
  BY DEF SyncLook, zvars, startVars, listVars
<1>4. CASE LoopEnds(p) /\ PassEnds(p) /\ UNCHANGED <<seek, todo, handles>>
  <2>1. \/ /\ Inline(p) /\ pc' = [pc EXCEPT ![p] = "restore"]
           /\ \E s \in {"none", "try"} : sync' = [sync EXCEPT ![p] = s]
        \/ ~Inline(p) /\ pc' = pc /\ sync' = [sync EXCEPT ![p] = "try"]
    BY <1>4 DEF PassEnds, Go, GoS
  <2>2. /\ sync'[p] \in {"none", "try"} /\ pc'[p] \in {"restore", "done"}
        /\ \A q \in Proc \ {p} : pc'[q] = pc[q] /\ sync'[q] = sync[q]
    BY <1>1, <2>1 DEF LoaderType, Inline
  <2>3. /\ idx' \in [Proc -> Nat] /\ count' \in [Proc -> Nat]
        /\ \A q \in Proc \ {p} : idx'[q] = idx[q]
    BY <1>1, <1>4 DEF LoopEnds, LoaderType
  <2>4. LoaderType'
    BY <1>1, <1>2, <1>4, <2>1, <2>3 DEF LoaderType
  <2>5. OthersKept(p)
    BY <1>2, <1>4, <2>2, <2>3 DEF OthersKept
  <2>6. ThreadInv(p)'
    BY <1>1, <1>2, <1>4, <2>2 DEF ThreadInv, EarlyFor
  <2> QED BY <1>2, <1>4, <2>2, <2>4, <2>5, <2>6, QuietStep
<1>5. CASE /\ \E m \in todo[p] : /\ seek' = [seek EXCEPT ![p] = m]
                                 /\ todo' = [todo EXCEPT ![p] = @ \ {m}]
           /\ idx' = [idx EXCEPT ![p] = 1] /\ UNCHANGED <<count, pc, sync, handles>>
  <2>1. PICK m \in todo[p] : /\ seek' = [seek EXCEPT ![p] = m]
                             /\ todo' = [todo EXCEPT ![p] = @ \ {m}]
    BY <1>5
  <2>2. m \in Native /\ handles[p][m] # None
    BY <1>1 DEF ThreadInv
  <2>3. seek' \in [Proc -> Native \cup {None}] /\ seek'[p] = m
        /\ \A q \in Proc \ {p} : seek'[q] = seek[q]
    BY <1>1, <2>1, <2>2 DEF LoaderType
  <2>4. todo' \in [Proc -> SUBSET Native] /\ todo'[p] = todo[p] \ {m}
        /\ \A q \in Proc \ {p} : todo'[q] = todo[q]
    BY <1>1, <2>1 DEF LoaderType
  <2>5. idx' \in [Proc -> Nat] /\ \A q \in Proc \ {p} : idx'[q] = idx[q]
    BY <1>1, <1>5 DEF LoaderType
  <2>6. LoaderType'
    BY <1>1, <1>2, <1>5, <2>3, <2>4, <2>5 DEF LoaderType
  <2>7. OthersKept(p)
    BY <1>2, <1>5, <2>3, <2>4, <2>5 DEF OthersKept
  <2>8. ThreadInv(p)'
    BY <1>1, <1>2, <1>5, <2>2, <2>3, <2>4 DEF ThreadInv, EarlyFor
  <2> QED BY <1>1, <1>2, <1>5, <2>6, <2>7, <2>8, QuietStep
<1>6. CASE /\ seek' = [seek EXCEPT ![p] = None]
           /\ UNCHANGED <<count, pc, sync, idx, todo, handles>>
  <2>1. seek' \in [Proc -> Native \cup {None}] /\ seek'[p] = None
        /\ \A q \in Proc \ {p} : seek'[q] = seek[q]
    BY <1>1, <1>6 DEF LoaderType
  <2>2. LoaderType'
    BY <1>1, <1>2, <1>6, <2>1 DEF LoaderType
  <2>3. OthersKept(p)
    BY <1>2, <1>6, <2>1 DEF OthersKept
  <2>4. ThreadInv(p)'
    BY <1>1, <1>2, <1>6, <2>1 DEF ThreadInv, EarlyFor
  <2> QED BY <1>1, <1>2, <1>6, <2>2, <2>3, <2>4, QuietStep
<1>7. CASE NextIndex(p) /\ UNCHANGED <<count, pc, sync, seek, todo, handles>>
  <2>1. idx' \in [Proc -> Nat] /\ \A q \in Proc \ {p} : idx'[q] = idx[q]
    BY <1>1, <1>7 DEF NextIndex, LoaderType
  <2>2. LoaderType'
    BY <1>1, <1>2, <1>7, <2>1 DEF LoaderType
  <2>3. OthersKept(p)
    BY <1>2, <1>7, <2>1 DEF OthersKept
  <2>4. ThreadInv(p)'
    BY <1>1, <1>2, <1>7 DEF ThreadInv, EarlyFor
  <2> QED BY <1>1, <1>2, <1>7, <2>2, <2>3, <2>4, QuietStep
<1>8. CASE /\ seek[p] # None /\ Serving
           /\ \E l : /\ Described(idx[p]) = l /\ l # None /\ l[1] = seek[p]
                    /\ Located(p, seek[p], l, idx[p])
           /\ GoS(p, "report") /\ UNCHANGED <<count, pc, idx, seek, todo>>
  <2>1. PICK l : /\ Described(idx[p]) = l /\ l # None /\ l[1] = seek[p]
                 /\ Located(p, seek[p], l, idx[p])
    BY <1>8
  <2>2. seek[p] \in Native /\ handles[p][seek[p]] # None
    BY <1>1, <1>8 DEF ThreadInv
  <2>3. idx[p] \in DOMAIN gNative /\ gNative[idx[p]][1] = seek[p]
    BY <2>1, DescribedAt
  <2>4. /\ handles' \in Handles
        /\ \A q \in Proc \ {p} : handles'[q] = handles[q]
        /\ \A e \in Native : handles[p][e] # None <=> handles'[p][e] # None
        /\ ~moved => HandlesSound(p)' /\ ReportsLoaded(p)'
    BY <1>2, <2>1, <2>2, <2>3, LocatedStep
  <2>5. sync'[p] = "report" /\ \A q \in Proc \ {p} : sync'[q] = sync[q]
    BY <1>1, <1>8 DEF GoS, LoaderType
  <2>6. LoaderType'
    BY <1>1, <1>2, <1>8, <2>4 DEF LoaderType, GoS
  <2>7. OthersKept(p)
    BY <1>2, <1>8, <2>4, <2>5 DEF OthersKept
  <2>8. ThreadInv(p)'
    <3>1. \A e \in todo'[p] : handles'[p][e] # None
      BY <1>1, <1>8, <2>4 DEF ThreadInv
    <3>2. handles'[p][seek'[p]] # None /\ seek'[p] # None
      BY <1>8, <2>2, <2>4
    <3> QED BY <1>1, <1>2, <1>8, <2>5, <3>1, <3>2 DEF ThreadInv, EarlyFor
  <2>9. PositionInv(p)'
    <3>1. Served'
      BY <1>2, <1>8 DEF Served, Serving
    <3>2. Holds(idx[p], seek[p])'
      BY <1>2, <1>8, <2>3 DEF Holds
    <3>3. pc'[p] \notin {"fd", "report"}
      BY <1>1, <1>8
    <3> QED BY <1>2, <2>4, <3>1, <3>2, <3>3 DEF PositionInv
  <2> QED BY <1>2, <2>6, <2>7, <2>8, <2>9, OwnStep
<1> QED BY <1>4, <1>5, <1>6, <1>7, <1>8 DEF SyncLook

LEMMA LoaderStepInv ==
    ASSUME LoaderInv, NEW p \in Proc, ExecHook(p) \/ Loader(p)
    PROVE  LoaderInv'
BY ExecHookInv, RequestsInv, LoadEarlyInv, RequestInfoInv, LoadModuleInv, ReportInv, SyncInv,
   SyncLookInv, SyncReportInv, RestoreInv DEF Loader

-----------------------------------------------------------------------------
(* Companions.                                                             *)

LEMMA LoadersKept ==
    ASSUME LoaderInv, UNCHANGED <<loaderVars, phase, gNative, moved>>, NEW p \in Proc
    PROVE  ThreadInv(p)' /\ PositionInv(p)'
<1>1. ThreadInv(p) /\ PositionInv(p)
  BY DEF LoaderInv
<1>2. ThreadInv(p)'
  BY <1>1 DEF ThreadInv, PendingEarly, loaderVars
<1>3. PositionInv(p)'
  BY <1>1 DEF PositionInv, HandlesSound, ReportsLoaded, At, Holds, Served, Serving, loaderVars
<1> QED BY <1>2, <1>3

\* A request that may only change the companion tables, the apps' positions
\* and who is connected.
LEMMA CompanionStep ==
    ASSUME LoaderInv, Serving,
           UNCHANGED <<loaderVars, diskVars, startVars, events, kernelVars, compat, listVars>>,
           gCompanions' \in Seq(Companion \cup {None}),
           gNativeCompanions' \in Seq(Companion \cup {None}),
           connected' \subseteq Dir \X (Dir \cup Line),
           nativeConnected' \subseteq Dir \X (Dir \cup Line),
           apps' \subseteq Zygisk \X Nat,
           ~moved => /\ Indexed(gCompanions', gModules)
                     /\ Indexed(gNativeCompanions', gNative)
                     /\ \A a \in apps' : a[2] \in DOMAIN gModules /\ gModules[a[2]] = a[1]
                     /\ \A c \in connected' : c[1] = c[2]
                     /\ \A c \in nativeConnected' : c[1] = c[2][1]
    PROVE  LoaderInv'
<1> USE DEF diskVars, startVars, kernelVars, listVars
<1>1. TypeOK'
  <2>1. ZTypeOK /\ LoaderType
    BY TypeParts DEF LoaderInv
  <2>2. ZTypeOK'
    BY <2>1 DEF ZTypeOK
  <2>3. LoaderType'
    BY <2>1 DEF LoaderType, loaderVars
  <2> QED BY <2>2, <2>3 DEF TypeOK, LoaderType, Handles
<1>2. (events <= reloads)'
  BY DEF LoaderInv
<1>3. StartInv' /\ ScanInv'
  BY DEF LoaderInv, StartInv, ScanInv, NoOrphanCompat, needs_compat_daemon, native_modules
<1>4. TableInv'
  BY DEF TableInv, Served, Serving, Indexed
<1>5. \A p \in Proc : ThreadInv(p)' /\ PositionInv(p)'
  BY LoadersKept
<1> QED BY <1>1, <1>2, <1>3, <1>4, <1>5 DEF LoaderInv

\* What an ensure step and a connection leave, for either table: the caller is
\* linked to a companion of the entry of the list at its position.
ConnectedTo(C, pairs, caller, table, list, i) ==
    \/ C = pairs
    \/ \E m \in Dir \cup Line :
         C = pairs \cup {<<caller, m>>} /\ (Indexed(table, list) => m = list[i])

LEMMA Connected ==
    ASSUME NEW table \in Seq(Companion \cup {None}), NEW list \in Seq(Dir \cup Line),
           NEW i \in DOMAIN list, NEW caller, NEW pairs,
           NEW t \in Ensured(table, list, i), NEW C \in Linked(pairs, t, i, caller)
    PROVE  /\ t \in Seq(Companion \cup {None})
           /\ Indexed(table, list) => Indexed(t, list)
           /\ ConnectedTo(C, pairs, caller, table, list, i)
<1>1. /\ t \in Seq(Companion \cup {None}) /\ Len(t) = Len(list)
      /\ Indexed(table, list) => Indexed(t, list)
  BY EnsuredType
<1>2. i \in DOMAIN t
  BY <1>1
<1>3. C = pairs \/ ( /\ t[i] # None /\ t[i].mod \in Dir \cup Line
                     /\ C = pairs \cup {<<caller, t[i].mod>>} )
  <2>1. t[i] # None => t[i] \in Companion
    BY <1>1, <1>2
  <2>2. t[i] \in Companion => t[i].mod \in Dir \cup Line
    BY DEF Companion
  <2> QED BY <2>1, <2>2, LinkedPairs
<1>4. t[i] # None /\ Indexed(table, list) => t[i].mod = list[i]
  BY <1>1, <1>2 DEF Indexed
<1> QED BY <1>1, <1>3, <1>4 DEF ConnectedTo

LEMMA ServingFacts ==
    ASSUME LoaderInv
    PROVE  /\ gModules \in Seq(Dir \cup Line) /\ gNative \in Seq(Dir \cup Line)
           /\ gModules \in Seq(Zygisk) /\ DOMAIN gModules \subseteq Nat
           /\ gNative \in Seq(Line)
           /\ gCompanions \in Seq(Companion \cup {None})
           /\ gNativeCompanions \in Seq(Companion \cup {None})
           /\ connected \subseteq Dir \X (Dir \cup Line)
           /\ nativeConnected \subseteq Dir \X (Dir \cup Line)
           /\ apps \subseteq Zygisk \X Nat
           /\ ~moved => /\ Indexed(gCompanions, gModules)
                        /\ Indexed(gNativeCompanions, gNative)
                        /\ \A c \in connected : c[1] = c[2]
                        /\ \A c \in nativeConnected : c[1] = c[2][1]
           /\ ~moved /\ Serving =>
                \A a \in apps : a[2] \in DOMAIN gModules /\ gModules[a[2]] = a[1]
<1>1. ZTypeOK /\ apps \subseteq Zygisk \X Nat /\ TableInv
  BY TypeParts DEF LoaderInv
<1>2. gModules \in Seq(Zygisk) /\ gNative \in Seq(Line \ Compat)
  BY <1>1 DEF ZTypeOK
<1>3. /\ gModules \in Seq(Dir \cup Line) /\ gNative \in Seq(Dir \cup Line)
      /\ gNative \in Seq(Line)
  BY <1>2, ZygiskdAssumption
<1> QED BY <1>1, <1>2, <1>3 DEF ZTypeOK, TableInv

LEMMA ConnectNativeInv ==
    ASSUME LoaderInv, NEW p \in Proc, ConnectNative(p)
    PROVE  LoaderInv'
<1>1. /\ UNCHANGED <<loaderVars, apps, diskVars, startVars, events, kernelVars, compat,
                     listVars, gCompanions, connected>>
      /\ Serving
  BY DEF ConnectNative, ConnectNativeCompanion
<1>2. PICK d \in Native : handles[p][d] # None /\ ConnectNativeCompanion(d, handles[p][d].index)
  BY DEF ConnectNative
<1> DEFINE i == handles[p][d].index
<1>3. CASE UNCHANGED <<gNativeCompanions, nativeConnected>>
  BY <1>1, <1>3, ServingFacts, CompanionStep
<1>4. CASE ~ UNCHANGED <<gNativeCompanions, nativeConnected>>
  <2>1. i \in DOMAIN gNative /\ gNative[i] \in WithCompanion
    BY <1>2, <1>4 DEF ConnectNativeCompanion
  <2>2. /\ gNativeCompanions' \in Ensured(gNativeCompanions, gNative, i)
        /\ nativeConnected' \in Linked(nativeConnected, gNativeCompanions', i, d)
    BY <1>2, <1>4 DEF ConnectNativeCompanion, ensure_native_companion
  <2>3. ~moved => gNative[i][1] = d
    <3>1. PositionInv(p) /\ i # NoIndex
      BY <2>1, Facts DEF NoIndex
    <3> QED BY <1>1, <1>2, <3>1 DEF PositionInv, HandlesSound, Holds
  <2>4. d \in Dir
    BY ZygiskdAssumption DEF Native
  <2> HIDE DEF i
  <2>5. /\ gNativeCompanions' \in Seq(Companion \cup {None})
        /\ nativeConnected' \subseteq Dir \X (Dir \cup Line)
        /\ ~moved => /\ Indexed(gNativeCompanions', gNative)
                     /\ \A c \in nativeConnected' : c[1] = c[2][1]
    <3> DEFINE t == gNativeCompanions'
               C == nativeConnected'
    <3>1. /\ t \in Ensured(gNativeCompanions, gNative, i)
          /\ C \in Linked(nativeConnected, t, i, d)
      BY <2>2
    <3> HIDE DEF t, C
    <3>0. gNativeCompanions \in Seq(Companion \cup {None}) /\ gNative \in Seq(Dir \cup Line)
      BY ServingFacts
    <3>2. /\ t \in Seq(Companion \cup {None})
          /\ Indexed(gNativeCompanions, gNative) => Indexed(t, gNative)
          /\ ConnectedTo(C, nativeConnected, d, gNativeCompanions, gNative, i)
      BY <2>1, <3>0, <3>1, Connected
    <3>3. /\ gNative[i] \in Line /\ nativeConnected \subseteq Dir \X (Dir \cup Line)
          /\ ~moved => /\ Indexed(gNativeCompanions, gNative)
                       /\ \A c \in nativeConnected : c[1] = c[2][1]
      BY <2>1, ServingFacts
    <3>4. C \subseteq Dir \X (Dir \cup Line)
      BY <2>4, <3>2, <3>3 DEF ConnectedTo
    <3>5. ~moved => \A c \in C : c[1] = c[2][1]
      BY <2>3, <3>2, <3>3 DEF ConnectedTo
    <3> QED BY <3>2, <3>3, <3>4, <3>5 DEF t, C
  <2> QED BY <1>1, <2>5, ServingFacts, CompanionStep
<1> QED BY <1>3, <1>4

LEMMA AppConnectsInv ==
    ASSUME LoaderInv, AppConnects
    PROVE  LoaderInv'
<1>1. /\ UNCHANGED <<loaderVars, apps, diskVars, startVars, events, kernelVars, compat,
                     listVars, gNativeCompanions, nativeConnected>>
      /\ Serving
  BY DEF AppConnects, ConnectCompanion
<1>2. PICK a \in apps : ConnectCompanion(a[1], a[2])
  BY DEF AppConnects
<1>3. CASE UNCHANGED <<gCompanions, connected>>
  BY <1>1, <1>3, ServingFacts, CompanionStep
<1>4. CASE ~ UNCHANGED <<gCompanions, connected>>
  <2> DEFINE i == a[2]
             d == a[1]
  <2>1. i \in DOMAIN gModules
    BY <1>2, <1>4 DEF ConnectCompanion
  <2>2. /\ gCompanions' \in Ensured(gCompanions, gModules, i)
        /\ connected' \in Linked(connected, gCompanions', i, d)
    BY <1>2, <1>4 DEF ConnectCompanion, ensure_companion
  <2>3. (~moved => gModules[i] = d) /\ d \in Dir
    BY <1>1, <1>2, ServingFacts, ZygiskdAssumption
  <2> HIDE DEF i, d
  <2>4. /\ gCompanions' \in Seq(Companion \cup {None})
        /\ connected' \subseteq Dir \X (Dir \cup Line)
        /\ ~moved => /\ Indexed(gCompanions', gModules)
                     /\ \A c \in connected' : c[1] = c[2]
    <3> DEFINE t == gCompanions'
               C == connected'
    <3>1. t \in Ensured(gCompanions, gModules, i) /\ C \in Linked(connected, t, i, d)
      BY <2>2
    <3> HIDE DEF t, C
    <3>0. gCompanions \in Seq(Companion \cup {None}) /\ gModules \in Seq(Dir \cup Line)
      BY ServingFacts
    <3>2. /\ t \in Seq(Companion \cup {None})
          /\ Indexed(gCompanions, gModules) => Indexed(t, gModules)
          /\ ConnectedTo(C, connected, d, gCompanions, gModules, i)
      BY <2>1, <3>0, <3>1, Connected
    <3>3. /\ connected \subseteq Dir \X (Dir \cup Line)
          /\ ~moved => /\ Indexed(gCompanions, gModules)
                       /\ \A c \in connected : c[1] = c[2]
      BY ServingFacts
    <3>4. C \subseteq Dir \X (Dir \cup Line)
      BY <2>3, <3>2, <3>3 DEF ConnectedTo
    <3>5. ~moved => \A c \in C : c[1] = c[2]
      BY <2>3, <3>2, <3>3 DEF ConnectedTo
    <3> QED BY <3>2, <3>3, <3>4, <3>5 DEF t, C
  <2> QED BY <1>1, <2>4, ServingFacts, CompanionStep
<1> QED BY <1>3, <1>4

LEMMA AppLoadsInv ==
    ASSUME LoaderInv, AppLoads
    PROVE  LoaderInv'
<1>1. /\ Serving
      /\ UNCHANGED <<loaderVars, diskVars, startVars, events, kernelVars, compat, listVars,
                     gCompanions, gNativeCompanions, connected, nativeConnected>>
  BY DEF AppLoads, zvars, companionVars
<1>2. PICK i \in DOMAIN gModules : apps' = apps \cup {<<gModules[i], i>>}
  BY DEF AppLoads
<1>3. gModules[i] \in Zygisk /\ i \in Nat
  BY ServingFacts
<1>4. /\ apps' \subseteq Zygisk \X Nat
      /\ ~moved => \A a \in apps' : a[2] \in DOMAIN gModules /\ gModules[a[2]] = a[1]
  BY <1>1, <1>2, <1>3, ServingFacts
<1> QED BY <1>1, <1>4, ServingFacts, CompanionStep

-----------------------------------------------------------------------------
(* Steps of the daemon.                                                    *)

\* A start that fails has no 32-bit daemon, or has reaped it.
LEMMA FailedStart ==
    ASSUME StartInv, Start, phase' = "dead"
    PROVE  /\ ProcessGone /\ UNCHANGED <<diskVars, kernelVars>>
           /\ compat' \in {"none", "gone"}
<1> USE DEF Stage, StartInv
<1>1. CASE bind_listen \/ claim_control_fd \/ PreparePolicy \/ nl_listen \/ RootPolicySetup
  BY <1>1 DEF bind_listen, claim_control_fd, PreparePolicy, nl_listen, RootPolicySetup,
     StartFails
<1>2. CASE FirstScan \/ send_dlopen_offset \/ spawn_compat_daemon
  BY <1>2 DEF FirstScan, send_dlopen_offset, spawn_compat_daemon, StartFails
<1>3. CASE CompatWait \/ DaemonReady
  BY <1>3 DEF CompatWait, DaemonReady, StartFails
<1> QED BY <1>1, <1>2, <1>3 DEF Start

\* A stage that succeeds leaves the lists, the tables and the directory alone,
\* but for the first scan.
LEMMA StartedStage ==
    ASSUME Start, phase' # "dead"
    PROVE  \/ FirstScan
           \/ /\ UNCHANGED <<diskVars, events, targets, listVars, companionVars>>
              /\ prepared => prepared'
              /\ offsets => offsets'
              /\ \/ phase = "bind" /\ phase' = "claim" /\ compat' = compat
                 \/ phase = "claim" /\ phase' = "prepare" /\ compat' = compat
                 \/ phase = "prepare" /\ phase' = "listen" /\ compat' = compat /\ prepared'
                 \/ phase = "listen" /\ phase' = "root" /\ compat' = compat
                 \/ phase = "root" /\ phase' = "scan" /\ compat' = compat
                 \/ phase = "offsets" /\ phase' = "compat" /\ compat' = compat /\ offsets'
                 \/ /\ phase = "compat" /\ phase' = "ready" /\ compat' = compat
                    /\ ~needs_compat_daemon
                 \/ phase = "compat" /\ phase' = "wait" /\ compat' = "forked"
                 \/ phase = "wait" /\ phase' = "ready" /\ compat' = "serving"
                 \/ phase = "ready" /\ phase' = "serve" /\ compat' = compat
<1> USE DEF Stage, StartFails, ProcessGone, kernelVars
<1>1. CASE bind_listen \/ claim_control_fd \/ nl_listen \/ RootPolicySetup
  BY <1>1 DEF bind_listen, claim_control_fd, nl_listen, RootPolicySetup
<1>2. CASE PreparePolicy \/ send_dlopen_offset
  BY <1>2 DEF PreparePolicy, send_dlopen_offset
<1>3. CASE spawn_compat_daemon
  BY <1>3 DEF spawn_compat_daemon
<1>4. CASE CompatWait \/ DaemonReady
  BY <1>4 DEF CompatWait, DaemonReady
<1> QED BY <1>1, <1>2, <1>3, <1>4 DEF Start

LEMMA EmptyLists == Listed(<<>>) = {} /\ \A list : Indexed(<<>>, list)
BY DEF Listed, Indexed

\* The end of the process leaves nothing to keep but a 32-bit daemon that ended.
LEMMA GoneInv ==
    ASSUME ProcessGone, compat' \notin {"exec", "serving"}
    PROVE  StartInv' /\ ScanInv'
<1>1. phase' = "dead" /\ DOMAIN gNative' = {}
  BY DEF ProcessGone
<1> QED BY <1>1 DEF StartInv, ScanInv, NoOrphanCompat

LEMMA StartKeeps ==
    ASSUME ZTypeOK, StartInv, ScanInv, Start
    PROVE  StartInv' /\ ScanInv'
<1>1. CASE phase' = "dead"
  BY <1>1, FailedStart, GoneInv
<1>2. CASE FirstScan
  <2>1. /\ phase = "scan" /\ phase' = "offsets" /\ UNCHANGED <<disk, prepared, compat>>
        /\ rescan_modules
    BY <1>2 DEF FirstScan, Stage
  <2>2. /\ "modules" \notin missed' => Listed(gModules') = disk \cap Zygisk
        /\ "native" \notin missed' => Listed(gNative') = native_modules \ Compat
        /\ missed' \cap {"native", "targets"} = {} =>
             targets' = {Target[l] : l \in native_modules}
        /\ "targets" \notin missed' =>
             \A i \in DOMAIN gNative' : Target[gNative'[i]] \in targets'
    BY <2>1, RescanLists
  <2>3. StartInv'
    BY <2>1, <2>2 DEF StartInv, NoOrphanCompat
  <2>4. ScanInv'
    <3>1. native_modules' = native_modules
      BY <2>1 DEF native_modules
    <3> QED BY <2>1, <2>2, <3>1 DEF ScanInv, Listed
  <2> QED BY <2>3, <2>4
<1>3. CASE phase' # "dead" /\ ~FirstScan
  <2>1. /\ UNCHANGED <<diskVars, events, targets, listVars, companionVars>>
        /\ prepared => prepared'
        /\ offsets => offsets'
        /\ \/ phase = "bind" /\ phase' = "claim" /\ compat' = compat
           \/ phase = "claim" /\ phase' = "prepare" /\ compat' = compat
           \/ phase = "prepare" /\ phase' = "listen" /\ compat' = compat /\ prepared'
           \/ phase = "listen" /\ phase' = "root" /\ compat' = compat
           \/ phase = "root" /\ phase' = "scan" /\ compat' = compat
           \/ phase = "offsets" /\ phase' = "compat" /\ compat' = compat /\ offsets'
           \/ /\ phase = "compat" /\ phase' = "ready" /\ compat' = compat
              /\ ~needs_compat_daemon
           \/ phase = "compat" /\ phase' = "wait" /\ compat' = "forked"
           \/ phase = "wait" /\ phase' = "ready" /\ compat' = "serving"
           \/ phase = "ready" /\ phase' = "serve" /\ compat' = compat
    BY <1>3, StartedStage
  <2>2. needs_compat_daemon' = needs_compat_daemon
    BY <2>1 DEF needs_compat_daemon, listVars
  <2>3. StartInv'
    BY <2>1, <2>2 DEF StartInv, NoOrphanCompat, listVars
  <2>4. ScanInv'
    BY <2>1 DEF ScanInv, native_modules, diskVars, listVars
  <2> QED BY <2>3, <2>4
<1> QED BY <1>1, <1>2, <1>3

LEMMA DaemonKeeps ==
    ASSUME ZTypeOK, StartInv, ScanInv, CompatStep \/ DaemonDies \/ EditDisk \/ Reload \/ nl_drain
    PROVE  StartInv' /\ ScanInv'
<1> USE DEF diskVars, startVars, kernelVars, listVars
<1>1. CASE CompatStep
  <2>1. CompatUnchanged
    BY <1>1 DEF CompatStep, CompatArm, CompatCheckParent, CompatServe
  <2>2. /\ compat \in {"forked", "armed", "exec"}
        /\ phase = "dead" => compat' \notin {"exec", "serving"}
    BY <1>1 DEF CompatStep, CompatArm, CompatCheckParent, CompatServe, StartInv, NoOrphanCompat
  <2>3. StartInv'
    BY <2>1, <2>2 DEF CompatUnchanged, StartInv, NoOrphanCompat, needs_compat_daemon
  <2>4. ScanInv'
    BY <2>1 DEF CompatUnchanged, ScanInv, native_modules
  <2> QED BY <2>3, <2>4
<1>2. CASE DaemonDies
  <2>1. ProcessGone /\ compat' \notin {"exec", "serving"}
    BY <1>2 DEF DaemonDies
  <2> QED BY <2>1, GoneInv
<1>3. CASE EditDisk
  <2>1. dirty' = TRUE /\ UNCHANGED <<startVars, kernelVars, compat, listVars>>
    BY <1>3 DEF EditDisk
  <2> QED BY <2>1 DEF StartInv, ScanInv, NoOrphanCompat, needs_compat_daemon
<1>4. CASE Reload
  <2>1. UNCHANGED <<disk, startVars, kernelVars, compat, listVars>>
    BY <1>4 DEF Reload
  <2>2. StartInv'
    BY <2>1 DEF StartInv, NoOrphanCompat, needs_compat_daemon
  <2>3. \/ UNCHANGED <<dirty, events>>
        \/ ~Listening
        \/ events' # 0
    BY <1>4 DEF Reload, ZTypeOK
  <2>4. ScanInv'
    BY <2>1, <2>3 DEF ScanInv, Listening, native_modules
  <2> QED BY <2>2, <2>4
<1>5. CASE nl_drain
  <2>1. /\ phase = "serve" /\ UNCHANGED <<disk, startVars, prepared, offsets, compat>>
        /\ rescan_modules
    BY <1>5 DEF nl_drain, Serving
  <2>2. /\ "modules" \notin missed' => Listed(gModules') = disk \cap Zygisk
        /\ "native" \notin missed' => Listed(gNative') = native_modules \ Compat
        /\ missed' \cap {"native", "targets"} = {} =>
             targets' = {Target[l] : l \in native_modules}
        /\ "targets" \notin missed' =>
             \A i \in DOMAIN gNative' : Target[gNative'[i]] \in targets'
    BY <2>1, RescanLists
  <2>3. StartInv'
    BY <2>1, <2>2 DEF StartInv, NoOrphanCompat
  <2>4. ScanInv'
    <3>1. native_modules' = native_modules
      BY <2>1 DEF native_modules
    <3> QED BY <2>1, <2>2, <3>1 DEF ScanInv, Listed
  <2> QED BY <2>3, <2>4
<1> QED BY <1>1, <1>2, <1>3, <1>4, <1>5

\* What a step of the daemon does to the lists and to the tables.
LEMMA DaemonLists ==
    ASSUME ZTypeOK, StartInv, ZNext
    PROVE  /\ (moved => moved') /\ UNCHANGED <<connected, nativeConnected>>
           /\ (Served => Served')
           /\ (Serving' => Serving \/ phase = "ready")
           /\ (Serving' /\ ~moved' => UNCHANGED <<gModules, gNative>>)
           /\ \/ gCompanions' = <<>> /\ gNativeCompanions' = <<>>
              \/ /\ UNCHANGED <<gCompanions, gNativeCompanions>>
                 /\ phase = "scan" \/ (~moved' => UNCHANGED <<gModules, gNative>>)
<1> USE DEF listVars, companionVars, startVars, Served, Serving
<1>1. CASE ProcessGone
  BY <1>1 DEF ProcessGone
<1>2. CASE Start /\ ~ProcessGone
  <2>1. phase' # "dead"
    BY <1>2, FailedStart
  <2>2. CASE FirstScan
    <3>1. phase = "scan" /\ phase' = "offsets" /\ rescan_modules /\ UNCHANGED companionVars
      BY <2>2 DEF FirstScan, Stage
    <3> QED BY <3>1, RescanLists
  <2>3. CASE ~FirstScan
    BY <1>2, <2>1, <2>3, StartedStage
  <2> QED BY <2>2, <2>3
<1>3. CASE CompatStep \/ EditDisk \/ Reload
  BY <1>3 DEF CompatStep, CompatArm, CompatCheckParent, CompatServe, CompatUnchanged, EditDisk,
     Reload
<1>4. CASE nl_drain
  <2>1. phase = "serve" /\ phase' = "serve" /\ rescan_modules /\ UNCHANGED companionVars
    BY <1>4 DEF nl_drain
  <2> QED BY <2>1, RescanLists
<1> QED BY <1>1, <1>2, <1>3, <1>4 DEF ZNext, DaemonDies

LEMMA DaemonInv ==
    ASSUME LoaderInv, Daemon
    PROVE  LoaderInv'
<1>1. /\ ZTypeOK /\ LoaderType /\ apps \subseteq Zygisk \X Nat /\ ZInv
      /\ StartInv /\ ScanInv /\ TableInv
      /\ ZNext /\ UNCHANGED <<loaderVars, apps>>
  BY TypeParts DEF LoaderInv, ZInv, Daemon
<1>2. ZInv'
  BY <1>1, StartType, DaemonType DEF ZNext
<1>3. TypeOK'
  <2>1. LoaderType' /\ apps' \subseteq Zygisk \X Nat
    BY <1>1 DEF LoaderType, loaderVars
  <2> QED BY <1>2, <2>1 DEF ZInv, TypeOK, LoaderType, Handles
<1>4. StartInv' /\ ScanInv'
  BY <1>1, StartKeeps, DaemonKeeps DEF ZNext
<1>5. /\ (moved => moved') /\ UNCHANGED <<connected, nativeConnected>>
      /\ (Served => Served')
      /\ (Serving' => Serving \/ phase = "ready")
      /\ (Serving' /\ ~moved' => UNCHANGED <<gModules, gNative>>)
      /\ \/ gCompanions' = <<>> /\ gNativeCompanions' = <<>>
         \/ /\ UNCHANGED <<gCompanions, gNativeCompanions>>
            /\ phase = "scan" \/ (~moved' => UNCHANGED <<gModules, gNative>>)
  BY <1>1, DaemonLists
<1>6. TableInv'
  <2>1. ~Served' => apps' = {} /\ gCompanions' = <<>> /\ gNativeCompanions' = <<>>
    BY <1>1, <1>5 DEF TableInv
  <2>2. ~moved' => Indexed(gCompanions', gModules') /\ Indexed(gNativeCompanions', gNative')
    <3>1. CASE gCompanions' = <<>> /\ gNativeCompanions' = <<>>
      BY <3>1, EmptyLists
    <3>2. CASE UNCHANGED <<gCompanions, gNativeCompanions>> /\ phase = "scan"
      BY <1>1, <3>2, EmptyLists DEF TableInv, Served
    <3>3. CASE /\ UNCHANGED <<gCompanions, gNativeCompanions>>
               /\ ~moved' => UNCHANGED <<gModules, gNative>>
      BY <1>1, <1>5, <3>3 DEF TableInv
    <3> QED BY <1>5, <3>1, <3>2, <3>3
  <2>3. ~moved' /\ Serving' =>
           \A a \in apps' : a[2] \in DOMAIN gModules' /\ gModules'[a[2]] = a[1]
    BY <1>1, <1>5 DEF TableInv, Served
  <2>4. ~moved' => /\ \A c \in connected' : c[1] = c[2]
                   /\ \A c \in nativeConnected' : c[1] = c[2][1]
    BY <1>1, <1>5 DEF TableInv
  <2> QED BY <2>1, <2>2, <2>3, <2>4 DEF TableInv, Indexed
<1>7. ASSUME NEW p \in Proc PROVE ThreadInv(p)' /\ PositionInv(p)'
  <2>1. ThreadInv(p) /\ PositionInv(p)
    BY DEF LoaderInv
  <2>2. UNCHANGED <<pc, sync, packet, idx, info, handles, todo, seek, reports>>
    BY <1>1 DEF loaderVars
  <2>3. ThreadInv(p)'
    BY <2>1, <2>2 DEF ThreadInv, PendingEarly
  <2>4. ~moved' /\ Served => \A i, l : (At(i, l) => At(i, l)') /\ (Holds(i, l) => Holds(i, l)')
    BY <1>5 DEF At, Holds, Served, Serving
  <2>5. ~Served' => /\ pc'[p] \notin {"fd", "report"} /\ sync'[p] # "report"
                    /\ \A m \in Native : handles'[p][m] # None => handles'[p][m].index = NoIndex
    BY <1>5, <2>1, <2>2 DEF PositionInv
  <2>6. ~moved' => /\ pc'[p] \in {"fd", "report"} => At(idx[p], info[p])'
                   /\ sync'[p] = "report" => Holds(idx[p], seek[p])'
    BY <1>5, <2>1, <2>2, <2>4 DEF PositionInv
  <2>7. ASSUME ~moved', NEW m \in Native, handles'[p][m] # None
        PROVE  /\ handles'[p][m].lib[1] = m /\ handles'[p][m].lib \in Wanted(p)
               /\ handles'[p][m].index # NoIndex => Holds(handles[p][m].index, m)'
               /\ handles'[p][m].early /\ handles'[p][m].reported => <<p, m>> \in reports'
    BY <1>5, <2>1, <2>2, <2>4, <2>7 DEF PositionInv, HandlesSound
  <2>8. ASSUME ~moved', NEW m \in Native, <<p, m>> \in reports' PROVE handles'[p][m] # None
    BY <1>5, <2>1, <2>2, <2>8 DEF PositionInv, ReportsLoaded
  <2>9. PositionInv(p)'
    <3>1. ~moved' => HandlesSound(p)'
      BY <2>7 DEF HandlesSound, Wanted
    <3>2. ~moved' => ReportsLoaded(p)'
      BY <2>8 DEF ReportsLoaded
    <3> QED BY <2>2, <2>5, <2>6, <3>1, <3>2 DEF PositionInv
  <2> QED BY <2>3, <2>9
<1> QED BY <1>2, <1>3, <1>4, <1>6, <1>7 DEF LoaderInv, ZInv

-----------------------------------------------------------------------------
(* Theorems.                                                               *)

LEMMA InitInv == Init => LoaderInv
<1> SUFFICES ASSUME Init PROVE LoaderInv
  OBVIOUS
<1>1. ZInv /\ ZInit
  BY InitZ DEF Init
<1>2. LoaderType
  <2>1. attempts \in [Proc -> 0..AttemptMax]
    BY LoaderAssumption DEF Init
  <2>2. handles \in Handles
    BY DEF Init, Handles
  <2>3. count \in [Proc -> Nat] /\ idx \in [Proc -> Nat]
    BY DEF Init
  <2> QED BY <2>1, <2>2, <2>3 DEF Init, LoaderType
<1>3. TypeOK
  BY <1>1, <1>2, TypeParts DEF Init, ZInv
<1>4. StartInv /\ ScanInv
  BY <1>1, EmptyLists DEF ZInit, StartInv, ScanInv, NoOrphanCompat
<1>5. TableInv
  BY <1>1, EmptyLists DEF ZInit, Init, TableInv, Served, Serving
<1>6. ASSUME NEW p \in Proc PROVE ThreadInv(p) /\ PositionInv(p)
  <2>1. /\ pc[p] = "none" /\ sync[p] = "none" /\ packet[p] = {} /\ todo[p] = {} /\ reports = {}
        /\ seek[p] = None /\ \A m \in Native : handles[p][m] = None
    BY DEF Init
  <2> QED BY <2>1 DEF ThreadInv, PositionInv, HandlesSound, ReportsLoaded
<1> QED BY <1>1, <1>3, <1>4, <1>5, <1>6 DEF LoaderInv, ZInv

LEMMA StepInv == LoaderInv /\ [Next]_vars => LoaderInv'
<1> SUFFICES ASSUME LoaderInv, [Next]_vars PROVE LoaderInv'
  OBVIOUS
<1>1. CASE Daemon
  BY <1>1, DaemonInv
<1>2. CASE \E p \in Proc : ExecHook(p) \/ Loader(p) \/ ConnectNative(p)
  BY <1>2, LoaderStepInv, ConnectNativeInv
<1>3. CASE AppLoads \/ AppConnects
  BY <1>3, AppLoadsInv, AppConnectsInv
<1>4. CASE UNCHANGED vars
  <2>1. UNCHANGED <<zvars, loaderVars, apps>>
    BY <1>4 DEF vars
  <2>2. ZTypeOK' /\ LoaderType' /\ apps' \subseteq Zygisk \X Nat
    <3>1. ZTypeOK /\ LoaderType /\ apps \subseteq Zygisk \X Nat
      BY TypeParts DEF LoaderInv
    <3>2. ZTypeOK'
      BY <2>1, <3>1 DEF ZTypeOK, zvars, diskVars, startVars, kernelVars, listVars, companionVars
    <3>3. LoaderType'
      BY <2>1, <3>1 DEF LoaderType, loaderVars
    <3> QED BY <2>1, <3>1, <3>2, <3>3
  <2>3. TypeOK'
    BY <2>2 DEF TypeOK, LoaderType, Handles
  <2>4. (events <= reloads)' /\ StartInv' /\ ScanInv' /\ TableInv'
    BY <2>1 DEF LoaderInv, StartInv, ScanInv, TableInv, NoOrphanCompat, needs_compat_daemon,
       native_modules, Served, Serving, zvars, diskVars, startVars, kernelVars, listVars, companionVars
  <2>5. \A p \in Proc : ThreadInv(p)' /\ PositionInv(p)'
    <3>1. UNCHANGED <<loaderVars, phase, gNative, moved>>
      BY <2>1 DEF zvars, startVars, listVars
    <3> QED BY <3>1, LoadersKept
  <2> QED BY <2>3, <2>4, <2>5 DEF LoaderInv
<1> QED BY <1>1, <1>2, <1>3, <1>4 DEF Next

\* The inductive invariant: whatever the daemon, the 32-bit daemon, the threads
\* of every process, the modules and the apps do, and in which order, the state
\* of run_daemon and of core_start stays as LoaderInv says.
THEOREM LoaderInvariant == Spec => []LoaderInv
BY InitInv, StepInv, PTL DEF Spec

\* The child between its fork, the parent-death signal it asks for and its
\* exec (spawn_compat_daemon): whenever the parent ends, no 32-bit daemon
\* execs or serves without it.
THEOREM CompatNeverOrphaned == Spec => []NoOrphanCompat
<1>1. LoaderInv => NoOrphanCompat
  BY DEF LoaderInv, StartInv
<1> QED BY <1>1, LoaderInvariant, PTL

\* The reload events of the netlink channel against the start and the rescans
\* (run_daemon binds the channel before its first scan, nl_drain rescans once
\* per event): as soon as no event waits, an announced change is in each list
\* that the last scan read in full, and in the kernel's targets if it could
\* publish them all.
THEOREM AnnouncedNeverMissed == Spec => []AnnouncedIsSeen
<1>1. LoaderInv => AnnouncedIsSeen
  BY DEF LoaderInv, ScanInv, AnnouncedIsSeen, Serving, Listed
<1> QED BY <1>1, LoaderInvariant, PTL

\* The requests of load_matching_modules and of the early reports go by list
\* position, one connection each, and the kernel may refuse any report: as long
\* as no rescan moved the list, the description, the image, the report and the
\* companion are of lines of one module, for every process, thread and order of
\* requests, and a deferred pass that ended without a timeout left no early
\* module unreported.
THEOREM ReportsAlwaysSound == Spec => []ReportsSound
<1>1. LoaderInv => ReportsSound
  <2> SUFFICES ASSUME LoaderInv PROVE ReportsSound
    OBVIOUS
  <2>1. TypeOK
    BY DEF LoaderInv
  <2>2. PositionsAgree
    <3> SUFFICES ASSUME ~moved PROVE PositionsAgree
      BY DEF PositionsAgree
    <3>1. ASSUME NEW p \in Proc, NEW m \in Native, handles[p][m] # None
          PROVE  /\ handles[p][m].lib[1] = m /\ handles[p][m].lib \in Wanted(p)
                 /\ Serving /\ handles[p][m].index # NoIndex =>
                      gNative[handles[p][m].index][1] = m
      <4>1. PositionInv(p)
        BY DEF LoaderInv
      <4> QED BY <3>1, <4>1 DEF PositionInv, HandlesSound, Holds
    <3>2. ASSUME NEW r \in reports PROVE handles[r[1]][r[2]] # None
      <4>1. r \in Proc \X Native
        BY <2>1 DEF TypeOK
      <4>2. PICK q \in Proc, e \in Native : r = <<q, e>>
        BY <4>1
      <4>3. PositionInv(q) /\ <<q, e>> \in reports
        BY <4>2 DEF LoaderInv
      <4>4. handles[q][e] # None
        BY <4>3 DEF PositionInv, ReportsLoaded
      <4> QED BY <4>2, <4>4
    <3>3. /\ \A c \in connected : c[1] = c[2]
          /\ \A c \in nativeConnected : c[1] = c[2][1]
      BY DEF LoaderInv, TableInv
    <3> QED BY <3>1, <3>2, <3>3 DEF PositionsAgree
  <2>3. SyncedIsReported
    <3>1. ASSUME NEW p \in Proc, sync[p] \in {"restore", "done"}, NEW d \in Native,
                 handles[p][d] # None, handles[p][d].early
          PROVE  handles[p][d].reported /\ (~moved => <<p, d>> \in reports)
      <4>1. PendingEarly(p) = {} /\ PositionInv(p)
        BY <3>1 DEF LoaderInv, ThreadInv
      <4>2. handles[p][d].reported
        BY <3>1, <4>1 DEF PendingEarly
      <4> QED BY <3>1, <4>1, <4>2 DEF PositionInv, HandlesSound
    <3> QED BY <3>1 DEF SyncedIsReported
  <2> QED BY <2>1, <2>2, <2>3 DEF ReportsSound
<1> QED BY <1>1, LoaderInvariant, PTL

\* DAEMON_READY is the last step of run_daemon: at that moment the policy is
\* prepared, the linker offsets are sent and a 32-bit daemon that is wanted
\* serves; the native targets are in the kernel unless their publication was
\* refused or cut, which the daemon goes on without.
THEOREM ReadyOnlyPrepared == Spec => ReadyMeansPrepared
<1> DEFINE A == ready' /\ ~ready =>
                  /\ prepared /\ offsets /\ phase \in Bound
                  /\ needs_compat_daemon => compat = "serving"
                  /\ "targets" \notin missed =>
                       \A i \in DOMAIN gNative : Target[gNative[i]] \in targets
<1>1. LoaderInv /\ [Next]_vars => [A]_vars
  <2> SUFFICES ASSUME LoaderInv, Next, ready', ~ready
               PROVE  /\ prepared /\ offsets /\ phase \in Bound
                      /\ needs_compat_daemon => compat = "serving"
                      /\ "targets" \notin missed =>
                           \A i \in DOMAIN gNative : Target[gNative[i]] \in targets
    OBVIOUS
  <2>1. ZNext
    <3>1. ASSUME NEW p \in Proc, ExecHook(p) \/ Loader(p) \/ ConnectNative(p) PROVE ready' = ready
      <4>1. CASE ConnectNative(p)
        BY <4>1 DEF ConnectNative, ConnectNativeCompanion, kernelVars
      <4>2. CASE ExecHook(p) \/ Loader(p)
        <5>1. UNCHANGED zvars
          BY <4>2 DEF ExecHook, Loader, RequestGeneration, LoadEarly, RequestCount, RequestInfo,
             LoadModule, Report, MaybeStartSync, DeferredSync, SyncLook, SyncReport, Restore,
             DeferredRestore
        <5> QED BY <5>1 DEF zvars, kernelVars
      <4> QED BY <3>1, <4>1, <4>2
    <3>2. AppLoads \/ AppConnects => ready' = ready
      BY DEF AppLoads, AppConnects, ConnectCompanion, zvars, kernelVars
    <3> QED BY <3>1, <3>2 DEF Next, Daemon
  <2>2. phase = "ready"
    BY <2>1 DEF ZNext, Start, CompatStep, DaemonDies, EditDisk, Reload, nl_drain, CompatArm,
       CompatCheckParent, CompatServe, CompatUnchanged, bind_listen, claim_control_fd,
       PreparePolicy, nl_listen, RootPolicySetup, FirstScan, send_dlopen_offset,
       spawn_compat_daemon, CompatWait, DaemonReady, StartFails, kernelVars
  <2>3. phase \in Bound
    BY <2>2, Stages DEF Bound
  <2> QED BY <2>2, <2>3 DEF LoaderInv, StartInv, Listed
<1>2. [][A]_vars <=> ReadyMeansPrepared
  BY DEF ReadyMeansPrepared
<1> QED BY <1>1, <1>2, LoaderInvariant, PTL DEF Spec
=============================================================================
