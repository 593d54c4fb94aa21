--------------------------- MODULE LifecycleProofs ---------------------------
(***************************************************************************)
(* Proofs about the kernel side of a session from its start to its end.    *)
(*                                                                         *)
(* Bootstrap, for any number of daemons, control clients, calls and        *)
(* faults: module references are exact and no code is left at unload;      *)
(* without a fault the hand-over is one-shot and a successful DAEMON_READY *)
(* disarms the guard; no fd is installed after a fail-close.               *)
(*                                                                         *)
(* Host, for any number of processes, apps, mounts and failing writes,     *)
(* with and without static calls: the LSM hook is accounted for at every   *)
(* moment and one failing write does not leave it behind; a cleanup takes  *)
(* module mounts and no other, and returns with the process's credentials. *)
(***************************************************************************)
EXTENDS Bootstrap, Host, FiniteSetTheorems, TLAPS

One(b) == IF b THEN 1 ELSE 0

PinnedClients == {c \in Client : pc[c] \in Pinned}
FileClients == {c \in Client : HasFile(c)}

-----------------------------------------------------------------------------
(* The bootstrap: the inductive invariants.                                *)

\* Where a thread is tells whether its fd is open; only daemons
\* claim and report ready.
FdOfPc ==
    \A c \in Client :
        /\ pc[c] \in {"installed", "copy", "done"} \cup InIoctl => fd[c] = "open"
        /\ pc[c] \in InHandler \cup {"queued", "checked", "referenced", "faulted", "failed"} => fd[c] = "none"
        /\ pc[c] \in InIoctl \cup {"undo", "installed", "faulted"} => c \in Claimer

\* How far yukizygisk_exit is tells what is over; the lifecycle lock is held
\* by the one that deactivates.
ExitOrder ==
    /\ exit # "live" => pins = 0
    /\ exit \in {"unhook", "lock", "deactivate", "gone"} => guard = "off"
    /\ exit \in {"lock", "deactivate", "gone"} => ~hook
    /\ ~hook => \A c \in Client : pc[c] \notin InHandler
    /\ lock = "guard" <=> guard = "deactivate"
    /\ lock = "exit" <=> exit = "deactivate"

PinInv == TypeOK /\ PinsExact /\ FdOfPc /\ ExitOrder

\* Daemons between their claim and its end
Holding == {c \in Claimer : pc[c] \in {"queue", "undo", "queued", "checked", "referenced",
                                "installed", "failed"}}

\* Without a fault a claim has one holder, from cmpxchg to the fd it ends in,
\* and the claim state says how far it is.
ClaimOwned ==
    faults = 0 =>
        /\ \A c, d \in Holding \cup Delivered : c = d
        /\ claim = "UNCLAIMED" => Holding = {} /\ Delivered = {}
        /\ claim = "CLAIMING" => Delivered = {}
        /\ claim = "READY" => Holding = {}
        /\ \A c \in Client : pc[c] # "faulted"
        /\ \A c \in Claimer : pc[c] = "undo" => "control" \notin active \/ exit # "live"

\* The guard has decided to disable the module, or has done so.
Closing == guard \in {"clear", "unhook", "lock", "deactivate"} \/ active # Stage

\* Without a fault READY is final until rmmod, and once the guard has closed
\* the claim nobody gets as far as DELIVERED any more.
ReadyFinal ==
    /\ guard \in {"check", "close"} => seen \notin {"READY", "CLOSED"}
    /\ faults = 0 /\ exit = "live" =>
        /\ told # {} \/ (\E c \in Client : pc[c] = "cancel") => claim = "READY"
        /\ Closing => \/ claim = "CLOSED"
                      \/ /\ "control" \notin active
                         /\ claim \in {"UNCLAIMED", "CLAIMING"}
                         /\ \A c \in Holding : pc[c] \in {"queue", "undo"}

BootInv == PinInv /\ ClaimOwned /\ ReadyFinal

-----------------------------------------------------------------------------
(* Counting.                                                               *)

LEMMA ClientFinite == IsFiniteSet(Client)
BY BootstrapBounds, FS_Union DEF Client

\* Two sets of clients that differ at most in c differ in size by c.
LEMMA CountMembers ==
    ASSUME NEW S \in SUBSET Client, NEW T \in SUBSET Client, NEW c \in Client,
           \A d \in Client \ {c} : d \in S <=> d \in T
    PROVE  /\ Cardinality(S) \in Nat /\ Cardinality(T) \in Nat
           /\ Cardinality(T) + One(c \in S) = Cardinality(S) + One(c \in T)
<1>1. /\ IsFiniteSet(S) /\ IsFiniteSet(T)
      /\ Cardinality(S) \in Nat /\ Cardinality(T) \in Nat
  BY ClientFinite, FS_Subset, FS_CardinalityType
<1>2. S \ {c} = T \ {c}
  OBVIOUS
<1>3. /\ Cardinality(S \ {c}) = IF c \in S THEN Cardinality(S) - 1 ELSE Cardinality(S)
      /\ Cardinality(T \ {c}) = IF c \in T THEN Cardinality(T) - 1 ELSE Cardinality(T)
  BY <1>1, FS_RemoveElement
<1> QED BY <1>1, <1>2, <1>3 DEF One

LEMMA PinsAreCounts == PinsExact <=> pins = Cardinality(PinnedClients) + Cardinality(FileClients)
BY DEF PinsExact, PinnedClients, FileClients

\* A step of one client keeps the count exact if it takes and drops the
\* references that its new place and its fd stand for.
LEMMA PinsStep ==
    ASSUME TypeOK, PinsExact, NEW c \in Client,
           \A d \in Client \ {c} : pc'[d] = pc[d] /\ fd'[d] = fd[d],
           pins' \in Int,
           pins' + One(pc[c] \in Pinned) + One(HasFile(c))
             = pins + One(pc'[c] \in Pinned) + One(HasFile(c)')
    PROVE  PinsExact' /\ pins' \in Nat
<1>1. /\ Cardinality(PinnedClients) \in Nat /\ Cardinality(PinnedClients') \in Nat
      /\ Cardinality(PinnedClients') + One(pc[c] \in Pinned)
           = Cardinality(PinnedClients) + One(pc'[c] \in Pinned)
  <2>1. /\ PinnedClients \in SUBSET Client /\ PinnedClients' \in SUBSET Client
        /\ \A d \in Client \ {c} : d \in PinnedClients <=> d \in PinnedClients'
        /\ c \in PinnedClients <=> pc[c] \in Pinned
        /\ c \in PinnedClients' <=> pc'[c] \in Pinned
    BY DEF PinnedClients
  <2> QED BY <2>1, CountMembers DEF One
<1>2. /\ Cardinality(FileClients) \in Nat /\ Cardinality(FileClients') \in Nat
      /\ Cardinality(FileClients') + One(HasFile(c))
           = Cardinality(FileClients) + One(HasFile(c)')
  <2>1. /\ FileClients \in SUBSET Client /\ FileClients' \in SUBSET Client
        /\ \A d \in Client \ {c} : d \in FileClients <=> d \in FileClients'
        /\ c \in FileClients <=> HasFile(c)
        /\ c \in FileClients' <=> HasFile(c)'
    BY DEF FileClients, HasFile
  <2> QED BY <2>1, CountMembers DEF One
<1>3. pins = Cardinality(PinnedClients) + Cardinality(FileClients)
  BY PinsAreCounts
<1>4. PinsExact' <=> pins' = Cardinality(PinnedClients') + Cardinality(FileClients')
  BY DEF PinsExact, PinnedClients, FileClients
<1>5. pins' = Cardinality(PinnedClients') + Cardinality(FileClients')
  BY ONLY <1>1, <1>2, <1>3, pins' \in Int,
          pins' + One(pc[c] \in Pinned) + One(HasFile(c))
             = pins + One(pc'[c] \in Pinned) + One(HasFile(c)') DEF One
<1> QED BY <1>1, <1>2, <1>4, <1>5

\* Without references nobody is pinned and no fd is open.
LEMMA NoPins ==
    ASSUME PinsExact, pins = 0, NEW c \in Client
    PROVE  pc[c] \notin Pinned /\ ~HasFile(c)
<1>1. /\ IsFiniteSet(PinnedClients) /\ Cardinality(PinnedClients) \in Nat
      /\ IsFiniteSet(FileClients) /\ Cardinality(FileClients) \in Nat
  BY ClientFinite, FS_Subset, FS_CardinalityType DEF PinnedClients, FileClients
<1>2. Cardinality(PinnedClients) = 0 /\ Cardinality(FileClients) = 0
  BY <1>1, PinsAreCounts
<1>3. PinnedClients = {} /\ FileClients = {}
  BY <1>1, <1>2, FS_EmptySet
<1> QED BY <1>3 DEF PinnedClients, FileClients

-----------------------------------------------------------------------------
(* Module references.                                                      *)

LEMMA InitPin == Init => PinInv
<1> SUFFICES ASSUME Init PROVE PinInv
  OBVIOUS
<1>1. TypeOK
  <2>1. /\ claim \in {"UNCLAIMED", "CLOSED"} /\ guard \in {"scheduled", "off"}
        /\ cookie \in BOOLEAN /\ hook \in BOOLEAN /\ services \in BOOLEAN /\ late \in BOOLEAN
    BY DEF Init
  <2>2. /\ told = {} /\ pins = 0 /\ tries = 0 /\ faults = 0 /\ active = Stage
        /\ lock = "free" /\ seen = "UNCLAIMED" /\ exit = "live"
        /\ pc = [c \in Client |-> "user"] /\ fd = [c \in Client |-> "none"]
    BY DEF Init
  <2> QED BY <2>1, <2>2, BootstrapBounds DEF TypeOK
<1>2. PinnedClients = {} /\ FileClients = {}
  BY DEF Init, PinnedClients, FileClients, HasFile, Pinned
<1>3. PinsExact
  BY <1>2, FS_EmptySet, PinsAreCounts DEF Init
<1>4. FdOfPc /\ ExitOrder
  BY DEF Init, FdOfPc, ExitOrder, InHandler, InIoctl
<1> QED BY <1>1, <1>3, <1>4 DEF PinInv

\* The steps of a client's thread
ClientStep(c) == Prctl(c) \/ KernelSteps(c) \/ ReadyEnter(c) \/ Close(c)
\* The steps of the guard, of rmmod and of the rest of the boot
SystemStep == GuardSteps \/ Rmmod \/ ExitSteps \/ ServicesStart \/ DeadlinePasses

\* A client's step takes and drops exactly the references its new place in
\* the handler, the task_work or the ioctl stands for.
LEMMA PinInvClient ==
    ASSUME PinInv, NEW c \in Client, ClientStep(c)
    PROVE  PinInv'
<1> USE BootstrapBounds DEF PinInv, TypeOK, HasFile, Goto, InHandler, InIoctl, kvars, gvars, evars, pvars
<1>1. CASE Prctl(c)
  <2>1. PinsExact' /\ pins' \in Nat
    BY <1>1, PinsStep DEF Prctl, FdOfPc, Pinned, One
  <2>2. TypeOK' /\ FdOfPc'
    BY <1>1, <2>1 DEF Prctl, FdOfPc
  <2>3. ExitOrder'
    BY <1>1, NoPins DEF Prctl, ExitOrder, Pinned
  <2> QED BY <2>1, <2>2, <2>3
<1>2. CASE PrctlClaim(c)
  <2>1. PinsExact' /\ pins' \in Nat
    BY <1>2, PinsStep DEF PrctlClaim, FdOfPc, Pinned, One
  <2>2. TypeOK' /\ FdOfPc'
    BY <1>2, <2>1 DEF PrctlClaim, FdOfPc
  <2>3. ExitOrder'
    BY <1>2, NoPins DEF PrctlClaim, ExitOrder, Pinned
  <2> QED BY <2>1, <2>2, <2>3
<1>3. CASE PrctlQueue(c)
  <2>1. PinsExact' /\ pins' \in Nat
    BY <1>3, PinsStep DEF PrctlQueue, CanPin, FdOfPc, Pinned, One
  <2>2. TypeOK' /\ FdOfPc'
    BY <1>3, <2>1 DEF PrctlQueue, CanPin, FdOfPc
  <2>3. ExitOrder'
    BY <1>3, NoPins DEF PrctlQueue, CanPin, ExitOrder, Pinned
  <2> QED BY <2>1, <2>2, <2>3
<1>4. CASE PrctlUndo(c)
  <2>1. PinsExact' /\ pins' \in Nat
    BY <1>4, PinsStep DEF PrctlUndo, FdOfPc, Pinned, One
  <2>2. TypeOK' /\ FdOfPc'
    BY <1>4, <2>1 DEF PrctlUndo, FdOfPc
  <2>3. ExitOrder'
    BY <1>4, NoPins DEF PrctlUndo, ExitOrder, Pinned
  <2> QED BY <2>1, <2>2, <2>3
<1>5. CASE TaskWorkInstall(c)
  <2>1. PinsExact' /\ pins' \in Nat
    BY <1>5, PinsStep DEF TaskWorkInstall, CanPin, FdOfPc, Pinned, One
  <2>2. TypeOK' /\ FdOfPc'
    BY <1>5, <2>1 DEF TaskWorkInstall, CanPin, FdOfPc
  <2>3. ExitOrder'
    BY <1>5, NoPins DEF TaskWorkInstall, CanPin, ExitOrder, Pinned
  <2> QED BY <2>1, <2>2, <2>3
<1>6. CASE TaskWorkDeliver(c)
  <2>1. PinsExact' /\ pins' \in Nat
    BY <1>6, PinsStep DEF TaskWorkDeliver, CloseFd, FdOfPc, Pinned, One
  <2>2. TypeOK' /\ FdOfPc'
    BY <1>6, <2>1 DEF TaskWorkDeliver, CloseFd, FdOfPc
  <2>3. ExitOrder'
    BY <1>6, NoPins DEF TaskWorkDeliver, CloseFd, ExitOrder, Pinned
  <2> QED BY <2>1, <2>2, <2>3
<1>7. CASE TaskWorkCopy(c)
  <2>1. PinsExact' /\ pins' \in Nat
    BY <1>7, PinsStep DEF TaskWorkCopy, CloseFd, FdOfPc, Pinned, One
  <2>2. TypeOK' /\ FdOfPc'
    BY <1>7, <2>1 DEF TaskWorkCopy, CloseFd, FdOfPc
  <2>3. ExitOrder'
    BY <1>7, NoPins DEF TaskWorkCopy, CloseFd, ExitOrder, Pinned
  <2> QED BY <2>1, <2>2, <2>3
<1>8. CASE TaskWorkFault(c)
  <2>1. PinsExact' /\ pins' \in Nat
    BY <1>8, PinsStep DEF TaskWorkFault, FdOfPc, Pinned, One
  <2>2. TypeOK' /\ FdOfPc'
    BY <1>8, <2>1 DEF TaskWorkFault, FdOfPc
  <2>3. ExitOrder'
    BY <1>8, NoPins DEF TaskWorkFault, ExitOrder, Pinned
  <2> QED BY <2>1, <2>2, <2>3
<1>9. CASE TaskWorkFinish(c)
  <2>1. PinsExact' /\ pins' \in Nat
    BY <1>9, PinsStep DEF TaskWorkFinish, FdOfPc, Pinned, One
  <2>2. TypeOK' /\ FdOfPc'
    BY <1>9, <2>1 DEF TaskWorkFinish, FdOfPc
  <2>3. ExitOrder'
    BY <1>9, NoPins DEF TaskWorkFinish, ExitOrder, Pinned
  <2> QED BY <2>1, <2>2, <2>3
<1>10. CASE ReadyEnter(c)
  <2>1. PinsExact' /\ pins' \in Nat
    BY <1>10, PinsStep DEF ReadyEnter, FdOfPc, Pinned, One
  <2>2. TypeOK' /\ FdOfPc'
    BY <1>10, <2>1 DEF ReadyEnter, FdOfPc
  <2>3. ExitOrder'
    BY <1>10, NoPins DEF ReadyEnter, ExitOrder, Pinned
  <2> QED BY <2>1, <2>2, <2>3
<1>11. CASE ReadyClaim(c)
  <2>1. PinsExact' /\ pins' \in Nat
    BY <1>11, PinsStep DEF ReadyClaim, FdOfPc, Pinned, One
  <2>2. TypeOK' /\ FdOfPc'
    BY <1>11, <2>1 DEF ReadyClaim, FdOfPc
  <2>3. ExitOrder'
    BY <1>11, NoPins DEF ReadyClaim, ExitOrder, Pinned
  <2> QED BY <2>1, <2>2, <2>3
<1>12. CASE ReadyCancel(c)
  <2>1. PinsExact' /\ pins' \in Nat
    BY <1>12, PinsStep DEF ReadyCancel, FdOfPc, Pinned, One
  <2>2. TypeOK' /\ FdOfPc'
    BY <1>12, <2>1 DEF ReadyCancel, FdOfPc
  <2>3. ExitOrder'
    BY <1>12, NoPins DEF ReadyCancel, ExitOrder, Pinned
  <2> QED BY <2>1, <2>2, <2>3
<1>13. CASE Close(c)
  <2>1. PinsExact' /\ pins' \in Nat
    BY <1>13, PinsStep DEF Close, CloseFd, FdOfPc, Pinned, One
  <2>2. TypeOK' /\ FdOfPc'
    BY <1>13, <2>1 DEF Close, CloseFd, FdOfPc
  <2>3. ExitOrder'
    BY <1>13, NoPins DEF Close, CloseFd, ExitOrder, Pinned
  <2> QED BY <2>1, <2>2, <2>3
<1>14. CASE TaskWorkCheck(c)
  <2>1. PinsExact' /\ pins' \in Nat
    BY <1>14, PinsStep DEF TaskWorkCheck, FdOfPc, Pinned, One
  <2>2. TypeOK' /\ FdOfPc'
    BY <1>14, <2>1 DEF TaskWorkCheck, FdOfPc
  <2>3. ExitOrder'
    BY <1>14, NoPins DEF TaskWorkCheck, ExitOrder, Pinned
  <2> QED BY <2>1, <2>2, <2>3
<1>15. CASE TaskWorkPin(c)
  <2>1. PinsExact' /\ pins' \in Nat
    BY <1>15, PinsStep DEF TaskWorkPin, CanPin, FdOfPc, Pinned, One
  <2>2. TypeOK' /\ FdOfPc'
    BY <1>15, <2>1 DEF TaskWorkPin, CanPin, FdOfPc
  <2>3. ExitOrder'
    BY <1>15, NoPins DEF TaskWorkPin, CanPin, ExitOrder, Pinned
  <2> QED BY <2>1, <2>2, <2>3
<1>16. CASE TaskWorkReturn(c)
  <2>1. PinsExact' /\ pins' \in Nat
    BY <1>16, PinsStep DEF TaskWorkReturn, FdOfPc, Pinned, One
  <2>2. TypeOK' /\ FdOfPc'
    BY <1>16, <2>1 DEF TaskWorkReturn, FdOfPc
  <2>3. ExitOrder'
    BY <1>16, NoPins DEF TaskWorkReturn, ExitOrder, Pinned
  <2> QED BY <2>1, <2>2, <2>3
<1> QED BY <1>1, <1>2, <1>3, <1>4, <1>5, <1>6, <1>7, <1>8, <1>9, <1>10, <1>11, <1>12, <1>13, <1>14, <1>15, <1>16 DEF ClientStep, KernelSteps

\* The guard, rmmod and the boot hold no references; they move the order.
LEMMA PinInvSystem ==
    ASSUME PinInv, SystemStep
    PROVE  PinInv'
<1> USE DEF PinInv, TypeOK, InHandler, InIoctl, kvars, gvars, evars, pvars
<1>0. pc' = pc /\ fd' = fd /\ pins' = pins /\ told' = told
  BY DEF SystemStep, GuardSteps, ExitSteps, ServicesStart, DeadlinePasses, Rmmod,
         GuardFires, GuardRead, GuardCheck, GuardClose, GuardClear, GuardUnhook, GuardLock,
         GuardDeactivate, GuardDone, ExitClose, ExitCancel, ExitUnhook, ExitLock,
         ExitDeactivate, ExitDone
<1>a. PinsExact' /\ FdOfPc'
  BY <1>0 DEF PinsExact, HasFile, FdOfPc
<1>1. CASE GuardFires
  BY <1>1, <1>0, <1>a DEF GuardFires, ExitOrder
<1>2. CASE GuardRead
  BY <1>2, <1>0, <1>a DEF GuardRead, ExitOrder
<1>3. CASE GuardCheck
  BY <1>3, <1>0, <1>a DEF GuardCheck, Reschedule, ExitOrder
<1>4. CASE GuardClose
  BY <1>4, <1>0, <1>a DEF GuardClose, Reschedule, ExitOrder
<1>5. CASE GuardClear
  BY ZenonT(60), <1>5, <1>0, <1>a DEF GuardClear, ExitOrder
<1>6. CASE GuardUnhook
  <2>1. \A c \in Client : pc[c] \notin InHandler
    BY <1>6 DEF GuardUnhook, UnregisterKprobe, ExitOrder
  <2>2. TypeOK'
    <3>1. /\ hook' = FALSE /\ guard' = "lock"
          /\ UNCHANGED <<claim, cookie, active, lock, seen, evars, exit, pvars>>
      BY <1>6 DEF GuardUnhook, UnregisterKprobe
    <3>2. hook' \in BOOLEAN /\ guard' \in {"lock"}
      BY <3>1
    <3> QED BY <3>1, <3>2, <1>0
  <2>3. ExitOrder'
    BY <1>6, <1>0, <2>1 DEF GuardUnhook, UnregisterKprobe, ExitOrder
  <2> QED BY <1>a, <2>2, <2>3
<1>7. CASE GuardLock
  BY <1>7, <1>0, <1>a DEF GuardLock, ExitOrder
<1>8. CASE GuardDeactivate
  BY <1>8, <1>0, <1>a DEF GuardDeactivate, DeactivateStage, ExitOrder
<1>9. CASE GuardDone
  BY <1>9, <1>0, <1>a DEF GuardDone, ExitOrder
<1>10. CASE Rmmod
  BY <1>10, <1>0, <1>a DEF Rmmod, ExitOrder
<1>11. CASE ExitClose
  BY ZenonT(60), <1>11, <1>0, <1>a DEF ExitClose, ExitOrder
<1>12. CASE ExitCancel
  BY <1>12, <1>0, <1>a DEF ExitCancel, ExitOrder
<1>13. CASE ExitUnhook
  BY ZenonT(60), <1>13, <1>0, <1>a DEF ExitUnhook, UnregisterKprobe, ExitOrder
<1>14. CASE ExitLock
  BY <1>14, <1>0, <1>a DEF ExitLock, ExitOrder
<1>15. CASE ExitDeactivate
  BY <1>15, <1>0, <1>a DEF ExitDeactivate, DeactivateStage, ExitOrder
<1>16. CASE ExitDone
  BY <1>16, <1>0, <1>a DEF ExitDone, ExitOrder
<1>17. CASE ServicesStart
  BY <1>17, <1>0, <1>a DEF ServicesStart, ExitOrder
<1>18. CASE DeadlinePasses
  BY <1>18, <1>0, <1>a DEF DeadlinePasses, ExitOrder
<1> QED BY <1>1, <1>2, <1>3, <1>4, <1>5, <1>6, <1>7, <1>8, <1>9, <1>10, <1>11, <1>12, <1>13, <1>14, <1>15, <1>16, <1>17, <1>18 DEF SystemStep, GuardSteps, ExitSteps

LEMMA NextSplit ==
    ASSUME Next
    PROVE  (\E c \in Client : ClientStep(c)) \/ SystemStep
BY DEF Next, ClientStep, SystemStep

LEMMA PinInvStep == PinInv /\ [Next]_vars => PinInv'
<1> SUFFICES ASSUME PinInv, [Next]_vars PROVE PinInv'
  OBVIOUS
<1>1. CASE \E c \in Client : ClientStep(c)
  BY <1>1, PinInvClient
<1>2. CASE SystemStep
  BY <1>2, PinInvSystem
<1>3. CASE UNCHANGED vars
  BY <1>3 DEF vars, kvars, gvars, evars, pvars, PinInv, TypeOK, PinsExact, HasFile, FdOfPc, ExitOrder
<1> QED BY <1>1, <1>2, <1>3, NextSplit

LEMMA PinInvImplies == PinInv => ModulePinned
<1> SUFFICES ASSUME PinInv, exit = "gone"
             PROVE  /\ guard = "off" /\ ~hook /\ lock = "free"
                    /\ \A c \in Client : pc[c] \in {"user", "leaving"} /\ fd[c] = "none"
  BY DEF PinInv, ModulePinned, LeftAfterUnload
<1>1. guard = "off" /\ ~hook /\ lock = "free" /\ pins = 0
  BY DEF PinInv, ExitOrder, TypeOK
<1>2. ASSUME NEW c \in Client
      PROVE  pc[c] \in {"user", "leaving"} /\ fd[c] = "none"
  <2>1. pc[c] \notin Pinned /\ fd[c] = "none"
    BY <1>1, NoPins DEF PinInv, TypeOK, HasFile
  <2>2. pc[c] \notin InHandler /\ pc[c] \notin InIoctl
    BY <1>1, <2>1 DEF PinInv, ExitOrder, FdOfPc
  <2> QED BY <2>1, <2>2 DEF PinInv, TypeOK, Pinned
<1> QED BY <1>1, <1>2

\* Module references are exact; the unload leaves nothing of the module but
\* task_works past their module_put.
THEOREM ModuleAlwaysPinned == Spec => []ModulePinned
BY InitPin, PinInvStep, PinInvImplies, PTL DEF Spec

-----------------------------------------------------------------------------
(* The hand-over, as long as no copy and no session allocation failed.     *)

LEMMA InitClaim == Init => ClaimOwned /\ ReadyFinal
<1> SUFFICES ASSUME Init PROVE ClaimOwned /\ ReadyFinal
  OBVIOUS
<1>1. Holding = {} /\ Delivered = {}
  BY DEF Init, Holding, Delivered, Client
<1>2. ClaimOwned
  BY <1>1 DEF Init, ClaimOwned, Client
<1>3. ReadyFinal
  BY DEF Init, ReadyFinal, Closing
<1> QED BY <1>2, <1>3

\* A client's step moves at most itself in or out of the claim.
LEMMA ClaimClient ==
    ASSUME PinInv, PinInv', ClaimOwned, NEW c \in Client, ClientStep(c)
    PROVE  ClaimOwned'
<1> SUFFICES ASSUME faults' = 0 PROVE ClaimOwned'
  BY DEF ClaimOwned
<1> USE DEF PinInv, TypeOK, Goto, InHandler, InIoctl, kvars, gvars, evars, pvars, Client
<1>a. faults = 0
  BY BootstrapBounds DEF ClientStep, KernelSteps, Prctl, PrctlClaim, PrctlQueue, PrctlUndo, TaskWorkCheck, TaskWorkPin,
     TaskWorkInstall, TaskWorkDeliver, TaskWorkCopy, TaskWorkFault, TaskWorkFinish, TaskWorkReturn, ReadyEnter, ReadyClaim,
     ReadyCancel, Close
<1>1. CASE Prctl(c)
  BY <1>1, <1>a DEF Prctl, ClaimOwned, Holding, Delivered, FdOfPc
<1>2. CASE PrctlClaim(c)
  BY <1>2, <1>a DEF PrctlClaim, ClaimOwned, Holding, Delivered, FdOfPc
<1>3. CASE PrctlQueue(c)
  BY <1>3, <1>a DEF PrctlQueue, CanPin, ClaimOwned, Holding, Delivered, FdOfPc
<1>4. CASE PrctlUndo(c)
  BY <1>4, <1>a DEF PrctlUndo, ClaimOwned, Holding, Delivered, FdOfPc
<1>5. CASE TaskWorkInstall(c)
  BY <1>5, <1>a DEF TaskWorkInstall, CanPin, ClaimOwned, Holding, Delivered, FdOfPc
<1>6. CASE TaskWorkDeliver(c)
  BY <1>6, <1>a DEF TaskWorkDeliver, CloseFd, ClaimOwned, Holding, Delivered, FdOfPc
<1>7. CASE TaskWorkCopy(c)
  BY <1>7, <1>a DEF TaskWorkCopy, CloseFd, ClaimOwned, Holding, Delivered, FdOfPc
<1>8. CASE TaskWorkFault(c)
  BY <1>8, <1>a DEF TaskWorkFault, ClaimOwned, Holding, Delivered, FdOfPc
<1>9. CASE TaskWorkFinish(c)
  BY <1>9, <1>a DEF TaskWorkFinish, ClaimOwned, Holding, Delivered, FdOfPc
<1>10. CASE ReadyEnter(c)
  BY <1>10, <1>a DEF ReadyEnter, ClaimOwned, Holding, Delivered, FdOfPc
<1>11. CASE ReadyClaim(c)
  BY <1>11, <1>a DEF ReadyClaim, ClaimOwned, Holding, Delivered, FdOfPc
<1>12. CASE ReadyCancel(c)
  BY <1>12, <1>a DEF ReadyCancel, ClaimOwned, Holding, Delivered, FdOfPc
<1>13. CASE Close(c)
  BY <1>13, <1>a DEF Close, CloseFd, ClaimOwned, Holding, Delivered, FdOfPc
<1>14. CASE TaskWorkCheck(c)
  BY <1>14, <1>a DEF TaskWorkCheck, ClaimOwned, Holding, Delivered, FdOfPc
<1>15. CASE TaskWorkPin(c)
  BY <1>15, <1>a DEF TaskWorkPin, CanPin, ClaimOwned, Holding, Delivered, FdOfPc
<1>16. CASE TaskWorkReturn(c)
  BY <1>16, <1>a DEF TaskWorkReturn, ClaimOwned, Holding, Delivered, FdOfPc
<1> QED BY <1>1, <1>2, <1>3, <1>4, <1>5, <1>6, <1>7, <1>8, <1>9, <1>10, <1>11, <1>12, <1>13, <1>14, <1>15, <1>16 DEF ClientStep, KernelSteps

\* The guard and rmmod only close the claim and stop stages.
LEMMA ClaimSystem ==
    ASSUME PinInv, ClaimOwned, SystemStep
    PROVE  ClaimOwned'
<1> USE DEF kvars, gvars, evars, pvars
<1>1. /\ pc' = pc /\ fd' = fd /\ faults' = faults
      /\ claim' = claim \/ claim' = "CLOSED"
      /\ active' \subseteq active
      /\ exit = "live" \/ exit' # "live"
  BY DEF SystemStep, GuardSteps, ExitSteps, ServicesStart, DeadlinePasses, Rmmod,
         GuardFires, GuardRead, GuardCheck, GuardClose, GuardClear, GuardUnhook, GuardLock,
         GuardDeactivate, GuardDone, ExitClose, ExitCancel, ExitUnhook, ExitLock,
         ExitDeactivate, ExitDone, DeactivateStage
<1>2. Holding' = Holding /\ Delivered' = Delivered
  BY <1>1 DEF Holding, Delivered
<1> QED BY <1>1, <1>2 DEF ClaimOwned

\* READY and the closed claim survive every step of a client.
LEMMA ReadyClient ==
    ASSUME PinInv, ClaimOwned, ReadyFinal, NEW c \in Client, ClientStep(c)
    PROVE  ReadyFinal'
<1> USE DEF PinInv, TypeOK, Goto, InHandler, InIoctl, kvars, gvars, evars, pvars, Client
<1>a. /\ faults' = 0 => faults = 0
      /\ exit' = exit /\ active' = active /\ seen' = seen
      /\ guard' = guard \/ (guard' = "off" /\ guard = "scheduled")
  BY BootstrapBounds DEF ClientStep, KernelSteps, Prctl, PrctlClaim, PrctlQueue, PrctlUndo, TaskWorkCheck, TaskWorkPin,
     TaskWorkInstall, TaskWorkDeliver, TaskWorkCopy, TaskWorkFault, TaskWorkFinish, TaskWorkReturn, ReadyEnter, ReadyClaim,
     ReadyCancel, Close
<1>b. guard' \in {"check", "close"} => seen' \notin {"READY", "CLOSED"}
  BY <1>a DEF ReadyFinal
<1>c. Closing' = Closing
  BY <1>a DEF Closing
<1> SUFFICES ASSUME faults = 0, exit = "live"
             PROVE  /\ told' # {} \/ (\E d \in Client : pc'[d] = "cancel") => claim' = "READY"
                    /\ Closing => \/ claim' = "CLOSED"
                                  \/ /\ "control" \notin active
                                     /\ claim' \in {"UNCLAIMED", "CLAIMING"}
                                     /\ \A d \in Holding' : pc'[d] \in {"queue", "undo"}
  BY <1>a, <1>b, <1>c DEF ReadyFinal
<1> HIDE DEF Closing
<1>1. CASE Prctl(c)
  BY <1>1 DEF Prctl, ReadyFinal, ClaimOwned, Holding, Delivered, FdOfPc
<1>2. CASE PrctlClaim(c)
  BY <1>2 DEF PrctlClaim, ReadyFinal, ClaimOwned, Holding, Delivered, FdOfPc
<1>3. CASE PrctlQueue(c)
  BY <1>3 DEF PrctlQueue, CanPin, ReadyFinal, ClaimOwned, Holding, Delivered, FdOfPc
<1>4. CASE PrctlUndo(c)
  BY <1>4 DEF PrctlUndo, ReadyFinal, ClaimOwned, Holding, Delivered, FdOfPc
<1>5. CASE TaskWorkInstall(c)
  BY <1>5 DEF TaskWorkInstall, CanPin, ReadyFinal, ClaimOwned, Holding, Delivered, FdOfPc
<1>6. CASE TaskWorkDeliver(c)
  BY <1>6 DEF TaskWorkDeliver, CloseFd, ReadyFinal, ClaimOwned, Holding, Delivered, FdOfPc
<1>7. CASE TaskWorkCopy(c)
  BY <1>7 DEF TaskWorkCopy, CloseFd, ReadyFinal, ClaimOwned, Holding, Delivered, FdOfPc
<1>8. CASE TaskWorkFault(c)
  BY <1>8 DEF TaskWorkFault, ReadyFinal, ClaimOwned, Holding, Delivered, FdOfPc
<1>9. CASE TaskWorkFinish(c)
  BY <1>9 DEF TaskWorkFinish, ReadyFinal, ClaimOwned, Holding, Delivered, FdOfPc
<1>10. CASE ReadyEnter(c)
  BY <1>10 DEF ReadyEnter, ReadyFinal, ClaimOwned, Holding, Delivered, FdOfPc
<1>11. CASE ReadyClaim(c)
  BY <1>11 DEF ReadyClaim, ReadyFinal, ClaimOwned, Holding, Delivered, FdOfPc
<1>12. CASE ReadyCancel(c)
  BY <1>12 DEF ReadyCancel, ReadyFinal, ClaimOwned, Holding, Delivered, FdOfPc
<1>13. CASE Close(c)
  BY <1>13 DEF Close, CloseFd, ReadyFinal, ClaimOwned, Holding, Delivered, FdOfPc
<1>14. CASE TaskWorkCheck(c)
  BY <1>14 DEF TaskWorkCheck, ReadyFinal, ClaimOwned, Holding, Delivered, FdOfPc
<1>15. CASE TaskWorkPin(c)
  BY <1>15 DEF TaskWorkPin, CanPin, ReadyFinal, ClaimOwned, Holding, Delivered, FdOfPc
<1>16. CASE TaskWorkReturn(c)
  BY <1>16 DEF TaskWorkReturn, ReadyFinal, ClaimOwned, Holding, Delivered, FdOfPc
<1> QED BY <1>1, <1>2, <1>3, <1>4, <1>5, <1>6, <1>7, <1>8, <1>9, <1>10, <1>11, <1>12, <1>13, <1>14, <1>15, <1>16 DEF ClientStep, KernelSteps

\* The guard closes only a claim that is not READY.
LEMMA ReadySystem ==
    ASSUME PinInv, ClaimOwned, ReadyFinal, SystemStep
    PROVE  ReadyFinal'
<1> USE DEF kvars, gvars, evars, pvars
<1>a. /\ pc' = pc /\ fd' = fd /\ faults' = faults /\ told' = told
      /\ exit = "live" \/ exit' # "live"
  BY DEF SystemStep, GuardSteps, ExitSteps, ServicesStart, DeadlinePasses, Rmmod,
         GuardFires, GuardRead, GuardCheck, GuardClose, GuardClear, GuardUnhook, GuardLock,
         GuardDeactivate, GuardDone, ExitClose, ExitCancel, ExitUnhook, ExitLock,
         ExitDeactivate, ExitDone
<1>b. Holding' = Holding /\ Delivered' = Delivered
  BY <1>a DEF Holding, Delivered
<1> USE DEF ReadyFinal, Closing, PinInv, TypeOK
<1>1. CASE GuardFires
  BY <1>1, <1>a, <1>b DEF GuardFires, ExitOrder
<1>2. CASE GuardRead
  BY <1>2, <1>a, <1>b DEF GuardRead, ExitOrder
<1>3. CASE GuardCheck
  BY <1>3, <1>a, <1>b DEF GuardCheck, Reschedule, ExitOrder
<1>4. CASE GuardClose
  BY <1>4, <1>a, <1>b DEF GuardClose, Reschedule, ExitOrder
<1>5. CASE GuardClear
  BY <1>5, <1>a, <1>b DEF GuardClear, ExitOrder
<1>6. CASE GuardUnhook
  BY <1>6, <1>a, <1>b DEF GuardUnhook, UnregisterKprobe, ExitOrder
<1>7. CASE GuardLock
  BY <1>7, <1>a, <1>b DEF GuardLock, ExitOrder
<1>8. CASE GuardDeactivate
  BY <1>8, <1>a, <1>b DEF GuardDeactivate, DeactivateStage, ExitOrder
<1>9. CASE GuardDone
  BY <1>9, <1>a, <1>b DEF GuardDone, ExitOrder
<1>10. CASE Rmmod
  BY <1>10, <1>a, <1>b DEF Rmmod, ExitOrder
<1>11. CASE ExitClose
  BY <1>11, <1>a, <1>b DEF ExitClose, ExitOrder
<1>12. CASE ExitCancel
  BY <1>12, <1>a, <1>b DEF ExitCancel, ExitOrder
<1>13. CASE ExitUnhook
  BY <1>13, <1>a, <1>b DEF ExitUnhook, UnregisterKprobe, ExitOrder
<1>14. CASE ExitLock
  BY <1>14, <1>a, <1>b DEF ExitLock, ExitOrder
<1>15. CASE ExitDeactivate
  BY <1>15, <1>a, <1>b DEF ExitDeactivate, DeactivateStage, ExitOrder
<1>16. CASE ExitDone
  BY <1>16, <1>a, <1>b DEF ExitDone, ExitOrder
<1>17. CASE ServicesStart
  BY <1>17, <1>a, <1>b DEF ServicesStart, ExitOrder
<1>18. CASE DeadlinePasses
  BY <1>18, <1>a, <1>b DEF DeadlinePasses, ExitOrder
<1> QED BY <1>1, <1>2, <1>3, <1>4, <1>5, <1>6, <1>7, <1>8, <1>9, <1>10, <1>11, <1>12, <1>13, <1>14, <1>15, <1>16, <1>17, <1>18 DEF SystemStep, GuardSteps, ExitSteps

LEMMA BootInvStep == BootInv /\ [Next]_vars => BootInv'
<1> SUFFICES ASSUME BootInv, [Next]_vars PROVE BootInv'
  OBVIOUS
<1> USE DEF BootInv
<1>1. PinInv'
  BY PinInvStep
<1>2. CASE \E c \in Client : ClientStep(c)
  BY <1>1, <1>2, ClaimClient, ReadyClient
<1>3. CASE SystemStep
  BY <1>1, <1>3, ClaimSystem, ReadySystem
<1>4. CASE UNCHANGED vars
  <2>1. ClaimOwned'
    BY <1>4 DEF vars, kvars, gvars, evars, pvars, ClaimOwned, Holding, Delivered
  <2>2. ReadyFinal'
    BY <1>4 DEF vars, kvars, gvars, evars, pvars, ReadyFinal, Closing, Holding
  <2> QED BY <1>1, <2>1, <2>2
<1> QED BY <1>2, <1>3, <1>4, NextSplit

LEMMA OneDelivered == ClaimOwned => OneShot
<1> SUFFICES ASSUME ClaimOwned, faults = 0
             PROVE  /\ Cardinality(Delivered) <= 1
                    /\ Delivered # {} => claim # "CLAIMING"
  BY DEF OneShot
<1>1. Delivered # {} => claim # "CLAIMING"
  BY DEF ClaimOwned
<1>2. CASE Delivered = {}
  BY <1>1, <1>2, FS_EmptySet
<1>3. CASE Delivered # {}
  <2>1. PICK c \in Delivered : TRUE
    BY <1>3
  <2>2. Delivered = {c}
    BY <2>1 DEF ClaimOwned
  <2> QED BY <1>1, <2>2, FS_Singleton
<1> QED BY <1>2, <1>3

LEMMA ReadyKept == ReadyFinal => ReadyDisarmsUnlessFault
BY DEF ReadyFinal, Closing, ReadyDisarmsUnlessFault, ReadyDisarmsGuard

LEMMA BootInvariant == Spec => []BootInv
<1>1. Init => BootInv
  BY InitPin, InitClaim DEF BootInv
<1> QED BY <1>1, BootInvStep, PTL DEF Spec

\* As long as nothing faults, one daemon at most is handed the control fd.
THEOREM HandedOverOnce == Spec => []OneShot
<1>1. BootInv => OneShot
  BY OneDelivered DEF BootInv
<1> QED BY <1>1, BootInvariant, PTL

\* As long as nothing faults, a DAEMON_READY that returned 0 disarms the guard.
THEOREM ReadyAlwaysDisarms == Spec => []ReadyDisarmsUnlessFault
<1>1. BootInv => ReadyDisarmsUnlessFault
  BY ReadyKept DEF BootInv
<1> QED BY <1>1, BootInvariant, PTL

\* Once the module is disabled no thread is inside an ioctl any more.
QuietIfClosed == FailedClosed => \A c \in Client : pc[c] \notin InIoctl

LEMMA QuietStep == PinInv /\ QuietIfClosed /\ [Next]_vars => QuietIfClosed'
<1> SUFFICES ASSUME PinInv, QuietIfClosed, [Next]_vars PROVE QuietIfClosed'
  OBVIOUS
<1> USE DEF PinInv, TypeOK, QuietIfClosed, FailedClosed, InIoctl, kvars, gvars, evars, pvars
<1>1. CASE \E d \in Client : ClientStep(d)
  <2> PICK d \in Client : ClientStep(d)
    BY <1>1
  <2>1. active' = active
    BY DEF ClientStep, KernelSteps, Prctl, PrctlClaim, PrctlQueue, PrctlUndo,
       TaskWorkCheck, TaskWorkPin, TaskWorkInstall, TaskWorkDeliver, TaskWorkCopy, TaskWorkFault,
       TaskWorkFinish, TaskWorkReturn, ReadyEnter, ReadyClaim, ReadyCancel, Close
  <2>2. CASE ReadyEnter(d)
    BY <2>1, <2>2 DEF ReadyEnter
  <2>3. CASE ReadyClaim(d) \/ ReadyCancel(d)
    BY <2>1, <2>3 DEF ReadyClaim, ReadyCancel, Goto
  <2>4. CASE ~(ReadyEnter(d) \/ ReadyClaim(d) \/ ReadyCancel(d))
    <3>1. \A e \in Client : pc'[e] \in {"ready", "cancel"} => pc[e] = pc'[e]
      BY <2>4 DEF ClientStep, KernelSteps, Prctl, PrctlClaim, PrctlQueue, PrctlUndo,
         TaskWorkCheck, TaskWorkPin, TaskWorkInstall, TaskWorkDeliver, TaskWorkCopy, TaskWorkFault,
         TaskWorkFinish, TaskWorkReturn, Close, Goto
    <3> QED BY <2>1, <3>1
  <2> QED BY <2>2, <2>3, <2>4
<1>2. CASE SystemStep
  <2>1. pc' = pc
    BY <1>2 DEF SystemStep, GuardSteps, ExitSteps, ServicesStart, DeadlinePasses, Rmmod,
         GuardFires, GuardRead, GuardCheck, GuardClose, GuardClear, GuardUnhook, GuardLock,
         GuardDeactivate, GuardDone, ExitClose, ExitCancel, ExitUnhook, ExitLock,
         ExitDeactivate, ExitDone
  <2>2. CASE DeactivateStage
    BY <2>1, <2>2 DEF DeactivateStage
  <2>3. CASE ~DeactivateStage
    <3>1. active' = active
      BY <1>2, <2>3 DEF SystemStep, GuardSteps, ExitSteps, ServicesStart, DeadlinePasses, Rmmod,
         GuardFires, GuardRead, GuardCheck, GuardClose, GuardClear, GuardUnhook, GuardLock,
         GuardDeactivate, GuardDone, ExitClose, ExitCancel, ExitUnhook, ExitLock,
         ExitDeactivate, ExitDone
    <3> QED BY <2>1, <3>1
  <2> QED BY <2>2, <2>3
<1>3. CASE UNCHANGED vars
  BY <1>3 DEF vars
<1> QED BY <1>1, <1>2, <1>3, NextSplit

\* After the fail-close no DAEMON_READY succeeds, and unless something faulted
\* no daemon is handed its fd, although fds are still installed.
THEOREM FailClosedStaysClosed == Spec => FailClosedFinal
<1>1. ASSUME BootInv, QuietIfClosed, [Next]_vars, FailedClosed
      PROVE  told' = told
  <2>1. \A d \in Client : ~ReadyClaim(d) /\ ~ReadyCancel(d)
    BY <1>1 DEF QuietIfClosed, InIoctl, ReadyClaim, ReadyCancel
  <2>2. CASE \E d \in Client : ClientStep(d)
    BY <2>1, <2>2 DEF ClientStep, KernelSteps, Prctl, PrctlClaim, PrctlQueue, PrctlUndo,
       TaskWorkCheck, TaskWorkPin, TaskWorkInstall, TaskWorkDeliver, TaskWorkCopy, TaskWorkFault,
       TaskWorkFinish, TaskWorkReturn, ReadyEnter, Close
  <2>3. CASE SystemStep
    BY <2>3 DEF SystemStep, GuardSteps, ExitSteps, ServicesStart, DeadlinePasses, Rmmod, pvars,
         GuardFires, GuardRead, GuardCheck, GuardClose, GuardClear, GuardUnhook, GuardLock,
         GuardDeactivate, GuardDone, ExitClose, ExitCancel, ExitUnhook, ExitLock,
         ExitDeactivate, ExitDone
  <2>4. CASE UNCHANGED vars
    BY <2>4 DEF vars, pvars
  <2> QED BY <1>1, <2>2, <2>3, <2>4, NextSplit
<1>2. ASSUME BootInv, [Next]_vars, FailedClosed, faults = 0, NEW d \in Delivered'
      PROVE  d \in Delivered
  <2>1. d \in Claimer /\ d \in Client /\ fd'[d] = "open" /\ pc'[d] # "installed"
    BY DEF Delivered, Client
  <2>2. ASSUME d \notin Delivered PROVE TaskWorkDeliver(d) /\ claim = "CLAIMING"
    <3> USE DEF PinInv, TypeOK, BootInv, Goto, CloseFd, kvars, gvars, evars, pvars
    <3>1. fd[d] # "open" \/ pc[d] = "installed"
      BY <2>1, <2>2 DEF Delivered
    <3>2. CASE \E c \in Client : ClientStep(c)
      <4> PICK c \in Client : ClientStep(c)
        BY <3>2
      <4>1. c = d
        BY <1>2, <2>1, <3>1 DEF ClientStep, KernelSteps, Prctl, PrctlClaim, PrctlQueue, PrctlUndo,
           TaskWorkCheck, TaskWorkPin, TaskWorkInstall, TaskWorkDeliver, TaskWorkCopy, TaskWorkFault,
           TaskWorkFinish, TaskWorkReturn, ReadyEnter, ReadyClaim, ReadyCancel, Close
      <4>2. ~TaskWorkInstall(d)
        BY <1>2, <2>1 DEF TaskWorkInstall, FdOfPc
      <4> QED
        BY <1>2, <2>1, <3>1, <4>1, <4>2 DEF ClientStep, KernelSteps, Prctl, PrctlClaim, PrctlQueue, PrctlUndo,
           TaskWorkCheck, TaskWorkPin, TaskWorkDeliver, TaskWorkCopy, TaskWorkFault,
           TaskWorkFinish, TaskWorkReturn, ReadyEnter, ReadyClaim, ReadyCancel, Close
    <3>3. CASE SystemStep
      BY <2>1, <3>1, <3>3 DEF SystemStep, GuardSteps, ExitSteps, ServicesStart, DeadlinePasses, Rmmod,
         GuardFires, GuardRead, GuardCheck, GuardClose, GuardClear, GuardUnhook, GuardLock,
         GuardDeactivate, GuardDone, ExitClose, ExitCancel, ExitUnhook, ExitLock,
         ExitDeactivate, ExitDone
    <3>4. CASE UNCHANGED vars
      BY <2>1, <3>1, <3>4 DEF vars
    <3> QED BY <1>2, <3>2, <3>3, <3>4, NextSplit
  <2>3. ASSUME TaskWorkDeliver(d), claim = "CLAIMING" PROVE FALSE
    <3>1. pc[d] = "installed" /\ d \in Holding
      BY <2>1, <2>3 DEF TaskWorkDeliver, Holding
    <3>2. exit = "live"
      BY <1>2, <2>1, <3>1, NoPins DEF BootInv, PinInv, ExitOrder, Pinned
    <3>3. Closing
      BY <1>2 DEF FailedClosed, Closing, Stage
    <3>4. claim = "CLOSED" \/ \A e \in Holding : pc[e] \in {"queue", "undo"}
      BY <1>2, <3>2, <3>3 DEF BootInv, ReadyFinal
    <3> QED BY <2>3, <3>1, <3>4
  <2> QED BY <2>2, <2>3
<1>3. BootInv /\ QuietIfClosed /\ [Next]_vars =>
        [FailedClosed => /\ told' = told
                         /\ faults = 0 => Delivered' \subseteq Delivered]_vars
  BY <1>1, <1>2
<1>4. Init => QuietIfClosed
  BY DEF Init, QuietIfClosed, FailedClosed, Stage
<1>5. BootInv => PinInv
  BY DEF BootInv
<1> QED BY <1>3, <1>4, <1>5, QuietStep, BootInvariant, PTL DEF Spec, FailClosedFinal

-----------------------------------------------------------------------------
(* The host layer: the inductive invariants.                               *)

Static(f) == IF StaticCalls THEN f ELSE "selinux"

\* Where apply or remove is tells which of the two places hold which function.
HookAt ==
    /\ reg = "selected" => tracked /\ ~entry /\ slot = "selinux" /\ scall = "selinux"
    /\ reg = "patched" =>
          StaticCalls /\ tracked /\ ~entry /\ slot = "ours" /\ scall = "selinux"
    /\ reg = "called" => tracked /\ ~entry /\ slot = "ours" /\ scall = Static("ours")
    /\ reg = "restored" =>
          StaticCalls /\ tracked /\ entry /\ slot = "selinux" /\ scall = "ours"
    /\ reg = "waiting" => tracked /\ entry /\ slot = "selinux" /\ scall = "selinux"
    /\ entry => original = "selinux"

HookInv == HookSound /\ HookAt

Removing == reg \in {"restored", "waiting"}

\* A hook that the teardown passed by cost a failing write each time.
StageInv ==
    /\ stage \in {"host", "up", "control", "probe", "lsm", "gone"}
    /\ stage = "host" => reg = "free" /\ ~entry
    /\ stage \in {"probe", "lsm", "gone"} => reg \in {"free", "restored", "waiting"}
    /\ stage = "probe" /\ entry => Removing \/ patchFails >= 1
    /\ stage \in {"lsm", "gone"} /\ entry => Removing \/ patchFails >= 2
    /\ stage = "gone" => reg = "free"

HostInv == HookInv /\ StageInv

\* The work of a process between override and revert.
CredInv ==
    /\ step \in [App -> {"user", "open", "take", "scan", "detach"}]
    /\ cred \in [App -> Nat] /\ ptr \in [App -> Nat]
    /\ priv \in Nat /\ captures \in 0..CaptureMax /\ priv <= captures
    /\ \A t \in App :
          /\ step[t] \in {"user", "open", "take"} => cred[t] = Own
          /\ step[t] = "take" => ptr[t] # NoCred
          /\ ptr[t] <= captures
          /\ cred[t] = Freed => ptr[t] # priv /\ ptr[t] # NoCred
          /\ cred[t] \notin {Own, Freed} => cred[t] = ptr[t]

-----------------------------------------------------------------------------
(* The hook.                                                               *)

LEMMA InitHook == HostInit => HostInv
<1> SUFFICES ASSUME HostInit PROVE HostInv
  OBVIOUS
<1>1. LsmTypeOK
  <2>1. entry \in BOOLEAN /\ tracked \in BOOLEAN
    BY DEF HostInit, LsmInit
  <2>2. patchFails \in 0 .. PatchFailMax
    BY LsmConstants DEF HostInit, LsmInit
  <2>3. exec \in [Proc -> {"user", "selinux", "ours", "calling", "crashed"}]
    BY DEF HostInit, LsmInit
  <2> QED BY <2>1, <2>2, <2>3 DEF HostInit, LsmInit, LsmTypeOK
<1>2. HookAccounted /\ OriginalKept
  BY DEF HostInit, LsmInit, HookAccounted, OriginalKept
<1>3. HookAt /\ StageInv
  BY DEF HostInit, LsmInit, HookAt, StageInv
<1> QED BY <1>1, <1>2, <1>3 DEF HostInv, HookInv, HookSound

LEMMA ApplyHook ==
    ASSUME HookInv, yz_lsm_hook_apply \/ ApplyPatch \/ ApplyStaticCall \/ ApplyDone
    PROVE  HookInv'
<1> USE LsmConstants DEF HookInv, HookSound, LsmTypeOK, HookAccounted, OriginalKept, HookAt, Static
<1>1. CASE yz_lsm_hook_apply
  BY <1>1 DEF yz_lsm_hook_apply
<1>2. CASE ApplyPatch
  <2>1. CASE yz_patch_text("ours") /\ UNCHANGED tracked
             /\ reg' = IF StaticCalls THEN "patched" ELSE "called"
    BY <1>2, <2>1 DEF ApplyPatch, yz_patch_text
  <2>2. CASE PatchFails /\ Untrack /\ reg' = "free"
    <3>0. patchFails' \in 0 .. PatchFailMax
      BY <2>2 DEF PatchFails
    <3>1. tracked' \in BOOLEAN
      BY <2>2 DEF Untrack
    <3>2. LsmTypeOK'
      BY <1>2, <2>2, <3>0, <3>1 DEF ApplyPatch, PatchFails
    <3>3. entry' = FALSE /\ tracked' = FALSE
      BY <1>2, <2>2 DEF ApplyPatch, Untrack
    <3>4. HookAccounted'
      BY <1>2, <2>2, <3>3 DEF ApplyPatch, PatchFails
    <3>5. OriginalKept' /\ HookAt'
      BY <1>2, <2>2, <3>3 DEF ApplyPatch, PatchFails
    <3> QED BY <3>2, <3>4, <3>5
  <2> QED BY <1>2, <2>1, <2>2 DEF ApplyPatch
<1>3. CASE ApplyStaticCall
  BY <1>3 DEF ApplyStaticCall
<1>4. CASE ApplyDone
  BY <1>4 DEF ApplyDone
<1> QED BY <1>1, <1>2, <1>3, <1>4

LEMMA RemoveHook ==
    ASSUME HookInv, yz_lsm_hook_remove \/ RemoveStaticCall \/ RemoveDone
    PROVE  HookInv'
<1> USE LsmConstants DEF HookInv, HookSound, LsmTypeOK, HookAccounted, OriginalKept, HookAt, Static
<1>1. CASE yz_lsm_hook_remove
  BY <1>1 DEF yz_lsm_hook_remove, yz_patch_text, PatchFails
<1>2. CASE RemoveStaticCall
  BY <1>2 DEF RemoveStaticCall, Restored
<1>3. CASE RemoveDone
  BY <1>3 DEF RemoveDone, Untrack
<1> QED BY <1>1, <1>2, <1>3

LEMMA ExecHook ==
    ASSUME HookInv, NEW p \in Proc, Exec(p) \/ CallOriginal(p) \/ ExecDone(p)
    PROVE  HookInv'
<1> USE LsmConstants DEF HookInv, HookSound, LsmTypeOK, HookAccounted, OriginalKept, HookAt, Static
<1>1. CASE Exec(p)
  BY <1>1 DEF Exec, Called
<1>2. CASE CallOriginal(p)
  BY <1>2 DEF CallOriginal
<1>3. CASE ExecDone(p)
  BY <1>3 DEF ExecDone
<1> QED BY <1>1, <1>2, <1>3

LEMMA KeepHook ==
    ASSUME HookInv, UNCHANGED lsmVars
    PROVE  HookInv'
BY DEF HookInv, HookSound, LsmTypeOK, HookAccounted, OriginalKept, HookAt, lsmVars

LEMMA StepsHook ==
    ASSUME HostInv, LsmSteps, UNCHANGED stage
    PROVE  HostInv'
<1>1. HookInv'
  BY ApplyHook, RemoveHook, ExecHook DEF HostInv, LsmSteps
<1>2. /\ reg \notin {"selected", "patched", "called"} =>
            /\ reg' \notin {"selected", "patched", "called"}
            /\ entry' => entry
            /\ patchFails' = patchFails
      /\ reg = "free" => UNCHANGED <<reg, entry>>
      /\ Removing => Removing' \/ ~entry'
  BY DEF LsmSteps, ApplyPatch, ApplyStaticCall, ApplyDone, RemoveStaticCall, RemoveDone,
     Exec, CallOriginal, ExecDone, Removing, PatchFails, yz_patch_text
<1>3. StageInv'
  BY <1>1, <1>2 DEF HostInv, HookInv, HookSound, LsmTypeOK, StageInv, Removing
<1> QED BY <1>1, <1>3 DEF HostInv

LEMMA StepHook == HostInv /\ [HostNext]_hostVars => HostInv'
<1> SUFFICES ASSUME HostInv, [HostNext]_hostVars PROVE HostInv'
  OBVIOUS
<1>1. HookInv /\ StageInv /\ LsmTypeOK
  BY DEF HostInv, HookInv, HookSound
<1>2. CASE yz_zygote_probe_init
  <2>1. HookInv'
    BY <1>1, <1>2, ApplyHook, KeepHook DEF yz_zygote_probe_init
  <2>2. StageInv'
    BY <1>1, <1>2 DEF yz_zygote_probe_init, To, StageInv
  <2> QED BY <2>1, <2>2 DEF HostInv
<1>3. CASE Control
  <2>1. UNCHANGED <<stage, lsmVars>>
    BY <1>3 DEF Control
  <2> QED BY <1>1, <2>1, KeepHook DEF HostInv, StageInv, Removing, lsmVars
<1>4. CASE yukizygisk_control_exit
  <2>1. HookInv'
    BY <1>1, <1>4, KeepHook DEF yukizygisk_control_exit
  <2> QED BY <1>1, <1>4, <2>1 DEF yukizygisk_control_exit, To, HostInv, StageInv
<1>5. CASE yz_zygote_probe_exit
  <2>1. HookInv'
    BY <1>1, <1>5, RemoveHook, KeepHook DEF yz_zygote_probe_exit
  <2>2. StageInv'
    BY <1>1, <1>5 DEF yz_zygote_probe_exit, yz_lsm_hook_remove, To, StageInv, Removing,
       PatchFails, LsmTypeOK, lsmVars
  <2> QED BY <2>1, <2>2 DEF HostInv
<1>6. CASE yz_host_lsm_exit
  <2>1. HookInv'
    BY <1>1, <1>6, RemoveHook, KeepHook DEF yz_host_lsm_exit
  <2>2. tracked = entry
    BY <1>1, <1>6 DEF yz_host_lsm_exit, To, HookInv, HookSound, HookAccounted
  <2>3. StageInv'
    BY <1>1, <1>6, <2>2 DEF yz_host_lsm_exit, yz_lsm_hook_remove, To, StageInv, Removing,
       PatchFails, LsmTypeOK, lsmVars
  <2> QED BY <2>1, <2>3 DEF HostInv
<1>7. CASE yz_host_exit
  <2>1. HookInv'
    BY <1>1, <1>7, KeepHook DEF yz_host_exit
  <2> QED BY <1>1, <1>7, <2>1 DEF yz_host_exit, To, HostInv, StageInv, Removing, lsmVars
<1>8. CASE HostSteps
  <2>1. CASE LsmSteps /\ UNCHANGED <<mountVars, stage>>
    BY <2>1, StepsHook
  <2>2. CASE UNCHANGED <<lsmVars, stage>>
    BY <1>1, <2>2, KeepHook DEF HostInv, StageInv, Removing, lsmVars
  <2> QED BY <1>8, <2>1, <2>2 DEF HostSteps
<1>9. CASE UNCHANGED hostVars
  BY <1>1, <1>9, KeepHook DEF hostVars, HostInv, StageInv, Removing, lsmVars
<1> QED BY <1>2, <1>3, <1>4, <1>5, <1>6, <1>7, <1>8, <1>9 DEF HostNext

\* Whatever writes fail and whenever execs run, the hook of lsm.c is tracked
\* exactly if it is in place, in the list and the static call alike, and an
\* exec that meets the replacement finds the function it replaced, except
\* inside the first registration, where it may find NULL.
THEOREM HookAlwaysSound == HostSpec => []HookSound
<1>1. HostInv => HookSound
  BY DEF HostInv, HookInv
<1> QED BY <1>1, InitHook, StepHook, PTL DEF HostSpec

\* The teardown of module.c leaves the kernel's own function in place unless
\* two writes failed: what the probe could not remove yz_host_lsm_exit does.
THEOREM TeardownUnhooks == HostSpec => []GoneMeansUnhooked
<1>1. HostInv => GoneMeansUnhooked
  BY LsmConstants DEF HostInv, HookInv, HookSound, LsmTypeOK, HookAccounted, StageInv,
     Removing, GoneMeansUnhooked, Called
<1> QED BY <1>1, InitHook, StepHook, PTL DEF HostSpec

-----------------------------------------------------------------------------
(* The credentials.                                                        *)

LEMMA InitCreds == HostInit => CredInv
BY MountConstants DEF HostInit, MountInit, CredInv, NoCred, Own, Freed

LEMMA StepCreds == CredInv /\ [HostNext]_hostVars => CredInv'
<1> SUFFICES ASSUME CredInv, [HostNext]_hostVars PROVE CredInv'
  OBVIOUS
<1> USE MountConstants DEF CredInv, Own, Freed
<1>1. CASE UNCHANGED mountVars
  BY <1>1 DEF mountVars, credVars
<1>2. ASSUME NEW t \in App, Work(t) \/ Exit(t)
      PROVE  CredInv'
  <2>1. CASE yz_umount_tw_func(t)
    BY <2>1 DEF yz_umount_tw_func, credVars
  <2>2. CASE OverrideRead(t)
    BY <2>2 DEF OverrideRead, ReadPriv, NoCred
  <2>3. CASE yz_umount_scan_mountinfo(t)
    BY <2>3 DEF yz_umount_scan_mountinfo, credVars
  <2>4. CASE yz_try_umount(t)
    BY <2>4 DEF yz_try_umount, credVars
  <2>5. CASE WorkDone(t)
    BY <2>5 DEF WorkDone, yz_host_revert_creds
  <2>6. CASE Exit(t)
    BY <2>6 DEF Exit, credVars
  <2>7. CASE OverrideTake(t)
    BY <2>7 DEF OverrideTake, yz_host_override_creds, Referenced
  <2> QED BY <1>2, <2>1, <2>2, <2>3, <2>4, <2>5, <2>6, <2>7 DEF Work
<1>3. CASE Control
  BY <1>3 DEF Control, yz_host_recapture_priv_cred, yz_host_umount_pid, credVars
<1>4. CASE yz_host_exit
  BY <1>4 DEF yz_host_exit, DropCred, NoCred, credVars
<1>5. \/ UNCHANGED mountVars \/ Control \/ yz_host_exit
      \/ \E t \in App : Work(t) \/ Exit(t)
  BY DEF HostNext, HostSteps, hostVars, yz_zygote_probe_init, yukizygisk_control_exit,
     yz_zygote_probe_exit, yz_host_lsm_exit
<1> QED BY <1>1, <1>2, <1>3, <1>4, <1>5

\* No process returns to user mode with the credentials of adapter.c, on any
\* path through the work of mount.c, however often they are captured again or
\* dropped while it runs.
THEOREM CredsAlwaysReturned == HostSpec => []CredsReturned
<1>1. CredInv => CredsReturned
  BY DEF CredInv, CredsReturned
<1> QED BY <1>1, InitCreds, StepCreds, PTL DEF HostSpec

-----------------------------------------------------------------------------
(* Mount tables.                                                           *)

\* A set of naturals has a least element: the order of the naturals is
\* well-founded.
LEMMA Least ==
    ASSUME NEW S \in SUBSET Nat, S # {}
    PROVE  \E n \in S : \A k \in S : n <= k
<1>1. IsWellFoundedOn({ss \in Nat \X Nat : ss[1] < ss[2]}, Nat)
  BY NatLessThanWellFounded DEF OpToRel
<1>2. PICK n \in S : \A k \in S : ~ <<k, n>> \in {ss \in Nat \X Nat : ss[1] < ss[2]}
  BY <1>1, WFMin
<1>3. ASSUME NEW k \in S PROVE n <= k
  <2>1. n \in Nat /\ k \in Nat
    OBVIOUS
  <2>2. <<k, n>> \in Nat \X Nat /\ <<k, n>>[1] = k /\ <<k, n>>[2] = n
    BY <2>1
  <2>3. ~ k < n
    BY <1>2, <2>2
  <2> QED BY <2>1, <2>3
<1> QED BY <1>3

LEMMA TableFinite ==
    ASSUME NEW T \in Table
    PROVE  IsFiniteSet(T)
<1> DEFINE f == [m \in T |-> m.line]
<1>1. f \in [T -> 1..MountMax]
  BY DEF Table, Mount
<1>2. f \in Injection(T, 1..MountMax)
  BY <1>1 DEF Table, Injection, IsInjective
<1>3. IsFiniteSet(1..MountMax)
  BY MountConstants, FS_Interval
<1> HIDE DEF f
<1> QED BY <1>2, <1>3, FS_Injection

LEMMA SubTable ==
    ASSUME NEW T \in Table, NEW S \in SUBSET T
    PROVE  S \in Table
BY DEF Table

\* The last mount of a table that is not empty.
LEMMA LastLine ==
    ASSUME NEW T \in Table, T # {}
    PROVE  \E m \in T : \A k \in T : k.line <= m.line
<1> DEFINE S == {MountMax - m.line : m \in T}
<1>1. \A m \in T : m.line \in 1..MountMax
  BY DEF Table, Mount
<1>2. S \in SUBSET Nat /\ S # {}
  BY <1>1, MountConstants
<1>3. PICK n \in S : \A k \in S : n <= k
  <2> HIDE DEF S
  <2> QED BY <1>2, Least
<1>4. PICK m \in T : n = MountMax - m.line
  OBVIOUS
<1>5. ASSUME NEW k \in T PROVE k.line <= m.line
  <2>1. MountMax - m.line <= MountMax - k.line
    BY <1>3, <1>4
  <2> QED BY <2>1, <1>1, MountConstants
<1> QED BY <1>5

\* The array takes no more targets than it holds, and all if they fit.
LEMMA FirstOfBounded ==
    ASSUME NEW T \in Table, NEW n \in Nat
    PROVE  /\ FirstOf(T, n) \in SUBSET T
           /\ Cardinality(FirstOf(T, n)) <= n
           /\ Cardinality(T) <= n => FirstOf(T, n) = T
<1> DEFINE F == FirstOf(T, n)
           Upto(m) == {k \in T : k.line <= m.line}
<1>0. F \in SUBSET T /\ F \in Table
  BY DEF FirstOf, Table
<1>1. Cardinality(F) <= n
  <2>1. CASE F = {}
    BY <2>1, FS_EmptySet
  <2>2. CASE F # {}
    <3>1. PICK m \in F : \A k \in F : k.line <= m.line
      <4> HIDE DEF F
      <4> QED BY <1>0, <2>2, LastLine
    <3>2. F \in SUBSET Upto(m) /\ Upto(m) \in SUBSET T
      BY <1>0, <3>1
    <3>3. Cardinality(Upto(m)) <= n
      BY <3>1 DEF FirstOf
    <3>4. /\ IsFiniteSet(Upto(m)) /\ IsFiniteSet(F)
          /\ Cardinality(F) <= Cardinality(Upto(m))
      <4> HIDE DEF F, Upto
      <4>1. IsFiniteSet(T)
        BY TableFinite
      <4>2. IsFiniteSet(Upto(m))
        BY <3>2, <4>1, FS_Subset
      <4> QED BY <3>2, <4>2, FS_Subset
    <3>5. Cardinality(Upto(m)) \in Nat /\ Cardinality(F) \in Nat
      BY <3>4, FS_CardinalityType
    <3> HIDE DEF F, Upto
    <3> QED BY <3>3, <3>4, <3>5
  <2> QED BY <2>1, <2>2
<1>2. ASSUME Cardinality(T) <= n PROVE F = T
  <2>1. ASSUME NEW m \in T PROVE Cardinality(Upto(m)) <= n
    <3>1. IsFiniteSet(T) /\ Upto(m) \in SUBSET T
      BY TableFinite
    <3> HIDE DEF Upto
    <3>2. IsFiniteSet(Upto(m)) /\ Cardinality(Upto(m)) <= Cardinality(T)
      BY <3>1, FS_Subset
    <3>3. Cardinality(Upto(m)) \in Nat /\ Cardinality(T) \in Nat
      BY <3>1, <3>2, FS_CardinalityType
    <3> QED BY <1>2, <3>2, <3>3
  <2> QED BY <2>1 DEF FirstOf
<1> QED BY <1>0, <1>1, <1>2

-----------------------------------------------------------------------------
(* The cleanup.                                                            *)

\* The table M of a process while its targets T are taken, against the table B
\* it had when the work began; c: nothing failed.
Fits(B) == Cardinality(Modules(B)) <= TargetMax /\ Cardinality(B) <= LinesRead
Cleaning(M, B, T, c) ==
    /\ M \subseteq B /\ Others(M) = Others(B)
    /\ T \subseteq Modules(M)
    /\ c /\ Fits(B) => Modules(M) \subseteq T

\* Every target is still mounted when its turn comes, so that what is found
\* and taken at its place is never below it in the table.
CleanupInv ==
    /\ MountTypeOK
    /\ \A t \in App : queued[t] <= requests
    /\ \A t \in App : step[t] \in {"open", "take", "scan"} => mounts[t] = before[t]
    /\ \A t \in App : step[t] = "detach" /\ Apart(before[t]) =>
          Cleaning(mounts[t], before[t], targets[t], clean[t])

\* An unmount at the place of the last target takes module mounts from the
\* line of the target on, and the target itself if no module is on top of it.
LEMMA DetachedIsTarget ==
    ASSUME NEW B \in Table, Apart(B), NEW M \in SUBSET B, NEW T \in SUBSET Modules(M),
           NEW m \in Taken(T)
    PROVE  /\ Detached(M, m.at) \in SUBSET M
           /\ Others(Detached(M, m.at)) = Others(M)
           /\ T \ {m} \in SUBSET Modules(Detached(M, m.at))
           /\ Modules(M) \subseteq T => Modules(Detached(M, m.at)) \subseteq T \ {m}
<1> DEFINE D == Detached(M, m.at)
<1>0. /\ \A k \in B : k.line \in Nat /\ k.module \in BOOLEAN
      /\ \A k, l \in B : k.line = l.line => k = l
      /\ m \in T /\ m \in M /\ m \in B /\ m.module
      /\ \A k \in T : k.line <= m.line /\ k \in M /\ k \in B
  BY DEF Table, Mount, Taken, Modules
<1>1. ASSUME NEW f \in Found(M, m.at)
      PROVE  f \in M /\ f \in B /\ f.at = m.at /\ f.line >= m.line /\ f.module
  <2>1. f \in M /\ f \in B /\ f.at = m.at
    BY DEF Found
  <2>2. ~ m.line > f.line
    BY <1>0 DEF Found
  <2>3. f.line >= m.line
    BY <1>0, <2>1, <2>2
  <2>4. CASE f = m
    BY <1>0, <2>1, <2>3, <2>4
  <2>5. CASE f # m
    <3>1. m.line < f.line
      BY <1>0, <2>1, <2>3, <2>5
    <3>2. f.module
      BY <1>0, <2>1, <3>1 DEF Apart, Modules, Others
    <3> QED BY <2>1, <2>3, <3>2
  <2> QED BY <2>4, <2>5
<1>2. ASSUME NEW k \in M, k \notin D
      PROVE  k.module /\ k.line >= m.line /\ k \in B
  <2>1. PICK f \in Found(M, m.at) :
            k = f \/ (k.line > f.line /\ <<k.at, m.at>> \in Below)
    BY <1>2 DEF Detached
  <2>2. CASE k = f
    BY <1>1, <2>2
  <2>3. CASE k.line > f.line /\ <<k.at, m.at>> \in Below
    <3>1. f \in Modules(B) /\ k \in B /\ f.line < k.line /\ <<k.at, f.at>> \in Below
      BY <1>0, <1>1, <2>3 DEF Modules
    <3>2. k.module
      BY <1>0, <3>1 DEF Apart, Others
    <3>3. k.line >= m.line
      BY <1>0, <1>1, <3>1
    <3> QED BY <3>1, <3>2, <3>3
  <2> QED BY <2>1, <2>2, <2>3
<1>3. D \in SUBSET M
  BY DEF Detached
<1>4. Others(D) = Others(M)
  <2> HIDE DEF D
  <2> QED BY <1>2, <1>3 DEF Others
<1>5. T \ {m} \in SUBSET Modules(D)
  <2> HIDE DEF D
  <2>1. ASSUME NEW k \in T \ {m} PROVE k \in D
    BY <1>0, <1>2
  <2> QED BY <2>1 DEF Modules
<1>6. ASSUME Modules(M) \subseteq T PROVE Modules(D) \subseteq T \ {m}
  <2>1. ASSUME NEW k \in M, k.line > m.line
        PROVE  k.at # m.at /\ <<m.at, k.at>> \notin Below
    <3>1. k \in B /\ k \notin T
      BY <1>0, <2>1
    <3>2. k \in Others(B)
      BY <1>6, <3>1, <2>1 DEF Modules, Others
    <3>3. m \in Modules(B)
      BY <1>0 DEF Modules
    <3> QED BY <1>0, <2>1, <3>2, <3>3 DEF Apart
  <2>2. m \in Found(M, m.at)
    BY <1>0, <2>1 DEF Found
  <2>3. m \notin D
    BY <2>2 DEF Detached
  <2> HIDE DEF D
  <2> QED BY <1>6, <1>3, <2>3 DEF Modules
<1> HIDE DEF D
<1>7. QED BY <1>3, <1>4, <1>5, <1>6 DEF D

LEMMA InitCleanup == HostInit => CleanupInv
<1> SUFFICES ASSUME HostInit PROVE CleanupInv
  OBVIOUS
<1>1. Cardinality({}) = 0 /\ {} \in Table
  BY FS_EmptySet DEF Table
<1>2. /\ mounts \in [App -> Table] /\ before \in [App -> Table]
      /\ targets \in [App -> {T \in Table : Cardinality(T) <= TargetMax}]
  BY <1>1, MountConstants DEF HostInit, MountInit
<1>3. /\ life \in [App -> {"run", "exiting", "dead"}]
      /\ queued \in [App -> 0..RequestMax]
      /\ step \in [App -> {"user", "open", "take", "scan", "detach"}]
      /\ clean \in [App -> BOOLEAN]
      /\ requests \in 0..RequestMax
  BY MountConstants DEF HostInit, MountInit
<1>4. /\ cred \in [App -> 0..Freed] /\ ptr \in [App -> 0..CaptureMax]
      /\ priv \in 0..CaptureMax /\ captures \in 0..CaptureMax
  BY MountConstants DEF HostInit, MountInit, Own, Freed, NoCred
<1>5. MountTypeOK
  BY <1>2, <1>3, <1>4 DEF MountTypeOK
<1> QED BY <1>5, MountConstants DEF HostInit, MountInit, CleanupInv

\* What the work of t and the requests leave alone.
LEMMA KeepCleanup ==
    ASSUME CleanupInv, MountTypeOK', \A t \in App : queued'[t] <= requests',
           NEW t \in App,
           \A u \in App \ {t} : /\ mounts'[u] = mounts[u] /\ before'[u] = before[u]
                                /\ targets'[u] = targets[u] /\ clean'[u] = clean[u]
                                /\ step'[u] = step[u],
           step'[t] \in {"open", "take", "scan"} => mounts'[t] = before'[t],
           step'[t] = "detach" /\ Apart(before'[t]) =>
              Cleaning(mounts'[t], before'[t], targets'[t], clean'[t])
    PROVE  CleanupInv'
<1>1. ASSUME NEW u \in App
      PROVE  /\ step'[u] \in {"open", "take", "scan"} => mounts'[u] = before'[u]
             /\ step'[u] = "detach" /\ Apart(before'[u]) =>
                  Cleaning(mounts'[u], before'[u], targets'[u], clean'[u])
  <2>1. CASE u = t
    BY <2>1
  <2>2. CASE u # t
    <3>1. /\ mounts'[u] = mounts[u] /\ before'[u] = before[u]
          /\ targets'[u] = targets[u] /\ clean'[u] = clean[u]
          /\ step'[u] = step[u]
      BY <2>2
    <3> QED BY <3>1 DEF CleanupInv
  <2> QED BY <2>1, <2>2
<1> QED BY <1>1 DEF CleanupInv

LEMMA RequestsCleanup ==
    ASSUME CleanupInv,
           yz_host_recapture_priv_cred \/ DropCred \/ \E t \in App : yz_host_umount_pid(t)
    PROVE  CleanupInv'
<1> USE MountConstants
<1>1. CASE yz_host_recapture_priv_cred
  BY <1>1 DEF yz_host_recapture_priv_cred, CleanupInv, MountTypeOK, Cleaning, credVars
<1>2. CASE DropCred
  BY <1>2 DEF DropCred, NoCred, CleanupInv, MountTypeOK, Cleaning, credVars
<1>3. ASSUME NEW t \in App, yz_host_umount_pid(t)
      PROVE  CleanupInv'
  <2>1. /\ requests \in 0..RequestMax /\ requests < RequestMax /\ requests' = requests + 1
        /\ queued \in [App -> 0..RequestMax] /\ \A u \in App : queued[u] <= requests
        /\ queued' = [queued EXCEPT ![t] = IF life[t] = "run" THEN @ + 1 ELSE @]
    BY <1>3 DEF yz_host_umount_pid, CleanupInv, MountTypeOK
  <2>2. /\ requests' \in 0..RequestMax /\ queued' \in [App -> 0..RequestMax]
        /\ \A u \in App : queued'[u] <= requests'
    BY <2>1
  <2>3. MountTypeOK'
    BY <1>3, <2>2 DEF yz_host_umount_pid, CleanupInv, MountTypeOK, credVars
  <2> QED BY <1>3, <2>2, <2>3 DEF yz_host_umount_pid, CleanupInv
<1> QED BY <1>1, <1>2, <1>3

LEMMA WorkBeginsCleanup ==
    ASSUME CleanupInv, NEW t \in App, yz_umount_tw_func(t) \/ OverrideRead(t) \/ OverrideTake(t)
    PROVE  CleanupInv'
<1> USE MountConstants
<1>1. CASE yz_umount_tw_func(t)
  <2>1. /\ queued \in [App -> 0..RequestMax] /\ \A u \in App : queued[u] <= requests
        /\ requests \in Nat /\ queued[t] > 0 /\ queued' = [queued EXCEPT ![t] = @ - 1]
        /\ requests' = requests
    BY <1>1 DEF yz_umount_tw_func, CleanupInv, MountTypeOK
  <2>2. queued' \in [App -> 0..RequestMax] /\ \A u \in App : queued'[u] <= requests'
    BY <2>1
  <2>3. /\ before' \in [App -> Table] /\ step' \in [App -> {"user", "open", "take", "scan", "detach"}]
    BY <1>1 DEF yz_umount_tw_func, CleanupInv, MountTypeOK
  <2>4. MountTypeOK'
    BY <1>1, <2>2, <2>3 DEF yz_umount_tw_func, CleanupInv, MountTypeOK, credVars
  <2>5. \A u \in App \ {t} : before'[u] = before[u] /\ step'[u] = step[u]
    BY <1>1 DEF yz_umount_tw_func, CleanupInv, MountTypeOK
  <2>6. step'[t] \in {"user", "open"} /\ (step'[t] = "open" => mounts'[t] = before'[t])
    BY <1>1 DEF yz_umount_tw_func, CleanupInv, MountTypeOK
  <2>7. UNCHANGED <<mounts, targets, clean>>
    BY <1>1 DEF yz_umount_tw_func
  <2> QED BY <2>2, <2>4, <2>5, <2>6, <2>7, KeepCleanup
<1>2. CASE OverrideRead(t) \/ OverrideTake(t)
  <2>1. cred' \in [App -> 0..Freed] /\ ptr' \in [App -> 0..CaptureMax]
    <3>1. CASE OverrideRead(t)
      BY <3>1 DEF OverrideRead, ReadPriv, CleanupInv, MountTypeOK
    <3>2. CASE OverrideTake(t)
      <4>1. ptr' = ptr /\ ptr[t] \in 0..CaptureMax /\ cred \in [App -> 0..Freed]
        BY <3>2 DEF OverrideTake, CleanupInv, MountTypeOK
      <4>2. cred' = [cred EXCEPT ![t] = Freed]
            \/ (cred' = [cred EXCEPT ![t] = ptr[t]] /\ Referenced(ptr[t]))
        BY <3>2 DEF OverrideTake, yz_host_override_creds
      <4>4. Freed \in 0..Freed /\ ptr[t] \in 0..Freed
        BY <4>1 DEF Own, Freed
      <4>5. ptr' \in [App -> 0..CaptureMax]
        BY <4>1 DEF CleanupInv, MountTypeOK
      <4> QED BY <4>1, <4>2, <4>4, <4>5
    <3> QED BY <1>2, <3>1, <3>2
  <2>2. /\ step[t] \in {"open", "take"}
        /\ step' = [step EXCEPT ![t] = "scan"] \/ step' = [step EXCEPT ![t] = "take"]
    BY <1>2 DEF OverrideRead, OverrideTake
  <2>3. step \in [App -> {"user", "open", "take", "scan", "detach"}] /\ mounts[t] = before[t]
    BY <2>2 DEF CleanupInv, MountTypeOK
  <2>4. MountTypeOK'
    BY <1>2, <2>1, <2>2, <2>3 DEF OverrideRead, OverrideTake, CleanupInv, MountTypeOK
  <2>5. UNCHANGED <<mounts, before, targets, clean, queued, requests>>
    BY <1>2 DEF OverrideRead, OverrideTake
  <2>6. \A u \in App : queued'[u] <= requests'
    BY <2>5 DEF CleanupInv
  <2> QED BY <2>2, <2>3, <2>4, <2>5, <2>6, KeepCleanup
<1> QED BY <1>1, <1>2

LEMMA ScanCleanup ==
    ASSUME CleanupInv, NEW t \in App, yz_umount_scan_mountinfo(t)
    PROVE  CleanupInv'
<1> USE MountConstants
<1>1. PICK ok \in BOOLEAN, n \in {LinesRead, LinesRead + 1} :
        /\ clean' = [clean EXCEPT ![t] = ok]
        /\ targets' =
             [targets EXCEPT ![t] =
                IF ok THEN FirstOf(Modules(FirstOf(mounts[t], n)), TargetMax) ELSE {}]
  BY DEF yz_umount_scan_mountinfo
<1> DEFINE P == FirstOf(mounts[t], n)
           S == IF ok THEN FirstOf(Modules(P), TargetMax) ELSE {}
<1>2. /\ step \in [App -> {"user", "open", "take", "scan", "detach"}] /\ step[t] = "scan"
      /\ step' = [step EXCEPT ![t] = "detach"]
      /\ mounts[t] \in Table /\ mounts[t] = before[t]
      /\ clean \in [App -> BOOLEAN]
      /\ targets \in [App -> {T \in Table : Cardinality(T) <= TargetMax}]
      /\ UNCHANGED <<mounts, before, queued, requests>>
  BY DEF yz_umount_scan_mountinfo, CleanupInv, MountTypeOK
<1>3. Modules(mounts[t]) \in Table /\ Modules(mounts[t]) \in SUBSET mounts[t]
  BY <1>2, SubTable DEF Modules
<1>11. P \in SUBSET mounts[t] /\ (Cardinality(mounts[t]) <= LinesRead => P = mounts[t])
  <2>1. n \in Nat /\ LinesRead <= n /\ LinesRead \in Nat
    OBVIOUS
  <2>2. P \in SUBSET mounts[t] /\ (Cardinality(mounts[t]) <= n => P = mounts[t])
    BY <1>2, <2>1, FirstOfBounded
  <2>3. Cardinality(mounts[t]) \in Nat
    BY <1>2, TableFinite, FS_CardinalityType
  <2> HIDE DEF P
  <2> QED BY <2>1, <2>2, <2>3
<1>4. /\ S \in SUBSET Modules(mounts[t]) /\ Cardinality(S) <= TargetMax
      /\ ok /\ Fits(mounts[t]) => S = Modules(mounts[t])
  <2> HIDE DEF P
  <2>1. CASE ok
    <3>1. Modules(P) \in Table /\ Modules(P) \in SUBSET Modules(mounts[t])
      BY <1>2, <1>3, <1>11, SubTable DEF Modules
    <3>2. /\ FirstOf(Modules(P), TargetMax) \in SUBSET Modules(P)
          /\ Cardinality(FirstOf(Modules(P), TargetMax)) <= TargetMax
          /\ Cardinality(Modules(P)) <= TargetMax =>
                FirstOf(Modules(P), TargetMax) = Modules(P)
      BY <3>1, FirstOfBounded
    <3> QED BY <1>11, <2>1, <3>1, <3>2 DEF Fits
  <2>2. CASE ~ok
    BY <2>2, FS_EmptySet
  <2> QED BY <2>1, <2>2
<1>5. S \in {T \in Table : Cardinality(T) <= TargetMax}
  BY <1>3, <1>4, SubTable
<1> HIDE DEF S
<1>6. /\ targets' = [targets EXCEPT ![t] = S]
      /\ targets' \in [App -> {T \in Table : Cardinality(T) <= TargetMax}]
      /\ clean' \in [App -> BOOLEAN]
      /\ step' \in [App -> {"user", "open", "take", "scan", "detach"}]
  BY <1>1, <1>2, <1>5 DEF S
<1>7. MountTypeOK'
  BY <1>6 DEF yz_umount_scan_mountinfo, CleanupInv, MountTypeOK, credVars
<1>8. /\ targets'[t] = S /\ clean'[t] = ok /\ step'[t] = "detach"
      /\ \A u \in App \ {t} : /\ targets'[u] = targets[u] /\ clean'[u] = clean[u]
                              /\ step'[u] = step[u]
  BY <1>1, <1>2, <1>6
<1>9. Cleaning(mounts'[t], before'[t], targets'[t], clean'[t])
  BY <1>2, <1>4, <1>8 DEF Cleaning
<1>10. \A u \in App : queued'[u] <= requests'
  BY <1>2 DEF CleanupInv
<1> QED BY <1>2, <1>7, <1>8, <1>9, <1>10, KeepCleanup

LEMMA UmountCleanup ==
    ASSUME CleanupInv, NEW t \in App, yz_try_umount(t)
    PROVE  CleanupInv'
<1>1. PICK m \in Taken(targets[t]) :
        /\ targets' = [targets EXCEPT ![t] = @ \ {m}]
        /\ \/ /\ mounts' = [mounts EXCEPT ![t] = Detached(@, m.at)]
              /\ UNCHANGED clean
           \/ clean' = [clean EXCEPT ![t] = FALSE] /\ UNCHANGED mounts
  BY DEF yz_try_umount
<1>2. /\ step[t] = "detach" /\ mounts \in [App -> Table] /\ before \in [App -> Table]
      /\ clean \in [App -> BOOLEAN]
      /\ targets \in [App -> {T \in Table : Cardinality(T) <= TargetMax}]
      /\ UNCHANGED <<before, queued, step, requests>>
  BY DEF yz_try_umount, CleanupInv, MountTypeOK
<1>3. /\ targets[t] \ {m} \in Table /\ Cardinality(targets[t] \ {m}) <= TargetMax
      /\ m \in targets[t]
  <2>1. targets[t] \in Table /\ Cardinality(targets[t]) <= TargetMax /\ m \in targets[t]
    BY <1>2 DEF Taken
  <2>2. IsFiniteSet(targets[t]) /\ Cardinality(targets[t]) \in Nat
    BY <2>1, TableFinite, FS_CardinalityType
  <2>3. Cardinality(targets[t] \ {m}) = Cardinality(targets[t]) - 1
    BY <2>1, <2>2, FS_RemoveElement
  <2> QED BY <2>1, <2>2, <2>3, SubTable, MountConstants
<1>4. Detached(mounts[t], m.at) \in Table
  BY <1>2, SubTable DEF Detached
<1>5. /\ mounts' \in [App -> Table] /\ clean' \in [App -> BOOLEAN]
      /\ targets' \in [App -> {T \in Table : Cardinality(T) <= TargetMax}]
      /\ targets'[t] = targets[t] \ {m}
      /\ \A u \in App \ {t} : /\ mounts'[u] = mounts[u] /\ clean'[u] = clean[u]
                              /\ targets'[u] = targets[u]
  <2>1. /\ targets' \in [App -> {T \in Table : Cardinality(T) <= TargetMax}]
        /\ targets'[t] = targets[t] \ {m}
        /\ \A u \in App \ {t} : targets'[u] = targets[u]
    BY <1>1, <1>2, <1>3
  <2>2. mounts' \in [App -> Table] /\ \A u \in App \ {t} : mounts'[u] = mounts[u]
    BY <1>1, <1>2, <1>4
  <2>3. clean' \in [App -> BOOLEAN] /\ \A u \in App \ {t} : clean'[u] = clean[u]
    BY <1>1, <1>2
  <2> QED BY <2>1, <2>2, <2>3
<1>6. MountTypeOK'
  BY <1>2, <1>5 DEF yz_try_umount, CleanupInv, MountTypeOK, credVars
<1>7. ASSUME Apart(before'[t])
      PROVE  Cleaning(mounts'[t], before'[t], targets'[t], clean'[t])
  <2>1. Cleaning(mounts[t], before[t], targets[t], clean[t]) /\ Apart(before[t])
    BY <1>2, <1>7 DEF CleanupInv
  <2>2. /\ Detached(mounts[t], m.at) \in SUBSET mounts[t]
        /\ Others(Detached(mounts[t], m.at)) = Others(mounts[t])
        /\ targets[t] \ {m} \in SUBSET Modules(Detached(mounts[t], m.at))
        /\ Modules(mounts[t]) \subseteq targets[t] =>
              Modules(Detached(mounts[t], m.at)) \subseteq targets[t] \ {m}
    <3>1. /\ before[t] \in Table /\ mounts[t] \in SUBSET before[t]
          /\ targets[t] \in SUBSET Modules(mounts[t])
      BY <1>2, <2>1 DEF Cleaning
    <3> QED BY <2>1, <3>1, DetachedIsTarget
  <2>3. CASE mounts' = [mounts EXCEPT ![t] = Detached(@, m.at)] /\ UNCHANGED clean
    <3>1. mounts'[t] = Detached(mounts[t], m.at) /\ clean'[t] = clean[t] /\ before'[t] = before[t]
      BY <1>2, <2>3
    <3>2. Cleaning(Detached(mounts[t], m.at), before[t], targets[t] \ {m}, clean[t])
      BY <2>1, <2>2 DEF Cleaning
    <3> QED BY <1>5, <3>1, <3>2
  <2>4. CASE clean' = [clean EXCEPT ![t] = FALSE] /\ UNCHANGED mounts
    <3>1. mounts'[t] = mounts[t] /\ clean'[t] = FALSE /\ before'[t] = before[t]
      BY <1>2, <2>4
    <3>2. Cleaning(mounts[t], before[t], targets[t] \ {m}, FALSE)
      BY <2>1 DEF Cleaning
    <3> QED BY <1>5, <3>1, <3>2
  <2> QED BY <1>1, <2>3, <2>4
<1>8. /\ \A u \in App : queued'[u] <= requests' /\ step'[u] = step[u] /\ before'[u] = before[u]
      /\ step'[t] = "detach"
  BY <1>2 DEF CleanupInv
<1> QED BY <1>5, <1>6, <1>7, <1>8, KeepCleanup

LEMMA EndsCleanup ==
    ASSUME CleanupInv, NEW t \in App, WorkDone(t) \/ Exit(t)
    PROVE  CleanupInv'
<1> USE MountConstants
<1>1. CASE WorkDone(t)
  <2>1. /\ step \in [App -> {"user", "open", "take", "scan", "detach"}]
        /\ step' = [step EXCEPT ![t] = "user"] /\ cred' = [cred EXCEPT ![t] = Own]
        /\ cred \in [App -> 0..Freed] /\ Own \in 0..Freed
        /\ UNCHANGED <<mounts, before, targets, clean, queued, requests>>
    BY <1>1 DEF WorkDone, yz_host_revert_creds, CleanupInv, MountTypeOK, Own, Freed
  <2>2. MountTypeOK'
    BY <1>1, <2>1 DEF WorkDone, CleanupInv, MountTypeOK
  <2>3. \A u \in App : queued'[u] <= requests'
    BY <2>1 DEF CleanupInv
  <2> QED BY <2>1, <2>2, <2>3, KeepCleanup
<1>2. CASE Exit(t)
  <2>1. life \in [App -> {"run", "exiting", "dead"}]
    BY DEF CleanupInv, MountTypeOK
  <2>2. life' \in [App -> {"run", "exiting", "dead"}]
    BY <1>2, <2>1 DEF Exit
  <2> QED BY <1>2, <2>2 DEF Exit, CleanupInv, MountTypeOK, Cleaning, credVars
<1> QED BY <1>1, <1>2

LEMMA StepCleanup == CleanupInv /\ [HostNext]_hostVars => CleanupInv'
<1> SUFFICES ASSUME CleanupInv, [HostNext]_hostVars PROVE CleanupInv'
  OBVIOUS
<1>1. CASE UNCHANGED mountVars
  BY <1>1 DEF mountVars, credVars, CleanupInv, MountTypeOK, Cleaning
<1>2. ASSUME NEW t \in App, Work(t) \/ Exit(t)
      PROVE  CleanupInv'
  BY <1>2, WorkBeginsCleanup, ScanCleanup, UmountCleanup, EndsCleanup DEF Work
<1>3. CASE Control \/ yz_host_exit
  BY <1>3, RequestsCleanup DEF Control, yz_host_exit
<1>4. \/ UNCHANGED mountVars \/ Control \/ yz_host_exit
      \/ \E t \in App : Work(t) \/ Exit(t)
  BY DEF HostNext, HostSteps, hostVars, yz_zygote_probe_init, yukizygisk_control_exit,
     yz_zygote_probe_exit, yz_host_lsm_exit
<1> QED BY <1>1, <1>2, <1>3, <1>4

LEMMA CleanupIsExact == CleanupInv => MountTypeOK /\ CleanupExact
<1> SUFFICES ASSUME CleanupInv PROVE MountTypeOK /\ CleanupExact
  OBVIOUS
<1>1. ASSUME NEW t \in App, step[t] = "detach", targets[t] = {}, Apart(before[t])
      PROVE  /\ Others(mounts[t]) = Others(before[t])
             /\ clean[t] /\ Fits(before[t]) => Modules(mounts[t]) = {}
  BY <1>1 DEF CleanupInv, Cleaning
<1> QED BY <1>1 DEF CleanupInv, CleanupExact, Fits

\* A cleanup of mount.c takes no mount but the modules', whatever lies on what
\* else of theirs, fails, does not fit into the array or is cut off by the
\* buffer; if nothing failed and all fits it leaves none of theirs.  The work
\* returns with the process's own credentials, and runs with freed ones only if
\* the capture it read was replaced or dropped since.
THEOREM CleanupAlwaysSound == HostSpec => []CleanupSound
<1>1. CleanupInv /\ CredInv => CleanupSound
  BY CleanupIsExact DEF CredInv, CredsReturned, CredsLive, CleanupSound
<1> QED BY <1>1, InitCleanup, StepCleanup, InitCreds, StepCreds, PTL DEF HostSpec
=============================================================================
