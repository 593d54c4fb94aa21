-------------------------- MODULE ZygoteCtlProofs --------------------------
(***************************************************************************)
(* Proofs about the fd broker, for any set of targets, files and callers,  *)
(* any number of slots and handoffs: file references are exact until the   *)
(* teardown, and as long as no waiting work was queued again a process     *)
(* gets only files that were handed over for its pid.                      *)
(***************************************************************************)
EXTENDS ZygoteCtl, FiniteSetTheorems, NaturalsInduction, WellFoundedInduction, TLAPS

One(b) == IF b THEN 1 ELSE 0

-----------------------------------------------------------------------------
(* The inductive invariants.                                               *)

\* A thread outside of the ioctl holds no file and names no target.
IdleHoldsNothing ==
    \A c \in Caller :
        /\ call[c] = "idle" <=> pid[c] = NoPid
        /\ call[c] = "idle" => files[c] = {}

\* A slot without a pid is empty: n and pid are cleared together.
FreeIsEmpty == \A s \in Slot : slot[s].pid = NoPid => slot[s].files = {}

BrokerInv == TypeOK /\ IdleHoldsNothing /\ FreeIsEmpty /\ FileRefsExact

\* What waits for a process is what it was handed.
SlotAsked ==
    /\ \A s \in Slot : slot[s].pid # NoPid => slot[s].files \subseteq asked[slot[s].pid]
    /\ \A c \in Caller : call[c] \in {"find", "store"} => files[c] \subseteq asked[pid[c]]

\* As long as no queued work was queued again a process has at most one work and
\* a pid at most one slot, and the slot of a work is still its own, or was emptied
\* by the teardown.
OneAtATime ==
    /\ \A p \in Target :
          /\ life[p] \in {"zombie", "freed"} => works[p] = <<>>
          /\ Len(works[p]) <= 1
          /\ works[p] # <<>> => slot[Head(works[p])].pid \in {p, NoPid}
          /\ works[p] # <<>> /\ slot[Head(works[p])].pid = NoPid => down # "up"
    /\ \A s, t \in Slot : slot[s].pid # NoPid /\ slot[s].pid = slot[t].pid => s = t
    /\ down # "up" => \A c \in Caller : call[c] = "idle"

Delivery == SlotAsked /\ OneAtATime /\ DeliveredToTarget
DeliveryInv == BrokerInv /\ (~twice => Delivery)

-----------------------------------------------------------------------------
(* Counting the holders of a file.                                         *)

SlotsHolding(f) == {s \in Slot : f \in slot[s].files}
CallersHolding(f) == {c \in Caller : f \in files[c]}

LEMMA SetsFinite == IsFiniteSet(Slot) /\ IsFiniteSet(Caller)
BY CtlBounds, FS_Interval DEF Slot

\* Two subsets of a finite set that differ at most in x differ in size by x.
LEMMA CountMembers ==
    ASSUME NEW U, IsFiniteSet(U), NEW S \in SUBSET U, NEW T \in SUBSET U, NEW x \in U,
           \A y \in U \ {x} : y \in S <=> y \in T
    PROVE  /\ Cardinality(S) \in Nat /\ Cardinality(T) \in Nat
           /\ Cardinality(T) + One(x \in S) = Cardinality(S) + One(x \in T)
<1>1. /\ IsFiniteSet(S) /\ IsFiniteSet(T)
      /\ Cardinality(S) \in Nat /\ Cardinality(T) \in Nat
  BY FS_Subset, FS_CardinalityType
<1>2. S \ {x} = T \ {x}
  OBVIOUS
<1>3. /\ Cardinality(S \ {x}) = IF x \in S THEN Cardinality(S) - 1 ELSE Cardinality(S)
      /\ Cardinality(T \ {x}) = IF x \in T THEN Cardinality(T) - 1 ELSE Cardinality(T)
  BY <1>1, FS_RemoveElement
<1> QED BY <1>1, <1>2, <1>3 DEF One

LEMMA HoldingNat ==
    \A f : Cardinality(SlotsHolding(f)) \in Nat /\ Cardinality(CallersHolding(f)) \in Nat
<1> TAKE f
<1>1. SlotsHolding(f) \in SUBSET Slot /\ CallersHolding(f) \in SUBSET Caller
  BY DEF SlotsHolding, CallersHolding
<1> QED BY <1>1, SetsFinite, FS_Subset, FS_CardinalityType

LEMMA ExactIsCounts ==
    /\ FileRefsExact <=>
          (down = "up" => \A f \in File : refs[f] = Cardinality(SlotsHolding(f))
                                                    + Cardinality(CallersHolding(f)))
    /\ FileRefsExact' <=>
          (down' = "up" => \A f \in File : refs'[f] = Cardinality(SlotsHolding(f)')
                                                      + Cardinality(CallersHolding(f)'))
BY DEF FileRefsExact, SlotsHolding, CallersHolding

LEMMA SlotStep ==
    ASSUME TypeOK, NEW s \in Slot, NEW x, slot' = [slot EXCEPT ![s] = x], NEW f
    PROVE  /\ Cardinality(SlotsHolding(f)) \in Nat /\ Cardinality(SlotsHolding(f)') \in Nat
           /\ Cardinality(SlotsHolding(f)') + One(f \in slot[s].files)
                = Cardinality(SlotsHolding(f)) + One(f \in x.files)
<1>1. /\ SlotsHolding(f) \in SUBSET Slot /\ SlotsHolding(f)' \in SUBSET Slot
      /\ \A t \in Slot \ {s} : t \in SlotsHolding(f) <=> t \in SlotsHolding(f)'
      /\ s \in SlotsHolding(f) <=> f \in slot[s].files
      /\ s \in SlotsHolding(f)' <=> f \in x.files
  BY DEF SlotsHolding, TypeOK
<1> QED BY <1>1, SetsFinite, CountMembers DEF One

LEMMA CallerStep ==
    ASSUME TypeOK, NEW c \in Caller, NEW b, files' = [files EXCEPT ![c] = b], NEW f
    PROVE  /\ Cardinality(CallersHolding(f)) \in Nat /\ Cardinality(CallersHolding(f)') \in Nat
           /\ Cardinality(CallersHolding(f)') + One(f \in files[c])
                = Cardinality(CallersHolding(f)) + One(f \in b)
<1>1. /\ CallersHolding(f) \in SUBSET Caller /\ CallersHolding(f)' \in SUBSET Caller
      /\ \A d \in Caller \ {c} : d \in CallersHolding(f) <=> d \in CallersHolding(f)'
      /\ c \in CallersHolding(f) <=> f \in files[c]
      /\ c \in CallersHolding(f)' <=> f \in b
  BY DEF CallersHolding, TypeOK
<1> QED BY <1>1, SetsFinite, CountMembers DEF One

\* yz_slot_of finds a slot of the pid if there is one.
LEMMA SlotOfFinds ==
    ASSUME NEW p, SlotsOf(p) # {}
    PROVE  SlotOf(p) \in Slot /\ slot[SlotOf(p)].pid = p
<1>1. SlotsOf(p) \in SUBSET Nat
  BY CtlBounds DEF SlotsOf, Slot
<1> DEFINE R == {ss \in Nat \X Nat : ss[1] < ss[2]}
<1>2. IsWellFoundedOn(R, Nat)
  BY NatLessThanWellFounded DEF OpToRel
<1>3. \A a, b \in Nat : <<a, b>> \notin R => b <= a
  OBVIOUS
<1> HIDE DEF R
<1>4. \E s \in SlotsOf(p) : \A t \in SlotsOf(p) : ~(<<t, s>> \in R)
  BY <1>1, <1>2, WFMin
<1>5. \E s \in SlotsOf(p) : \A t \in SlotsOf(p) : s <= t
  BY <1>1, <1>3, <1>4
<1>6. SlotOf(p) \in SlotsOf(p)
  BY <1>5 DEF SlotOf
<1> QED BY <1>6 DEF SlotsOf

-----------------------------------------------------------------------------
(* References.                                                             *)

\* Neither the slots nor the handoffs change.
LEMMA RefsKept ==
    ASSUME TypeOK, FileRefsExact, UNCHANGED <<slot, files, refs>>, down' = "up" => down = "up"
    PROVE  FileRefsExact'
BY DEF FileRefsExact

\* A slot is emptied and its references put.
LEMMA RefsRelease ==
    ASSUME TypeOK, FileRefsExact, NEW s \in Slot, slot' = [slot EXCEPT ![s] = Free],
           Put(slot[s].files), files' = files, down' = down
    PROVE  FileRefsExact'
<1> SUFFICES ASSUME down = "up", NEW f \in File
             PROVE  refs'[f] = Cardinality(SlotsHolding(f)') + Cardinality(CallersHolding(f)')
  BY ExactIsCounts
<1>1. /\ refs[f] = Cardinality(SlotsHolding(f)) + Cardinality(CallersHolding(f))
      /\ Cardinality(CallersHolding(f)) \in Nat
  BY ExactIsCounts, HoldingNat
<1>2. CallersHolding(f)' = CallersHolding(f)
  BY DEF CallersHolding
<1>3. /\ Cardinality(SlotsHolding(f)) \in Nat /\ Cardinality(SlotsHolding(f)') \in Nat
      /\ Cardinality(SlotsHolding(f)') + One(f \in slot[s].files)
           = Cardinality(SlotsHolding(f)) + One(f \in Free.files)
  BY SlotStep
<1>4. refs'[f] = IF f \in slot[s].files THEN refs[f] - 1 ELSE refs[f]
  BY DEF Put
<1>5. f \notin Free.files
  BY DEF Free
<1> QED BY <1>1, <1>2, <1>3, <1>4, <1>5 DEF One

LEMMA InitBroker == Init => BrokerInv
<1> SUFFICES ASSUME Init PROVE BrokerInv
  OBVIOUS
<1>1. TypeOK
  <2>1. 1 \in Slot /\ 1 \in 1 .. LifeMax /\ 0 \in 0 .. LifeMax
    BY CtlBounds DEF Slot
  <2>2. slot \in [Slot -> [pid : Target \cup {NoPid}, files : Batch]]
    BY DEF Init, Free, Batch
  <2>3. refs \in [File -> Int] /\ files \in [Caller -> Batch]
        /\ got \in [Target -> Batch] /\ asked \in [Target -> Batch]
    BY DEF Init, Batch
  <2>4. works \in [Target -> Seq(Slot)] /\ count \in [Target -> Nat]
    BY DEF Init
  <2> QED BY <2>1, <2>2, <2>3, <2>4 DEF Init, TypeOK
<1>2. IdleHoldsNothing /\ FreeIsEmpty
  BY DEF Init, IdleHoldsNothing, FreeIsEmpty, Free
<1>3. \A f \in File : SlotsHolding(f) = {} /\ CallersHolding(f) = {} /\ refs[f] = 0
  BY DEF Init, SlotsHolding, CallersHolding, Free
<1>4. FileRefsExact
  BY <1>3, FS_EmptySet, ExactIsCounts
<1> QED BY <1>1, <1>2, <1>4 DEF BrokerInv

\* A handoff takes its references, trades them for those of the slot, and puts
\* what it holds in the end.
LEMMA HandoffBroker ==
    ASSUME BrokerInv, NEW c \in Caller,
           \/ \E p \in Target, b \in Batch \ {{}} : HandoffGet(c, p, b)
           \/ HandoffFind(c) \/ HandoffStore(c) \/ HandoffFull(c) \/ HandoffPut(c)
    PROVE  BrokerInv'
<1>1. ASSUME NEW p \in Target, NEW b \in Batch \ {{}}, HandoffGet(c, p, b)
      PROVE  BrokerInv'
  <2>1. TypeOK'
    <3>1. /\ b \in Batch /\ \A d \in Batch : d \cup b \in Batch
          /\ call' = [call EXCEPT ![c] = "find"] \/ call' = [call EXCEPT ![c] = "put"]
          /\ asked' = [asked EXCEPT ![p] = @ \cup b] \/ asked' = asked
      BY <1>1 DEF HandoffGet, Batch
    <3>2. asked' \in [Target -> Batch] /\ call' \in [Caller -> {"idle", "find", "store", "put"}]
      <4>1. /\ asked \in [Target -> Batch] /\ asked[p] \in Batch
            /\ call \in [Caller -> {"idle", "find", "store", "put"}]
        BY DEF BrokerInv, TypeOK
      <4>2. asked[p] \cup b \in Batch
        BY <3>1, <4>1
      <4>3. asked' \in [Target -> Batch]
        BY <3>1, <4>1, <4>2
      <4>4. call' \in [Caller -> {"idle", "find", "store", "put"}]
        BY <3>1, <4>1
      <4> QED BY <4>3, <4>4
    <3>3. refs' \in [File -> Int] /\ count' \in [Target -> Nat]
      BY <1>1 DEF BrokerInv, TypeOK, HandoffGet, Get
    <3>4. pid' \in [Caller -> Target \cup {NoPid}] /\ files' \in [Caller -> Batch]
      BY <1>1, <3>1 DEF BrokerInv, TypeOK, HandoffGet
    <3>5. UNCHANGED <<slot, works, life, age, task, got, twice, down, at, phase>>
      BY <1>1 DEF HandoffGet, exitVars, lifeVars
    <3> QED BY <3>2, <3>3, <3>4, <3>5 DEF BrokerInv, TypeOK
  <2>2. IdleHoldsNothing' /\ FreeIsEmpty'
    BY <1>1, CtlBounds DEF BrokerInv, TypeOK, HandoffGet, IdleHoldsNothing, FreeIsEmpty
  <2>3. FileRefsExact'
    <3> SUFFICES ASSUME NEW f \in File
                 PROVE  refs'[f] = Cardinality(SlotsHolding(f)') + Cardinality(CallersHolding(f)')
      BY ExactIsCounts
    <3>1. refs[f] = Cardinality(SlotsHolding(f)) + Cardinality(CallersHolding(f))
          /\ Cardinality(SlotsHolding(f)) \in Nat
      BY <1>1, ExactIsCounts, HoldingNat DEF BrokerInv, HandoffGet
    <3>2. SlotsHolding(f)' = SlotsHolding(f)
      BY <1>1 DEF HandoffGet, SlotsHolding
    <3>3. /\ Cardinality(CallersHolding(f)) \in Nat /\ Cardinality(CallersHolding(f)') \in Nat
          /\ Cardinality(CallersHolding(f)') + One(f \in files[c])
               = Cardinality(CallersHolding(f)) + One(f \in b)
      BY <1>1, CallerStep DEF BrokerInv, HandoffGet
    <3>4. refs'[f] = (IF f \in b THEN refs[f] + 1 ELSE refs[f]) /\ f \notin files[c]
      BY <1>1 DEF HandoffGet, Get, BrokerInv, IdleHoldsNothing
    <3> QED BY <3>1, <3>2, <3>3, <3>4 DEF One
  <2> QED BY <2>1, <2>2, <2>3 DEF BrokerInv
<1>2. CASE HandoffStore(c)
  <2> DEFINE s == IF SlotsOf(pid[c]) # {} THEN SlotOf(pid[c]) ELSE SlotOf(NoPid)
             x == [pid |-> pid[c], files |-> files[c]]
  <2>1. /\ s \in Slot /\ slot' = [slot EXCEPT ![s] = x]
        /\ files' = [files EXCEPT ![c] = slot[s].files]
        /\ works' = works \/ works' = [works EXCEPT ![pid[c]] = Append(@, s)]
        /\ twice' \in BOOLEAN
        /\ call[c] = "store" /\ call' = [call EXCEPT ![c] = "put"]
        /\ UNCHANGED <<life, age, task, pid, refs, got, asked, count, down, at, phase>>
    BY <1>2, SlotOfFinds DEF HandoffStore, Queue, exitVars, lifeVars, BrokerInv, TypeOK
  <2> HIDE DEF s
  <2>2. pid[c] \in Target /\ pid[c] # NoPid
    BY <2>1, CtlBounds DEF BrokerInv, IdleHoldsNothing, TypeOK
  <2>3. TypeOK'
    <3>1. slot' \in [Slot -> [pid : Target \cup {NoPid}, files : Batch]]
      BY <2>1, <2>2 DEF BrokerInv, TypeOK
    <3>2. works' \in [Target -> Seq(Slot)]
      <4>1. works \in [Target -> Seq(Slot)] /\ Append(works[pid[c]], s) \in Seq(Slot)
        BY <2>1, <2>2 DEF BrokerInv, TypeOK
      <4>2. works' = works \/ works' = [works EXCEPT ![pid[c]] = Append(@, s)]
        BY <2>1
      <4> QED BY <2>2, <4>1, <4>2
    <3>3. files' \in [Caller -> Batch] /\ call' \in [Caller -> {"idle", "find", "store", "put"}]
      <4>1. /\ files \in [Caller -> Batch] /\ slot[s].files \in Batch
            /\ call \in [Caller -> {"idle", "find", "store", "put"}]
        BY <2>1 DEF BrokerInv, TypeOK
      <4>2. files' = [files EXCEPT ![c] = slot[s].files]
            /\ call' = [call EXCEPT ![c] = "put"]
        BY <2>1
      <4> QED BY <4>1, <4>2
    <3>4. twice' \in BOOLEAN
          /\ UNCHANGED <<life, age, task, pid, refs, got, asked, count, down, at, phase>>
      BY <2>1
    <3> QED BY <3>1, <3>2, <3>3, <3>4 DEF BrokerInv, TypeOK
  <2>4. IdleHoldsNothing' /\ FreeIsEmpty'
    BY <2>1, <2>2 DEF BrokerInv, TypeOK, IdleHoldsNothing, FreeIsEmpty
  <2>5. FileRefsExact'
    <3> SUFFICES ASSUME down = "up", NEW f \in File
                 PROVE  refs'[f] = Cardinality(SlotsHolding(f)') + Cardinality(CallersHolding(f)')
      BY <2>1, ExactIsCounts
    <3>1. refs[f] = Cardinality(SlotsHolding(f)) + Cardinality(CallersHolding(f))
      BY ExactIsCounts DEF BrokerInv
    <3>2. /\ Cardinality(SlotsHolding(f)) \in Nat /\ Cardinality(SlotsHolding(f)') \in Nat
          /\ Cardinality(SlotsHolding(f)') + One(f \in slot[s].files)
               = Cardinality(SlotsHolding(f)) + One(f \in files[c])
      <4>1. x.files = files[c] /\ slot' = [slot EXCEPT ![s] = x]
        BY <2>1
      <4> HIDE DEF x
      <4>2. Cardinality(SlotsHolding(f)') + One(f \in slot[s].files)
               = Cardinality(SlotsHolding(f)) + One(f \in x.files)
        BY <2>1, <4>1, SlotStep DEF BrokerInv
      <4>3. Cardinality(SlotsHolding(f)) \in Nat /\ Cardinality(SlotsHolding(f)') \in Nat
        BY <2>1, <4>1, SlotStep DEF BrokerInv
      <4> QED BY <4>1, <4>2, <4>3
    <3>3. /\ Cardinality(CallersHolding(f)) \in Nat /\ Cardinality(CallersHolding(f)') \in Nat
          /\ Cardinality(CallersHolding(f)') + One(f \in files[c])
               = Cardinality(CallersHolding(f)) + One(f \in slot[s].files)
      BY <2>1, CallerStep DEF BrokerInv
    <3> QED BY <2>1, <3>1, <3>2, <3>3 DEF One
  <2> QED BY <2>3, <2>4, <2>5 DEF BrokerInv
<1>3. CASE HandoffFull(c)
  <2>1. TypeOK' /\ IdleHoldsNothing' /\ FreeIsEmpty'
    BY <1>3 DEF BrokerInv, TypeOK, HandoffFull, IdleHoldsNothing, FreeIsEmpty,
       exitVars, lifeVars
  <2> QED BY <1>3, <2>1, RefsKept DEF BrokerInv, HandoffFull, exitVars
<1>4. CASE HandoffPut(c)
  <2>1. TypeOK'
    <3>1. refs' \in [File -> Int] /\ task' \in [Caller -> 0 .. LifeMax]
      BY <1>4, CtlBounds DEF BrokerInv, TypeOK, HandoffPut, Put
    <3>2. /\ files' \in [Caller -> Batch] /\ pid' \in [Caller -> Target \cup {NoPid}]
          /\ call' \in [Caller -> {"idle", "find", "store", "put"}]
      BY <1>4 DEF BrokerInv, TypeOK, HandoffPut, Batch
    <3> QED BY <1>4, <3>1, <3>2 DEF BrokerInv, TypeOK, HandoffPut, exitVars, lifeVars
  <2>2. IdleHoldsNothing' /\ FreeIsEmpty'
    BY <1>4 DEF BrokerInv, TypeOK, HandoffPut, IdleHoldsNothing, FreeIsEmpty
  <2>3. FileRefsExact'
    <3> SUFFICES ASSUME down = "up", NEW f \in File
                 PROVE  refs'[f] = Cardinality(SlotsHolding(f)') + Cardinality(CallersHolding(f)')
      BY <1>4, ExactIsCounts DEF HandoffPut, exitVars
    <3>1. refs[f] = Cardinality(SlotsHolding(f)) + Cardinality(CallersHolding(f))
          /\ Cardinality(SlotsHolding(f)) \in Nat
      BY ExactIsCounts, HoldingNat DEF BrokerInv
    <3>2. SlotsHolding(f)' = SlotsHolding(f)
      BY <1>4 DEF HandoffPut, SlotsHolding
    <3>3. /\ Cardinality(CallersHolding(f)) \in Nat /\ Cardinality(CallersHolding(f)') \in Nat
          /\ Cardinality(CallersHolding(f)') + One(f \in files[c])
               = Cardinality(CallersHolding(f)) + One(f \in {})
      BY <1>4, CallerStep DEF BrokerInv, HandoffPut
    <3>4. refs'[f] = IF f \in files[c] THEN refs[f] - 1 ELSE refs[f]
      BY <1>4 DEF HandoffPut, Put
    <3> QED BY <3>1, <3>2, <3>3, <3>4 DEF One
  <2> QED BY <2>1, <2>2, <2>3 DEF BrokerInv
<1>5. CASE HandoffFind(c)
  <2>1. TypeOK' /\ IdleHoldsNothing' /\ FreeIsEmpty'
    <3>1. IdleHoldsNothing' /\ FreeIsEmpty'
      BY <1>5 DEF BrokerInv, TypeOK, HandoffFind, IdleHoldsNothing, FreeIsEmpty
    <3>2. pid[c] \in Target
      BY <1>5 DEF HandoffFind, BrokerInv, IdleHoldsNothing, TypeOK
    <3>3. task' \in [Caller -> 0 .. LifeMax]
      BY <1>5, <3>2, CtlBounds DEF BrokerInv, TypeOK, HandoffFind
    <3>4. call' \in [Caller -> {"idle", "find", "store", "put"}]
      BY <1>5 DEF BrokerInv, TypeOK, HandoffFind
    <3> QED BY <1>5, <3>1, <3>3, <3>4 DEF BrokerInv, TypeOK, HandoffFind, exitVars, lifeVars
  <2> QED BY <1>5, <2>1, RefsKept DEF BrokerInv, HandoffFind, exitVars
<1> QED BY <1>1, <1>2, <1>3, <1>4, <1>5

\* A delivery empties the slot of its work, a release that of its pid.
LEMMA TargetBroker ==
    ASSUME BrokerInv, NEW p \in Target,
           Deliver(p) \/ Exit(p) \/ WorksDone(p) \/ ProcessFree(p) \/ Reborn(p)
    PROVE  BrokerInv'
<1>1. CASE Deliver(p)
  <2> DEFINE s == Head(works[p])
  <2>1. /\ works[p] \in Seq(Slot) /\ works[p] # <<>> /\ slot' = [slot EXCEPT ![s] = Free]
        /\ Put(slot[s].files) /\ works' = [works EXCEPT ![p] = Tail(@)]
        /\ UNCHANGED <<life, age, call, task, pid, files, asked, twice, count, down, at, phase>>
    BY <1>1 DEF BrokerInv, TypeOK, Deliver, callVars, exitVars, lifeVars
  <2>2. s \in Slot /\ Tail(works[p]) \in Seq(Slot)
    BY <2>1
  <2>3. got' \in [Target -> Batch]
    <3>1. slot[s].files \in Batch
      BY <2>2 DEF BrokerInv, TypeOK
    <3>2. got' = got \/ \E i \in SUBSET slot[s].files : got' = [got EXCEPT ![p] = @ \cup i]
      BY <1>1 DEF Deliver
    <3> HIDE DEF s
    <3>3. got \in [Target -> Batch]
      BY DEF BrokerInv, TypeOK
    <3>4. \A d \in Batch, i \in SUBSET slot[s].files : d \cup i \in Batch
      BY <3>1 DEF Batch
    <3>5. ASSUME NEW i \in SUBSET slot[s].files, got' = [got EXCEPT ![p] = @ \cup i]
          PROVE  got' \in [Target -> Batch]
      <4>1. got[p] \cup i \in Batch
        BY <3>3, <3>4
      <4> QED BY <3>3, <3>5, <4>1
    <3> QED BY <3>2, <3>3, <3>5
  <2> HIDE DEF s
  <2>4. TypeOK'
    <3>1. slot' \in [Slot -> [pid : Target \cup {NoPid}, files : Batch]]
      BY <2>1, <2>2 DEF BrokerInv, TypeOK, Free, Batch
    <3>2. works' \in [Target -> Seq(Slot)]
      BY <2>1, <2>2 DEF BrokerInv, TypeOK
    <3>3. refs' \in [File -> Int]
      BY <2>1 DEF BrokerInv, TypeOK, Put
    <3> QED BY <2>1, <2>3, <3>1, <3>2, <3>3 DEF BrokerInv, TypeOK
  <2>5. IdleHoldsNothing' /\ FreeIsEmpty'
    BY <2>1, <2>2 DEF BrokerInv, TypeOK, IdleHoldsNothing, FreeIsEmpty, Free
  <2>6. FileRefsExact'
    BY <2>1, <2>2, RefsRelease DEF BrokerInv
  <2> QED BY <2>4, <2>5, <2>6 DEF BrokerInv
<1>2. CASE Exit(p) \/ WorksDone(p)
  <2>1. UNCHANGED <<slot, works, age, callVars, refs, got, asked, twice, count, exitVars>>
        /\ life' \in [Target -> {"alive", "exiting", "zombie", "freed"}]
    BY <1>2 DEF Exit, WorksDone, BrokerInv, TypeOK
  <2>2. TypeOK' /\ IdleHoldsNothing' /\ FreeIsEmpty'
    BY <2>1 DEF BrokerInv, TypeOK, IdleHoldsNothing, FreeIsEmpty, callVars, exitVars
  <2> QED BY <2>1, <2>2, RefsKept DEF BrokerInv, callVars, exitVars
<1>3. CASE ProcessFree(p)
  <2>1. UNCHANGED <<works, age, callVars, got, asked, twice, count, exitVars>>
        /\ life' \in [Target -> {"alive", "exiting", "zombie", "freed"}]
    BY <1>3 DEF ProcessFree, BrokerInv, TypeOK
  <2>2. CASE UNCHANGED <<refs, slot>>
    <3>1. TypeOK' /\ IdleHoldsNothing' /\ FreeIsEmpty'
      BY <2>1, <2>2 DEF BrokerInv, TypeOK, IdleHoldsNothing, FreeIsEmpty, callVars, exitVars
    <3> QED BY <2>1, <2>2, <3>1, RefsKept DEF BrokerInv, callVars, exitVars
  <2>3. CASE SlotsOf(p) # {} /\ Put(slot[SlotOf(p)].files)
             /\ slot' = [slot EXCEPT ![SlotOf(p)] = Free]
    <3>1. SlotOf(p) \in Slot
      BY <2>3, SlotOfFinds
    <3>2. TypeOK'
      BY <2>1, <2>3, <3>1 DEF BrokerInv, TypeOK, Put, Free, Batch, callVars, exitVars
    <3>3. IdleHoldsNothing' /\ FreeIsEmpty'
      BY <2>1, <2>3, <3>1 DEF BrokerInv, TypeOK, IdleHoldsNothing, FreeIsEmpty, Free, callVars
    <3>4. FileRefsExact'
      BY <2>1, <2>3, <3>1, RefsRelease DEF BrokerInv, callVars, exitVars
    <3> QED BY <3>2, <3>3, <3>4 DEF BrokerInv
  <2> QED BY <1>3, <2>2, <2>3 DEF ProcessFree, Release
<1>4. CASE Reborn(p)
  <2>1. life' \in [Target -> {"alive", "exiting", "zombie", "freed"}]
        /\ age' \in [Target -> 1 .. LifeMax] /\ got' \in [Target -> Batch]
    BY <1>4, CtlBounds DEF Reborn, BrokerInv, TypeOK, Batch
  <2>2. TypeOK' /\ IdleHoldsNothing' /\ FreeIsEmpty'
    BY <1>4, <2>1 DEF Reborn, BrokerInv, TypeOK, IdleHoldsNothing, FreeIsEmpty, callVars, exitVars
  <2> QED BY <1>4, <2>2, RefsKept DEF Reborn, BrokerInv, callVars, exitVars
<1> QED BY <1>1, <1>2, <1>3, <1>4

\* The teardown.
LEMMA ExitBroker ==
    ASSUME BrokerInv, ExitBegin \/ ExitPut \/ ExitClear
    PROVE  BrokerInv'
<1>1. FileRefsExact'
  BY DEF FileRefsExact, ExitBegin, ExitPut, ExitClear
<1>2. CASE ExitBegin
  BY <1>1, <1>2 DEF BrokerInv, TypeOK, IdleHoldsNothing, FreeIsEmpty, ExitBegin, callVars,
     lifeVars
<1>3. CASE ExitPut
  BY <1>1, <1>3 DEF BrokerInv, TypeOK, IdleHoldsNothing, FreeIsEmpty, ExitPut, Put,
     callVars, lifeVars
<1>4. CASE ExitClear
  <2>1. at' \in Slot /\ down' \in {"up", "exit", "done"}
    BY <1>4, CtlBounds DEF BrokerInv, TypeOK, ExitClear, Slot
  <2>2. TypeOK'
    BY <1>4, <2>1 DEF BrokerInv, TypeOK, ExitClear, Free, Batch, callVars, lifeVars
  <2>3. IdleHoldsNothing' /\ FreeIsEmpty'
    BY <1>4 DEF BrokerInv, TypeOK, IdleHoldsNothing, FreeIsEmpty, ExitClear, Free, callVars
  <2> QED BY <1>1, <2>2, <2>3 DEF BrokerInv
<1> QED BY <1>2, <1>3, <1>4

LEMMA StepBroker == BrokerInv /\ [Next]_vars => BrokerInv'
<1> SUFFICES ASSUME BrokerInv, [Next]_vars PROVE BrokerInv'
  OBVIOUS
<1>1. CASE UNCHANGED vars
  <2>1. TypeOK' /\ IdleHoldsNothing' /\ FreeIsEmpty'
    BY <1>1 DEF BrokerInv, TypeOK, IdleHoldsNothing, FreeIsEmpty, vars, callVars, exitVars,
       lifeVars
  <2> QED BY <1>1, <2>1, RefsKept DEF BrokerInv, vars, callVars, exitVars
<1> QED BY <1>1, HandoffBroker, TargetBroker, ExitBroker DEF Next

\* Until the teardown the broker of zygote_ctl.c owns exactly the references
\* its slots and its running handoffs stand for: fget and fput match on every
\* path, also where handoffs, deliveries and releases run at once, a slot is
\* replaced, the table is full or a process is freed with files waiting.
THEOREM BrokerAlwaysSound == Spec => []BrokerSound
<1>1. BrokerInv => BrokerSound
  BY DEF BrokerInv, BrokerSound
<1> QED BY <1>1, InitBroker, StepBroker, PTL DEF Spec

-----------------------------------------------------------------------------
(* Deliveries.                                                             *)

LEMMA InitDelivery == Init => DeliveryInv
<1> SUFFICES ASSUME Init PROVE Delivery
  BY InitBroker DEF DeliveryInv, Delivery
<1> QED BY DEF Init, Delivery, SlotAsked, OneAtATime, DeliveredToTarget, Free

LEMMA HandoffDelivery ==
    ASSUME ~twice, ~twice', BrokerInv, Delivery, NEW c \in Caller,
           \/ \E p \in Target, b \in Batch \ {{}} : HandoffGet(c, p, b)
           \/ HandoffFind(c) \/ HandoffStore(c) \/ HandoffFull(c) \/ HandoffPut(c)
    PROVE  Delivery'
<1>1. ASSUME NEW p \in Target, NEW b \in Batch \ {{}}, HandoffGet(c, p, b)
      PROVE  Delivery'
  <2>1. /\ call[c] = "idle" /\ pid' = [pid EXCEPT ![c] = p]
        /\ files' = [files EXCEPT ![c] = b]
        /\ \/ call' = [call EXCEPT ![c] = "find"] /\ asked' = [asked EXCEPT ![p] = @ \cup b]
           \/ call' = [call EXCEPT ![c] = "put"] /\ asked' = asked
        /\ down = "up" /\ UNCHANGED <<slot, works, life, got, twice, down>>
    BY <1>1 DEF HandoffGet, exitVars, lifeVars
  <2>2. \A q \in Target : asked[q] \subseteq asked'[q]
    <3>1. asked \in [Target -> Batch]
      BY DEF BrokerInv, TypeOK
    <3> QED BY <2>1, <3>1
  <2>3. SlotAsked'
    BY <2>1, <2>2 DEF Delivery, SlotAsked, BrokerInv, TypeOK, IdleHoldsNothing
  <2>4. OneAtATime'
    BY <2>1 DEF Delivery, OneAtATime, BrokerInv, TypeOK, IdleHoldsNothing
  <2>5. DeliveredToTarget'
    BY <2>1, <2>2 DEF Delivery, DeliveredToTarget
  <2> QED BY <2>3, <2>4, <2>5 DEF Delivery
<1>2. CASE HandoffStore(c)
  <2> DEFINE s == IF SlotsOf(pid[c]) # {} THEN SlotOf(pid[c]) ELSE SlotOf(NoPid)
             p == pid[c]
  <2>1. /\ s \in Slot /\ slot' = [slot EXCEPT ![s] = [pid |-> pid[c], files |-> files[c]]]
        /\ slot[s].pid \in {p, NoPid}
        /\ slot[s].pid = NoPid => \A t \in Slot : slot[t].pid # p
        /\ files' = [files EXCEPT ![c] = slot[s].files]
        /\ \/ works' = works
           \/ /\ life[p] \in {"alive", "exiting"}
              /\ works' = [works EXCEPT ![p] = Append(@, s)]
              /\ \A q \in Target : \A i \in DOMAIN works[q] : works[q][i] # s
        /\ call[c] = "store" /\ call' = [call EXCEPT ![c] = "put"]
        /\ UNCHANGED <<life, pid, refs, got, asked, count, down, at, phase>>
    <3>1. p # NoPid
      BY <1>2 DEF HandoffStore, BrokerInv, IdleHoldsNothing
    <3>2. s \in Slot /\ slot[s].pid \in {p, NoPid}
          /\ (slot[s].pid = NoPid => \A t \in Slot : slot[t].pid # p)
      BY <1>2, <3>1, SlotOfFinds DEF HandoffStore, SlotsOf
    <3>3. \/ works' = works
          \/ /\ life[p] \in {"alive", "exiting"}
             /\ works' = [works EXCEPT ![p] = Append(@, s)]
             /\ \A q \in Target : \A i \in DOMAIN works[q] : works[q][i] # s
      BY <1>2 DEF HandoffStore, Queue
    <3> QED BY <1>2, <3>2, <3>3 DEF HandoffStore, exitVars, lifeVars
  <2> HIDE DEF s
  <2>2. p \in Target /\ p # NoPid /\ down = "up"
    BY <2>1, CtlBounds DEF BrokerInv, IdleHoldsNothing, TypeOK, Delivery, OneAtATime
  <2> HIDE DEF p
  <2>3. SlotAsked'
    BY <2>1, <2>2 DEF Delivery, SlotAsked, BrokerInv, TypeOK, p
  <2>4. \A q \in Target : works[q] # <<>> =>
           Head(works[q]) \in Slot /\ slot[Head(works[q])].pid = q
    BY <2>2 DEF Delivery, OneAtATime, BrokerInv, TypeOK
  <2>5. works[p] # <<>> => s = Head(works[p])
    BY <2>1, <2>2, <2>4 DEF Delivery, OneAtATime
  <2>6. works[p] # <<>> => \E i \in DOMAIN works[p] : works[p][i] = s
    <3> HAVE works[p] # <<>>
    <3>1. 1 \in DOMAIN works[p] /\ works[p][1] = Head(works[p])
      BY <2>2 DEF BrokerInv, TypeOK
    <3> QED BY <2>5, <3>1
  <2>7. \/ works' = works
        \/ /\ life[p] \in {"alive", "exiting"} /\ works[p] = <<>>
           /\ works' = [works EXCEPT ![p] = <<s>>]
    <3>1. Append(<<>>, s) = <<s>>
      OBVIOUS
    <3> QED BY <2>1, <2>2, <2>6, <3>1
  <2>8. OneAtATime'
    <3>1. Len(<<s>>) = 1 /\ Head(<<s>>) = s
      OBVIOUS
    <3>2. works'[p] = works[p] \/ (works'[p] = <<s>> /\ life[p] \in {"alive", "exiting"})
      BY <2>7, <2>2 DEF BrokerInv, TypeOK
    <3>3. \A q \in Target \ {p} : works'[q] = works[q]
      BY <2>7, <2>2 DEF BrokerInv, TypeOK
    <3>5. \A q \in Target \ {p} : works[q] # <<>> => slot'[Head(works[q])].pid = q
      BY <2>1, <2>2, <2>4, CtlBounds DEF BrokerInv, TypeOK
    <3>6. slot'[s].pid = p
      BY <2>1 DEF BrokerInv, TypeOK, p
    <3>7. \A q \in Target :
             /\ life'[q] \in {"zombie", "freed"} => works'[q] = <<>>
             /\ Len(works'[q]) <= 1
             /\ works'[q] # <<>> => slot'[Head(works'[q])].pid = q
      <4> TAKE q \in Target
      <4>1. CASE q # p
        BY <2>1, <3>3, <3>5, <4>1 DEF Delivery, OneAtATime
      <4>2. CASE q = p /\ works'[p] = works[p]
        BY <2>1, <2>5, <3>6, <4>2 DEF Delivery, OneAtATime
      <4>3. CASE q = p /\ works'[p] = <<s>> /\ life[p] \in {"alive", "exiting"}
        BY <2>1, <3>1, <3>6, <4>3
      <4> QED BY <3>2, <4>1, <4>2, <4>3
    <3>8. \A t, u \in Slot : slot'[t].pid # NoPid /\ slot'[t].pid = slot'[u].pid => t = u
      <4>1. \A t \in Slot \ {s} : slot'[t] = slot[t] /\ slot[t].pid # p
        BY <2>1, <2>2 DEF Delivery, OneAtATime, BrokerInv, TypeOK
      <4> QED BY <3>6, <4>1 DEF Delivery, OneAtATime
    <3> QED BY <2>1, <2>2, <3>7, <3>8, CtlBounds DEF OneAtATime
  <2>9. DeliveredToTarget'
    BY <2>1 DEF Delivery, DeliveredToTarget
  <2> QED BY <2>3, <2>8, <2>9 DEF Delivery
<1>3. CASE HandoffFind(c) \/ HandoffFull(c) \/ HandoffPut(c)
  <2>1. UNCHANGED <<slot, works, life, got, asked, twice, down>>
    BY <1>3 DEF HandoffFind, HandoffFull, HandoffPut, exitVars, lifeVars
  <2>2. \/ call[c] = "find" /\ call' = [call EXCEPT ![c] = "store"] /\ UNCHANGED <<pid, files>>
        \/ call' = [call EXCEPT ![c] = "put"] /\ UNCHANGED <<pid, files>>
        \/ /\ call' = [call EXCEPT ![c] = "idle"] /\ pid' = [pid EXCEPT ![c] = NoPid]
           /\ files' = [files EXCEPT ![c] = {}]
    BY <1>3 DEF HandoffFind, HandoffFull, HandoffPut
  <2>3. call[c] # "idle"
    BY <1>3 DEF HandoffFind, HandoffFull, HandoffPut
  <2>4. SlotAsked' /\ DeliveredToTarget'
    BY <2>1, <2>2 DEF Delivery, SlotAsked, DeliveredToTarget, BrokerInv, TypeOK
  <2>5. OneAtATime'
    BY <2>1, <2>2, <2>3 DEF Delivery, OneAtATime, BrokerInv, TypeOK
  <2> QED BY <2>4, <2>5 DEF Delivery
<1> QED BY <1>1, <1>2, <1>3

LEMMA TargetDelivery ==
    ASSUME ~twice, BrokerInv, Delivery, NEW p \in Target,
           Deliver(p) \/ Exit(p) \/ WorksDone(p) \/ ProcessFree(p) \/ Reborn(p)
    PROVE  Delivery'
<1>1. CASE Deliver(p)
  <2> DEFINE s == Head(works[p])
  <2>1. /\ works[p] \in Seq(Slot) /\ works[p] # <<>> /\ slot' = [slot EXCEPT ![s] = Free]
        /\ works' = [works EXCEPT ![p] = Tail(@)]
        /\ UNCHANGED <<life, call, pid, files, asked, twice, down>>
    BY <1>1 DEF BrokerInv, TypeOK, Deliver, callVars, exitVars, lifeVars
  <2>2. s \in Slot /\ Tail(works[p]) = <<>>
    <3>1. Len(works[p]) <= 1
      BY DEF Delivery, OneAtATime
    <3> QED BY <2>1, <3>1
  <2>3. got' = got \/ \E i \in SUBSET slot[s].files : got' = [got EXCEPT ![p] = @ \cup i]
    BY <1>1 DEF Deliver
  <2>4. slot[s].pid \in {p, NoPid} /\ (slot[s].pid = NoPid => down # "up")
    BY <2>1 DEF Delivery, OneAtATime
  <2> HIDE DEF s
  <2>5. slot[s].files \subseteq asked[p]
    BY <2>2, <2>4, CtlBounds DEF Delivery, SlotAsked, BrokerInv, FreeIsEmpty
  <2>6. DeliveredToTarget'
    <3>1. \A q \in Target : got[q] \subseteq asked[q]
      BY DEF Delivery, DeliveredToTarget
    <3>2. got \in [Target -> Batch]
      BY DEF BrokerInv, TypeOK
    <3>3. CASE got' = got
      BY <2>1, <3>1, <3>3 DEF DeliveredToTarget
    <3>4. ASSUME NEW i \in SUBSET slot[s].files, got' = [got EXCEPT ![p] = @ \cup i]
          PROVE  DeliveredToTarget'
      <4>1. \A q \in Target : got'[q] = IF q = p THEN got[p] \cup i ELSE got[q]
        BY <3>2, <3>4
      <4>2. i \subseteq asked[p]
        BY <2>5
      <4> QED BY <2>1, <3>1, <4>1, <4>2 DEF DeliveredToTarget
    <3> QED BY <2>3, <3>3, <3>4
  <2>7. SlotAsked'
    BY <2>1, <2>2 DEF Delivery, SlotAsked, BrokerInv, TypeOK, Free
  <2>8. OneAtATime'
    <3>1. works'[p] = <<>> /\ Len(<<>>) = 0 /\ \A q \in Target \ {p} : works'[q] = works[q]
      BY <2>1, <2>2 DEF BrokerInv, TypeOK
    <3>2. \A q \in Target \ {p} : works[q] # <<>> =>
             Head(works[q]) # s \/ down # "up"
      BY <2>2, <2>4, CtlBounds DEF Delivery, OneAtATime, BrokerInv, TypeOK
    <3>3. \A q \in Target \ {p} : works[q] # <<>> =>
             /\ slot'[Head(works[q])].pid \in {q, NoPid}
             /\ slot'[Head(works[q])].pid = NoPid => down # "up"
      <4> TAKE q \in Target \ {p}
      <4> HAVE works[q] # <<>>
      <4>1. Head(works[q]) \in Slot
        BY DEF BrokerInv, TypeOK
      <4> QED BY <2>1, <2>2, <3>2, <4>1 DEF Delivery, OneAtATime, BrokerInv, TypeOK, Free
    <3>4. \A t \in Slot : slot'[t] = slot[t] \/ slot'[t].pid = NoPid
      BY <2>1, <2>2 DEF BrokerInv, TypeOK, Free
    <3>5. \A q \in Target : works'[q] = <<>> \/ (q # p /\ works'[q] = works[q])
      BY <3>1
    <3>6. \A t, u \in Slot : slot'[t].pid # NoPid /\ slot'[t].pid = slot'[u].pid => t = u
      <4>1. \A t, u \in Slot : slot[t].pid # NoPid /\ slot[t].pid = slot[u].pid => t = u
        BY DEF Delivery, OneAtATime
      <4> QED BY <3>4, <4>1
    <3>7. \A q \in Target :
             /\ life'[q] \in {"zombie", "freed"} => works'[q] = <<>>
             /\ Len(works'[q]) <= 1
      BY <2>1, <3>1, <3>5 DEF Delivery, OneAtATime
    <3>8. \A q \in Target : works'[q] # <<>> =>
             /\ slot'[Head(works'[q])].pid \in {q, NoPid}
             /\ slot'[Head(works'[q])].pid = NoPid => down' # "up"
      BY <2>1, <3>3, <3>5
    <3>9. down' # "up" => \A c \in Caller : call'[c] = "idle"
      BY <2>1 DEF Delivery, OneAtATime
    <3> QED BY <3>6, <3>7, <3>8, <3>9 DEF OneAtATime
  <2> QED BY <2>6, <2>7, <2>8 DEF Delivery
<1>2. CASE Exit(p) \/ WorksDone(p)
  BY <1>2 DEF Exit, WorksDone, Delivery, SlotAsked, OneAtATime, DeliveredToTarget, BrokerInv,
     TypeOK, callVars, exitVars
<1>3. CASE ProcessFree(p)
  <2>1. UNCHANGED <<works, call, pid, files, got, asked, twice, down>>
        /\ life[p] = "zombie" /\ life' = [life EXCEPT ![p] = "freed"]
    BY <1>3 DEF ProcessFree, callVars, exitVars
  <2>2. \/ slot' = slot
        \/ \E s \in Slot : slot[s].pid = p /\ slot' = [slot EXCEPT ![s] = Free]
    BY <1>3, SlotOfFinds DEF ProcessFree, Release
  <2>3. works[p] = <<>>
    BY <2>1 DEF Delivery, OneAtATime
  <2>4. SlotAsked' /\ DeliveredToTarget'
    <3>1. DeliveredToTarget' /\ (slot' = slot => SlotAsked')
      BY <2>1 DEF Delivery, SlotAsked, DeliveredToTarget
    <3>2. ASSUME NEW s \in Slot, slot' = [slot EXCEPT ![s] = Free]
          PROVE  SlotAsked'
      BY <2>1, <3>2 DEF Delivery, SlotAsked, BrokerInv, TypeOK, Free
    <3> QED BY <2>2, <3>1, <3>2
  <2>5. \A q \in Target : works[q] # <<>> =>
           slot'[Head(works[q])] = slot[Head(works[q])]
    <3> TAKE q \in Target
    <3> HAVE works[q] # <<>>
    <3>1. Head(works[q]) \in Slot /\ slot[Head(works[q])].pid # p
      BY <2>3, CtlBounds DEF Delivery, OneAtATime, BrokerInv, TypeOK
    <3> QED BY <2>2, <3>1 DEF BrokerInv, TypeOK
  <2>6. OneAtATime'
    <3>1. \A t \in Slot : slot'[t] = slot[t] \/ slot'[t].pid = NoPid
      BY <2>2 DEF BrokerInv, TypeOK, Free
    <3>2. \A t, u \in Slot : slot'[t].pid # NoPid /\ slot'[t].pid = slot'[u].pid => t = u
      BY <3>1 DEF Delivery, OneAtATime
    <3>3. \A q \in Target : life'[q] \in {"zombie", "freed"} => works'[q] = <<>>
      BY <2>1, <2>3 DEF Delivery, OneAtATime, BrokerInv, TypeOK
    <3> QED BY <2>1, <2>5, <3>2, <3>3 DEF Delivery, OneAtATime
  <2> QED BY <2>4, <2>6 DEF Delivery
<1>4. CASE Reborn(p)
  <2>1. /\ UNCHANGED <<slot, works, call, pid, files, asked, twice, down>>
        /\ life[p] = "freed" /\ life' = [life EXCEPT ![p] = "alive"]
        /\ got' = [got EXCEPT ![p] = {}]
    BY <1>4 DEF Reborn, callVars, exitVars
  <2>2. SlotAsked' /\ DeliveredToTarget'
    BY <2>1 DEF Delivery, SlotAsked, DeliveredToTarget, BrokerInv, TypeOK
  <2>3. OneAtATime'
    BY <2>1 DEF Delivery, OneAtATime, BrokerInv, TypeOK
  <2> QED BY <2>2, <2>3 DEF Delivery
<1> QED BY <1>1, <1>2, <1>3, <1>4

LEMMA ExitDelivery ==
    ASSUME ~twice, BrokerInv, Delivery, ExitBegin \/ ExitPut \/ ExitClear
    PROVE  Delivery'
<1>1. CASE ExitBegin \/ ExitPut
  BY <1>1 DEF ExitBegin, ExitPut, Delivery, SlotAsked, OneAtATime, DeliveredToTarget, callVars,
     lifeVars
<1>2. CASE ExitClear
  <2>1. /\ slot' = [slot EXCEPT ![at] = Free] /\ at \in Slot
        /\ down # "up" /\ down' # "up" /\ UNCHANGED <<works, life, call, pid, files, got, asked, twice>>
    BY <1>2 DEF ExitClear, callVars, lifeVars, BrokerInv, TypeOK
  <2>2. SlotAsked' /\ DeliveredToTarget'
    BY <2>1 DEF Delivery, SlotAsked, DeliveredToTarget, BrokerInv, TypeOK, Free
  <2>3. \A q \in Target : works[q] # <<>> => slot'[Head(works[q])].pid \in {q, NoPid}
    <3> TAKE q \in Target
    <3> HAVE works[q] # <<>>
    <3>1. Head(works[q]) \in Slot /\ slot[Head(works[q])].pid \in {q, NoPid}
      BY DEF Delivery, OneAtATime, BrokerInv, TypeOK
    <3> QED BY <2>1, <3>1 DEF BrokerInv, TypeOK, Free
  <2>4. OneAtATime'
    <3>1. \A t \in Slot : slot'[t] = slot[t] \/ slot'[t].pid = NoPid
      BY <2>1 DEF BrokerInv, TypeOK, Free
    <3>2. \A t, u \in Slot : slot'[t].pid # NoPid /\ slot'[t].pid = slot'[u].pid => t = u
      BY <3>1 DEF Delivery, OneAtATime
    <3> QED BY <2>1, <2>3, <3>2 DEF Delivery, OneAtATime
  <2> QED BY <2>2, <2>4 DEF Delivery
<1> QED BY <1>1, <1>2

LEMMA StepDelivery == DeliveryInv /\ [Next]_vars => DeliveryInv'
<1> SUFFICES ASSUME DeliveryInv, [Next]_vars, ~twice' PROVE Delivery'
  BY StepBroker DEF DeliveryInv
<1>1. ~twice
  BY DEF Next, vars, HandoffGet, HandoffFind, HandoffStore, Queue, HandoffFull, HandoffPut, Deliver,
     Exit, WorksDone, ProcessFree, Reborn, ExitBegin, ExitPut, ExitClear
<1>2. BrokerInv /\ Delivery
  BY <1>1 DEF DeliveryInv
<1>3. CASE UNCHANGED vars
  BY <1>2, <1>3 DEF Delivery, SlotAsked, OneAtATime, DeliveredToTarget, vars, callVars, exitVars,
     lifeVars
<1> QED BY <1>1, <1>2, <1>3, HandoffDelivery, TargetDelivery, ExitDelivery DEF Next

\* A process is given only files that were handed over for its pid, although its
\* task_work names a slot that is used again for others, handoffs for one process
\* run at once and replace each other, and the pid passes on while a caller still
\* holds the old task: as long as no work was queued that was in a list already,
\* which zygote_ctl.c:126-147 does not rule out.
THEOREM OnlyOwnFiles == Spec => []DeliveredToTarget
<1>1. DeliveryInv => DeliveredToTarget
  BY DEF DeliveryInv, Delivery, DeliveredToTarget
<1> QED BY <1>1, InitDelivery, StepDelivery, PTL DEF Spec
=============================================================================
