-------------------------- MODULE ZygoteOrchProofs --------------------------
(***************************************************************************)
(* Proofs about the orchestrator, for any set of children, any table and   *)
(* ring size and any number of forks: the worker is never left asleep on   *)
(* work, nothing runs after the exit, the child table is sound, and the    *)
(* ring of events implements the queue of SpecializeQueue.                 *)
(***************************************************************************)
EXTENDS ZygoteOrch, FiniteSetTheorems, TLAPS

One(b) == IF b THEN 1 ELSE 0

-----------------------------------------------------------------------------
(* The inductive invariants.                                               *)

\* The ring holds events in the places its indices span; a handler about to
\* queue has seen one of the uids.
RingOK ==
    /\ ev \in [0 .. RingSize - 1 -> Event \cup {<<>>}]
    /\ sent \in Seq(Event)
    /\ \A p \in Pid : step[p] = "queue" => uid[p] \in Uid

\* How far yz_zygote_orch_exit is tells what is over.
ExitOrder ==
    /\ down # "up" => "sys_exit" \notin probes
    /\ down \in {"cancel", "reset", "untrack", "down"} =>
          \A p \in Pid : step[p] = "idle"
    /\ down \in {"reset", "untrack", "down"} => ~pending /\ ~running
    /\ down = "down" => probes = {}

OrchInv == TypeOK /\ RingOK /\ ExitOrder

\* Work is never there without zo_specialize_work_queued.
QueuedIfWork == tail # head \/ dropped > 0 => queued

AwakeInv == OrchInv /\ QueuedIfWork /\ WorkerAwake

-----------------------------------------------------------------------------
(* The ring.                                                               *)

Wrap(a) == a % RingSize
Ring(e, h, t) == [i \in 1 .. Wrap(h + RingSize - t) |-> e[Wrap(t + i - 1)]]
Index == 0 .. RingSize - 1

LEMMA ModRing ==
    ASSUME NEW a \in 0 .. 2 * RingSize - 1
    PROVE  /\ Wrap(a) \in Index
           /\ Wrap(a) = IF a < RingSize THEN a ELSE a - RingSize
BY OrchBounds DEF Index, Wrap

\* How many events lie between two indices.
LEMMA RingLen ==
    ASSUME NEW h \in Index, NEW t \in Index
    PROVE  /\ Wrap(h + RingSize - t) = IF t <= h THEN h - t ELSE h + RingSize - t
           /\ Wrap(h + RingSize - t) \in Index
BY OrchBounds, ModRing DEF Index

\* A push appends to what is waiting.
LEMMA RingPush ==
    ASSUME NEW e, e \in [Index -> Event \cup {<<>>}], NEW h \in Index, NEW t \in Index,
           NEW x \in Event, Wrap(h + 1) # t
    PROVE  Ring([e EXCEPT ![h] = x], Wrap(h + 1), t) = Append(Ring(e, h, t), x)
<1> DEFINE n == Wrap(h + RingSize - t)
           k == Wrap(h + 1)
           m == Wrap(k + RingSize - t)
           f == [e EXCEPT ![h] = x]
<1>1. k \in Index /\ k = IF h + 1 < RingSize THEN h + 1 ELSE 0
  BY OrchBounds, ModRing DEF Index
<1> HIDE DEF n, m, k
<1>2. /\ n \in Index /\ n = IF t <= h THEN h - t ELSE h + RingSize - t
      /\ m \in Index /\ m = IF t <= k THEN k - t ELSE k + RingSize - t
  BY <1>1, RingLen DEF n, m
<1>3. m = n + 1
  <2>1. k # t
    BY DEF k
  <2> QED BY OrchBounds, <1>1, <1>2, <2>1 DEF Index
<1>4. \A i \in 1 .. n : Wrap(t + i - 1) \in Index /\ Wrap(t + i - 1) # h
  <2> TAKE i \in 1 .. n
  <2>1. t + i - 1 \in 0 .. 2 * RingSize - 1
    BY OrchBounds, <1>2 DEF Index
  <2> QED BY OrchBounds, <1>2, <2>1, ModRing DEF Index
<1>5. Wrap(t + m - 1) = h
  <2>1. t + m - 1 \in 0 .. 2 * RingSize - 1
    BY OrchBounds, <1>2, <1>3 DEF Index
  <2> DEFINE a == t + m - 1
  <2>2. a = IF t <= h THEN h ELSE h + RingSize
    BY OrchBounds, <1>2, <1>3 DEF Index
  <2> HIDE DEF a
  <2>3. Wrap(a) = IF a < RingSize THEN a ELSE a - RingSize
    BY <2>1, ModRing DEF a
  <2>4. Wrap(a) = h
    BY OrchBounds, <2>2, <2>3 DEF Index
  <2> QED BY <2>4 DEF a
<1>6. Ring(f, k, t) = [i \in 1 .. m |-> f[Wrap(t + i - 1)]]
  BY DEF Ring, m
<1>7. Ring(e, h, t) = [i \in 1 .. n |-> e[Wrap(t + i - 1)]]
  BY DEF Ring, n
<1>8. \A i \in 1 .. m : f[Wrap(t + i - 1)]
                        = IF i = m THEN x ELSE e[Wrap(t + i - 1)]
  <2> TAKE i \in 1 .. m
  <2>1. CASE i = m
    BY <1>5, <2>1
  <2>2. CASE i # m
    BY <1>2, <1>3, <1>4, <2>2 DEF Index
  <2> QED BY <2>1, <2>2
<1>9. Len(Ring(e, h, t)) = n
  BY <1>2, <1>7 DEF Index
<1>10. Append(Ring(e, h, t), x)
         = [i \in 1 .. n + 1 |-> IF i = n + 1 THEN x ELSE e[Wrap(t + i - 1)]]
  BY <1>2, <1>7, <1>9 DEF Index
<1> QED BY <1>3, <1>6, <1>8, <1>10 DEF k

\* A pop takes the oldest event.
LEMMA RingPop ==
    ASSUME NEW e, NEW h \in Index, NEW t \in Index, t # h
    PROVE  /\ Ring(e, h, t) # <<>>
           /\ Head(Ring(e, h, t)) = e[t]
           /\ Ring(e, h, Wrap(t + 1)) = Tail(Ring(e, h, t))
<1> DEFINE n == Wrap(h + RingSize - t)
           k == Wrap(t + 1)
           m == Wrap(h + RingSize - k)
<1>1. k \in Index /\ k = IF t + 1 < RingSize THEN t + 1 ELSE 0
  BY OrchBounds, ModRing DEF Index
<1> HIDE DEF n, m, k
<1>2. /\ n \in Index /\ n = IF t <= h THEN h - t ELSE h + RingSize - t
      /\ m \in Index /\ m = IF k <= h THEN h - k ELSE h + RingSize - k
  BY <1>1, RingLen DEF n, m
<1>3. n = m + 1
  BY OrchBounds, <1>1, <1>2 DEF Index
<1>4. \A i \in 1 .. m : Wrap(k + i - 1) = Wrap(t + (i + 1) - 1)
  <2> TAKE i \in 1 .. m
  <2>1. k + i - 1 \in 0 .. 2 * RingSize - 1 /\ t + (i + 1) - 1 \in 0 .. 2 * RingSize - 1
    BY OrchBounds, <1>1, <1>2, <1>3 DEF Index
  <2> QED BY OrchBounds, <1>1, <1>2, <1>3, <2>1, ModRing DEF Index
<1>5. Wrap(t + 1 - 1) = t
  BY OrchBounds, ModRing DEF Index
<1>6. /\ Ring(e, h, t) = [i \in 1 .. n |-> e[Wrap(t + i - 1)]]
      /\ Ring(e, h, k) = [i \in 1 .. m |-> e[Wrap(k + i - 1)]]
  BY DEF Ring, n, m
<1> DEFINE r == Ring(e, h, t)
<1>7. /\ Len(r) = n /\ n > 0 /\ n \in Nat /\ m \in Nat
      /\ \A i \in 1 .. n : r[i] = e[Wrap(t + i - 1)]
  <2>1. m \in Nat /\ n \in Nat /\ n > 0
    BY <1>2, <1>3 DEF Index
  <2>2. DOMAIN r = 1 .. n
    BY <1>6
  <2> QED BY <1>6, <2>1, <2>2
<1>8. Tail(r) = [i \in 1 .. m |-> r[i + 1]]
  BY <1>3, <1>6, <1>7
<1>9. r # <<>> /\ Head(r) = e[t]
  BY <1>5, <1>7
<1>10. \A i \in 1 .. m : r[i + 1] = e[Wrap(k + i - 1)]
  BY <1>3, <1>4, <1>7
<1> HIDE DEF r
<1>11. Ring(e, h, k) = Tail(r)
  BY <1>6, <1>8, <1>10
<1> QED BY <1>9, <1>11 DEF k, r

\* Equal indices mean an empty ring.
LEMMA RingEmpty ==
    ASSUME NEW e, NEW h \in Index
    PROVE  Ring(e, h, h) = <<>>
<1>1. Wrap(h + RingSize - h) = 0
  BY RingLen DEF Index
<1> QED BY <1>1 DEF Ring

LEMMA WaitingIsRing == Waiting = Ring(ev, head, tail) /\ Waiting' = Ring(ev', head', tail')
BY DEF Waiting, Ring, Wrap

-----------------------------------------------------------------------------
(* Counting the events of a pid.                                           *)

CountIn(s, p) == Cardinality({i \in DOMAIN s : s[i].pid = p})

LEMMA CountAppend ==
    ASSUME NEW s \in Seq(Event), NEW e \in Event, NEW p
    PROVE  /\ CountIn(s, p) \in Nat
           /\ CountIn(Append(s, e), p) = CountIn(s, p) + One(e.pid = p)
<1> DEFINE S == {i \in DOMAIN s : s[i].pid = p}
           n == Len(s)
           T == {i \in DOMAIN Append(s, e) : Append(s, e)[i].pid = p}
<1>1. n \in Nat /\ DOMAIN s = 1 .. n /\ DOMAIN Append(s, e) = 1 .. n + 1
      /\ (\A i \in 1 .. n : Append(s, e)[i] = s[i]) /\ Append(s, e)[n + 1] = e
  OBVIOUS
<1> HIDE DEF n
<1>2. IsFiniteSet(S) /\ Cardinality(S) \in Nat /\ n + 1 \notin S
  <2>1. IsFiniteSet(1 .. n) /\ S \in SUBSET (1 .. n)
    BY <1>1, FS_Interval
  <2> QED BY <1>1, <2>1, FS_Subset, FS_CardinalityType
<1>3. T = IF e.pid = p THEN S \cup {n + 1} ELSE S
  BY <1>1
<1>0. CountIn(s, p) = Cardinality(S) /\ CountIn(Append(s, e), p) = Cardinality(T)
  BY DEF CountIn
<1> HIDE DEF S, T
<1>4. Cardinality(S \cup {n + 1}) = Cardinality(S) + 1
  BY <1>2, FS_AddElement
<1> QED BY <1>0, <1>2, <1>3, <1>4 DEF One

LEMMA CountTail ==
    ASSUME NEW s \in Seq(Event), s # <<>>, NEW p
    PROVE  /\ CountIn(s, p) \in Nat /\ CountIn(Tail(s), p) \in Nat
           /\ CountIn(s, p) = CountIn(Tail(s), p) + One(Head(s).pid = p)
<1> DEFINE S == {i \in DOMAIN s : s[i].pid = p}
           n == Len(s)
           T == {i \in DOMAIN Tail(s) : Tail(s)[i].pid = p}
           f == [i \in T |-> i + 1]
<1>1. n \in Nat /\ n > 0 /\ DOMAIN s = 1 .. n /\ DOMAIN Tail(s) = 1 .. n - 1
      /\ (\A i \in 1 .. n - 1 : Tail(s)[i] = s[i + 1]) /\ Head(s) = s[1]
  OBVIOUS
<1> HIDE DEF n
<1>2. IsFiniteSet(S) /\ Cardinality(S) \in Nat /\ IsFiniteSet(T) /\ Cardinality(T) \in Nat
  <2>1. /\ IsFiniteSet(1 .. n) /\ S \in SUBSET (1 .. n)
        /\ IsFiniteSet(1 .. n - 1) /\ T \in SUBSET (1 .. n - 1)
    BY <1>1, FS_Interval
  <2> QED BY <2>1, FS_Subset, FS_CardinalityType
<1>3. ExistsBijection(T, S \ {1})
  <2>1. f \in [T -> S \ {1}]
    BY <1>1
  <2>2. \A i, j \in T : f[i] = f[j] => i = j
    BY <1>1
  <2>3. \A j \in S \ {1} : \E i \in T : f[i] = j
    <3> TAKE j \in S \ {1}
    <3>1. j - 1 \in T
      BY <1>1
    <3> QED BY <3>1, <1>1
  <2> HIDE DEF f, S, T
  <2>4. f \in Bijection(T, S \ {1})
    BY <2>1, <2>2, <2>3 DEF Bijection, Injection, Surjection, IsInjective
  <2> QED BY <2>4 DEF ExistsBijection
<1>4. Cardinality(S \ {1}) = Cardinality(T)
  BY <1>2, <1>3, FS_Bijection
<1>5. 1 \in S <=> Head(s).pid = p
  BY <1>1
<1>0. CountIn(s, p) = Cardinality(S) /\ CountIn(Tail(s), p) = Cardinality(T)
  BY DEF CountIn
<1> HIDE DEF S, T
<1>6. Cardinality(S \ {1}) = IF 1 \in S THEN Cardinality(S) - 1 ELSE Cardinality(S)
  BY <1>2, FS_RemoveElement
<1> QED BY <1>0, <1>2, <1>4, <1>5, <1>6 DEF One

LEMMA CountEmpty == \A p : CountIn(<<>>, p) = 0
<1> TAKE p
<1>1. {i \in DOMAIN <<>> : <<>>[i].pid = p} = {}
  OBVIOUS
<1> QED BY <1>1, FS_EmptySet DEF CountIn

-----------------------------------------------------------------------------
(* Types, and the order of the exit.                                       *)

LEMMA TrackedCount ==
    ASSUME NEW S \in SUBSET Pid, NEW p \in Pid
    PROVE  /\ Cardinality(S) \in Nat
           /\ Cardinality(S \cup {p}) <= Cardinality(S) + 1
           /\ Cardinality(S \ {p}) \in Nat /\ Cardinality(S \ {p}) <= Cardinality(S)
<1>1. IsFiniteSet(S)
  BY OrchBounds, FS_Subset
<1>2. Cardinality(S) \in Nat
  BY <1>1, FS_CardinalityType
<1>3. Cardinality(S \cup {p}) = IF p \in S THEN Cardinality(S) ELSE Cardinality(S) + 1
  BY <1>1, FS_AddElement
<1>4. IsFiniteSet(S \ {p})
      /\ Cardinality(S \ {p}) = IF p \in S THEN Cardinality(S) - 1 ELSE Cardinality(S)
  BY <1>1, FS_RemoveElement
<1>5. Cardinality(S \ {p}) \in Nat
  BY <1>4, FS_CardinalityType
<1> QED BY <1>2, <1>3, <1>4, <1>5

\* A step that leaves the ring alone leaves what is waiting as it is.
LEMMA WaitingKept ==
    ASSUME UNCHANGED <<ev, head, tail>>
    PROVE  Waiting' = Waiting
BY DEF Waiting

\* What each step that touches the ring does to what is waiting.
LEMMA QueuePush ==
    ASSUME OrchInv, NEW p \in Pid, QueueEvent(p)
    PROVE  \/ /\ (head + 1) % RingSize = tail /\ Waiting' = Waiting
              /\ dropped' = dropped + 1
           \/ /\ (head + 1) % RingSize # tail /\ dropped' = dropped
              /\ \E e \in Event : e.pid = p /\ Waiting' = Append(Waiting, e)
<1>1. CASE (head + 1) % RingSize = tail
  BY <1>1, WaitingKept DEF QueueEvent
<1>2. CASE (head + 1) % RingSize # tail
  <2> DEFINE e == [pid |-> p, appid |-> uid[p] % PerUserRange]
  <2>1. e \in Event /\ e.pid = p
    BY DEF OrchInv, TypeOK, RingOK, QueueEvent, Event
  <2>2. ev' = [ev EXCEPT ![head] = e] /\ head' = Wrap(head + 1) /\ tail' = tail
        /\ dropped' = dropped
    BY <1>2 DEF QueueEvent, Wrap
  <2>3. /\ ev \in [Index -> Event \cup {<<>>}] /\ head \in Index /\ tail \in Index
        /\ Wrap(head + 1) # tail
    BY <1>2 DEF OrchInv, TypeOK, RingOK, Index, Wrap
  <2> HIDE DEF e
  <2>4. Waiting' = Append(Waiting, e)
    BY <2>1, <2>2, <2>3, RingPush, WaitingIsRing
  <2> QED BY <1>2, <2>1, <2>2, <2>4
<1> QED BY <1>1, <1>2

LEMMA QueuePop ==
    ASSUME OrchInv, WorkPop
    PROVE  /\ Waiting # <<>> /\ Waiting' = Tail(Waiting)
           /\ Head(Waiting) = ev[tail] /\ sent' = Append(sent, Head(Waiting))
<1>1. /\ head \in Index /\ tail \in Index /\ tail # head /\ tail' = Wrap(tail + 1)
      /\ ev' = ev /\ head' = head /\ sent' = Append(sent, ev[tail])
  BY DEF OrchInv, TypeOK, Index, Wrap, WorkPop
<1> QED BY <1>1, RingPop, WaitingIsRing

LEMMA WaitingSeq ==
    ASSUME OrchInv
    PROVE  /\ Waiting \in Seq(Event)
           /\ Len(Waiting) = IF tail <= head THEN head - tail ELSE head + RingSize - tail
           /\ tail = head => Waiting = <<>>
<1>1. head \in Index /\ tail \in Index
  BY DEF OrchInv, TypeOK, Index
<1>2. /\ Waiting = [i \in 1 .. Wrap(head + RingSize - tail) |-> ev[Wrap(tail + i - 1)]]
      /\ Wrap(head + RingSize - tail) \in Nat
      /\ Wrap(head + RingSize - tail) = IF tail <= head THEN head - tail
                                        ELSE head + RingSize - tail
  BY <1>1, RingLen DEF Waiting, Wrap, Index
<1>3. \A i \in DOMAIN Waiting : Waiting[i] \in Event
  BY DEF OrchInv, TypeOK
<1>4. tail = head => Waiting = <<>>
  BY <1>1, RingEmpty, WaitingIsRing
<1> QED BY <1>2, <1>3, <1>4

\* What TypeOK says of what is waiting.
LEMMA WaitingTyped ==
    ASSUME OrchInv,
           \/ Waiting' = Waiting
           \/ \E e \in Event : Waiting' = Append(Waiting, e)
           \/ Waiting # <<>> /\ Waiting' = Tail(Waiting)
           \/ Waiting' = <<>>
    PROVE  \A i \in DOMAIN Waiting' : Waiting'[i] \in Event
<1>1. Waiting' \in Seq(Event)
  <2>1. Waiting \in Seq(Event)
    BY WaitingSeq
  <2>2. \A w \in Seq(Event), e \in Event : Append(w, e) \in Seq(Event)
    OBVIOUS
  <2>3. \A w \in Seq(Event) : w # <<>> => Tail(w) \in Seq(Event)
    OBVIOUS
  <2>4. <<>> \in Seq(Event)
    OBVIOUS
  <2> QED BY <2>1, <2>2, <2>3, <2>4
<1> QED BY <1>1

LEMMA InitOrch == Init => OrchInv
<1> SUFFICES ASSUME Init PROVE OrchInv
  OBVIOUS
<1>1. Tracked = {} /\ Cardinality({}) = 0
  BY FS_EmptySet DEF Init, Tracked
<1>2. 0 \in Index
  BY OrchBounds DEF Index
<1>3. Waiting = <<>>
  BY <1>2, RingEmpty, WaitingIsRing DEF Init
<1>4. TypeOK
  BY <1>1, <1>2, <1>3, OrchBounds DEF Init, TypeOK, Index
<1>5. RingOK
  BY DEF Init, RingOK
<1>6. ExitOrder
  BY DEF Init, ExitOrder
<1> QED BY <1>4, <1>5, <1>6 DEF OrchInv

\* The processes: fork, exit and free.
LEMMA ProcessOrch ==
    ASSUME OrchInv, NEW p \in Pid, Fork(p) \/ Exit(p) \/ Free(p)
    PROVE  OrchInv'
<1>1. Waiting' = Waiting
  BY WaitingKept DEF Fork, Exit, Free, ringVars
<1>2. \A i \in DOMAIN Waiting' : Waiting'[i] \in Event
  BY <1>1, WaitingTyped
<1>3. /\ Tracked \in SUBSET Pid
      /\ Cardinality(Tracked) <= MaxChildren /\ MaxChildren \in Nat
  BY OrchBounds DEF Tracked, OrchInv, TypeOK
<1>4. Cardinality(Tracked)' <= MaxChildren
  <2>1. CASE Fork(p)
    <3>1. \/ Tracked' = Tracked
          \/ Tracked' = Tracked \cup {p} /\ Cardinality(Tracked) < MaxChildren
      BY <2>1 DEF Fork, Tracked, OrchInv, TypeOK
    <3> QED BY <1>3, <3>1, TrackedCount
  <2>2. CASE Exit(p)
    BY <2>2 DEF Exit, Tracked, OrchInv, TypeOK
  <2>3. CASE Free(p)
    <3>1. Tracked' = Tracked \/ Tracked' = Tracked \ {p}
      BY <2>3 DEF Free, Tracked, OrchInv, TypeOK
    <3> QED BY <1>3, <3>1, TrackedCount
  <2> QED BY <2>1, <2>2, <2>3
<1>5. TypeOK'
  <2>1. CASE Fork(p)
    BY <1>2, <1>4, <2>1 DEF OrchInv, TypeOK, Fork, ringVars, workVars, exitVars
  <2>2. CASE Exit(p)
    BY <1>2, <1>4, <2>2 DEF OrchInv, TypeOK, Exit, ringVars, workVars, exitVars
  <2>3. CASE Free(p)
    BY <1>2, <1>4, <2>3 DEF OrchInv, TypeOK, Free, ringVars, workVars, exitVars
  <2> QED BY <2>1, <2>2, <2>3
<1>6. RingOK' /\ ExitOrder'
  BY DEF OrchInv, RingOK, ExitOrder, Fork, Exit, Free, ringVars, workVars, exitVars
<1> QED BY <1>5, <1>6 DEF OrchInv

\* The setresuid handler.
LEMMA HandlerOrch ==
    ASSUME OrchInv, NEW p \in Pid,
           QueueEvent(p) \/ ScheduleWork(p) \/ \E u \in Uid : SetResUid(p, u)
    PROVE  OrchInv'
<1>1. CASE QueueEvent(p)
  <2>1. \A i \in DOMAIN Waiting' : Waiting'[i] \in Event
    BY <1>1, QueuePush, WaitingTyped
  <2>2. head' \in Index
    BY <1>1, OrchBounds DEF QueueEvent, OrchInv, TypeOK, Index
  <2>3. Cardinality(Tracked)' <= MaxChildren
    BY <1>1 DEF QueueEvent, Tracked, OrchInv, TypeOK
  <2>4. TypeOK'
    BY <1>1, <2>1, <2>2, <2>3 DEF QueueEvent, OrchInv, TypeOK, Index, workVars, exitVars
  <2>5. uid[p] \in Uid
    BY <1>1 DEF QueueEvent, OrchInv, RingOK
  <2>6. [pid |-> p, appid |-> uid[p] % PerUserRange] \in Event
    BY <2>5 DEF Event
  <2>7. RingOK'
    BY <1>1, <2>6 DEF QueueEvent, OrchInv, RingOK, TypeOK, workVars
  <2>8. ExitOrder'
    BY <1>1 DEF QueueEvent, OrchInv, ExitOrder, TypeOK, workVars, exitVars
  <2> QED BY <2>4, <2>7, <2>8 DEF OrchInv
<1>2. CASE ScheduleWork(p)
  <2>1. Waiting' = Waiting
    BY <1>2, WaitingKept DEF ScheduleWork, ringVars
  <2>2. \A i \in DOMAIN Waiting' : Waiting'[i] \in Event
    BY <2>1, WaitingTyped
  <2>3. Cardinality(Tracked)' <= MaxChildren
    BY <1>2 DEF ScheduleWork, Tracked, OrchInv, TypeOK
  <2>4. TypeOK'
    BY <1>2, <2>2, <2>3 DEF ScheduleWork, OrchInv, TypeOK, ringVars, exitVars
  <2>5. RingOK' /\ ExitOrder'
    BY <1>2 DEF ScheduleWork, OrchInv, RingOK, ExitOrder, TypeOK, ringVars, exitVars
  <2> QED BY <2>4, <2>5 DEF OrchInv
<1>3. ASSUME NEW u \in Uid, SetResUid(p, u)
      PROVE  OrchInv'
  <2>1. Waiting' = Waiting
    BY <1>3, WaitingKept DEF SetResUid, ringVars
  <2>2. \A i \in DOMAIN Waiting' : Waiting'[i] \in Event
    BY <2>1, WaitingTyped
  <2>3. Tracked' = Tracked
    BY <1>3 DEF SetResUid, Tracked, OrchInv, TypeOK
  <2>4. TypeOK'
    BY <1>3, <2>2, <2>3 DEF SetResUid, OrchInv, TypeOK, ringVars, workVars, exitVars
  <2>5. RingOK' /\ ExitOrder'
    BY <1>3 DEF SetResUid, OrchInv, RingOK, ExitOrder, TypeOK, ringVars, workVars, exitVars
  <2> QED BY <2>4, <2>5 DEF OrchInv
<1> QED BY <1>1, <1>2, <1>3

\* The worker.
LEMMA WorkOrch ==
    ASSUME OrchInv, WorkSteps
    PROVE  OrchInv'
<1>1. Cardinality(Tracked)' <= MaxChildren
  BY DEF OrchInv, TypeOK, Tracked, WorkSteps, WorkStart, WorkPop, WorkReport, WorkDone, procVars
<1>2. CASE WorkPop
  <2>1. \A i \in DOMAIN Waiting' : Waiting'[i] \in Event
    BY <1>2, QueuePop, WaitingTyped
  <2>2. tail' \in Index
    BY <1>2, OrchBounds DEF WorkPop, OrchInv, TypeOK, Index
  <2>3. TypeOK'
    BY <1>1, <1>2, <2>1, <2>2 DEF WorkPop, OrchInv, TypeOK, Index, procVars, exitVars
  <2>4. Head(Waiting) \in Event
    BY <1>2, QueuePop, WaitingSeq
  <2>5. RingOK'
    BY <1>2, <2>4, QueuePop DEF WorkPop, OrchInv, RingOK, procVars
  <2>6. ExitOrder'
    BY <1>2 DEF WorkPop, OrchInv, ExitOrder, procVars, exitVars
  <2> QED BY <2>3, <2>5, <2>6 DEF OrchInv
<1>3. CASE WorkStart \/ WorkReport \/ WorkDone
  <2>1. Waiting' = Waiting
    BY <1>3, WaitingKept DEF WorkStart, WorkReport, WorkDone, ringVars
  <2>2. \A i \in DOMAIN Waiting' : Waiting'[i] \in Event
    BY <2>1, WaitingTyped
  <2>3. TypeOK'
    <3>1. CASE WorkStart
      BY <1>1, <3>1, <2>2 DEF WorkStart, OrchInv, TypeOK, ringVars, procVars, exitVars
    <3>2. CASE WorkReport
      BY <1>1, <3>2, <2>2 DEF WorkReport, OrchInv, TypeOK, procVars, workVars, exitVars
    <3>3. CASE WorkDone
      BY <1>1, <3>3, <2>2 DEF WorkDone, OrchInv, TypeOK, procVars, exitVars
    <3> QED BY <1>3, <3>1, <3>2, <3>3
  <2>4. RingOK' /\ ExitOrder'
    BY <1>3 DEF WorkStart, WorkReport, WorkDone, OrchInv, RingOK, ExitOrder,
       ringVars, procVars, workVars, exitVars
  <2> QED BY <2>3, <2>4 DEF OrchInv
<1> QED BY <1>2, <1>3 DEF WorkSteps

\* The exit.
LEMMA ExitOrch ==
    ASSUME OrchInv, ExitSteps
    PROVE  OrchInv'
<1>1. Cardinality(Tracked)' <= MaxChildren
  BY DEF OrchInv, TypeOK, Tracked, ExitSteps, ExitMonitor, ExitSync, ExitCancel, ExitReset,
     ExitProbes, procVars
<1>2. CASE ExitReset
  <2>1. 0 \in Index
    BY OrchBounds DEF Index
  <2>2. Waiting' = <<>>
    BY <1>2, <2>1, RingEmpty, WaitingIsRing DEF ExitReset
  <2>3. \A i \in DOMAIN Waiting' : Waiting'[i] \in Event
    BY <2>2, WaitingTyped
  <2>4. TypeOK'
    BY <1>1, <1>2, <2>1, <2>3 DEF ExitReset, OrchInv, TypeOK, Index, procVars, workVars
  <2>5. RingOK' /\ ExitOrder'
    BY <1>2 DEF ExitReset, OrchInv, RingOK, ExitOrder, procVars, workVars
  <2> QED BY <2>4, <2>5 DEF OrchInv
<1>3. CASE ExitMonitor \/ ExitSync \/ ExitCancel \/ ExitProbes
  <2>1. Waiting' = Waiting
    BY <1>3, WaitingKept DEF ExitMonitor, ExitSync, ExitCancel, ExitProbes, ringVars
  <2>2. \A i \in DOMAIN Waiting' : Waiting'[i] \in Event
    BY <2>1, WaitingTyped
  <2>3. TypeOK'
    BY <1>1, <1>3, <2>2 DEF ExitMonitor, ExitSync, ExitCancel, ExitProbes, OrchInv, TypeOK,
       ringVars, procVars, workVars
  <2>4. RingOK' /\ ExitOrder'
    BY <1>3 DEF ExitMonitor, ExitSync, ExitCancel, ExitProbes, OrchInv, TypeOK, RingOK,
       ExitOrder, ringVars, procVars, workVars
  <2> QED BY <2>3, <2>4 DEF OrchInv
<1> QED BY <1>2, <1>3 DEF ExitSteps

LEMMA StutterOrch ==
    ASSUME OrchInv, UNCHANGED vars
    PROVE  OrchInv'
<1>1. Tracked' = Tracked /\ Waiting' = Waiting
  BY WaitingKept DEF vars, procVars, ringVars, Tracked
<1>2. TypeOK'
  BY <1>1 DEF OrchInv, TypeOK, vars, procVars, ringVars, workVars, exitVars
<1>3. RingOK' /\ ExitOrder'
  BY DEF OrchInv, RingOK, ExitOrder, vars, procVars, ringVars, workVars, exitVars
<1> QED BY <1>2, <1>3 DEF OrchInv

LEMMA StepOrch == OrchInv /\ [Next]_vars => OrchInv'
BY ProcessOrch, HandlerOrch, WorkOrch, ExitOrch, StutterOrch DEF Next, HandlerSteps

\* After the last step of yz_zygote_orch_exit no handler is on its way, no work
\* item queued or running and no tracepoint registered, however its steps
\* interleave with forks, setresuid handlers and the worker.
THEOREM NothingRunsAfterExit == Spec => []ExitQuiet
<1>1. OrchInv => ExitQuiet
  BY DEF OrchInv, ExitOrder, ExitQuiet
<1> QED BY <1>1, InitOrch, StepOrch, PTL DEF Spec

-----------------------------------------------------------------------------
(* No lost wake-up.                                                        *)

LEMMA InitAwake == Init => AwakeInv
BY InitOrch DEF Init, AwakeInv, QueuedIfWork, WorkerAwake

LEMMA StepAwake == AwakeInv /\ [Next]_vars => AwakeInv'
<1> SUFFICES ASSUME AwakeInv, [Next]_vars PROVE QueuedIfWork' /\ WorkerAwake'
  BY StepOrch DEF AwakeInv
<1> USE DEF AwakeInv, QueuedIfWork, WorkerAwake
<1>1. ASSUME NEW p \in Pid, Fork(p) \/ Exit(p) \/ Free(p)
      PROVE  QueuedIfWork' /\ WorkerAwake'
  BY <1>1 DEF Fork, Exit, Free, ringVars, workVars, exitVars
<1>2. ASSUME NEW p \in Pid, NEW u \in Uid, SetResUid(p, u)
      PROVE  QueuedIfWork' /\ WorkerAwake'
  BY <1>2 DEF SetResUid, OrchInv, TypeOK, ringVars, workVars, exitVars
<1>3. ASSUME NEW p \in Pid, QueueEvent(p)
      PROVE  QueuedIfWork' /\ WorkerAwake'
  BY <1>3 DEF QueueEvent, OrchInv, TypeOK, workVars, exitVars
<1>4. ASSUME NEW p \in Pid, ScheduleWork(p)
      PROVE  QueuedIfWork' /\ WorkerAwake'
  BY <1>4 DEF ScheduleWork, OrchInv, TypeOK, ringVars, exitVars
<1>5. CASE WorkSteps
  BY <1>5 DEF WorkSteps, WorkStart, WorkPop, WorkReport, WorkDone, OrchInv, TypeOK,
     procVars, ringVars, workVars, exitVars
<1>6. CASE ExitSteps
  BY <1>6 DEF ExitSteps, ExitMonitor, ExitSync, ExitCancel, ExitReset, ExitProbes,
     OrchInv, TypeOK, ExitOrder, procVars, ringVars, workVars
<1>7. CASE UNCHANGED vars
  BY <1>7 DEF vars, procVars, ringVars, workVars, exitVars
<1> QED BY <1>1, <1>2, <1>3, <1>4, <1>5, <1>6, <1>7 DEF Next, HandlerSteps

\* No wake-up is lost between zo_queue_specialize_event, which schedules the
\* work only when it sets the queued flag, and zo_specialize_work_fn, which
\* clears it: work in the ring always has somebody who will look at it.
THEOREM NoLostWakeup == Spec => []WorkerAwake
<1>1. AwakeInv => WorkerAwake
  BY DEF AwakeInv
<1> QED BY <1>1, InitAwake, StepAwake, PTL DEF Spec

-----------------------------------------------------------------------------
(* The child table: slots are given back, and no life is announced twice.  *)

TableInv == OrchInv /\ AnnouncedOnce /\ SlotsReclaimed

\* Events of a pid on their way or sent, the handler about to queue one and the
\* child that may still specialize.
Owed(p) == Announced(p) + One(step[p] = "queue") + One(state[p] = "FORKED")

LEMMA AnnouncedIsOwed == AnnouncedOnce <=> \A p \in Pid : Owed(p) <= born[p]
BY DEF AnnouncedOnce, Owed, One

LEMMA AnnouncedCounts ==
    /\ \A p : Announced(p) = CountIn(sent, p) + CountIn(Waiting, p)
    /\ \A p : Announced(p)' = CountIn(sent', p) + CountIn(Waiting', p)
BY DEF Announced, CountIn

LEMMA AnnouncedNat ==
    ASSUME OrchInv, NEW p
    PROVE  Announced(p) \in Nat /\ CountIn(sent, p) \in Nat /\ CountIn(Waiting, p) \in Nat
<1>1. sent \in Seq(Event) /\ Waiting \in Seq(Event)
  BY WaitingSeq DEF OrchInv, RingOK
<1>2. \A s \in Seq(Event) : CountIn(s, p) \in Nat
  <2> TAKE s \in Seq(Event)
  <2>1. CASE s = <<>>
    BY <2>1, CountEmpty
  <2>2. CASE s # <<>>
    BY <2>2, CountTail
  <2> QED BY <2>1, <2>2
<1> QED BY <1>1, <1>2, AnnouncedCounts

\* What each step does to the count of a pid.
LEMMA AnnouncedStep ==
    ASSUME OrchInv, NEW p \in Pid
    PROVE  /\ UNCHANGED <<sent, ev, head, tail>> => Announced(p)' = Announced(p)
           /\ \A q \in Pid : QueueEvent(q) =>
                 Announced(p)' <= Announced(p) + One(q = p) /\ Announced(p)' \in Nat
           /\ WorkPop => Announced(p)' = Announced(p)
           /\ ExitReset => Announced(p)' <= Announced(p) /\ Announced(p)' \in Nat
<1>1. /\ sent \in Seq(Event) /\ Waiting \in Seq(Event)
      /\ CountIn(sent, p) \in Nat /\ CountIn(Waiting, p) \in Nat
  BY WaitingSeq, AnnouncedNat DEF OrchInv, RingOK
<1>2. UNCHANGED <<sent, ev, head, tail>> => Announced(p)' = Announced(p)
  BY WaitingKept DEF Announced
<1>3. ASSUME NEW q \in Pid, QueueEvent(q)
      PROVE  Announced(p)' <= Announced(p) + One(q = p) /\ Announced(p)' \in Nat
  <2>1. sent' = sent
    BY <1>3 DEF QueueEvent, workVars
  <2>2. CASE Waiting' = Waiting
    BY <1>1, <2>1, <2>2, AnnouncedCounts DEF One
  <2>3. ASSUME NEW e \in Event, e.pid = q, Waiting' = Append(Waiting, e)
        PROVE  Announced(p)' <= Announced(p) + One(q = p) /\ Announced(p)' \in Nat
    <3>1. CountIn(Waiting', p) = CountIn(Waiting, p) + One(q = p)
      BY <1>1, <2>3, CountAppend
    <3> QED BY <1>1, <2>1, <3>1, AnnouncedCounts DEF One
  <2> QED BY <1>3, <2>2, <2>3, QueuePush
<1>4. WorkPop => Announced(p)' = Announced(p)
  <2> SUFFICES ASSUME WorkPop PROVE Announced(p)' = Announced(p)
    OBVIOUS
  <2>1. /\ Waiting # <<>> /\ Waiting' = Tail(Waiting) /\ sent' = Append(sent, Head(Waiting))
        /\ Head(Waiting) \in Event
    BY <1>1, QueuePop
  <2>2. CountIn(Waiting, p) = CountIn(Waiting', p) + One(Head(Waiting).pid = p)
        /\ CountIn(Waiting', p) \in Nat
    BY <1>1, <2>1, CountTail
  <2>3. CountIn(sent', p) = CountIn(sent, p) + One(Head(Waiting).pid = p)
    BY <1>1, <2>1, CountAppend
  <2> QED BY <1>1, <2>2, <2>3, AnnouncedCounts DEF One
<1>5. ExitReset => Announced(p)' <= Announced(p) /\ Announced(p)' \in Nat
  <2> SUFFICES ASSUME ExitReset PROVE Announced(p)' <= Announced(p) /\ Announced(p)' \in Nat
    OBVIOUS
  <2>1. 0 \in Index
    BY OrchBounds DEF Index
  <2>2. Waiting' = <<>> /\ sent' = sent
    BY <2>1, RingEmpty, WaitingIsRing DEF ExitReset, workVars
  <2> QED BY <1>1, <2>2, CountEmpty, AnnouncedCounts
<1> QED BY <1>2, <1>3, <1>4, <1>5

LEMMA InitTable == Init => TableInv
<1> SUFFICES ASSUME Init PROVE AnnouncedOnce /\ SlotsReclaimed
  BY InitOrch DEF TableInv
<1>1. Waiting = <<>>
  BY InitOrch, WaitingSeq DEF Init
<1>2. \A p \in Pid : Announced(p) = 0
  BY <1>1, CountEmpty, AnnouncedCounts DEF Init
<1>3. \A p \in Pid : Owed(p) = 0 /\ born[p] = 0
  BY <1>2 DEF Init, Owed, One
<1>4. SlotsReclaimed
  BY DEF Init, SlotsReclaimed, Tracked
<1> QED BY <1>3, <1>4, AnnouncedIsOwed

LEMMA StepReclaimed == OrchInv /\ SlotsReclaimed /\ [Next]_vars => SlotsReclaimed'
<1> SUFFICES ASSUME OrchInv, SlotsReclaimed, [Next]_vars PROVE SlotsReclaimed'
  OBVIOUS
<1> USE DEF SlotsReclaimed, Tracked
<1>1. ASSUME NEW p \in Pid, Fork(p) \/ Exit(p) \/ Free(p)
      PROVE  SlotsReclaimed'
  BY <1>1 DEF OrchInv, TypeOK, Fork, Exit, Free, exitVars
<1>2. ASSUME NEW p \in Pid, NEW u \in Uid, SetResUid(p, u)
      PROVE  SlotsReclaimed'
  BY <1>2 DEF OrchInv, TypeOK, SetResUid, exitVars
<1>3. ASSUME UNCHANGED <<alive, dead, state>>, probes' \subseteq probes
      PROVE  SlotsReclaimed'
  BY <1>3
<1>4. ASSUME NEW p \in Pid, HandlerSteps(p)
      PROVE  SlotsReclaimed'
  BY <1>3, <1>4 DEF HandlerSteps, QueueEvent, ScheduleWork, exitVars
<1>5. CASE WorkSteps \/ ExitSteps \/ UNCHANGED vars
  BY <1>3, <1>5 DEF WorkSteps, WorkStart, WorkPop, WorkReport, WorkDone, ExitSteps,
     ExitMonitor, ExitSync, ExitCancel, ExitReset, ExitProbes, vars, procVars, exitVars
<1> QED BY <1>1, <1>2, <1>4, <1>5 DEF Next

LEMMA StepAnnounced == OrchInv /\ AnnouncedOnce /\ [Next]_vars => AnnouncedOnce'
<1> SUFFICES ASSUME OrchInv, AnnouncedOnce, [Next]_vars, NEW p \in Pid
             PROVE  Owed(p)' <= born'[p]
  <2>1. (\A p \in Pid : Owed(p)' <= born'[p]) => AnnouncedOnce'
    BY DEF AnnouncedOnce, Owed, One
  <2> QED BY <2>1
<1>1. /\ Owed(p) <= born[p] /\ Announced(p) \in Nat /\ born[p] \in Nat
      /\ OrchInv'
  BY AnnouncedIsOwed, AnnouncedNat, StepOrch DEF OrchInv, TypeOK
<1> USE DEF Owed, One
<1>2. ASSUME NEW q \in Pid, Fork(q) \/ Exit(q) \/ Free(q)
      PROVE  Owed(p)' <= born'[p]
  <2>1. Announced(p)' = Announced(p)
    BY <1>2, AnnouncedStep DEF Fork, Exit, Free, ringVars, workVars
  <2> QED BY <1>1, <1>2, <2>1 DEF OrchInv, TypeOK, Fork, Exit, Free
<1>3. ASSUME NEW q \in Pid, NEW u \in Uid, SetResUid(q, u)
      PROVE  Owed(p)' <= born'[p]
  <2>1. Announced(p)' = Announced(p)
    BY <1>3, AnnouncedStep DEF SetResUid, ringVars, workVars
  <2> QED BY <1>1, <1>3, <2>1 DEF OrchInv, TypeOK, SetResUid
<1>4. ASSUME NEW q \in Pid, QueueEvent(q)
      PROVE  Owed(p)' <= born'[p]
  <2>1. Announced(p)' <= Announced(p) + One(q = p) /\ Announced(p)' \in Nat
    BY <1>4, AnnouncedStep
  <2> QED BY <1>1, <1>4, <2>1 DEF OrchInv, TypeOK, QueueEvent
<1>5. ASSUME NEW q \in Pid, ScheduleWork(q)
      PROVE  Owed(p)' <= born'[p]
  <2>1. Announced(p)' = Announced(p)
    BY <1>5, AnnouncedStep DEF ScheduleWork, ringVars
  <2> QED BY <1>1, <1>5, <2>1 DEF OrchInv, TypeOK, ScheduleWork
<1>6. CASE WorkSteps \/ ExitSteps \/ UNCHANGED vars
  <2>1. UNCHANGED <<step, state, born>>
    BY <1>6 DEF WorkSteps, WorkStart, WorkPop, WorkReport, WorkDone, ExitSteps,
       ExitMonitor, ExitSync, ExitCancel, ExitReset, ExitProbes, vars, procVars
  <2>2. \/ UNCHANGED <<sent, ev, head, tail>> \/ WorkPop \/ ExitReset
    BY <1>6 DEF WorkSteps, WorkStart, WorkReport, WorkDone, ExitSteps,
       ExitMonitor, ExitSync, ExitCancel, ExitProbes, vars, ringVars, workVars
  <2>3. Announced(p)' <= Announced(p) /\ Announced(p)' \in Nat
    BY <1>1, <2>2, AnnouncedStep
  <2> QED BY <1>1, <2>1, <2>3
<1> QED BY <1>2, <1>3, <1>4, <1>5, <1>6 DEF Next, HandlerSteps

\* The table of children never holds more than ZO_MAX_CHILDREN, keeps no slot
\* of a process that was freed, and each life of a pid is announced at most
\* once, whatever the order of forks, handlers, frees, pops and the teardown.
THEOREM ChildTableAlwaysSound == Spec => []ChildTableSound
<1>1. TableInv /\ [Next]_vars => TableInv'
  BY StepOrch, StepReclaimed, StepAnnounced DEF TableInv
<1>2. TableInv => ChildTableSound
  BY DEF TableInv, OrchInv, ChildTableSound
<1> QED BY <1>1, <1>2, InitTable, PTL DEF Spec

-----------------------------------------------------------------------------
(* The ring implements the queue.                                          *)

LEMMA InitQueue == Init => Queue!QInit
<1> SUFFICES ASSUME Init PROVE Queue!QInit
  OBVIOUS
<1>1. Waiting = <<>>
  BY InitOrch, WaitingSeq DEF Init
<1> QED BY <1>1 DEF Init, Queue!QInit

LEMMA StepQueue == OrchInv /\ [Next]_vars => [Queue!QNext]_(Queue!qvars)
<1> SUFFICES ASSUME OrchInv, [Next]_vars PROVE [Queue!QNext]_(Queue!qvars)
  OBVIOUS
<1>1. ASSUME UNCHANGED <<ev, head, tail, sent, dropped, down>>
      PROVE  UNCHANGED Queue!qvars
  BY <1>1, WaitingKept DEF Queue!qvars
<1>2. ASSUME NEW p \in Pid, Fork(p) \/ Exit(p) \/ Free(p) \/ ScheduleWork(p)
      PROVE  UNCHANGED Queue!qvars
  BY <1>1, <1>2 DEF Fork, Exit, Free, ScheduleWork, ringVars, workVars, exitVars
<1>3. ASSUME NEW p \in Pid, NEW u \in Uid, SetResUid(p, u)
      PROVE  UNCHANGED Queue!qvars
  BY <1>1, <1>3 DEF SetResUid, ringVars, workVars, exitVars
<1>4. ASSUME NEW p \in Pid, QueueEvent(p)
      PROVE  Queue!QNext
  <2>1. down \notin {"untrack", "down"} /\ down' = down /\ sent' = sent
    BY <1>4 DEF QueueEvent, OrchInv, ExitOrder, exitVars, workVars
  <2>2. CASE (head + 1) % RingSize = tail
    <3>1. Len(Waiting) = RingSize - 1
      <4>1. head \in Index /\ tail \in Index /\ tail = Wrap(head + 1)
        BY <2>2 DEF OrchInv, TypeOK, Index, Wrap
      <4>2. tail = IF head + 1 < RingSize THEN head + 1 ELSE head + 1 - RingSize
        BY <4>1, ModRing, OrchBounds DEF Index
      <4>3. Len(Waiting) = IF tail <= head THEN head - tail ELSE head + RingSize - tail
        BY WaitingSeq
      <4> QED BY <4>1, <4>2, <4>3, OrchBounds DEF Index
    <3>2. Waiting' = Waiting /\ dropped' = dropped + 1
      BY <1>4, <2>2, QueuePush
    <3> QED BY <2>1, <3>1, <3>2 DEF Queue!QNext, Queue!Drop
  <2>3. CASE (head + 1) % RingSize # tail
    <3>1. Len(Waiting) < RingSize - 1
      <4>1. head \in Index /\ tail \in Index /\ tail # Wrap(head + 1)
        BY <2>3 DEF OrchInv, TypeOK, Index, Wrap
      <4>2. tail # IF head + 1 < RingSize THEN head + 1 ELSE head + 1 - RingSize
        BY <4>1, ModRing, OrchBounds DEF Index
      <4>3. Len(Waiting) = IF tail <= head THEN head - tail ELSE head + RingSize - tail
        BY WaitingSeq
      <4> QED BY <4>1, <4>2, <4>3, OrchBounds DEF Index
    <3>2. PICK e \in Event : Waiting' = Append(Waiting, e) /\ dropped' = dropped
      BY <1>4, <2>3, QueuePush
    <3> QED BY <2>1, <3>1, <3>2 DEF Queue!QNext, Queue!Accept
  <2> QED BY <2>2, <2>3
<1>5. CASE WorkPop
  <2>1. dropped' = dropped /\ down' = down
    BY <1>5 DEF WorkPop, exitVars
  <2> QED BY <1>5, <2>1, QueuePop DEF Queue!QNext, Queue!Send
<1>6. CASE WorkReport
  <2>1. Waiting = <<>> /\ Waiting' = Waiting
    BY <1>6, WaitingSeq, WaitingKept DEF WorkReport
  <2> QED BY <1>6, <2>1 DEF WorkReport, Queue!QNext, Queue!Report, workVars, exitVars
<1>7. CASE WorkStart \/ WorkDone
  BY <1>1, <1>7 DEF WorkStart, WorkDone, ringVars, exitVars
<1>8. CASE ExitReset
  <2>1. 0 \in Index
    BY OrchBounds DEF Index
  <2>2. Waiting' = <<>> /\ sent' = sent
    BY <1>8, <2>1, RingEmpty, WaitingIsRing DEF ExitReset, workVars
  <2> QED BY <1>8, <2>2 DEF ExitReset, Queue!QNext, Queue!Clear
<1>9. CASE ExitMonitor \/ ExitSync \/ ExitCancel \/ ExitProbes
  <2>1. UNCHANGED <<ev, head, tail, sent, dropped>>
        /\ (down' \in {"untrack", "down"} <=> down \in {"untrack", "down"})
    BY <1>9 DEF ExitMonitor, ExitSync, ExitCancel, ExitProbes, ringVars, workVars
  <2> QED BY <2>1, WaitingKept DEF Queue!qvars
<1>10. CASE UNCHANGED vars
  BY <1>1, <1>10 DEF vars, ringVars, workVars, exitVars
<1> QED BY <1>2, <1>3, <1>4, <1>5, <1>6, <1>7, <1>8, <1>9, <1>10
        DEF Next, HandlerSteps, WorkSteps, ExitSteps

\* zo_specialize_events with its indices, drop count and worker is a bounded
\* first-in first-out queue: no event is overwritten, reordered or sent twice,
\* and the teardown empties it once.
THEOREM RingIsQueue == Spec => RingImplementsQueue
<1>1. Init /\ [][Next]_vars => []OrchInv
  BY InitOrch, StepOrch, PTL
<1> QED BY <1>1, InitQueue, StepQueue, PTL DEF Spec, RingImplementsQueue, Queue!QSpec
=============================================================================
