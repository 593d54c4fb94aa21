-------------------------- MODULE PolicyTempProofs --------------------------
(***************************************************************************)
(* The ledger of temporary allowances and its clients.                     *)
(*                                                                         *)
(* For any keys, permissions, holders, loaded policy and requests the      *)
(* ledger is exact as long as the rule table has a slot for every key, and *)
(* a table that is too small never harms the loaded policy.  The           *)
(* injections, ioctls, timeouts and the teardown of LoadPolicy implement   *)
(* the ledger, each struct of theirs has one owner that gives it back      *)
(* once, and so the policy is as loaded when all structs are free.         *)
(***************************************************************************)
EXTENDS LoadPolicy, FiniteSetTheorems, TLAPS

\* No struct records a permission of the loaded policy.
StateClean == \A h \in Holder, k \in Key : state[h][k] \cap Base[k] = {}

\* What a holder relies on is in the loaded policy, recorded in its struct,
\* or kept by a lost reference; once the backend is gone it is in the policy.
NeedCovered ==
    \A h \in Holder, k \in Key :
        IF ready
        THEN \A p \in need[h][k] : p \in Base[k] \/ p \in state[h][k] \/ leaked[k][p] > 0
        ELSE need[h][k] \subseteq policy[k]

\* The inductive invariant.
LedgerInv == TypeOK /\ RefsExact /\ PolicyExact /\ StateClean /\ NeedCovered

One(b) == IF b THEN 1 ELSE 0

-----------------------------------------------------------------------------
\* The shape of a plan: it asks for nothing the loaded policy grants.
LEMMA PlanType ==
    ASSUME TypeOK, NEW req \in Av
    PROVE  /\ Plan(req) \in Av
           /\ \A k \in Key : Plan(req)[k] = RequestAv(k, req[k])
BY DEF Plan, RequestAv, TypeOK, Av

\* Owners of a permission form a finite set.
LEMMA OwnersFinite ==
    ASSUME NEW k \in Key, NEW p \in Perm
    PROVE  /\ IsFiniteSet(Owners(k, p))
           /\ Cardinality(Owners(k, p)) \in Nat
BY HolderFinite, FS_Subset, FS_CardinalityType DEF Owners

\* Rewriting one struct moves the number of owners of a permission by what
\* that struct gains and loses (allow, restore, the memset of a struct).
LEMMA OwnersStep ==
    ASSUME TypeOK, NEW h \in Holder, NEW s \in Av,
           state' = [state EXCEPT ![h] = s],
           NEW k \in Key, NEW p \in Perm
    PROVE  /\ Cardinality(Owners(k, p)') \in Nat
           /\ Cardinality(Owners(k, p)') + One(p \in state[h][k])
                = Cardinality(Owners(k, p)) + One(p \in s[k])
<1>1. Owners(k, p)' = IF p \in s[k] THEN Owners(k, p) \cup {h}
                                    ELSE Owners(k, p) \ {h}
  BY DEF Owners, TypeOK, Av
<1>2. h \in Owners(k, p) <=> p \in state[h][k]
  BY DEF Owners
<1>3. /\ IsFiniteSet(Owners(k, p))
      /\ Cardinality(Owners(k, p)) \in Nat
  BY OwnersFinite
<1>4. CASE p \in s[k]
  <2>1. Cardinality(Owners(k, p) \cup {h}) =
          IF h \in Owners(k, p) THEN Cardinality(Owners(k, p))
                                ELSE Cardinality(Owners(k, p)) + 1
    BY <1>3, FS_AddElement
  <2>2. Owners(k, p)' = Owners(k, p) \cup {h}
    BY <1>1, <1>4
  <2> QED
    BY <1>2, <1>3, <1>4, <2>1, <2>2 DEF One
<1>5. CASE p \notin s[k]
  <2>1. /\ IsFiniteSet(Owners(k, p) \ {h})
        /\ Cardinality(Owners(k, p) \ {h}) =
             IF h \in Owners(k, p) THEN Cardinality(Owners(k, p)) - 1
                                   ELSE Cardinality(Owners(k, p))
    BY <1>3, FS_RemoveElement
  <2>2. Cardinality(Owners(k, p) \ {h}) \in Nat
    BY <2>1, FS_CardinalityType
  <2>3. Owners(k, p)' = Owners(k, p) \ {h}
    BY <1>1, <1>5
  <2> QED
    BY <1>2, <1>3, <1>5, <2>1, <2>2, <2>3 DEF One
<1> QED BY <1>4, <1>5

\* With a slot for every key, every new key of a plan finds one.
LEMMA SlotForNewKey ==
    ASSUME RulesSuffice, NEW av \in Av, NEW k \in Key, k \notin Used
    PROVE  GetsSlot(k, av)
<1> DEFINE A == {j \in NewKeys(av) : SlotOrder[j] < SlotOrder[k]}
<1>1. /\ A \subseteq Key \ {k} /\ Used \subseteq Key \ {k}
      /\ A \cap Used = {}
  BY SlotOrderType DEF NewKeys, Used
<1>2. /\ IsFiniteSet(Key \ {k})
      /\ Cardinality(Key \ {k}) = Cardinality(Key) - 1
      /\ Cardinality(Key) \in Nat
  BY KeyFinite, FS_RemoveElement, FS_CardinalityType
<1>3. /\ IsFiniteSet(A) /\ IsFiniteSet(Used)
      /\ Cardinality(A) \in Nat /\ Cardinality(Used) \in Nat
  BY <1>1, <1>2, FS_Subset, FS_CardinalityType
<1>4. Cardinality(A \cup Used) = Cardinality(A) + Cardinality(Used)
  <2>1. Cardinality(A \cup Used) =
          Cardinality(A) + Cardinality(Used) - Cardinality(A \cap Used)
    BY <1>3, FS_Union
  <2>2. Cardinality(A \cap Used) = 0
    BY <1>1, FS_EmptySet
  <2> HIDE DEF A
  <2> QED BY <2>1, <2>2, <1>3
<1>5. Cardinality(A \cup Used) <= Cardinality(Key) - 1
  BY <1>1, <1>2, FS_Subset
<1>6. Cardinality(A) + Cardinality(Used) < RuleMax
  <2> HIDE DEF A
  <2> QED BY <1>2, <1>3, <1>4, <1>5, BoundsType DEF RulesSuffice
<1> QED BY <1>6 DEF GetsSlot

\* yz_policy_temp_add_locked counts every permission of the plan once.
LEMMA AddExact ==
    ASSUME RulesSuffice, TypeOK, NEW av \in Av
    PROVE  /\ Add(av) \in [Key -> [Perm -> Nat]]
           /\ \A k \in Key, p \in Perm :
                 Add(av)[k][p] = refs[k][p] + One(p \in av[k])
<1>1. \A k \in Key : k \in Used \/ GetsSlot(k, av)
  BY SlotForNewKey
<1> QED BY <1>1 DEF Add, TypeOK, One

\* Wiping a struct adds its permissions to the lost references.
LEMMA LeakExact ==
    ASSUME TypeOK, NEW h \in Holder
    PROVE  /\ Leak(h) \in [Key -> [Perm -> Nat]]
           /\ \A k \in Key, p \in Perm :
                 Leak(h)[k][p] = leaked[k][p] + One(p \in state[h][k])
BY DEF Leak, TypeOK, One

\* A permission some struct records is counted.
LEMMA OwnedIsCounted ==
    ASSUME TypeOK, RefsExact, ready,
           NEW h \in Holder, NEW k \in Key, NEW p \in state[h][k]
    PROVE  refs[k][p] > 0 /\ p \in Perm
<1>1. p \in Perm
  BY DEF TypeOK, Av
<1>2. h \in Owners(k, p)
  BY DEF Owners
<1>3. Cardinality(Owners(k, p)) # 0
  BY <1>1, <1>2, OwnersFinite, FS_EmptySet
<1>4. refs[k][p] = Cardinality(Owners(k, p)) + leaked[k][p]
  BY <1>1 DEF RefsExact
<1>5. leaked[k][p] \in Nat /\ Cardinality(Owners(k, p)) \in Nat
  BY <1>1, OwnersFinite DEF TypeOK
<1> QED BY <1>1, <1>3, <1>4, <1>5

\* What an allow promises is granted by the loaded policy or recorded.
LEMMA RequiredIsCovered ==
    ASSUME PolicyExact, ready, NEW k \in Key, NEW req \in Av, NEW p \in req[k]
    PROVE  p \in Base[k] \/ p \in RequestAv(k, req[k])
BY DEF PolicyExact, RequestAv, Av

\* Initially nothing is owned.
LEMMA InitLedger == Init => LedgerInv
<1> SUFFICES ASSUME Init PROVE LedgerInv
  OBVIOUS
<1>1. TypeOK /\ StateClean /\ NeedCovered
  BY BaseType DEF Init, TypeOK, Av, NoAv, StateClean, NeedCovered
<1>2. RefsExact
  <2>1. \A k \in Key, p \in Perm : Owners(k, p) = {}
    BY DEF Init, NoAv, Owners
  <2> QED BY <2>1, FS_EmptySet DEF Init, RefsExact
<1>3. PolicyExact
  BY BaseType DEF Init, PolicyExact, Mask, Av
<1> QED BY <1>1, <1>2, <1>3 DEF LedgerInv

\* Both allow operations: struct h goes to s, which differs from the old
\* struct by the plan of req on the keys of req and by a set of vectors whose
\* references become lost; the policy gains what was missing.
LEMMA AllowStep ==
    ASSUME RulesSuffice, LedgerInv, ready, ready' = ready,
           NEW h \in Holder, NEW req \in Av, NEW s \in Av,
           state' = [state EXCEPT ![h] = s],
           policy' = [k \in Key |-> policy[k] \cup CommitAv(k, req[k])],
           refs' = Add(Plan(req)),
           need' = [need EXCEPT ![h] = [k \in Key |-> @[k] \cup req[k]]],
           leaked' \in [Key -> [Perm -> Nat]],
           \A k \in Key : /\ Plan(req)[k] \subseteq s[k]
                          /\ s[k] \subseteq state[h][k] \cup Plan(req)[k],
           \A k \in Key, p \in Perm :
              leaked'[k][p] + One(p \in s[k])
                = leaked[k][p] + One(p \in state[h][k]) + One(p \in Plan(req)[k])
    PROVE  LedgerInv'
<1> USE DEF LedgerInv
<1>1. /\ Plan(req) \in Av
      /\ \A k \in Key : Plan(req)[k] = RequestAv(k, req[k])
  BY PlanType
<1>2. /\ refs' \in [Key -> [Perm -> Nat]]
      /\ \A k \in Key, p \in Perm :
            refs'[k][p] = refs[k][p] + One(p \in Plan(req)[k])
  BY <1>1, AddExact
<1>3. TypeOK'
  <2>1. policy' \in Av /\ state' \in [Holder -> Av]
    BY DEF TypeOK, Av, CommitAv, RequestAv
  <2>2. need' \in [Holder -> Av]
    BY DEF TypeOK, Av
  <2> QED BY <1>2, <2>1, <2>2 DEF TypeOK
<1>4. RefsExact'
  <2> SUFFICES ASSUME NEW k \in Key, NEW p \in Perm
               PROVE  refs'[k][p] = Cardinality(Owners(k, p)') + leaked'[k][p]
    BY DEF RefsExact
  <2>1. /\ Cardinality(Owners(k, p)') \in Nat
        /\ Cardinality(Owners(k, p)') + One(p \in state[h][k])
             = Cardinality(Owners(k, p)) + One(p \in s[k])
    BY OwnersStep
  <2>2. refs[k][p] = Cardinality(Owners(k, p)) + leaked[k][p]
    BY DEF RefsExact
  <2>3. /\ leaked[k][p] \in Nat /\ leaked'[k][p] \in Nat /\ refs[k][p] \in Nat
        /\ Cardinality(Owners(k, p)) \in Nat
    BY OwnersFinite DEF TypeOK
  <2>4. refs'[k][p] = refs[k][p] + One(p \in Plan(req)[k])
    BY <1>2
  <2>5. leaked'[k][p] + One(p \in s[k])
          = leaked[k][p] + One(p \in state[h][k]) + One(p \in Plan(req)[k])
    OBVIOUS
  <2>6. /\ One(p \in s[k]) \in Nat /\ One(p \in state[h][k]) \in Nat
        /\ One(p \in Plan(req)[k]) \in Nat
    BY DEF One
  <2> QED BY ONLY <2>1, <2>2, <2>3, <2>4, <2>5, <2>6
<1>5. PolicyExact'
  <2> SUFFICES ASSUME NEW k \in Key
               PROVE  /\ policy'[k] = Base[k] \cup Mask(k)'
                      /\ Base[k] \cap Mask(k)' = {}
    BY DEF PolicyExact
  <2>1. Mask(k)' = Mask(k) \cup RequestAv(k, req[k])
    <3>1. RequestAv(k, req[k]) \subseteq Perm
      BY DEF RequestAv, Av
    <3>2. \A p \in Perm : refs'[k][p] = refs[k][p] + One(p \in RequestAv(k, req[k]))
      BY <1>1, <1>2
    <3>3. \A p \in Perm : refs'[k][p] > 0 <=> refs[k][p] > 0 \/ p \in RequestAv(k, req[k])
      BY <3>2 DEF One, TypeOK
    <3> QED BY <3>1, <3>3 DEF Mask
  <2>2. /\ policy[k] = Base[k] \cup Mask(k)
        /\ Base[k] \cap Mask(k) = {}
    BY DEF PolicyExact
  <2>3. policy'[k] = policy[k] \cup (RequestAv(k, req[k]) \ Mask(k))
    BY DEF CommitAv
  <2>4. RequestAv(k, req[k]) \cap Base[k] = {}
    BY <2>2 DEF RequestAv
  <2> QED BY <2>1, <2>2, <2>3, <2>4
<1>6. StateClean'
  <2>1. \A k \in Key : Plan(req)[k] \cap Base[k] = {}
    BY <1>1 DEF PolicyExact, RequestAv
  <2>2. \A k \in Key : s[k] \cap Base[k] = {}
    BY <2>1 DEF StateClean
  <2> QED BY <2>2 DEF StateClean, TypeOK
<1>7. NeedCovered'
  <2> SUFFICES ASSUME NEW g \in Holder, NEW k \in Key, NEW p \in need'[g][k]
               PROVE  p \in Base[k] \/ p \in state'[g][k] \/ leaked'[k][p] > 0
    BY DEF NeedCovered
  <2>1. p \in Perm
    BY <1>3 DEF TypeOK, Av
  <2>2. leaked[k][p] \in Nat /\ leaked'[k][p] \in Nat
    BY <2>1 DEF TypeOK
  <2>3. leaked'[k][p] + One(p \in s[k])
          = leaked[k][p] + One(p \in state[h][k]) + One(p \in Plan(req)[k])
    BY <2>1
  <2>4. p \in s[k] => p \in state[h][k] \/ p \in Plan(req)[k]
    OBVIOUS
  <2>5. leaked[k][p] > 0 => leaked'[k][p] > 0
    BY <2>2, <2>3, <2>4 DEF One
  <2>6. p \in state[h][k] => p \in s[k] \/ leaked'[k][p] > 0
    BY <2>2, <2>3 DEF One
  <2>7. CASE p \in need[g][k]
    <3>1. p \in Base[k] \/ p \in state[g][k] \/ leaked[k][p] > 0
      BY <2>7 DEF NeedCovered
    <3>2. g # h => state'[g] = state[g]
      BY DEF TypeOK
    <3>3. state'[h] = s
      BY DEF TypeOK
    <3> QED BY <2>5, <2>6, <3>1, <3>2, <3>3
  <2>8. CASE p \notin need[g][k]
    <3>1. g = h /\ p \in req[k]
      BY <2>8 DEF TypeOK, Av
    <3>2. p \in Base[k] \/ p \in Plan(req)[k]
      BY <1>1, <3>1, RequiredIsCovered
    <3>3. state'[g] = s
      BY <3>1 DEF TypeOK
    <3> QED BY <3>2, <3>3
  <2> QED BY <2>7, <2>8
<1> QED BY <1>3, <1>4, <1>5, <1>6, <1>7

\* A struct is wiped while its references stay counted: a failed restore, or
\* the memset of a failing allow_file.
LEMMA WipeStep ==
    ASSUME LedgerInv, ready' = ready, NEW h \in Holder,
           state' = [state EXCEPT ![h] = NoAv],
           policy' = policy, refs' = refs, leaked' = Leak(h),
           need' \in [Holder -> Av],
           \A g \in Holder, k \in Key : need'[g][k] \subseteq need[g][k]
    PROVE  LedgerInv'
<1> USE DEF LedgerInv
<1>0. NoAv \in Av
  BY DEF NoAv, Av
<1>1. /\ leaked' \in [Key -> [Perm -> Nat]]
      /\ \A k \in Key, p \in Perm :
            leaked'[k][p] = leaked[k][p] + One(p \in state[h][k])
  BY LeakExact
<1>2. TypeOK'
  BY <1>0, <1>1 DEF TypeOK
<1>3. RefsExact'
  <2> SUFFICES ASSUME ready, NEW k \in Key, NEW p \in Perm
               PROVE  refs[k][p] = Cardinality(Owners(k, p)') + leaked'[k][p]
    BY DEF RefsExact
  <2>1. /\ Cardinality(Owners(k, p)') \in Nat
        /\ Cardinality(Owners(k, p)') + One(p \in state[h][k])
             = Cardinality(Owners(k, p)) + One(p \in NoAv[k])
    BY <1>0, OwnersStep
  <2>2. One(p \in NoAv[k]) = 0
    BY DEF One, NoAv
  <2>3. refs[k][p] = Cardinality(Owners(k, p)) + leaked[k][p]
    BY DEF RefsExact
  <2>4. leaked'[k][p] = leaked[k][p] + One(p \in state[h][k])
    BY <1>1
  <2>5. /\ leaked[k][p] \in Nat /\ Cardinality(Owners(k, p)) \in Nat
        /\ One(p \in state[h][k]) \in Nat
    BY OwnersFinite DEF TypeOK, One
  <2> QED BY ONLY <2>1, <2>2, <2>3, <2>4, <2>5
<1>4. PolicyExact'
  BY DEF PolicyExact, Mask
<1>5. StateClean'
  BY DEF StateClean, TypeOK, NoAv
<1>6. NeedCovered'
  <2>1. CASE ~ready
    BY <2>1 DEF NeedCovered
  <2>2. CASE ready
    <3> SUFFICES ASSUME NEW g \in Holder, NEW k \in Key, NEW p \in need'[g][k]
                 PROVE  p \in Base[k] \/ p \in state'[g][k] \/ leaked'[k][p] > 0
      BY <2>2 DEF NeedCovered
    <3>1. p \in Perm
      BY <1>2 DEF TypeOK, Av
    <3>2. p \in Base[k] \/ p \in state[g][k] \/ leaked[k][p] > 0
      BY <2>2 DEF NeedCovered
    <3>3. /\ leaked'[k][p] = leaked[k][p] + One(p \in state[h][k])
          /\ leaked[k][p] \in Nat
      BY <1>1, <3>1 DEF TypeOK
    <3>4. /\ leaked[k][p] > 0 => leaked'[k][p] > 0
          /\ p \in state[h][k] => leaked'[k][p] > 0
      BY ONLY <3>3 DEF One
    <3>5. g # h => state'[g] = state[g]
      BY DEF TypeOK
    <3> QED BY <3>2, <3>4, <3>5
  <2> QED BY <2>1, <2>2
<1> QED BY <1>2, <1>3, <1>4, <1>5, <1>6

\* A successful restore takes out exactly the permissions it held alone.
LEMMA RestoreStep ==
    ASSUME LedgerInv, NEW h \in Holder, Restore(h)
    PROVE  LedgerInv'
<1> USE DEF LedgerInv
<1>0. NoAv \in Av
  BY DEF NoAv, Av
<1>1. CASE state[h] = NoAv
  <2>1. policy' = policy
    <3>1. \A k \in Key : ClearAv(k, state[h][k]) = {}
      BY <1>1 DEF ClearAv, NoAv
    <3> QED BY <3>1 DEF Restore, CommitRestore, TypeOK, Av
  <2>2. refs' = refs
    BY <1>1 DEF Restore, CommitRestore, Release, NoAv, TypeOK
  <2>3. state' = state /\ ready' = ready /\ leaked' = leaked
    BY <1>1 DEF Restore, CommitRestore, TypeOK
  <2>4. need' = [need EXCEPT ![h] = NoAv]
    BY DEF Restore, CommitRestore
  <2>5. TypeOK'
    BY <1>0, <2>1, <2>2, <2>3, <2>4 DEF TypeOK
  <2>6. \A g \in Holder, k \in Key : need'[g][k] \subseteq need[g][k]
    BY <2>4 DEF TypeOK, NoAv
  <2>7. RefsExact' /\ PolicyExact' /\ StateClean'
    BY <2>1, <2>2, <2>3 DEF RefsExact, PolicyExact, StateClean, Owners, Mask
  <2>8. NeedCovered'
    BY <2>1, <2>3, <2>6 DEF NeedCovered
  <2> QED BY <2>5, <2>7, <2>8
<1>2. CASE state[h] # NoAv
  <2>1. ready /\ ready' = ready /\ leaked' = leaked
    BY <1>2 DEF Restore, CommitRestore
  <2>2. /\ refs' \in [Key -> [Perm -> Nat]]
        /\ \A k \in Key, p \in Perm :
              refs[k][p] = refs'[k][p] + One(p \in state[h][k])
    <3>1. \A k \in Key : \A p \in state[h][k] : refs[k][p] > 0
      BY <2>1, OwnedIsCounted
    <3>2. refs' = Release(state[h])
      BY DEF Restore, CommitRestore
    <3>3. \A k \in Key, p \in Perm :
             refs'[k][p] = IF p \in state[h][k] THEN refs[k][p] - 1 ELSE refs[k][p]
      BY <3>1, <3>2 DEF Release, TypeOK
    <3>4. \A k \in Key, p \in Perm : refs[k][p] \in Nat
      BY DEF TypeOK
    <3>5. refs' \in [Key -> [Perm -> Nat]]
      BY <3>1, <3>2, <3>4 DEF Release
    <3>6. \A k \in Key, p \in Perm :
              refs[k][p] = refs'[k][p] + One(p \in state[h][k])
      BY ONLY <3>3, <3>4 DEF One
    <3> QED BY <3>5, <3>6
  <2>3. TypeOK'
    <3>1. policy' \in Av
      BY DEF Restore, CommitRestore, TypeOK, Av
    <3>2. state' \in [Holder -> Av] /\ need' \in [Holder -> Av]
      BY <1>0 DEF Restore, CommitRestore, TypeOK
    <3> QED BY <2>1, <2>2, <3>1, <3>2 DEF TypeOK
  <2>4. RefsExact'
    <3> SUFFICES ASSUME NEW k \in Key, NEW p \in Perm
                 PROVE  refs'[k][p] = Cardinality(Owners(k, p)') + leaked'[k][p]
      BY DEF RefsExact
    <3>1. /\ Cardinality(Owners(k, p)') \in Nat
          /\ Cardinality(Owners(k, p)') + One(p \in state[h][k])
               = Cardinality(Owners(k, p)) + One(p \in NoAv[k])
      BY <1>0, OwnersStep DEF Restore, CommitRestore
    <3>2. One(p \in NoAv[k]) = 0
      BY DEF One, NoAv
    <3>3. refs[k][p] = Cardinality(Owners(k, p)) + leaked[k][p]
      BY <2>1 DEF RefsExact
    <3>4. /\ refs[k][p] = refs'[k][p] + One(p \in state[h][k])
          /\ leaked' = leaked
      BY <2>1, <2>2
    <3>5. /\ leaked[k][p] \in Nat /\ Cardinality(Owners(k, p)) \in Nat
          /\ One(p \in state[h][k]) \in Nat /\ refs'[k][p] \in Nat
      BY <2>2, OwnersFinite DEF TypeOK, One
    <3> QED BY ONLY <3>1, <3>2, <3>3, <3>4, <3>5
  <2>5. PolicyExact'
    <3> SUFFICES ASSUME NEW k \in Key
                 PROVE  /\ policy'[k] = Base[k] \cup Mask(k)'
                        /\ Base[k] \cap Mask(k)' = {}
      BY DEF PolicyExact
    <3>1. policy'[k] = policy[k] \ ClearAv(k, state[h][k])
      BY DEF Restore, CommitRestore
    <3>2. /\ policy[k] = Base[k] \cup Mask(k)
          /\ Base[k] \cap Mask(k) = {}
      BY <2>1 DEF PolicyExact
    <3>3. state[h][k] \subseteq Mask(k)
      BY <2>1, OwnedIsCounted DEF Mask
    <3>4. ClearAv(k, state[h][k]) = {p \in state[h][k] : refs[k][p] <= 1}
      BY <3>3 DEF ClearAv, Used
    <3>5. Mask(k)' = Mask(k) \ {p \in state[h][k] : refs[k][p] <= 1}
      <4>1. \A p \in Perm :
               /\ refs[k][p] \in Nat /\ refs'[k][p] \in Nat
               /\ refs[k][p] = refs'[k][p] + One(p \in state[h][k])
        BY <2>2 DEF TypeOK
      <4>2. \A p \in Perm :
               refs'[k][p] > 0 <=>
                  refs[k][p] > 0 /\ ~(p \in state[h][k] /\ refs[k][p] <= 1)
        BY ONLY <4>1 DEF One
      <4> QED BY <4>2 DEF Mask
    <3> QED BY <3>1, <3>2, <3>3, <3>4, <3>5
  <2>6. StateClean'
    BY DEF StateClean, TypeOK, NoAv, Restore, CommitRestore
  <2>7. NeedCovered'
    <3>1. /\ state' = [state EXCEPT ![h] = NoAv]
          /\ need' = [need EXCEPT ![h] = NoAv]
      BY DEF Restore, CommitRestore
    <3>2. \A g \in Holder : IF g = h THEN \A k \in Key : need'[g][k] = {}
                                     ELSE need'[g] = need[g] /\ state'[g] = state[g]
      BY <3>1 DEF TypeOK, NoAv
    <3> QED BY <2>1, <3>2 DEF NeedCovered
  <2> QED BY <2>3, <2>4, <2>5, <2>6, <2>7
<1> QED BY <1>1, <1>2

\* Everything a holder was promised is in the live policy.
LEMMA PromisesFollow == LedgerInv => PromisesKept
<1> SUFFICES ASSUME LedgerInv, NEW h \in Holder, NEW k \in Key, NEW p \in need[h][k]
             PROVE  p \in policy[k]
  BY DEF PromisesKept
<1> USE DEF LedgerInv
<1>1. CASE ~ready
  BY <1>1 DEF NeedCovered
<1>2. CASE ready
  <2>1. p \in Perm
    BY DEF TypeOK, Av
  <2>2. policy[k] = Base[k] \cup Mask(k)
    BY <1>2 DEF PolicyExact
  <2>3. leaked[k][p] > 0 => refs[k][p] > 0
    <3>1. refs[k][p] = Cardinality(Owners(k, p)) + leaked[k][p]
      BY <1>2, <2>1 DEF RefsExact
    <3>2. leaked[k][p] \in Nat /\ Cardinality(Owners(k, p)) \in Nat
      BY <2>1, OwnersFinite DEF TypeOK
    <3> QED BY ONLY <3>1, <3>2
  <2>4. p \in state[h][k] => refs[k][p] > 0
    BY <1>2, OwnedIsCounted
  <2> QED BY <1>2, <2>1, <2>2, <2>3, <2>4 DEF NeedCovered, Mask
<1> QED BY <1>1, <1>2

-----------------------------------------------------------------------------
\* Every operation preserves the invariant.
LEMMA NextLedger ==
    ASSUME RulesSuffice
    PROVE  LedgerInv /\ [Next]_vars => LedgerInv'
<1> SUFFICES ASSUME LedgerInv, [Next]_vars
             PROVE  LedgerInv'
  OBVIOUS
<1>0. NoAv \in Av /\ TypeOK
  BY DEF NoAv, Av, LedgerInv
<1>1. ASSUME NEW h \in Holder, NEW req \in FileReq, AllowFile(h, req)
      PROVE  LedgerInv'
  <2>1. req \in Av
    BY RequestTypes
  <2>2. Plan(req) \in Av
    BY <1>0, <2>1, PlanType
  <2>3. /\ leaked' \in [Key -> [Perm -> Nat]]
        /\ \A k \in Key, p \in Perm :
              leaked'[k][p] = leaked[k][p] + One(p \in state[h][k])
    BY <1>0, <1>1, LeakExact DEF AllowFile, CommitAllow
  <2>4. \A k \in Key, p \in Perm :
              leaked'[k][p] + One(p \in Plan(req)[k])
                = leaked[k][p] + One(p \in state[h][k]) + One(p \in Plan(req)[k])
    BY <2>3
  <2> QED BY <1>1, <2>1, <2>2, <2>3, <2>4, AllowStep DEF AllowFile, CommitAllow
<1>2. ASSUME NEW h \in Holder, AllowFileFails(h)
      PROVE  LedgerInv'
  BY <1>0, <1>2, WipeStep DEF AllowFileFails, TypeOK
<1>3. ASSUME NEW h \in Holder, NEW req \in ExecReq, AllowExecmem(h, req)
      PROVE  LedgerInv'
  <2>1. CASE UNCHANGED <<policy, refs, state, need>>
    <3>1. UNCHANGED vars
      BY <1>3, <2>1 DEF AllowExecmem, CommitAllow, vars
    <3> QED BY <3>1 DEF vars, LedgerInv, TypeOK, RefsExact, PolicyExact, StateClean,
                        NeedCovered, Owners, Mask
  <2>2. CASE ~UNCHANGED <<policy, refs, state, need>>
    <3> DEFINE s == [k \in Key |-> state[h][k] \cup Plan(req)[k]]
    <3>1. req \in Av
      BY RequestTypes
    <3>2. /\ Plan(req) \in Av
          /\ \A k \in Key : Plan(req)[k] = RequestAv(k, req[k])
      BY <1>0, <3>1, PlanType
    <3>3. /\ ready /\ ready' = ready /\ leaked' = leaked
          /\ \A k \in Key : req[k] # {} => state[h][k] = {}
          /\ policy' = [k \in Key |-> policy[k] \cup CommitAv(k, req[k])]
          /\ refs' = Add(Plan(req))
          /\ state' = [state EXCEPT ![h] = s]
          /\ need' = [need EXCEPT ![h] = [k \in Key |-> @[k] \cup req[k]]]
      BY <1>0, <1>3, <2>2 DEF AllowExecmem, CommitAllow, TypeOK
    <3>4. s \in Av
      BY <1>0, <3>2 DEF TypeOK, Av
    <3>5. \A k \in Key : state[h][k] \cap Plan(req)[k] = {}
      BY <3>2, <3>3 DEF RequestAv
    <3>6. \A k \in Key, p \in Perm :
              leaked'[k][p] + One(p \in s[k])
                = leaked[k][p] + One(p \in state[h][k]) + One(p \in Plan(req)[k])
      <4> SUFFICES ASSUME NEW k \in Key, NEW p \in Perm
                   PROVE  leaked[k][p] + One(p \in s[k])
                            = leaked[k][p] + One(p \in state[h][k])
                                + One(p \in Plan(req)[k])
        BY <3>3
      <4>1. p \in s[k] <=> (p \in state[h][k] \/ p \in Plan(req)[k])
        OBVIOUS
      <4>2. ~(p \in state[h][k] /\ p \in Plan(req)[k])
        BY <3>5
      <4>3. leaked[k][p] \in Nat
        BY <1>0 DEF TypeOK
      <4> HIDE DEF s
      <4> QED BY ONLY <4>1, <4>2, <4>3 DEF One
    <3>7. leaked' \in [Key -> [Perm -> Nat]]
      BY <1>0, <3>3 DEF TypeOK
    <3>8. \A k \in Key : /\ Plan(req)[k] \subseteq s[k]
                         /\ s[k] \subseteq state[h][k] \cup Plan(req)[k]
      OBVIOUS
    <3> HIDE DEF s
    <3> QED BY <3>1, <3>3, <3>4, <3>6, <3>7, <3>8, AllowStep
  <2> QED BY <2>1, <2>2
<1>4. ASSUME NEW h \in Holder, Restore(h)
      PROVE  LedgerInv'
  BY <1>4, RestoreStep
<1>5. ASSUME NEW h \in Holder, RestoreFails(h)
      PROVE  LedgerInv'
  <2>1. /\ need' \in [Holder -> Av]
        /\ \A g \in Holder, k \in Key : need'[g][k] \subseteq need[g][k]
    BY <1>0, <1>5 DEF RestoreFails, TypeOK, NoAv
  <2> QED BY <1>5, <2>1, WipeStep DEF RestoreFails
<1>6. CASE PolicyExit
  <2>1. ready' = FALSE /\ TypeOK' /\ StateClean'
    BY <1>6 DEF PolicyExit, LedgerInv, TypeOK, StateClean
  <2>2. RefsExact' /\ PolicyExact'
    BY <2>1 DEF RefsExact, PolicyExact
  <2>3. PromisesKept
    BY PromisesFollow
  <2>4. need' = need /\ policy' = policy
    BY <1>6 DEF PolicyExit
  <2>5. NeedCovered'
    BY <2>1, <2>3, <2>4 DEF NeedCovered, PromisesKept
  <2> QED BY <2>1, <2>2, <2>5 DEF LedgerInv
<1>7. CASE UNCHANGED vars
  BY <1>7 DEF vars, LedgerInv, TypeOK, RefsExact, PolicyExact, StateClean,
              NeedCovered, Owners, Mask
<1> QED BY <1>1, <1>2, <1>3, <1>4, <1>5, <1>6, <1>7 DEF Next

\* The ledger invariant holds in every reachable state.
LEMMA LedgerCorrect ==
    ASSUME RulesSuffice
    PROVE  Spec => []LedgerInv
BY InitLedger, NextLedger, PTL DEF Spec

\* For all constants with enough rule slots, the counters of policy_temp.c
\* are exactly the structs that recorded a permission plus the references
\* lost by wiping a struct.
THEOREM CountersExact ==
    ASSUME RulesSuffice
    PROVE  Spec => []RefsExact
<1>1. LedgerInv => RefsExact
  BY DEF LedgerInv
<1> QED BY <1>1, LedgerCorrect, PTL

\* For all constants with enough rule slots, the live policy is the loaded
\* policy plus what is counted.
THEOREM LivePolicyExact ==
    ASSUME RulesSuffice
    PROVE  Spec => []PolicyExact
<1>1. LedgerInv => PolicyExact
  BY DEF LedgerInv
<1> QED BY <1>1, LedgerCorrect, PTL

\* For all constants with enough rule slots, a promised permission stays in
\* the live policy until its holder gives it back.
THEOREM PromisesAlwaysKept ==
    ASSUME RulesSuffice
    PROVE  Spec => []PromisesKept
BY PromisesFollow, LedgerCorrect, PTL

-----------------------------------------------------------------------------
(* When the table may run full, references go uncounted and the invariant  *)
(* above fails.  What is left needs no assumption on the number of rules.  *)

\* No counter is positive for a permission of the loaded policy.
MaskClean == \A k \in Key : Mask(k) \cap Base[k] = {}

\* The inductive invariant of the full table.
FullInv == TypeOK /\ BaseKept /\ RefsBounded /\ StateClean /\ MaskClean

\* A valid plan avoids the loaded policy; adding it moves a counter by at most
\* one, only for a planned permission, and not past the limit.
LEMMA AddBounded ==
    ASSUME FullInv, NEW req \in Av, PlanOk(req)
    PROVE  /\ Plan(req) \in Av
           /\ \A k \in Key : Plan(req)[k] \cap Base[k] = {}
           /\ Add(Plan(req)) \in [Key -> [Perm -> Nat]]
           /\ \A k \in Key, p \in Perm :
                 /\ Add(Plan(req))[k][p] <= RefMax
                 /\ Add(Plan(req))[k][p] > 0 => p \in Mask(k) \cup Plan(req)[k]
<1> USE DEF FullInv
<1>1. /\ Plan(req) \in Av
      /\ \A k \in Key : Plan(req)[k] = RequestAv(k, req[k])
  BY PlanType
<1>2. \A k \in Key : Plan(req)[k] \cap Base[k] = {}
  BY <1>1 DEF RequestAv, BaseKept, MaskClean
<1>3. \A k \in Key, p \in Perm : refs[k][p] \in Nat /\ refs[k][p] <= RefMax
  BY DEF TypeOK, RefsBounded
<1>4. \A k \in Key, p \in Perm : p \in Plan(req)[k] => refs[k][p] < RefMax
  <2> SUFFICES ASSUME NEW k \in Key, NEW p \in Perm, p \in Plan(req)[k]
               PROVE  refs[k][p] < RefMax
    OBVIOUS
  <2>1. ValidAdd(k, Plan(req)[k])
    BY DEF PlanOk
  <2>2. k \notin Used => refs[k][p] = 0
    BY <1>3 DEF Used, Mask
  <2> QED BY <2>1, <2>2, BoundsType DEF ValidAdd
<1>5. \A k \in Key, p \in Perm :
         Add(Plan(req))[k][p] \in {refs[k][p]} \cup
             (IF p \in Plan(req)[k] THEN {refs[k][p] + 1} ELSE {})
  BY DEF Add
<1>6. Add(Plan(req)) \in [Key -> [Perm -> Nat]]
  BY <1>3 DEF Add, TypeOK
<1>7. \A k \in Key, p \in Perm : Add(Plan(req))[k][p] <= RefMax
  BY <1>3, <1>4, <1>5, BoundsType
<1>8. \A k \in Key, p \in Perm :
         Add(Plan(req))[k][p] > 0 => p \in Mask(k) \cup Plan(req)[k]
  BY <1>5 DEF Mask
<1> QED BY <1>1, <1>2, <1>6, <1>7, <1>8

\* What both allow operations do to the invariant of the full table.
LEMMA FullAllowStep ==
    ASSUME FullInv, ready' \in BOOLEAN,
           NEW h \in Holder, NEW req \in Av, NEW s \in Av, PlanOk(req),
           state' = [state EXCEPT ![h] = s],
           policy' = [k \in Key |-> policy[k] \cup CommitAv(k, req[k])],
           refs' = Add(Plan(req)),
           need' = [need EXCEPT ![h] = [k \in Key |-> @[k] \cup req[k]]],
           leaked' \in [Key -> [Perm -> Nat]],
           \A k \in Key : s[k] \subseteq state[h][k] \cup Plan(req)[k]
    PROVE  FullInv'
<1> USE DEF FullInv
<1>1. /\ \A k \in Key : Plan(req)[k] \cap Base[k] = {}
      /\ refs' \in [Key -> [Perm -> Nat]]
      /\ \A k \in Key, p \in Perm :
            /\ refs'[k][p] <= RefMax
            /\ refs'[k][p] > 0 => p \in Mask(k) \cup Plan(req)[k]
  BY AddBounded
<1>2. TypeOK'
  <2>1. policy' \in Av /\ state' \in [Holder -> Av]
    BY DEF TypeOK, Av, CommitAv, RequestAv
  <2>2. need' \in [Holder -> Av]
    BY DEF TypeOK, Av
  <2> QED BY <1>1, <2>1, <2>2 DEF TypeOK
<1>3. BaseKept' /\ RefsBounded'
  BY <1>1 DEF BaseKept, RefsBounded
<1>4. StateClean'
  <2>1. \A k \in Key : s[k] \cap Base[k] = {}
    BY <1>1 DEF StateClean
  <2> QED BY <2>1 DEF StateClean, TypeOK
<1>5. MaskClean'
  BY <1>1 DEF MaskClean, Mask
<1> QED BY <1>2, <1>3, <1>4, <1>5

\* A wiped struct, counted or not, keeps the invariant of the full table.
LEMMA FullWipeStep ==
    ASSUME FullInv, ready' \in BOOLEAN, NEW h \in Holder,
           state' = [state EXCEPT ![h] = NoAv],
           policy' = policy, refs' = refs, leaked' = Leak(h),
           need' \in [Holder -> Av]
    PROVE  FullInv'
<1> USE DEF FullInv
<1>1. NoAv \in Av /\ leaked' \in [Key -> [Perm -> Nat]]
  BY LeakExact DEF NoAv, Av
<1>2. TypeOK'
  BY <1>1 DEF TypeOK
<1>3. BaseKept' /\ RefsBounded' /\ MaskClean'
  BY DEF BaseKept, RefsBounded, MaskClean, Mask
<1>4. StateClean'
  BY DEF StateClean, TypeOK, NoAv
<1> QED BY <1>2, <1>3, <1>4

\* A successful restore takes out only what the struct recorded.
LEMMA FullRestoreStep ==
    ASSUME FullInv, NEW h \in Holder, Restore(h)
    PROVE  FullInv'
<1> USE DEF FullInv
<1>1. /\ ready' = ready /\ leaked' = leaked
      /\ state' = [state EXCEPT ![h] = NoAv]
      /\ need' = [need EXCEPT ![h] = NoAv]
      /\ refs' = Release(state[h])
      /\ policy' = [k \in Key |-> policy[k] \ ClearAv(k, state[h][k])]
  BY DEF Restore, CommitRestore
<1>2. \A k \in Key, p \in Perm : refs[k][p] \in Nat /\ refs[k][p] <= RefMax
  BY DEF TypeOK, RefsBounded
<1>3. /\ refs' \in [Key -> [Perm -> Nat]]
      /\ \A k \in Key, p \in Perm : refs'[k][p] <= refs[k][p]
  BY <1>1, <1>2 DEF Release
<1>4. TypeOK'
  <2>1. NoAv \in Av
    BY DEF NoAv, Av
  <2>2. policy' \in Av
    BY <1>1 DEF TypeOK, Av
  <2> QED BY <1>1, <1>3, <2>1, <2>2 DEF TypeOK
<1>5. BaseKept'
  <2>1. \A k \in Key : ClearAv(k, state[h][k]) \subseteq state[h][k]
    BY DEF ClearAv
  <2> QED BY <1>1, <2>1 DEF BaseKept, StateClean
<1>6. RefsBounded' /\ MaskClean'
  <2>1. \A k \in Key, p \in Perm : refs'[k][p] \in Nat
    BY <1>3
  <2>2. \A k \in Key, p \in Perm :
           refs'[k][p] <= RefMax /\ (refs'[k][p] > 0 => refs[k][p] > 0)
    BY <1>2, <1>3, <2>1, BoundsType
  <2> QED BY <2>2 DEF RefsBounded, MaskClean, Mask
<1>7. StateClean'
  BY <1>1 DEF StateClean, TypeOK, NoAv
<1> QED BY <1>4, <1>5, <1>6, <1>7

\* Every operation preserves the invariant of the full table.
LEMMA NextFull == FullInv /\ [Next]_vars => FullInv'
<1> SUFFICES ASSUME FullInv, [Next]_vars
             PROVE  FullInv'
  OBVIOUS
<1>0. TypeOK /\ NoAv \in Av
  BY DEF FullInv, NoAv, Av
<1>1. ASSUME NEW h \in Holder, NEW req \in FileReq, AllowFile(h, req)
      PROVE  FullInv'
  <2>1. req \in Av
    BY RequestTypes
  <2>2. Plan(req) \in Av
    BY <1>0, <2>1, PlanType
  <2>3. ready' \in BOOLEAN /\ leaked' \in [Key -> [Perm -> Nat]]
    BY <1>0, <1>1, LeakExact DEF AllowFile, TypeOK
  <2> QED BY <1>1, <2>1, <2>2, <2>3, FullAllowStep DEF AllowFile, CommitAllow
<1>2. ASSUME NEW h \in Holder, AllowFileFails(h)
      PROVE  FullInv'
  BY <1>0, <1>2, FullWipeStep DEF AllowFileFails, TypeOK
<1>3. ASSUME NEW h \in Holder, NEW req \in ExecReq, AllowExecmem(h, req)
      PROVE  FullInv'
  <2>1. CASE UNCHANGED <<policy, refs, state, need>>
    <3>1. UNCHANGED vars
      BY <1>3, <2>1 DEF AllowExecmem, vars
    <3> QED BY <3>1 DEF vars, FullInv, TypeOK, BaseKept, RefsBounded, StateClean,
                        MaskClean, Mask
  <2>2. CASE ~UNCHANGED <<policy, refs, state, need>>
    <3> DEFINE s == [k \in Key |-> state[h][k] \cup Plan(req)[k]]
    <3>1. req \in Av
      BY RequestTypes
    <3>2. Plan(req) \in Av
      BY <1>0, <3>1, PlanType
    <3>3. /\ ready' = ready /\ leaked' = leaked /\ PlanOk(req)
          /\ policy' = [k \in Key |-> policy[k] \cup CommitAv(k, req[k])]
          /\ refs' = Add(Plan(req))
          /\ state' = [state EXCEPT ![h] = s]
          /\ need' = [need EXCEPT ![h] = [k \in Key |-> @[k] \cup req[k]]]
      BY <1>0, <1>3, <2>2 DEF AllowExecmem, CommitAllow, TypeOK
    <3>4. s \in Av
      BY <1>0, <3>2 DEF TypeOK, Av
    <3>5. \A k \in Key : s[k] \subseteq state[h][k] \cup Plan(req)[k]
      OBVIOUS
    <3>6. ready' \in BOOLEAN /\ leaked' \in [Key -> [Perm -> Nat]]
      BY <1>0, <3>3 DEF TypeOK
    <3> HIDE DEF s
    <3> QED BY <3>1, <3>3, <3>4, <3>5, <3>6, FullAllowStep
  <2> QED BY <2>1, <2>2
<1>4. ASSUME NEW h \in Holder, Restore(h)
      PROVE  FullInv'
  BY <1>4, FullRestoreStep
<1>5. ASSUME NEW h \in Holder, RestoreFails(h)
      PROVE  FullInv'
  BY <1>0, <1>5, FullWipeStep DEF RestoreFails, TypeOK
<1>6. CASE PolicyExit
  <2>1. /\ policy' = policy /\ state' = state /\ need' = need /\ leaked' = leaked
        /\ ready' = FALSE /\ refs' = [k \in Key |-> [p \in Perm |-> 0]]
    BY <1>6 DEF PolicyExit
  <2>2. TypeOK' /\ BaseKept' /\ StateClean'
    BY <2>1 DEF FullInv, TypeOK, BaseKept, StateClean
  <2>3. \A k \in Key, p \in Perm : refs'[k][p] = 0
    BY <2>1
  <2>4. RefsBounded' /\ MaskClean'
    BY <2>3, BoundsType DEF RefsBounded, MaskClean, Mask
  <2> QED BY <2>2, <2>4 DEF FullInv
<1>7. CASE UNCHANGED vars
  BY <1>7 DEF vars, FullInv, TypeOK, BaseKept, RefsBounded, StateClean, MaskClean, Mask
<1> QED BY <1>1, <1>2, <1>3, <1>4, <1>5, <1>6, <1>7 DEF Next

\* Initially nothing is counted.
LEMMA InitFull == Init => FullInv
BY BaseType, BoundsType DEF Init, FullInv, TypeOK, BaseKept, RefsBounded, StateClean,
                            MaskClean, Mask, Av, NoAv

\* The shapes of policy_temp.c's table, the structs and the policy hold in
\* every reachable state, for all constants: no counter goes below zero.
THEOREM LedgerTyped == Spec => []TypeOK
<1>1. FullInv => TypeOK
  BY DEF FullInv
<1> QED BY <1>1, InitFull, NextFull, PTL DEF Spec

\* For every number of rules and every counter limit: the loaded policy is
\* never reduced and no u16 counter passes its limit, although
\* yz_policy_temp_add_locked drops references once the table is full.
THEOREM FullTableAlwaysSafe == Spec => []FullTableSafe
<1>1. FullInv => FullTableSafe
  BY DEF FullInv, FullTableSafe
<1> QED BY <1>1, InitFull, NextFull, PTL DEF Spec

-----------------------------------------------------------------------------
(* The clients of LoadPolicy: every struct has one owner, and every step   *)
(* of a client is a step of the ledger or leaves it alone.                 *)

\* An injection owns the struct on its stack until it is published.  Until its
\* timeout is scheduled a restore may take the published one, and free it.
TasksSound ==
    /\ \A t \in Task :
        /\ inj[t] \in {"idle", "draining"} => mine[t] = NoHolder
        /\ inj[t] \in {"staged", "execmem"} =>
              mine[t] \in Holder /\ owner[mine[t]] = "inject"
        /\ inj[t] = "linked" /\ mine[t] # NoHolder =>
              /\ mine[t] \in Holder /\ tgid[mine[t]] = t /\ timer[mine[t]] = "off"
              /\ \/ owner[mine[t]] = "native"
                 \/ \E c \in Caller :
                       owner[mine[t]] = c /\ call[c] \in {"native", "module"}
    /\ \A s, t \in Task : (mine[s] = mine[t] /\ mine[s] # NoHolder) => s = t

\* allow_module_policy owns the struct on its stack; it has no timeout yet.
CallersSound ==
    \A c \in Caller :
        IF call[c] \in {"execmem", "link"}
        THEN /\ tmp[c] \in Holder /\ owner[tmp[c]] = c /\ timer[tmp[c]] = "off"
             /\ arg[c] \in Task
        ELSE tmp[c] = NoHolder

\* A struct in the free pool records nothing.
FreeIsClean == \A h \in Holder : owner[h] = "free" => state[h] = NoAv

\* The inductive invariant of the clients.
ClientInv ==
    /\ LTypeOK /\ TasksSound /\ CallersSound /\ FreeIsClean
    /\ TimersSound /\ NoDuplicateModuleHolder

\* The places of a struct are no tasks and no callers.
LEMMA PlacesApart ==
    /\ \A t \in Task, c \in Caller : t # c
    /\ \A x \in Task \cup Caller :
          /\ x # "free" /\ x # "inject" /\ x # "native" /\ x # "module"
          /\ x # "expired" /\ x # Exiting
BY LoadPolicyBounds DEF Place

\* Restoring and freeing a struct: the ledger takes one step, the struct is
\* clean and free, without a timeout.
LEMMA GiveBackEffect ==
    ASSUME LTypeOK, NEW h \in Holder, GiveBack(h)
    PROVE  /\ Next
           /\ state' = [state EXCEPT ![h] = NoAv]
           /\ owner' = [owner EXCEPT ![h] = "free"]
           /\ tgid' = [tgid EXCEPT ![h] = NoTask]
           /\ tag' = [tag EXCEPT ![h] = NoAv]
           /\ timer' = [timer EXCEPT ![h] = "off"]
           /\ fails' \in 0 .. FailMax
<1>1. Next /\ state' = [state EXCEPT ![h] = NoAv]
  BY DEF GiveBack, Next, Restore, RestoreFails
<1>2. fails' \in 0 .. FailMax
  BY LoadPolicyBounds DEF GiveBack, LTypeOK
<1> QED BY <1>1, <1>2 DEF GiveBack

\* An operation of the ledger on struct h leaves the other structs alone.
LEMMA AllowTouchesOne ==
    ASSUME TypeOK, NEW h \in Holder,
           \/ \E req \in FileReq : AllowFile(h, req)
           \/ AllowFileFails(h)
           \/ \E req \in ExecReq : AllowExecmem(h, req)
           \/ Restore(h) \/ RestoreFails(h)
    PROVE  Next /\ \A g \in Holder : g # h => state'[g] = state[g]
<1>1. Next
  BY DEF Next
<1>2. ASSUME \E s : state' = [state EXCEPT ![h] = s]
      PROVE  \A g \in Holder : g # h => state'[g] = state[g]
  BY <1>2 DEF TypeOK
<1>3. (\E s : state' = [state EXCEPT ![h] = s]) \/ state' = state
  <2>1. ASSUME NEW req \in FileReq, AllowFile(h, req)
        PROVE  \E s : state' = [state EXCEPT ![h] = s]
    BY <2>1 DEF AllowFile
  <2>2. ASSUME NEW req \in ExecReq, AllowExecmem(h, req), state' # state
        PROVE  \E s : state' = [state EXCEPT ![h] = s]
    BY <2>2 DEF AllowExecmem
  <2>3. ASSUME AllowFileFails(h) \/ Restore(h) \/ RestoreFails(h)
        PROVE  \E s : state' = [state EXCEPT ![h] = s]
    BY <2>3 DEF AllowFileFails, Restore, RestoreFails
  <2> QED BY <2>1, <2>2, <2>3
<1> QED BY <1>1, <1>2, <1>3

\* Every step of a client is an operation of the ledger or none.
LEMMA ClientStep == ClientInv /\ [LNext]_allVars => [Next]_vars
<1> SUFFICES ASSUME ClientInv, [LNext]_allVars
             PROVE  [Next]_vars
  OBVIOUS
<1> USE DEF ClientInv
<1>0. TypeOK /\ LTypeOK
  BY DEF LTypeOK
<1>1. ASSUME NEW t \in Task, NEW h \in Holder, InjectStage(t, h)
      PROVE  [Next]_vars
  BY <1>0, <1>1, AllowTouchesOne DEF InjectStage
<1>2. ASSUME NEW t \in Task, InjectEarly(t) \/ InjectEarlyUndo(t) \/ InjectSteps(t)
      PROVE  [Next]_vars
  <2>1. inj[t] \in {"staged", "execmem"} => mine[t] \in Holder
    BY DEF TasksSound
  <2>2. CASE InjectEarly(t) \/ InjectEarlyUndo(t) \/ InjectExecmem(t)
    BY <1>0, <2>1, <2>2, AllowTouchesOne DEF InjectEarly, InjectEarlyUndo, InjectExecmem
  <2>3. CASE InjectAbort(t)
    BY <1>0, <2>1, <2>3, GiveBackEffect DEF InjectAbort
  <2>4. CASE PublishLink(t)
    BY <1>0, <2>1, <2>4, GiveBackEffect DEF PublishLink
  <2>5. CASE PublishArm(t) \/ PublishDone(t)
    BY <2>5 DEF PublishArm, PublishDone
  <2>6. ASSUME NEW h \in Holder, PublishDrain(t, h)
        PROVE  Next
    BY <1>0, <2>6, GiveBackEffect DEF PublishDrain
  <2> QED BY <1>2, <2>2, <2>3, <2>4, <2>5, <2>6 DEF InjectSteps
<1>3. ASSUME NEW h \in Holder, TimeoutSteps(h)
      PROVE  [Next]_vars
  BY <1>0, <1>3, GiveBackEffect DEF TimeoutSteps, TimerFires, TimeoutTake, TimeoutRestore
<1>4. ASSUME NEW c \in Caller, NEW t \in Task, NEW h \in Holder, ModuleAllow(c, t, h)
      PROVE  [Next]_vars
  BY <1>0, <1>4, AllowTouchesOne DEF ModuleAllow
<1>5. ASSUME NEW c \in Caller, NEW t \in Task, RestoreNative(c, t)
      PROVE  [Next]_vars
  BY <1>5 DEF RestoreNative
<1>6. ASSUME NEW c \in Caller, CallerSteps(c)
      PROVE  [Next]_vars
  <2>1. call[c] \in {"execmem", "link"} => tmp[c] \in Holder
    BY DEF CallersSound
  <2>2. CASE ModuleExecmem(c)
    BY <1>0, <2>1, <2>2, AllowTouchesOne DEF ModuleExecmem
  <2>3. CASE ModuleRollback(c) \/ ModuleDuplicate(c)
    BY <1>0, <2>1, <2>3, GiveBackEffect DEF ModuleRollback, ModuleDuplicate
  <2>4. CASE ModuleLink(c) \/ RestoreModule(c) \/ RestoreDone(c)
    BY <2>4 DEF ModuleLink, RestoreModule, RestoreDone
  <2>5. ASSUME NEW h \in Holder, RestoreOne(c, h)
        PROVE  Next
    BY <1>0, <2>5, GiveBackEffect DEF RestoreOne
  <2> QED BY <1>6, <2>2, <2>3, <2>4, <2>5 DEF CallerSteps
<1>7. CASE ControlExit \/ ProbeExitTake \/ ProbeExitHook
  BY <1>7 DEF ControlExit, ProbeExitTake, ProbeExitHook
<1>8. ASSUME NEW h \in Holder, ProbeExitDrain(h)
      PROVE  Next
  BY <1>0, <1>8, GiveBackEffect DEF ProbeExitDrain
<1>9. CASE HostExit
  BY <1>9 DEF HostExit, Next
<1>10. CASE UNCHANGED allVars
  BY <1>10 DEF allVars
<1> QED BY <1>1, <1>2, <1>3, <1>4, <1>5, <1>6, <1>7, <1>8, <1>9, <1>10
        DEF LNext, ExitSteps

\* Freeing a struct that is on no stack: the drains of the lists and the
\* timeouts.  Only a publisher may still point to it.
LEMMA DrainKeeps ==
    ASSUME ClientInv, TypeOK', NEW h \in Holder, GiveBack(h),
           UNCHANGED <<inj, early, stray, cvars, down, started, armed>>,
           mine' = [t \in Task |-> IF mine[t] = h THEN NoHolder ELSE mine[t]],
           \A t \in Task : mine[t] = h => inj[t] = "linked",
           \A c \in Caller : tmp[c] # h
    PROVE  ClientInv'
<1> USE DEF ClientInv
<1>1. /\ state' = [state EXCEPT ![h] = NoAv]
      /\ owner' = [owner EXCEPT ![h] = "free"]
      /\ tgid' = [tgid EXCEPT ![h] = NoTask]
      /\ tag' = [tag EXCEPT ![h] = NoAv]
      /\ timer' = [timer EXCEPT ![h] = "off"]
      /\ fails' \in 0 .. FailMax
  BY GiveBackEffect
<1>2. /\ inj' = inj /\ early' = early /\ stray' = stray
      /\ call' = call /\ arg' = arg /\ tmp' = tmp /\ modLock' = modLock
      /\ down' = down /\ started' = started /\ armed' = armed
  BY DEF cvars
<1>3. LTypeOK'
  BY <1>1, <1>2 DEF LTypeOK, Place, NoAv, Av
<1>4. TasksSound' /\ CallersSound'
  <2>1. \A t \in Task : mine'[t] # h /\ (mine'[t] = mine[t] \/ mine'[t] = NoHolder)
    BY LoadPolicyBounds
  <2>2. \A g \in Holder : g # h => /\ owner'[g] = owner[g] /\ tgid'[g] = tgid[g]
                                  /\ timer'[g] = timer[g]
    BY <1>1 DEF LTypeOK
  <2>3. \A t \in Task : inj[t] \in {"staged", "execmem"} => mine'[t] = mine[t]
    OBVIOUS
  <2>4. TasksSound'
    BY <1>2, <2>1, <2>2, <2>3 DEF TasksSound
  <2>5. CallersSound'
    BY <1>2, <2>2 DEF CallersSound
  <2> QED BY <2>4, <2>5
<1>5. FreeIsClean' /\ NoDuplicateModuleHolder'
  BY <1>1, <1>2 DEF LTypeOK, TypeOK, FreeIsClean, NoDuplicateModuleHolder
<1>6. TimersSound'
  <2>1. \A t \in Task : mine[t] # h => mine'[t] = mine[t]
    OBVIOUS
  <2> QED BY <1>1, <1>2, <2>1 DEF LTypeOK, TimersSound
<1> QED BY <1>3, <1>4, <1>5, <1>6

\* A step that leaves the pointers of the injections alone, as no injection
\* points to h.
LEMMA NobodyPoints ==
    ASSUME LTypeOK, NEW h \in Holder, \A t \in Task : mine[t] # h, mine' = mine
    PROVE  /\ mine' = [t \in Task |-> IF mine[t] = h THEN NoHolder ELSE mine[t]]
           /\ \A t \in Task : mine[t] = h => inj[t] = "linked"
BY DEF LTypeOK

\* The steps of an injection on its own struct.
LEMMA InjectKeeps ==
    ASSUME ClientInv, TypeOK', NEW t \in Task
    PROVE  /\ \A h \in Holder : InjectStage(t, h) => ClientInv'
           /\ InjectEarly(t) \/ InjectEarlyUndo(t) \/ InjectExecmem(t) => ClientInv'
           /\ InjectAbort(t) => ClientInv'
<1> USE DEF ClientInv, ivars, cvars, hvars, bvars
<1>0. TypeOK /\ LTypeOK
  BY DEF LTypeOK
<1>1. ASSUME NEW h \in Holder, InjectStage(t, h)
      PROVE  ClientInv'
  <2>1. /\ owner[h] = "free" /\ inj[t] = "idle" /\ started < InjectMax
        /\ owner' = [owner EXCEPT ![h] = "inject"]
        /\ inj' = [inj EXCEPT ![t] = "staged"]
        /\ mine' = [mine EXCEPT ![t] = h]
        /\ early' = [early EXCEPT ![t] = 0]
        /\ started' = started + 1
        /\ UNCHANGED <<tgid, tag, timer, stray, call, arg, tmp, modLock, down, armed, fails>>
    BY <1>1 DEF InjectStage
  <2>2. \A g \in Holder : g # h => state'[g] = state[g]
    BY <1>0, <1>1, AllowTouchesOne DEF InjectStage
  <2>3. LTypeOK'
    BY <2>1, LoadPolicyBounds DEF LTypeOK, Place
  <2>4. TasksSound'
    BY <2>1, PlacesApart, LoadPolicyBounds DEF LTypeOK, TasksSound
  <2>5. CallersSound' /\ FreeIsClean' /\ NoDuplicateModuleHolder'
    BY <2>1, <2>2, PlacesApart DEF LTypeOK, CallersSound, FreeIsClean, NoDuplicateModuleHolder
  <2>6. TimersSound'
    BY <2>1 DEF LTypeOK, TimersSound
  <2> QED BY <2>3, <2>4, <2>5, <2>6
<1>2. ASSUME InjectEarly(t) \/ InjectEarlyUndo(t) \/ InjectExecmem(t)
      PROVE  ClientInv'
  <2>1. /\ mine[t] \in Holder /\ owner[mine[t]] = "inject" /\ inj[t] = "staged"
    BY <1>2 DEF InjectEarly, InjectEarlyUndo, InjectExecmem, TasksSound
  <2>2. \A g \in Holder : g # mine[t] => state'[g] = state[g]
    BY <1>0, <1>2, <2>1, AllowTouchesOne DEF InjectEarly, InjectEarlyUndo, InjectExecmem
  <2>3. /\ UNCHANGED <<owner, tgid, tag, timer, mine, stray, call, arg, tmp, modLock, down,
                       started, armed>>
        /\ inj' \in {inj, [inj EXCEPT ![t] = "execmem"]}
        /\ early' \in {early, [early EXCEPT ![t] = @ + 1]}
        /\ early' # early => early[t] < EarlyMax
        /\ fails' = fails \/ (fails < FailMax /\ fails' = fails + 1)
    BY <1>2 DEF InjectEarly, InjectEarlyUndo, InjectExecmem
  <2>4. LTypeOK'
    BY <2>3, LoadPolicyBounds DEF LTypeOK
  <2>5. TasksSound' /\ TimersSound'
    BY <2>1, <2>3 DEF LTypeOK, TasksSound, TimersSound
  <2>6. CallersSound' /\ FreeIsClean' /\ NoDuplicateModuleHolder'
    BY <2>1, <2>2, <2>3 DEF CallersSound, FreeIsClean, NoDuplicateModuleHolder
  <2> QED BY <2>4, <2>5, <2>6
<1>3. ASSUME InjectAbort(t)
      PROVE  ClientInv'
  <2> DEFINE h == mine[t]
  <2>1. /\ h \in Holder /\ owner[h] = "inject" /\ inj[t] \in {"staged", "execmem"}
        /\ inj' = [inj EXCEPT ![t] = "idle"]
        /\ mine' = [mine EXCEPT ![t] = NoHolder]
        /\ UNCHANGED <<early, stray, call, arg, tmp, modLock, down, started, armed>>
        /\ GiveBack(h)
    BY <1>3 DEF InjectAbort, TasksSound
  <2> HIDE DEF h
  <2>2. /\ state' = [state EXCEPT ![h] = NoAv]
        /\ owner' = [owner EXCEPT ![h] = "free"]
        /\ tgid' = [tgid EXCEPT ![h] = NoTask]
        /\ tag' = [tag EXCEPT ![h] = NoAv]
        /\ timer' = [timer EXCEPT ![h] = "off"]
        /\ fails' \in 0 .. FailMax
    BY <1>0, <2>1, GiveBackEffect
  <2>3. LTypeOK'
    BY <2>1, <2>2 DEF LTypeOK, Place, NoAv, Av
  <2>4. TasksSound'
    <3>1. \A s \in Task : s # t => mine[s] # h
      BY <2>1, LoadPolicyBounds DEF TasksSound, h
    <3> QED BY <2>1, <2>2, <3>1 DEF LTypeOK, TasksSound
  <2>5. CallersSound'
    BY <2>1, <2>2, PlacesApart DEF LTypeOK, CallersSound
  <2>6. FreeIsClean' /\ NoDuplicateModuleHolder'
    BY <1>0, <2>1, <2>2 DEF LTypeOK, TypeOK, FreeIsClean, NoDuplicateModuleHolder
  <2>7. TimersSound'
    BY <2>1, <2>2 DEF LTypeOK, TimersSound, TasksSound, h
  <2> QED BY <2>3, <2>4, <2>5, <2>6, <2>7
<1> QED BY <1>1, <1>2, <1>3

\* Publishing: the older entries of the tgid go to the publisher's todo list,
\* the new one is on the list while its timeout is being scheduled.
LEMMA PublishKeeps ==
    ASSUME ClientInv, TypeOK', NEW t \in Task
    PROVE  /\ PublishLink(t) => ClientInv'
           /\ PublishArm(t) => ClientInv'
           /\ \A g \in Holder : PublishDrain(t, g) => ClientInv'
           /\ PublishDone(t) => ClientInv'
<1> USE DEF ClientInv, ivars, cvars, hvars, bvars, vars
<1>0. TypeOK /\ LTypeOK
  BY DEF LTypeOK
<1>1. ASSUME PublishLink(t)
      PROVE  ClientInv'
  <2>1. CASE state[mine[t]] = NoAv
    <3>1. InjectAbort(t)
      BY <1>1, <2>1 DEF PublishLink, InjectAbort
    <3> QED BY <3>1, InjectKeeps
  <2>2. CASE state[mine[t]] # NoAv
    <3> DEFINE h == mine[t]
               older == {g \in Holder : owner[g] = "native" /\ tgid[g] = t}
    <3>1. /\ h \in Holder /\ owner[h] = "inject" /\ inj[t] = "execmem"
          /\ owner' = [g \in Holder |-> CASE g = h -> "native"
                                          [] g \in older -> t
                                          [] OTHER -> owner[g]]
          /\ tgid' = [tgid EXCEPT ![h] = t]
          /\ inj' = [inj EXCEPT ![t] = "linked"]
          /\ UNCHANGED <<state, tag, timer, mine, fails, early, stray, call, arg, tmp,
                         modLock, down, started, armed>>
      BY <1>1, <2>2 DEF PublishLink, TasksSound
    <3>2. \A g \in Holder : owner'[g] = IF g = h THEN "native"
                                        ELSE IF owner[g] = "native" /\ tgid[g] = t THEN t
                                        ELSE owner[g]
      BY <3>1
    <3>3. owner' \in [Holder -> Place \cup Task \cup Caller]
      BY <3>1 DEF LTypeOK, Place
    <3>4. \A s \in Task : s # t => mine[s] # h
      BY <3>1, LoadPolicyBounds DEF TasksSound
    <3>5. timer[h] = "off"
      BY <3>1 DEF TimersSound
    <3>6. h = mine[t]
      OBVIOUS
    <3> HIDE DEF h, older
    <3>7. LTypeOK'
      BY <3>1, <3>3 DEF LTypeOK
    <3>8. TasksSound'
      <4>1. /\ mine'[t] = h /\ owner'[h] = "native" /\ tgid'[h] = t
            /\ timer'[h] = "off" /\ inj'[t] = "linked"
        BY <3>1, <3>2, <3>5, <3>6 DEF LTypeOK
      <4>2. ASSUME NEW s \in Task, s # t
            PROVE  /\ inj'[s] = inj[s] /\ mine'[s] = mine[s] /\ mine[s] # h
                   /\ mine[s] \in Holder => tgid'[mine[s]] = tgid[mine[s]]
                   /\ (mine[s] \in Holder /\ (owner[mine[s]] # "native" \/ tgid[mine[s]] = s))
                         => owner'[mine[s]] = owner[mine[s]]
        BY <3>1, <3>2, <3>4, <4>2 DEF LTypeOK
      <4> QED BY <3>1, <4>1, <4>2 DEF TasksSound
    <3>9. CallersSound'
      BY <3>1, <3>2, PlacesApart DEF CallersSound
    <3>10. FreeIsClean' /\ NoDuplicateModuleHolder'
      BY <3>1, <3>2, PlacesApart DEF LTypeOK, FreeIsClean, NoDuplicateModuleHolder
    <3>11. TimersSound'
      BY <3>1, <3>2, <3>6, PlacesApart DEF LTypeOK, TimersSound
    <3> QED BY <3>7, <3>8, <3>9, <3>10, <3>11
  <2> QED BY <2>1, <2>2
<1>2. ASSUME PublishArm(t)
      PROVE  ClientInv'
  <2> DEFINE h == mine[t]
  <2>1. /\ inj[t] = "linked"
        /\ mine' = [mine EXCEPT ![t] = NoHolder]
        /\ inj' = [inj EXCEPT ![t] = "draining"]
        /\ UNCHANGED <<state, owner, tgid, tag, early, call, arg, tmp, modLock, down,
                       started, armed, fails>>
    BY <1>2 DEF PublishArm
  <2>2. \/ h = NoHolder /\ stray' = TRUE /\ timer' = timer
        \/ /\ h \in Holder /\ stray' = stray
           /\ timer' = [timer EXCEPT ![h] = "armed"]
           /\ owner[h] = "native" \/ \E c \in Caller : /\ owner[h] = c
                                                    /\ call[c] \in {"native", "module"}
    BY <1>2 DEF PublishArm, TasksSound
  <2>3. \A s \in Task : s # t /\ mine[s] # NoHolder => mine[s] # h
    BY <2>1 DEF TasksSound
  <2>4. h = mine[t]
    OBVIOUS
  <2> HIDE DEF h
  <2>5. LTypeOK'
    BY <2>1, <2>2 DEF LTypeOK
  <2>6. TasksSound'
    BY <2>1, <2>2, <2>3 DEF LTypeOK, TasksSound
  <2>7. CallersSound'
    BY <2>1, <2>2, PlacesApart DEF LTypeOK, CallersSound
  <2>8. FreeIsClean' /\ NoDuplicateModuleHolder'
    BY <2>1 DEF FreeIsClean, NoDuplicateModuleHolder
  <2>9. TimersSound'
    <3>1. \A g \in Holder : timer'[g] = timer[g] \/ (g = h /\ timer'[g] = "armed")
      BY <2>2 DEF LTypeOK
    <3>2. \A s \in Task : s # t => inj'[s] = inj[s] /\ mine'[s] = mine[s]
      BY <2>1 DEF LTypeOK
    <3>3. h \in Holder => timer'[h] = "armed"
      BY <2>2, LoadPolicyBounds DEF LTypeOK
    <3> QED BY <2>1, <2>2, <2>4, <3>1, <3>2, <3>3, PlacesApart DEF TimersSound
  <2> QED BY <2>5, <2>6, <2>7, <2>8, <2>9
<1>3. ASSUME NEW g \in Holder, PublishDrain(t, g)
      PROVE  ClientInv'
  <2>1. owner[g] = t /\ GiveBack(g) /\ UNCHANGED <<ivars, cvars, down, started, armed>>
    BY <1>3 DEF PublishDrain
  <2>2. \A s \in Task : mine[s] # g
    BY <2>1, PlacesApart, LoadPolicyBounds DEF LTypeOK, TasksSound
  <2>3. \A c \in Caller : tmp[c] # g
    BY <2>1, PlacesApart, LoadPolicyBounds DEF CallersSound
  <2> QED BY <1>0, <2>1, <2>2, <2>3, NobodyPoints, DrainKeeps DEF ivars
<1>4. ASSUME PublishDone(t)
      PROVE  ClientInv'
  <2>1. /\ inj[t] = "draining" /\ inj' = [inj EXCEPT ![t] = "idle"]
        /\ UNCHANGED <<state, owner, tgid, tag, timer, mine, early, stray, call, arg, tmp,
                       modLock, down, started, armed, fails>>
    BY <1>4 DEF PublishDone
  <2>2. LTypeOK'
    BY <2>1 DEF LTypeOK
  <2>3. TasksSound' /\ TimersSound'
    BY <2>1 DEF LTypeOK, TasksSound, TimersSound
  <2>4. CallersSound' /\ FreeIsClean' /\ NoDuplicateModuleHolder'
    BY <2>1 DEF CallersSound, FreeIsClean, NoDuplicateModuleHolder
  <2> QED BY <2>2, <2>3, <2>4
<1> QED BY <1>1, <1>2, <1>3, <1>4

\* The timeouts: a handler that finds its entry listed takes it, one that
\* comes too late leaves.
LEMMA TimeoutKeeps ==
    ASSUME ClientInv, TypeOK', NEW h \in Holder, TimeoutSteps(h)
    PROVE  ClientInv'
<1> USE DEF ClientInv, ivars, cvars, hvars, bvars, vars
<1>0. TypeOK /\ LTypeOK
  BY DEF LTypeOK
<1>1. CASE TimeoutRestore(h)
  <2>1. owner[h] = "expired" /\ GiveBack(h) /\ UNCHANGED <<ivars, cvars, down, started, armed>>
    BY <1>1 DEF TimeoutRestore
  <2>2. \A s \in Task : mine[s] # h
    BY <2>1, PlacesApart, LoadPolicyBounds DEF LTypeOK, TasksSound
  <2>3. \A c \in Caller : tmp[c] # h
    BY <2>1, PlacesApart, LoadPolicyBounds DEF CallersSound
  <2> QED BY <1>0, <2>1, <2>2, <2>3, NobodyPoints, DrainKeeps DEF ivars
<1>2. CASE TimerFires(h) \/ TimeoutTake(h)
  <2>1. /\ timer[h] # "off"
        /\ UNCHANGED <<state, tgid, tag, inj, mine, early, stray, call, arg, tmp, modLock, down,
                       started, armed, fails>>
        /\ \/ owner' = owner /\ timer[h] = "armed" /\ timer' = [timer EXCEPT ![h] = "running"]
           \/ /\ timer' = timer /\ timer[h] = "running" /\ owner[h] \in {"native", "module"}
              /\ owner' = [owner EXCEPT ![h] = "expired"]
           \/ /\ owner' = owner /\ timer' = [timer EXCEPT ![h] = "off"]
              /\ owner[h] \notin {"native", "module", "expired"}
    BY <1>2 DEF TimerFires, TimeoutTake
  <2>2. \A s \in Task : mine[s] # h
    BY <2>1, LoadPolicyBounds DEF LTypeOK, TasksSound, TimersSound
  <2>3. \A c \in Caller : tmp[c] # h
    BY <2>1, LoadPolicyBounds DEF CallersSound
  <2>4. LTypeOK'
    BY <2>1 DEF LTypeOK, Place
  <2>5. TasksSound'
    BY <2>1, <2>2 DEF LTypeOK, TasksSound
  <2>6. CallersSound'
    BY <2>1, <2>3 DEF LTypeOK, CallersSound
  <2>7. FreeIsClean' /\ NoDuplicateModuleHolder'
    BY <2>1 DEF LTypeOK, FreeIsClean, NoDuplicateModuleHolder
  <2>8. TimersSound'
    BY <2>1 DEF LTypeOK, TimersSound
  <2> QED BY <2>4, <2>5, <2>6, <2>7, <2>8
<1> QED BY <1>1, <1>2 DEF TimeoutSteps

\* allow_module_policy, from its first allow to its return: the lock keeps the
\* search for an equal holder and the insertion together.
LEMMA ModuleKeeps ==
    ASSUME ClientInv, TypeOK', NEW c \in Caller
    PROVE  /\ \A t \in Task, h \in Holder : ModuleAllow(c, t, h) => ClientInv'
           /\ ModuleExecmem(c) => ClientInv'
           /\ ModuleRollback(c) \/ ModuleDuplicate(c) => ClientInv'
           /\ ModuleLink(c) => ClientInv'
<1> USE DEF ClientInv, ivars, cvars, hvars, bvars, vars
<1>0. TypeOK /\ LTypeOK
  BY DEF LTypeOK
<1>1. ASSUME NEW t \in Task, NEW h \in Holder, ModuleAllow(c, t, h)
      PROVE  ClientInv'
  <2>1. PICK req \in FileReq : AllowFile(h, req) /\ tag' = [tag EXCEPT ![h] = req]
    BY <1>1 DEF ModuleAllow
  <2>2. /\ call[c] = "idle" /\ modLock = "free" /\ owner[h] = "free" /\ armed < ArmMax
        /\ owner' = [owner EXCEPT ![h] = c]
        /\ call' = [call EXCEPT ![c] = "execmem"]
        /\ arg' = [arg EXCEPT ![c] = t]
        /\ tmp' = [tmp EXCEPT ![c] = h]
        /\ modLock' = c
        /\ armed' = armed + 1
        /\ UNCHANGED <<tgid, timer, inj, mine, early, stray, down, started, fails>>
    BY <1>1 DEF ModuleAllow
  <2>3. \A g \in Holder : g # h => state'[g] = state[g]
    BY <1>0, <2>1, AllowTouchesOne
  <2>4. req \in Av
    BY RequestTypes
  <2>5. \A d \in Caller : call[d] \notin {"execmem", "link"} /\ d # "free"
    BY <2>2, PlacesApart DEF LTypeOK
  <2>6. LTypeOK'
    <3>1. \A d \in Caller : modLock' = d <=> call'[d] \in {"execmem", "link"}
      BY <2>2, <2>5 DEF LTypeOK
    <3> QED BY <2>1, <2>2, <2>4, <3>1, LoadPolicyBounds DEF LTypeOK
  <2>7. timer[h] = "off"
    BY <2>2 DEF TimersSound
  <2>8. TasksSound'
    BY <2>2 DEF LTypeOK, TasksSound
  <2>9. CallersSound'
    BY <2>2, <2>5, <2>7 DEF LTypeOK, CallersSound
  <2>10. FreeIsClean' /\ NoDuplicateModuleHolder'
    BY <2>1, <2>2, <2>3, PlacesApart DEF LTypeOK, FreeIsClean, NoDuplicateModuleHolder
  <2>11. TimersSound'
    BY <2>2, PlacesApart DEF LTypeOK, TimersSound
  <2> QED BY <2>6, <2>8, <2>9, <2>10, <2>11
<1>2. ASSUME ModuleExecmem(c)
      PROVE  ClientInv'
  <2>1. /\ call[c] = "execmem" /\ tmp[c] \in Holder /\ owner[tmp[c]] = c
        /\ call' = [call EXCEPT ![c] = "link"]
        /\ UNCHANGED <<owner, tgid, tag, timer, inj, mine, early, stray, arg, tmp, modLock, down,
                       started, armed, fails>>
    BY <1>2 DEF ModuleExecmem, CallersSound
  <2>2. \A g \in Holder : g # tmp[c] => state'[g] = state[g]
    BY <1>0, <1>2, <2>1, AllowTouchesOne DEF ModuleExecmem
  <2>3. LTypeOK'
    BY <2>1 DEF LTypeOK
  <2>4. TasksSound' /\ TimersSound' /\ NoDuplicateModuleHolder'
    BY <2>1 DEF TasksSound, TimersSound, NoDuplicateModuleHolder
  <2>5. CallersSound'
    BY <2>1 DEF LTypeOK, CallersSound
  <2>6. FreeIsClean'
    BY <2>1, <2>2, PlacesApart DEF FreeIsClean
  <2> QED BY <2>3, <2>4, <2>5, <2>6
<1>3. ASSUME call[c] \in {"execmem", "link"}, ModuleReturn(c)
      PROVE  /\ \A d \in Caller : modLock' = d <=> call'[d] \in {"execmem", "link"}
             /\ call' \in [Caller -> {"idle", "execmem", "link", "native", "module"}]
             /\ arg' \in [Caller -> Task \cup {NoTask}]
             /\ tmp' \in [Caller -> Holder \cup {NoHolder}]
             /\ modLock' \in {"free"} \cup Caller
             /\ call'[c] = "idle" /\ tmp'[c] = NoHolder
             /\ \A d \in Caller : d # c => /\ call'[d] = call[d] /\ arg'[d] = arg[d]
                                           /\ tmp'[d] = tmp[d]
  BY <1>3, PlacesApart DEF ModuleReturn, LTypeOK
<1>4. ASSUME ModuleRollback(c) \/ ModuleDuplicate(c)
      PROVE  ClientInv'
  <2> DEFINE h == tmp[c]
  <2>1. /\ call[c] \in {"execmem", "link"} /\ ModuleReturn(c) /\ GiveBack(h)
        /\ UNCHANGED <<inj, mine, early, stray, down, started, armed>>
    BY <1>4 DEF ModuleRollback, ModuleDuplicate
  <2>2. h \in Holder /\ owner[h] = c
    BY <2>1 DEF CallersSound
  <2> HIDE DEF h
  <2>3. /\ state' = [state EXCEPT ![h] = NoAv]
        /\ owner' = [owner EXCEPT ![h] = "free"]
        /\ tgid' = [tgid EXCEPT ![h] = NoTask]
        /\ tag' = [tag EXCEPT ![h] = NoAv]
        /\ timer' = [timer EXCEPT ![h] = "off"]
        /\ fails' \in 0 .. FailMax
    BY <1>0, <2>1, <2>2, GiveBackEffect
  <2>4. LTypeOK'
    BY <1>3, <2>1, <2>2, <2>3 DEF LTypeOK, Place, NoAv, Av
  <2>5. TasksSound'
    <3>1. \A s \in Task : mine[s] # h
      BY <2>1, <2>2, PlacesApart, LoadPolicyBounds DEF LTypeOK, TasksSound
    <3>2. \A g \in Holder : g # h => /\ owner'[g] = owner[g] /\ tgid'[g] = tgid[g]
                                    /\ timer'[g] = timer[g]
      BY <2>3 DEF LTypeOK
    <3>3. \A d \in Caller : call[d] \in {"native", "module"} => call'[d] = call[d]
      BY <1>3, <2>1
    <3> QED BY <2>1, <3>1, <3>2, <3>3 DEF TasksSound
  <2>6. CallersSound'
    BY <1>3, <2>1, <2>2, <2>3 DEF LTypeOK, CallersSound
  <2>7. FreeIsClean' /\ NoDuplicateModuleHolder'
    BY <1>0, <2>1, <2>2, <2>3 DEF LTypeOK, TypeOK, FreeIsClean, NoDuplicateModuleHolder
  <2>8. TimersSound'
    BY <2>1, <2>2, <2>3 DEF LTypeOK, TimersSound
  <2> QED BY <2>4, <2>5, <2>6, <2>7, <2>8
<1>5. ASSUME ModuleLink(c)
      PROVE  ClientInv'
  <2> DEFINE h == tmp[c]
  <2>1. /\ call[c] = "link" /\ ModuleReturn(c)
        /\ ~ \E g \in Holder : SameHolder(g, arg[c], tag[h])
        /\ owner' = [owner EXCEPT ![h] = "module"]
        /\ tgid' = [tgid EXCEPT ![h] = arg[c]]
        /\ timer' = [timer EXCEPT ![h] = "armed"]
        /\ UNCHANGED <<state, tag, inj, mine, early, stray, down, started, armed, fails>>
    BY <1>5 DEF ModuleLink
  <2>2. h \in Holder /\ owner[h] = c /\ arg[c] \in Task
    BY <2>1 DEF CallersSound
  <2> HIDE DEF h
  <2>3. LTypeOK'
    BY <1>3, <2>1, <2>2 DEF LTypeOK, Place
  <2>4. TasksSound'
    <3>1. \A s \in Task : mine[s] # h
      BY <2>1, <2>2, PlacesApart, LoadPolicyBounds DEF LTypeOK, TasksSound
    <3>2. \A g \in Holder : g # h => /\ owner'[g] = owner[g] /\ tgid'[g] = tgid[g]
                                    /\ timer'[g] = timer[g]
      BY <2>1 DEF LTypeOK
    <3>3. \A d \in Caller : call[d] \in {"native", "module"} => call'[d] = call[d]
      BY <1>3, <2>1
    <3> QED BY <2>1, <3>1, <3>2, <3>3 DEF TasksSound
  <2>5. CallersSound'
    BY <1>3, <2>1, <2>2 DEF LTypeOK, CallersSound
  <2>6. FreeIsClean' /\ TimersSound'
    BY <2>1, <2>2 DEF LTypeOK, FreeIsClean, TimersSound
  <2>7. NoDuplicateModuleHolder'
    BY <2>1, <2>2 DEF LTypeOK, NoDuplicateModuleHolder, SameHolder
  <2> QED BY <2>3, <2>4, <2>5, <2>6, <2>7
<1> QED BY <1>1, <1>2, <1>4, <1>5

\* Moving entries off a list to the todo list of x, a caller or the teardown:
\* the entries that another party is working on are not among them.
LEMMA TakeKeeps ==
    ASSUME ClientInv, TypeOK', NEW x \in Caller \cup {Exiting}, NEW S \in SUBSET Holder,
           \A h \in S : owner[h] = "native" \/ owner[h] = "module",
           owner' = [h \in Holder |-> IF h \in S THEN x ELSE owner[h]],
           UNCHANGED <<state, tgid, tag, timer, inj, mine, early, stray, tmp, modLock,
                       started, armed, fails>>,
           LTypeOK', TasksSound', CallersSound'
    PROVE  ClientInv'
<1> USE DEF ClientInv
<1>1. x # "free" /\ x # "inject" /\ x # "native" /\ x # "module" /\ x # "expired"
  BY PlacesApart DEF Exiting
<1>2. \A h \in Holder : owner'[h] = IF h \in S THEN x ELSE owner[h]
  OBVIOUS
<1>3. FreeIsClean' /\ NoDuplicateModuleHolder'
  BY <1>1, <1>2 DEF FreeIsClean, NoDuplicateModuleHolder
<1>4. TimersSound'
  BY <1>1, <1>2 DEF TimersSound
<1> QED BY <1>3, <1>4

\* The restore ioctl takes the entries of a tgid off both lists and gives
\* them back.
LEMMA RestoreKeeps ==
    ASSUME ClientInv, TypeOK', NEW c \in Caller
    PROVE  /\ \A t \in Task : RestoreNative(c, t) => ClientInv'
           /\ \A h \in Holder : RestoreOne(c, h) => ClientInv'
           /\ RestoreModule(c) => ClientInv'
           /\ RestoreDone(c) => ClientInv'
<1> USE DEF ClientInv, ivars, cvars, hvars, bvars, vars
<1>0. TypeOK /\ LTypeOK
  BY DEF LTypeOK
<1>1. ASSUME NEW t \in Task, RestoreNative(c, t)
      PROVE  ClientInv'
  <2> DEFINE S == {h \in Holder : owner[h] = "native" /\ tgid[h] = t}
  <2>1. /\ call[c] = "idle"
        /\ owner' = [h \in Holder |-> IF h \in S THEN c ELSE owner[h]]
        /\ call' = [call EXCEPT ![c] = "native"]
        /\ arg' = [arg EXCEPT ![c] = t]
        /\ UNCHANGED <<state, tgid, tag, timer, inj, mine, early, stray, tmp, modLock, down,
                       started, armed, fails>>
    BY <1>1 DEF RestoreNative
  <2>2. TasksSound'
    <3>1. \A h \in Holder : owner'[h] = owner[h] \/ (owner[h] = "native" /\ owner'[h] = c)
      BY <2>1
    <3>2. call'[c] = "native" /\ \A d \in Caller : d # c => call'[d] = call[d]
      BY <2>1 DEF LTypeOK
    <3>3. ASSUME NEW s \in Task, inj[s] = "linked", mine[s] # NoHolder
          PROVE  \/ owner'[mine[s]] = "native"
                 \/ \E d \in Caller :
                       owner'[mine[s]] = d /\ call'[d] \in {"native", "module"}
      <4>1. CASE owner[mine[s]] = "native"
        BY <3>1, <3>2, <3>3, <4>1 DEF TasksSound
      <4>2. CASE owner[mine[s]] # "native"
        <5>1. PICK d \in Caller : owner[mine[s]] = d /\ call[d] \in {"native", "module"}
          BY <3>3, <4>2 DEF TasksSound
        <5>2. call'[d] = call[d]
          BY <2>1, <3>2, <5>1
        <5>3. owner'[mine[s]] = d
          BY <3>1, <3>3, <4>2, <5>1 DEF TasksSound
        <5> QED BY <5>1, <5>2, <5>3
      <4> QED BY <4>1, <4>2
    <3>4. ASSUME NEW s \in Task, inj[s] \in {"staged", "execmem"}
          PROVE  owner'[mine[s]] = "inject"
      BY <3>1, <3>4 DEF TasksSound
    <3> QED BY <2>1, <3>3, <3>4 DEF TasksSound
  <2>3. \A h \in S : owner[h] = "native" \/ owner[h] = "module"
    OBVIOUS
  <2>4. LTypeOK'
    BY <2>1 DEF LTypeOK
  <2>5. CallersSound'
    BY <2>1, PlacesApart DEF LTypeOK, CallersSound
  <2>6. S \in SUBSET Holder
    OBVIOUS
  <2> HIDE DEF S
  <2> QED BY <2>1, <2>2, <2>3, <2>4, <2>5, <2>6, TakeKeeps
<1>2. ASSUME NEW h \in Holder, RestoreOne(c, h)
      PROVE  ClientInv'
  <2>1. /\ owner[h] = c /\ call[c] \in {"native", "module"} /\ GiveBack(h)
        /\ mine' = [s \in Task |-> IF mine[s] = h THEN NoHolder ELSE mine[s]]
        /\ UNCHANGED <<inj, early, stray, cvars, down, started, armed>>
    BY <1>2 DEF RestoreOne
  <2>2. \A s \in Task : mine[s] = h => inj[s] = "linked"
    BY <2>1, PlacesApart, LoadPolicyBounds DEF LTypeOK, TasksSound
  <2>3. \A d \in Caller : tmp[d] # h
    BY <2>1, LoadPolicyBounds DEF CallersSound
  <2> QED BY <2>1, <2>2, <2>3, DrainKeeps
<1>3. ASSUME RestoreModule(c)
      PROVE  ClientInv'
  <2> DEFINE S == {h \in Holder : owner[h] = "module" /\ tgid[h] = arg[c]}
  <2>1. /\ call[c] = "native"
        /\ owner' = [h \in Holder |-> IF h \in S THEN c ELSE owner[h]]
        /\ call' = [call EXCEPT ![c] = "module"]
        /\ UNCHANGED <<state, tgid, tag, timer, inj, mine, early, stray, arg, tmp, modLock, down,
                       started, armed, fails>>
    BY <1>3 DEF RestoreModule
  <2>2. TasksSound'
    <3>1. \A h \in Holder : owner'[h] = owner[h] \/ owner[h] = "module"
      BY <2>1
    <3>2. call'[c] = "module" /\ \A d \in Caller : d # c => call'[d] = call[d]
      BY <2>1 DEF LTypeOK
    <3>3. \A x \in Caller : x # "module"
      BY PlacesApart
    <3> QED BY <2>1, <3>1, <3>2, <3>3 DEF TasksSound
  <2>3. \A h \in S : owner[h] = "native" \/ owner[h] = "module"
    OBVIOUS
  <2>4. LTypeOK'
    BY <2>1 DEF LTypeOK
  <2>5. CallersSound'
    BY <2>1, PlacesApart DEF LTypeOK, CallersSound
  <2>6. S \in SUBSET Holder
    OBVIOUS
  <2> HIDE DEF S
  <2> QED BY <2>1, <2>2, <2>3, <2>4, <2>5, <2>6, TakeKeeps
<1>4. ASSUME RestoreDone(c)
      PROVE  ClientInv'
  <2>1. /\ call[c] = "module"
        /\ call' = [call EXCEPT ![c] = "idle"]
        /\ arg' = [arg EXCEPT ![c] = NoTask]
        /\ \A h \in Holder : owner[h] # c
        /\ UNCHANGED <<state, owner, tgid, tag, timer, inj, mine, early, stray, tmp, modLock, down,
                       started, armed, fails>>
    BY <1>4 DEF RestoreDone
  <2>2. LTypeOK'
    BY <2>1 DEF LTypeOK
  <2>3. CallersSound'
    BY <2>1 DEF LTypeOK, CallersSound
  <2>4. TimersSound' /\ NoDuplicateModuleHolder' /\ FreeIsClean'
    BY <2>1 DEF TimersSound, NoDuplicateModuleHolder, FreeIsClean
  <2>5. TasksSound'
    <3>1. \A d \in Caller : d # c => call'[d] = call[d]
      BY <2>1 DEF LTypeOK
    <3> QED BY <2>1, <3>1 DEF TasksSound
  <2> QED BY <2>2, <2>3, <2>4, <2>5
<1> QED BY <1>1, <1>2, <1>3, <1>4

\* The teardown drains the module holders only after the last ioctl is gone.
LEMMA TeardownKeeps ==
    ASSUME ClientInv, TypeOK',
           ControlExit \/ ProbeExitTake \/ ExitSteps \/ HostExit
    PROVE  ClientInv'
<1> USE DEF ClientInv, ivars, cvars, hvars, bvars
<1>0. TypeOK /\ LTypeOK
  BY DEF LTypeOK
<1>1. CASE ControlExit \/ ProbeExitHook \/ HostExit
  <2>1. /\ UNCHANGED <<state, owner, tgid, tag, timer, inj, mine, early, stray, call, arg, tmp,
                       modLock, started, armed, fails>>
        /\ down' \in {"control", "probe", "host"}
    BY <1>1 DEF ControlExit, ProbeExitHook, HostExit, PolicyExit, vars
  <2>2. LTypeOK'
    BY <2>1 DEF LTypeOK
  <2>3. TasksSound' /\ CallersSound' /\ TimersSound'
    BY <2>1 DEF TasksSound, CallersSound, TimersSound
  <2>4. NoDuplicateModuleHolder' /\ FreeIsClean'
    BY <2>1 DEF NoDuplicateModuleHolder, FreeIsClean
  <2> QED BY <2>2, <2>3, <2>4
<1>2. CASE ProbeExitTake
  <2> DEFINE S == {h \in Holder : owner[h] = "module"}
  <2>1. /\ owner' = [h \in Holder |-> IF h \in S THEN Exiting ELSE owner[h]]
        /\ down' = "module"
        /\ UNCHANGED <<state, tgid, tag, timer, inj, mine, early, stray, call, arg, tmp, modLock,
                       started, armed, fails>>
    BY <1>2 DEF ProbeExitTake, vars
  <2>2. TasksSound'
    <3>1. \A h \in Holder : owner'[h] = owner[h] \/ owner[h] = "module"
      BY <2>1
    <3> QED BY <2>1, <3>1, PlacesApart DEF TasksSound
  <2>3. \A h \in S : owner[h] = "native" \/ owner[h] = "module"
    OBVIOUS
  <2>4. LTypeOK'
    BY <2>1 DEF LTypeOK, Place
  <2>5. CallersSound'
    BY <2>1, PlacesApart DEF LTypeOK, CallersSound
  <2>6. S \in SUBSET Holder
    OBVIOUS
  <2> HIDE DEF S
  <2> QED BY <2>1, <2>2, <2>3, <2>4, <2>5, <2>6, TakeKeeps
<1>3. ASSUME NEW h \in Holder, ProbeExitDrain(h)
      PROVE  ClientInv'
  <2>1. /\ owner[h] = Exiting /\ GiveBack(h)
        /\ UNCHANGED <<ivars, cvars, down, started, armed>>
    BY <1>3 DEF ProbeExitDrain
  <2>2. \A s \in Task : mine[s] # h
    BY <2>1, PlacesApart, LoadPolicyBounds DEF LTypeOK, TasksSound, Exiting
  <2>3. \A d \in Caller : tmp[d] # h
    BY <2>1, PlacesApart, LoadPolicyBounds DEF CallersSound
  <2> QED BY <1>0, <2>1, <2>2, <2>3, NobodyPoints, DrainKeeps DEF ivars
<1> QED BY <1>1, <1>2, <1>3 DEF ExitSteps

\* Every step keeps the clients in order and the ledger within its bounds.
LEMMA NextClient == FullInv /\ ClientInv /\ [LNext]_allVars => FullInv' /\ ClientInv'
<1> SUFFICES ASSUME FullInv, ClientInv, [LNext]_allVars
             PROVE  FullInv' /\ ClientInv'
  OBVIOUS
<1>1. FullInv' /\ TypeOK'
  <2>1. FullInv'
    BY ClientStep, NextFull
  <2> QED BY <2>1 DEF FullInv
<1>2. ASSUME NEW t \in Task, InjectSteps(t)
      PROVE  ClientInv'
  BY <1>1, <1>2, InjectKeeps, PublishKeeps DEF InjectSteps
<1>3. ASSUME NEW c \in Caller, CallerSteps(c)
      PROVE  ClientInv'
  BY <1>1, <1>3, ModuleKeeps, RestoreKeeps DEF CallerSteps
<1>4. CASE UNCHANGED allVars
  <2>1. UNCHANGED <<state, owner, tgid, tag, timer, inj, mine, early, stray, call, arg, tmp,
                    modLock, down, started, armed, fails>>
    BY <1>4 DEF allVars, vars, hvars, ivars, cvars, bvars
  <2> QED BY <1>1, <2>1 DEF ClientInv, LTypeOK, TasksSound, CallersSound, TimersSound,
                            NoDuplicateModuleHolder, FreeIsClean
<1>5. CASE LNext
  BY <1>1, <1>2, <1>3, <1>5, InjectKeeps, TimeoutKeeps, ModuleKeeps, RestoreKeeps,
     TeardownKeeps DEF LNext
<1> QED BY <1>1, <1>4, <1>5

\* Initially every struct is free.
LEMMA InitClient == LInit => FullInv /\ ClientInv
<1> SUFFICES ASSUME LInit PROVE FullInv /\ ClientInv
  OBVIOUS
<1>1. FullInv
  BY InitFull DEF LInit
<1>2. LTypeOK
  <2>1. stray \in BOOLEAN
    BY DEF LInit
  <2> QED BY <1>1, <2>1, PlacesApart, LoadPolicyBounds
          DEF LInit, FullInv, LTypeOK, Place, NoAv, Av
<1>3. TasksSound /\ CallersSound
  BY LoadPolicyBounds DEF LInit, TasksSound, CallersSound
<1>4. FreeIsClean /\ TimersSound /\ NoDuplicateModuleHolder
  BY DEF LInit, Init, FreeIsClean, TimersSound, NoDuplicateModuleHolder
<1> QED BY <1>1, <1>2, <1>3, <1>4 DEF ClientInv

\* The probe, the ioctls, the timeouts and the teardown use the ledger only
\* through the operations of policy_temp.h: the composed system implements
\* the ledger.
THEOREM ClientsUseLedger == LSpec => Spec
<1>1. LInit => Init
  BY DEF LInit
<1> QED BY <1>1, InitClient, NextClient, ClientStep, PTL DEF LSpec, Spec

\* Whatever the order of injections, ioctls, timeouts and teardown, every
\* struct of allowances has one owner, gives back what it took, and has a
\* timeout exactly while it needs one, for any number of tasks and callers.
THEOREM HoldersAlwaysSound == LSpec => []HoldersSound
<1>1. ClientInv => HoldersSound
  <2> SUFFICES ASSUME ClientInv PROVE SingleOwner
    BY DEF ClientInv, HoldersSound
  <2>1. \A t \in Task : mine[t] # NoHolder =>
                          owner[mine[t]] \in {"inject", "native"} \cup Caller
    BY DEF ClientInv, TasksSound, LTypeOK
  <2>2. \A c \in Caller : tmp[c] # NoHolder => owner[tmp[c]] = c
    BY DEF ClientInv, CallersSound
  <2> QED BY <2>1, <2>2 DEF ClientInv, SingleOwner, FreeIsClean, TasksSound
<1> QED BY <1>1, InitClient, NextClient, PTL DEF LSpec

\* The composed system keeps the promises of the ledger: with a rule for every
\* key, counters and policy are exact and promised permissions stay.
THEOREM ClientsKeepLedgerExact ==
    ASSUME RulesSuffice
    PROVE  LSpec => [](RefsExact /\ PolicyExact /\ PromisesKept)
BY ClientsUseLedger, CountersExact, LivePolicyExact, PromisesAlwaysKept, PTL

-----------------------------------------------------------------------------
(* Allowances are temporary, as long as no early module is staged through  *)
(* the struct of the injection.                                            *)

\* While the backend is up and no policy edit failed, no reference is lost.
NothingLost ==
    (ready /\ fails = 0) => \A k \in Key, p \in Perm : leaked[k][p] = 0

\* Wiping a clean struct loses nothing.
LEMMA CleanWipe ==
    ASSUME TypeOK, NEW h \in Holder, state[h] = NoAv
    PROVE  Leak(h) = leaked
BY DEF Leak, NoAv, TypeOK

\* Without early modules a struct is only wiped when it is clean or when its
\* restore failed.
LEMMA NextLost ==
    ASSUME EarlyMax = 0
    PROVE  ClientInv /\ NothingLost /\ [LNext]_allVars => NothingLost'
<1> SUFFICES ASSUME ClientInv, NothingLost, [LNext]_allVars, ready', fails' = 0
             PROVE  \A k \in Key, p \in Perm : leaked'[k][p] = 0
  BY DEF NothingLost
<1>0. TypeOK /\ LTypeOK /\ fails \in Nat
  BY DEF ClientInv, LTypeOK
<1> SUFFICES ready /\ fails = 0 /\ leaked' = leaked
  BY DEF NothingLost
<1>1. \A t \in Task : early[t] = 0
  BY <1>0 DEF LTypeOK
<1>2. ASSUME NEW h \in Holder, GiveBack(h)
      PROVE  ready /\ fails = 0 /\ leaked' = leaked
  <2>1. fails' # fails + 1
    BY <1>0
  <2>2. CASE Restore(h) /\ UNCHANGED fails
    BY <2>2 DEF Restore
  <2>3. CASE ~ready /\ RestoreFails(h)
    BY <2>3 DEF RestoreFails
  <2> QED BY <1>2, <2>1, <2>2, <2>3 DEF GiveBack
<1>3. ASSUME NEW h \in Holder, owner[h] = "free",
             AllowFileFails(h) \/ \E req \in FileReq : AllowFile(h, req)
      PROVE  ready /\ leaked' = leaked
  <2>1. Leak(h) = leaked
    BY <1>0, <1>3, CleanWipe DEF ClientInv, FreeIsClean
  <2>2. ready /\ leaked' = Leak(h)
    BY <1>3 DEF AllowFile, AllowFileFails
  <2> QED BY <2>1, <2>2
<1>4. ASSUME NEW t \in Task, NEW h \in Holder, InjectStage(t, h)
      PROVE  ready /\ fails = 0 /\ leaked' = leaked
  BY <1>3, <1>4 DEF InjectStage
<1>5. ASSUME NEW t \in Task, InjectEarly(t) \/ InjectEarlyUndo(t)
      PROVE  FALSE
  BY <1>1, <1>5 DEF InjectEarly, InjectEarlyUndo
<1>6. ASSUME NEW t \in Task, InjectSteps(t)
      PROVE  ready /\ fails = 0 /\ leaked' = leaked
  <2>1. inj[t] \in {"staged", "execmem"} => mine[t] \in Holder
    BY DEF ClientInv, TasksSound
  <2>2. CASE InjectExecmem(t) \/ PublishArm(t) \/ PublishDone(t)
    BY <2>2 DEF InjectExecmem, AllowExecmem, PublishArm, PublishDone, vars, bvars
  <2>3. CASE InjectAbort(t) \/ \E g \in Holder : PublishDrain(t, g)
    BY <1>2, <2>1, <2>3 DEF InjectAbort, PublishDrain
  <2>4. CASE PublishLink(t)
    BY <1>2, <2>1, <2>4 DEF PublishLink, vars
  <2> QED BY <1>6, <2>2, <2>3, <2>4 DEF InjectSteps
<1>7. ASSUME NEW h \in Holder, TimeoutSteps(h)
      PROVE  ready /\ fails = 0 /\ leaked' = leaked
  BY <1>2, <1>7 DEF TimeoutSteps, TimerFires, TimeoutTake, TimeoutRestore, vars, bvars
<1>8. ASSUME NEW c \in Caller, NEW t \in Task, NEW h \in Holder, ModuleAllow(c, t, h)
      PROVE  ready /\ fails = 0 /\ leaked' = leaked
  BY <1>3, <1>8 DEF ModuleAllow
<1>9. ASSUME NEW c \in Caller, NEW t \in Task, RestoreNative(c, t)
      PROVE  ready /\ fails = 0 /\ leaked' = leaked
  BY <1>9 DEF RestoreNative, vars, bvars
<1>10. ASSUME NEW c \in Caller, CallerSteps(c)
       PROVE  ready /\ fails = 0 /\ leaked' = leaked
  <2>1. call[c] \in {"execmem", "link"} => tmp[c] \in Holder
    BY DEF ClientInv, CallersSound
  <2>2. CASE ModuleExecmem(c) \/ ModuleLink(c) \/ RestoreModule(c) \/ RestoreDone(c)
    BY <2>2 DEF ModuleExecmem, AllowExecmem, ModuleLink, RestoreModule, RestoreDone, vars, bvars
  <2>3. CASE ModuleRollback(c) \/ ModuleDuplicate(c) \/ \E h \in Holder : RestoreOne(c, h)
    BY <1>2, <2>1, <2>3 DEF ModuleRollback, ModuleDuplicate, RestoreOne
  <2> QED BY <1>10, <2>2, <2>3 DEF CallerSteps
<1>11. CASE ControlExit \/ ProbeExitTake \/ ProbeExitHook \/ UNCHANGED allVars
  BY <1>11 DEF ControlExit, ProbeExitTake, ProbeExitHook, allVars, vars, bvars
<1>12. ASSUME NEW h \in Holder, ProbeExitDrain(h)
       PROVE  ready /\ fails = 0 /\ leaked' = leaked
  BY <1>2, <1>12 DEF ProbeExitDrain
<1>13. ~HostExit
  BY DEF HostExit, PolicyExit
<1> QED BY <1>4, <1>5, <1>6, <1>7, <1>8, <1>9, <1>10, <1>11, <1>12, <1>13
        DEF LNext, ExitSteps

\* With a rule for every key and no early native modules, once every struct is
\* free again the live policy is the loaded one, whichever of abort, publish,
\* restore ioctl, timeout and teardown gave the structs back.  With early
\* modules it is not: zp_stage_fd wipes the struct of the loader.
THEOREM AllowancesReturned ==
    ASSUME RulesSuffice, EarlyMax = 0
    PROVE  LSpec => []AllowancesTemporary
<1>1. LInit => NothingLost
  BY DEF LInit, Init, NothingLost
<1>2. LedgerInv /\ FreeIsClean /\ NothingLost => AllowancesTemporary
  <2> SUFFICES ASSUME LedgerInv, FreeIsClean, NothingLost, ready, Quiet, fails = 0
               PROVE  policy = Base
    BY DEF AllowancesTemporary
  <2>1. \A k \in Key, p \in Perm : Owners(k, p) = {}
    BY DEF FreeIsClean, Quiet, Owners, NoAv
  <2>2. \A k \in Key, p \in Perm : refs[k][p] = 0
    <3>1. \A k \in Key, p \in Perm : Cardinality(Owners(k, p)) = 0 /\ leaked[k][p] = 0
      BY <2>1, FS_EmptySet DEF NothingLost
    <3>2. \A k \in Key, p \in Perm :
             refs[k][p] = Cardinality(Owners(k, p)) + leaked[k][p]
      BY DEF LedgerInv, RefsExact
    <3> QED BY <3>1, <3>2
  <2>3. \A k \in Key : Mask(k) = {}
    BY <2>2 DEF Mask
  <2>4. \A k \in Key : policy[k] = Base[k]
    BY <2>3 DEF LedgerInv, PolicyExact
  <2> QED BY <2>4, BaseType DEF LedgerInv, TypeOK, Av
<1>3. ClientInv => FreeIsClean
  BY DEF ClientInv
<1>4. Spec => []LedgerInv
  BY LedgerCorrect
<1>5. ClientInv /\ NothingLost /\ [LNext]_allVars => NothingLost'
  BY NextLost
<1> QED BY <1>1, <1>2, <1>3, <1>4, <1>5, ClientsUseLedger, InitClient, NextClient, PTL
        DEF LSpec
=============================================================================
