-------------------------- MODULE SchedulerProofs ---------------------------
(***************************************************************************)
(* Theorems about SchedulerService, for every finite set of instances,     *)
(* every time to live and renewal interval, and every bound.               *)
(***************************************************************************)
EXTENDS SchedulerService, FiniteSetTheorems, TLAPS

(***************************************************************************)
(* Types                                                                   *)
(***************************************************************************)

LEMMA InitTypeOK == Init => TypeOK
BY SchedulerAssumption DEF Init, TypeOK, Locations

LEMMA FiniteSubsets ==
    ASSUME NEW S \in SUBSET Instances
    PROVE  IsFiniteSet(S) /\ Cardinality(S) \in Nat
BY SchedulerAssumption, FS_Subset, FS_CardinalityType

LEMMA OverrunningSize ==
    IsFiniteSet(Overrunning) /\ Cardinality(Overrunning) \in Nat
BY FiniteSubsets DEF Overrunning

LEMMA NextTypeOK == TypeOK /\ [Next]_vars => TypeOK'
<1> SUFFICES ASSUME TypeOK, [Next]_vars
             PROVE  TypeOK'
  OBVIOUS
<1> USE SchedulerAssumption DEF TypeOK, Locations, Slots, boundVars, jobVars
<1>1. ASSUME NEW s \in Instances, Start(s)
      PROVE  TypeOK'
  BY <1>1 DEF Start, Goto
<1>2. ASSUME NEW s \in Instances, Acquire(s)
      PROVE  TypeOK'
  <2>1. ttl' \in 0..LockTTL /\ due' \in [Instances -> 0..MaxSlots]
    BY <1>2 DEF Acquire, FirstDue
  <2>2. pc' \in [Instances -> Locations] /\ slept' \in [Instances -> 0..LockTTL]
    BY <1>2 DEF Acquire, Goto
  <2>3. QED
    BY <1>2, <2>1, <2>2 DEF Acquire
<1>3. ASSUME NEW s \in Instances, Decline(s)
      PROVE  TypeOK'
  BY <1>3 DEF Decline, Goto
<1>4. ASSUME NEW s \in Instances, Renew(s)
      PROVE  TypeOK'
  BY <1>4 DEF Renew
<1>5. ASSUME NEW s \in Instances, RenewFails(s)
      PROVE  TypeOK'
  BY <1>5 DEF RenewFails
<1>6. ASSUME NEW s \in Instances, Stop(s)
      PROVE  TypeOK'
  BY <1>6 DEF Stop, Goto
<1>7. ASSUME NEW s \in Instances, Release(s)
      PROVE  TypeOK'
  BY <1>7 DEF Release, Goto, Gone
<1>8. ASSUME NEW s \in Instances, ReleaseFails(s)
      PROVE  TypeOK'
  BY <1>8 DEF ReleaseFails, Goto, Gone
<1>9. ASSUME NEW s \in Instances, Kill(s)
      PROVE  TypeOK'
  BY <1>9 DEF Kill, Goto, Gone
<1>10. ASSUME Tick
       PROVE  TypeOK'
  <2>1. overruns' \in 0..MaxOverruns
    BY <1>10, OverrunningSize DEF Tick
  <2>2. ttl' \in 0..LockTTL
    BY <1>10 DEF Tick, AfterTick
  <2>3. slept' \in [Instances -> 0..LockTTL]
    BY <1>10 DEF Tick
  <2>4. QED
    BY <1>10, <2>1, <2>2, <2>3 DEF Tick
<1>11. ASSUME Evict
       PROVE  TypeOK'
  BY <1>11 DEF Evict
<1>12. ASSUME NextSlot
       PROVE  TypeOK'
  BY <1>12 DEF NextSlot
<1>13. ASSUME NEW s \in Instances, PushJob(s)
       PROVE  TypeOK'
  BY <1>13 DEF PushJob
<1>14. ASSUME NEW s \in Instances, Misfire(s)
       PROVE  TypeOK'
  BY <1>14 DEF Misfire
<1>15. ASSUME NEW p \in pushing, DoPush(p)
       PROVE  TypeOK'
  <2>1. p[2] \in Slots
    OBVIOUS
  <2>2. pushed' \in [Slots -> Nat]
    BY <1>15, <2>1 DEF DoPush
  <2>3. QED
    BY <1>15, <2>2 DEF DoPush
<1>16. ASSUME NEW p \in pushing, DoPushFails(p)
       PROVE  TypeOK'
  <2>1. faults' \in 0..MaxFaults
    BY <1>16 DEF DoPushFails
  <2>2. QED
    BY <1>16, <2>1 DEF DoPushFails
<1>17. CASE UNCHANGED vars
  BY <1>17 DEF vars
<1>18. QED
  BY <1>1, <1>2, <1>3, <1>4, <1>5, <1>6, <1>7, <1>8, <1>9, <1>10, <1>11,
     <1>12, <1>13, <1>14, <1>15, <1>16, <1>17 DEF Next, Progress, Job

\* Every variable keeps its type, whatever the instances, the bounds and the
\* time to live are.
THEOREM TypeCorrect == Spec => []TypeOK
BY InitTypeOK, NextTypeOK, PTL DEF Spec

(***************************************************************************)
(* Few schedulers.  A holder is good when the key outlives its sleep.  The *)
(* holders that are not good, and the holders beyond the one the key       *)
(* admits, were each paid for by a disturbance.                            *)
(***************************************************************************)
Good(s) == slept[s] < LockTTL /\ ttl + slept[s] >= LockTTL
Bad == {s \in Holders : ~Good(s)}
Key == IF ttl > 0 THEN 1 ELSE 0

HoldersPaid ==
    /\ Cardinality(Holders) <= Disturbances + Key
    /\ Cardinality(Bad) <= Disturbances

LEMMA SubsetSize ==
    ASSUME NEW S \in SUBSET Instances, NEW T \in SUBSET S
    PROVE  Cardinality(T) <= Cardinality(S)
BY FiniteSubsets, FS_Subset

LEMMA AddOne ==
    ASSUME NEW S \in SUBSET Instances, NEW x \in Instances,
           NEW T \in SUBSET (S \cup {x})
    PROVE  Cardinality(T) <= Cardinality(S) + 1
<1>1. IsFiniteSet(S) /\ Cardinality(S) \in Nat
  BY FiniteSubsets
<1>2. Cardinality(S \cup {x}) <= Cardinality(S) + 1
  BY <1>1, FS_AddElement
<1>3. Cardinality(T) <= Cardinality(S \cup {x})
  BY SubsetSize
<1>4. Cardinality(S \cup {x}) \in Nat /\ Cardinality(T) \in Nat
  BY FiniteSubsets
<1>5. QED
  BY <1>1, <1>2, <1>3, <1>4

LEMMA RemoveOne ==
    ASSUME NEW S \in SUBSET Instances, NEW x \in S
    PROVE  Cardinality(S \ {x}) = Cardinality(S) - 1
BY FiniteSubsets, FS_RemoveElement

LEMMA UnionSize ==
    ASSUME NEW S \in SUBSET Instances, NEW T \in SUBSET Instances,
           NEW U \in SUBSET (S \cup T)
    PROVE  Cardinality(U) <= Cardinality(S) + Cardinality(T)
<1>1. Cardinality(S) \in Nat /\ Cardinality(T) \in Nat /\ Cardinality(S \cap T) \in Nat
  BY FiniteSubsets
<1>2. Cardinality(S \cup T) = Cardinality(S) + Cardinality(T) - Cardinality(S \cap T)
  BY FiniteSubsets, FS_Union
<1>3. Cardinality(U) <= Cardinality(S \cup T) /\ Cardinality(U) \in Nat
  BY SubsetSize, FiniteSubsets
<1>4. QED
  BY <1>1, <1>2, <1>3

LEMMA HolderSets ==
    /\ Holders \in SUBSET Instances /\ Bad \in SUBSET Holders
    /\ Overrunning \in SUBSET Holders
    /\ Cardinality(Holders) \in Nat /\ Cardinality(Bad) \in Nat
BY FiniteSubsets DEF Holders, Bad, Overrunning

LEMMA HolderSetsAfter ==
    /\ Holders' \in SUBSET Instances /\ Bad' \in SUBSET Holders'
    /\ Cardinality(Holders') \in Nat /\ Cardinality(Bad') \in Nat
<1>1. Holders' \in SUBSET Instances /\ Bad' \in SUBSET Holders'
  BY DEF Holders, Bad
<1>2. QED
  BY <1>1, FiniteSubsets

LEMMA InitHoldersPaid == Init => HoldersPaid
<1> SUFFICES ASSUME Init
             PROVE  HoldersPaid
  OBVIOUS
<1>1. Holders = {} /\ Bad = {}
  BY DEF Init, Holders, Bad, Holding
<1>2. Disturbances = 0 /\ Key = 0
  BY DEF Init, Disturbances, Key
<1>3. QED
  BY <1>1, <1>2, FS_EmptySet DEF HoldersPaid

LEMMA DisturbancesType == TypeOK => Disturbances \in Nat
BY SchedulerAssumption DEF TypeOK, Disturbances

LEMMA DisturbancesTypeAfter == TypeOK' => Disturbances' \in Nat
<1>1. TypeOK' => faults' \in Nat /\ evictions' \in Nat /\ overruns' \in Nat
  BY SchedulerAssumption DEF TypeOK
<1>2. \A a, b, c \in Nat : a + b + c \in Nat
  OBVIOUS
<1>3. Disturbances' = faults' + evictions' + overruns'
  BY DEF Disturbances
<1>4. QED
  BY <1>1, <1>2, <1>3

\* A step that changes no key, no sleep and no disturbance, and adds no holder.
LEMMA HoldersQuiet ==
    ASSUME TypeOK, HoldersPaid, Holders' \subseteq Holders,
           slept' = slept, ttl' = ttl,
           Disturbances' \in Nat, Disturbances' >= Disturbances
    PROVE  HoldersPaid'
<1>1. Bad' \subseteq Bad
  BY DEF Bad, Good
<1>2. Cardinality(Holders') <= Cardinality(Holders) /\ Cardinality(Bad') <= Cardinality(Bad)
  BY <1>1, HolderSets, SubsetSize
<1>3. Key' = Key /\ Key \in Nat
  BY DEF Key
<1>4. Disturbances \in Nat
  BY DEF TypeOK, Disturbances
<1>5. QED
  BY <1>2, <1>3, <1>4, HolderSets, HolderSetsAfter DEF HoldersPaid

LEMMA NextHoldersPaid == TypeOK /\ HoldersPaid /\ [Next]_vars => HoldersPaid'
<1> SUFFICES ASSUME TypeOK, HoldersPaid, [Next]_vars
             PROVE  HoldersPaid'
  OBVIOUS
<1> USE SchedulerAssumption, HolderSets, HolderSetsAfter
<1>t. TypeOK'
  BY NextTypeOK
<1>d. Disturbances \in Nat /\ Disturbances' \in Nat
  BY <1>t, DisturbancesType, DisturbancesTypeAfter
<1>k. ttl \in Nat /\ ttl' \in Nat /\ slept \in [Instances -> 0..LockTTL]
  BY <1>t DEF TypeOK
<1>1. ASSUME NEW s \in Instances, Start(s)
      PROVE  HoldersPaid'
  <2>1. Holders' \subseteq Holders
    BY <1>1 DEF Start, Goto, Holders, Holding, TypeOK
  <2>2. QED
    BY <1>1, <1>d, <2>1, HoldersQuiet DEF Start, Disturbances, boundVars
<1>2. ASSUME NEW s \in Instances, Acquire(s)
      PROVE  HoldersPaid'
  <2>1. ttl = 0 /\ ttl' = LockTTL /\ Disturbances' = Disturbances
    BY <1>2 DEF Acquire, Free, Disturbances, boundVars
  <2>2. Holders' \subseteq Holders \cup {s}
    BY <1>2 DEF Acquire, Goto, Holders, Holding, TypeOK
  <2>3. Bad' \subseteq Bad
    <3> SUFFICES ASSUME NEW u \in Bad'
                 PROVE  u \in Bad
      OBVIOUS
    <3>1. u \in Instances /\ u \in Holders'
      OBVIOUS
    <3>2. ~(slept'[u] < LockTTL /\ ttl' + slept'[u] >= LockTTL)
      BY DEF Bad, Good
    <3>3. slept'[u] \in 0..LockTTL
      BY <1>t, <3>1 DEF TypeOK
    <3>4. slept'[u] = LockTTL
      BY <2>1, <3>2, <3>3
    <3>5. u # s /\ slept[u] = LockTTL
      BY <1>2, <1>k, <3>1, <3>4 DEF Acquire
    <3>6. QED
      BY <2>2, <3>1, <3>5 DEF Bad, Good
  <2>4. Cardinality(Holders') <= Cardinality(Holders) + 1
    BY <2>2, AddOne
  <2>5. Cardinality(Bad') <= Cardinality(Bad)
    BY <2>3, SubsetSize
  <2>6. Key = 0 /\ Key' = 1
    BY <2>1 DEF Key
  <2>7. QED
    BY <1>d, <2>1, <2>4, <2>5, <2>6 DEF HoldersPaid
<1>3. ASSUME NEW s \in Instances, Decline(s)
      PROVE  HoldersPaid'
  <2>1. Holders' \subseteq Holders
    BY <1>3 DEF Decline, Goto, Holders, Holding, TypeOK
  <2>2. QED
    BY <1>3, <1>d, <2>1, HoldersQuiet DEF Decline, Disturbances, boundVars
<1>4. ASSUME NEW s \in Instances, Renew(s)
      PROVE  HoldersPaid'
  <2>1. Holders' = Holders /\ Disturbances' = Disturbances /\ Key' = Key
    BY <1>4, <1>k DEF Renew, Holders, Holding, Disturbances, boundVars, Key
  <2>2. Bad' \subseteq Bad
    <3> SUFFICES ASSUME NEW u \in Bad'
                 PROVE  u \in Bad
      OBVIOUS
    <3>1. u \in Holders /\ u \in Instances
      BY <2>1
    <3>2. ~(slept'[u] < LockTTL /\ ttl' + slept'[u] >= LockTTL)
      BY DEF Bad, Good
    <3>3. slept'[u] = IF u = s THEN 0 ELSE slept[u]
      BY <1>4, <1>k, <3>1 DEF Renew
    <3>4. ttl' = IF ttl > 0 THEN LockTTL ELSE 0
      BY <1>4 DEF Renew
    <3>5. slept[u] \in 0..LockTTL
      BY <1>k, <3>1
    <3>6. ~(slept[u] < LockTTL /\ ttl + slept[u] >= LockTTL)
      BY <1>k, <3>2, <3>3, <3>4, <3>5
    <3>7. QED
      BY <3>1, <3>6 DEF Bad, Good
  <2>3. Cardinality(Bad') <= Cardinality(Bad)
    BY <2>2, SubsetSize
  <2>4. QED
    BY <1>d, <2>1, <2>3 DEF HoldersPaid
<1>5. ASSUME NEW s \in Instances, RenewFails(s)
      PROVE  HoldersPaid'
  <2>1. Holders' = Holders /\ Disturbances' = Disturbances + 1 /\ Key' = Key
    BY <1>5, <1>k DEF RenewFails, Holders, Holding, Disturbances, Key, TypeOK
  <2>2. Bad' \subseteq Bad \cup {s}
    BY <1>5, <1>k, <2>1 DEF RenewFails, Bad, Good
  <2>3. Cardinality(Bad') <= Cardinality(Bad) + 1
    BY <2>2, AddOne
  <2>4. Key \in Nat
    BY DEF Key
  <2>5. QED
    BY <1>d, <2>1, <2>3, <2>4 DEF HoldersPaid
<1>6. ASSUME NEW s \in Instances, Stop(s)
      PROVE  HoldersPaid'
  <2>1. Holders' \subseteq Holders
    BY <1>6 DEF Stop, Goto, Holders, Holding, TypeOK
  <2>2. Disturbances' = Disturbances
    BY <1>6 DEF Stop, Disturbances
  <2>3. QED
    BY <1>6, <1>d, <2>1, <2>2, HoldersQuiet DEF Stop
<1>7. ASSUME NEW s \in Instances, Release(s)
      PROVE  HoldersPaid'
  <2>1. s \in Holders /\ Holders' \subseteq Holders \ {s}
    BY <1>7 DEF Release, Goto, Holders, Holding, TypeOK
  <2>2. Disturbances' = Disturbances /\ Key' = 0
    BY <1>7 DEF Release, Disturbances, boundVars, Key
  <2>3. Cardinality(Holders') <= Cardinality(Holders) - 1
    <3>1. Cardinality(Holders \ {s}) = Cardinality(Holders) - 1
      BY <2>1, RemoveOne
    <3>2. Holders \ {s} \in SUBSET Instances
      OBVIOUS
    <3>3. QED
      BY <2>1, <3>1, <3>2, SubsetSize
  <2>4. Cardinality(Bad') <= Cardinality(Holders')
    BY SubsetSize
  <2>5. Key <= 1 /\ Key \in Nat
    BY DEF Key
  <2>6. QED
    BY <1>d, <2>2, <2>3, <2>4, <2>5 DEF HoldersPaid
<1>8. ASSUME NEW s \in Instances, ReleaseFails(s)
      PROVE  HoldersPaid'
  <2>1. Holders' \subseteq Holders
    BY <1>8 DEF ReleaseFails, Goto, Holders, Holding, TypeOK
  <2>2. Disturbances' = Disturbances + 1
    BY <1>8 DEF ReleaseFails, Disturbances, TypeOK
  <2>3. QED
    BY <1>8, <1>d, <2>1, <2>2, HoldersQuiet DEF ReleaseFails
<1>9. ASSUME NEW s \in Instances, Kill(s)
      PROVE  HoldersPaid'
  <2>1. Holders' \subseteq Holders
    BY <1>9 DEF Kill, Goto, Holders, Holding, TypeOK
  <2>2. Disturbances' = Disturbances
    BY <1>9 DEF Kill, Disturbances
  <2>3. QED
    BY <1>9, <1>d, <2>1, <2>2, HoldersQuiet DEF Kill
<1>10. ASSUME Tick
       PROVE  HoldersPaid'
  <2> DEFINE n == Cardinality(Overrunning)
  <2>1. n \in Nat
    BY OverrunningSize
  <2>2. Holders' = Holders
    BY <1>10 DEF Tick, Holders, Holding
  <2>3. Disturbances' = Disturbances + n
    BY <1>10, <2>1 DEF Tick, Disturbances, TypeOK
  <2>4. \A u \in Holders \ Overrunning : u \notin Bad =>
           /\ slept[u] < LockTTL - 1 /\ ttl + slept[u] >= LockTTL /\ ttl > 1
           /\ slept'[u] = slept[u] + 1 /\ ttl' = ttl - 1
    BY <1>10, <1>k DEF Tick, AfterTick, Bad, Good, Overrunning, Holders
  <2>5. Bad' \subseteq Bad \cup Overrunning
    <3> SUFFICES ASSUME NEW u \in Holders, u \notin Bad, u \notin Overrunning
                 PROVE  u \notin Bad'
      BY <2>2
    <3>1. slept'[u] < LockTTL /\ ttl' + slept'[u] >= LockTTL
      BY <1>k, <2>4
    <3>2. QED
      BY <3>1 DEF Bad, Good
  <2>6. Cardinality(Bad') <= Cardinality(Bad) + n
    BY <2>5, UnionSize
  <2>7. Cardinality(Holders') <= Disturbances' + Key'
    <3>1. CASE Key' >= Key
      BY <1>d, <2>1, <2>2, <2>3, <3>1 DEF HoldersPaid, Key
    <3>2. CASE ~(Key' >= Key)
      <4>1. ttl > 0 /\ ttl' = 0 /\ Key' = 0
        BY <1>k, <3>2 DEF Key
      <4>2. Holders \subseteq Bad \cup Overrunning
        BY <1>k, <2>4, <4>1
      <4>3. Cardinality(Holders) <= Cardinality(Bad) + n
        BY <4>2, UnionSize
      <4>4. QED
        BY <1>d, <2>1, <2>2, <2>3, <4>1, <4>3 DEF HoldersPaid
    <3>3. QED
      BY <3>1, <3>2
  <2>8. QED
    BY <1>d, <2>1, <2>3, <2>6, <2>7 DEF HoldersPaid
<1>11. ASSUME Evict
       PROVE  HoldersPaid'
  <2>1. Holders' = Holders /\ Disturbances' = Disturbances + 1
    BY <1>11 DEF Evict, Holders, Holding, Disturbances, TypeOK
  <2>2. Key <= 1 /\ Key \in Nat /\ Key' = 0
    BY <1>11 DEF Key, Evict
  <2>3. Cardinality(Bad') <= Cardinality(Holders')
    BY SubsetSize
  <2>4. QED
    BY <1>d, <2>1, <2>2, <2>3 DEF HoldersPaid
<1>12. ASSUME \/ NextSlot
              \/ \E s \in Instances : PushJob(s) \/ Misfire(s)
              \/ \E p \in pushing : DoPush(p) \/ DoPushFails(p)
              \/ UNCHANGED vars
       PROVE  HoldersPaid'
  <2>0. /\ pc' = pc /\ slept' = slept /\ ttl' = ttl
        /\ evictions' = evictions /\ overruns' = overruns
        /\ faults' = faults \/ faults' = faults + 1
    BY <1>12 DEF NextSlot, PushJob, Misfire, DoPush, DoPushFails, vars, boundVars
  <2>1. Disturbances' >= Disturbances
    BY <2>0 DEF Disturbances, TypeOK
  <2>2. Holders' \subseteq Holders
    BY <2>0 DEF Holders, Holding
  <2>3. QED
    BY <1>d, <2>0, <2>1, <2>2, HoldersQuiet
<1>13. QED
  BY <1>1, <1>2, <1>3, <1>4, <1>5, <1>6, <1>7, <1>8, <1>9, <1>10, <1>11,
     <1>12 DEF Next, Progress, Job

\* The number of instances that hold the lock, or believe they do, exceeds one
\* by at most the number of disturbances: however many instances compete, stop
\* and are killed, and although renewals and releases hit keys of others.
THEOREM FewHolders == Spec => []FewSchedulers
<1>1. TypeOK /\ HoldersPaid => FewSchedulers
  <2> SUFFICES ASSUME TypeOK, HoldersPaid
               PROVE  FewSchedulers
    OBVIOUS
  <2>1. Disturbances \in Nat /\ Key <= 1 /\ Key \in Nat
    BY DEF TypeOK, Disturbances, Key
  <2>2. QED
    BY <2>1, HolderSets DEF HoldersPaid, FewSchedulers
<1>2. QED
  BY <1>1, InitTypeOK, InitHoldersPaid, NextTypeOK, NextHoldersPaid, PTL DEF Spec

(***************************************************************************)
(* Few runs.  An instance that owes a run, a publication that is pending   *)
(* and one that was made all go back to an instance that held the lock     *)
(* when the run's time came.                                               *)
(***************************************************************************)
Owing(k) == {s \in Instances : due[s] = k}
PendingBy(k) == {s \in Instances : <<s, k>> \in pushing}

RunsPaid ==
    \A k \in Slots :
        /\ Cardinality(Owing(k)) + Cardinality(PendingBy(k)) + pushed[k]
              <= 1 + Disturbances
        /\ k > slot => Owing(k) = {} /\ PendingBy(k) = {} /\ pushed[k] = 0

LEMMA RunSets ==
    ASSUME NEW k \in Slots
    PROVE  /\ Owing(k) \in SUBSET Instances /\ PendingBy(k) \in SUBSET Instances
           /\ Cardinality(Owing(k)) \in Nat /\ Cardinality(PendingBy(k)) \in Nat
BY FiniteSubsets DEF Owing, PendingBy

LEMMA RunSetsAfter ==
    ASSUME NEW k \in Slots
    PROVE  /\ Owing(k)' \in SUBSET Instances /\ PendingBy(k)' \in SUBSET Instances
           /\ Cardinality(Owing(k)') \in Nat /\ Cardinality(PendingBy(k)') \in Nat
<1>1. Owing(k)' \in SUBSET Instances /\ PendingBy(k)' \in SUBSET Instances
  BY DEF Owing, PendingBy
<1>2. QED
  BY <1>1, FiniteSubsets

LEMMA InitRunsPaid == Init => RunsPaid
<1> SUFFICES ASSUME Init, NEW k \in Slots
             PROVE  /\ Owing(k) = {} /\ PendingBy(k) = {} /\ pushed[k] = 0
                    /\ Disturbances = 0
  BY FS_EmptySet DEF RunsPaid
<1>1. QED
  BY SchedulerAssumption DEF Init, Owing, PendingBy, Slots, Disturbances

\* A step that only takes away runs that are owed or pending.
LEMMA RunsQuiet ==
    ASSUME TypeOK, TypeOK', RunsPaid,
           \A k \in Slots : Owing(k)' \subseteq Owing(k) /\ PendingBy(k)' \subseteq PendingBy(k),
           pushed' = pushed, slot' = slot, Disturbances' >= Disturbances
    PROVE  RunsPaid'
<1> SUFFICES ASSUME NEW k \in Slots
             PROVE  /\ Cardinality(Owing(k)') + Cardinality(PendingBy(k)') + pushed'[k]
                          <= 1 + Disturbances'
                    /\ k > slot' => Owing(k)' = {} /\ PendingBy(k)' = {} /\ pushed'[k] = 0
  BY DEF RunsPaid
<1>1. /\ Cardinality(Owing(k)') <= Cardinality(Owing(k))
      /\ Cardinality(PendingBy(k)') <= Cardinality(PendingBy(k))
  BY RunSets, SubsetSize
<1>2. Disturbances \in Nat /\ Disturbances' \in Nat /\ pushed[k] \in Nat
  BY DisturbancesType, DisturbancesTypeAfter DEF TypeOK
<1>3. Cardinality(Owing(k)) + Cardinality(PendingBy(k)) + pushed[k] <= 1 + Disturbances
  BY DEF RunsPaid
<1>4. Cardinality(Owing(k)') + Cardinality(PendingBy(k)') + pushed'[k] <= 1 + Disturbances'
  BY <1>1, <1>2, <1>3, RunSets, RunSetsAfter
<1>5. k > slot' => Owing(k)' = {} /\ PendingBy(k)' = {} /\ pushed'[k] = 0
  BY DEF RunsPaid
<1>6. QED
  BY <1>4, <1>5

LEMMA NextRunsPaid == TypeOK /\ HoldersPaid /\ RunsPaid /\ [Next]_vars => RunsPaid'
<1> SUFFICES ASSUME TypeOK, HoldersPaid, RunsPaid, [Next]_vars
             PROVE  RunsPaid'
  OBVIOUS
<1>t. TypeOK'
  BY NextTypeOK
<1>d. Disturbances \in Nat /\ Disturbances' \in Nat
  BY <1>t, DisturbancesType, DisturbancesTypeAfter
<1>s. Slots \subseteq Nat \ {0}
  BY DEF Slots
<1>1. ASSUME \/ \E s \in Instances : Progress(s) \/ Stop(s) \/ Kill(s) \/ Misfire(s)
             \/ \E p \in pushing : DoPushFails(p)
             \/ Tick \/ Evict \/ UNCHANGED vars
      PROVE  RunsPaid'
  <2>1. pushed' = pushed /\ slot' = slot
    BY <1>1 DEF Progress, Start, Acquire, Decline, Renew, RenewFails, Release, Stop,
                ReleaseFails, Kill, Misfire, DoPushFails, Tick, Evict, vars, jobVars
  <2>2. \A s \in Instances : due'[s] = due[s] \/ due'[s] = 0
    BY <1>1 DEF Progress, Start, Acquire, Decline, Renew, RenewFails, Release, Stop,
                ReleaseFails, Kill, Misfire, DoPushFails, Tick, Evict, vars, jobVars,
                Gone, FirstDue, TypeOK
  <2>3. pushing' \subseteq pushing
    BY <1>1 DEF Progress, Start, Acquire, Decline, Renew, RenewFails, Release, Stop,
                ReleaseFails, Kill, Misfire, DoPushFails, Tick, Evict, vars, jobVars,
                Gone
  <2>4. Disturbances' >= Disturbances
    <3>1. CASE Tick
      BY <3>1, <1>d, OverrunningSize DEF Tick, Disturbances, TypeOK
    <3>2. CASE ~Tick
      <4>1. /\ overruns' = overruns
            /\ faults' = faults \/ faults' = faults + 1
            /\ evictions' = evictions \/ evictions' = evictions + 1
        BY <1>1, <3>2 DEF Progress, Start, Acquire, Decline, Renew, RenewFails, Stop,
             Release, ReleaseFails, Kill, Misfire, DoPushFails, Evict, vars, boundVars
      <4>2. faults \in Nat /\ evictions \in Nat /\ overruns \in Nat
        BY SchedulerAssumption DEF TypeOK
      <4>3. QED
        BY <4>1, <4>2 DEF Disturbances
    <3>3. QED
      BY <3>1, <3>2
  <2>5. \A k \in Slots : Owing(k)' \subseteq Owing(k) /\ PendingBy(k)' \subseteq PendingBy(k)
    BY <1>s, <2>2, <2>3 DEF Owing, PendingBy
  <2>6. QED
    BY <1>t, <2>1, <2>4, <2>5, RunsQuiet
<1>2. ASSUME NextSlot
      PROVE  RunsPaid'
  <2> SUFFICES ASSUME NEW k \in Slots
               PROVE  /\ Cardinality(Owing(k)') + Cardinality(PendingBy(k)') + pushed'[k]
                            <= 1 + Disturbances'
                      /\ k > slot' => Owing(k)' = {} /\ PendingBy(k)' = {} /\ pushed'[k] = 0
    BY DEF RunsPaid
  <2>1. /\ Disturbances' = Disturbances /\ slot' = slot + 1 /\ slot \in Nat
        /\ PendingBy(k)' = PendingBy(k) /\ pushed'[k] = pushed[k]
    BY <1>2 DEF NextSlot, Disturbances, boundVars, PendingBy, TypeOK
  <2>2. CASE k = slot + 1
    <3>1. Owing(k) = {} /\ PendingBy(k) = {} /\ pushed[k] = 0
      BY <2>1, <2>2 DEF RunsPaid
    <3>2. Owing(k)' \subseteq Holders
      BY <1>2, <2>2, <3>1 DEF NextSlot, Owing, Holders, Holding, TypeOK
    <3>3. Cardinality(Owing(k)') <= Cardinality(Holders)
      BY <3>2, HolderSets, SubsetSize
    <3>4. Cardinality(Holders) <= 1 + Disturbances
      BY <1>d, HolderSets DEF HoldersPaid, Key
    <3>5. Cardinality(PendingBy(k)') = 0
      BY <2>1, <3>1, FS_EmptySet
    <3>6. QED
      BY <1>d, <2>1, <2>2, <3>1, <3>3, <3>4, <3>5, HolderSets, RunSetsAfter
  <2>3. CASE k # slot + 1
    <3>1. Owing(k)' \subseteq Owing(k)
      BY <1>2, <2>3 DEF NextSlot, Owing, TypeOK
    <3>2. Cardinality(Owing(k)') <= Cardinality(Owing(k))
      BY <3>1, RunSets, SubsetSize
    <3>3. pushed[k] \in Nat
      BY DEF TypeOK
    <3>4. Cardinality(Owing(k)) + Cardinality(PendingBy(k)) + pushed[k] <= 1 + Disturbances
      BY DEF RunsPaid
    <3>5. Cardinality(Owing(k)') + Cardinality(PendingBy(k)') + pushed'[k]
             <= 1 + Disturbances'
      BY <1>d, <2>1, <3>2, <3>3, <3>4, RunSets, RunSetsAfter
    <3>6. k > slot' => k > slot
      BY <1>s, <2>1
    <3>7. QED
      BY <2>1, <3>1, <3>5, <3>6 DEF RunsPaid
  <2>4. QED
    BY <2>2, <2>3
<1>3. ASSUME NEW s \in Instances, PushJob(s)
      PROVE  RunsPaid'
  <2> SUFFICES ASSUME NEW k \in Slots
               PROVE  /\ Cardinality(Owing(k)') + Cardinality(PendingBy(k)') + pushed'[k]
                            <= 1 + Disturbances'
                      /\ k > slot' => Owing(k)' = {} /\ PendingBy(k)' = {} /\ pushed'[k] = 0
    BY DEF RunsPaid
  <2>1. Disturbances' = Disturbances /\ slot' = slot /\ pushed' = pushed
    BY <1>3 DEF PushJob, Disturbances, boundVars
  <2>2. pushed[k] \in Nat
    BY DEF TypeOK
  <2>3. Cardinality(Owing(k)) + Cardinality(PendingBy(k)) + pushed[k] <= 1 + Disturbances
    BY DEF RunsPaid
  <2>4. CASE k = due[s]
    <3>1. s \in Owing(k) /\ Owing(k)' \subseteq Owing(k) \ {s}
      BY <1>3, <1>s, <2>4 DEF PushJob, Owing, TypeOK
    <3>2. Cardinality(Owing(k) \ {s}) = Cardinality(Owing(k)) - 1
      BY <3>1, RunSets, RemoveOne
    <3>3. Owing(k) \ {s} \in SUBSET Instances
      BY RunSets
    <3>4. Cardinality(Owing(k)') <= Cardinality(Owing(k)) - 1
      BY <3>1, <3>2, <3>3, SubsetSize
    <3>5. PendingBy(k)' \subseteq PendingBy(k) \cup {s}
      BY <1>3 DEF PushJob, PendingBy
    <3>6. Cardinality(PendingBy(k)') <= Cardinality(PendingBy(k)) + 1
      BY <3>5, RunSets, AddOne
    <3>7. ~(k > slot)
      BY <3>1 DEF RunsPaid
    <3>8. QED
      BY <1>d, <2>1, <2>2, <2>3, <3>4, <3>6, <3>7, RunSets, RunSetsAfter
  <2>5. CASE k # due[s]
    <3>1. Owing(k)' \subseteq Owing(k) /\ PendingBy(k)' \subseteq PendingBy(k)
      BY <1>3, <1>s, <2>5 DEF PushJob, Owing, PendingBy, TypeOK
    <3>2. /\ Cardinality(Owing(k)') <= Cardinality(Owing(k))
          /\ Cardinality(PendingBy(k)') <= Cardinality(PendingBy(k))
      BY <3>1, RunSets, SubsetSize
    <3>3. Cardinality(Owing(k)') + Cardinality(PendingBy(k)') + pushed'[k]
             <= 1 + Disturbances'
      BY <1>d, <2>1, <2>2, <2>3, <3>2, RunSets, RunSetsAfter
    <3>4. QED
      BY <2>1, <3>1, <3>3 DEF RunsPaid
  <2>6. QED
    BY <2>4, <2>5
<1>4. ASSUME NEW p \in pushing, DoPush(p)
      PROVE  RunsPaid'
  <2> SUFFICES ASSUME NEW k \in Slots
               PROVE  /\ Cardinality(Owing(k)') + Cardinality(PendingBy(k)') + pushed'[k]
                            <= 1 + Disturbances'
                      /\ k > slot' => Owing(k)' = {} /\ PendingBy(k)' = {} /\ pushed'[k] = 0
    BY DEF RunsPaid
  <2>1. Disturbances' = Disturbances /\ slot' = slot /\ Owing(k)' = Owing(k)
    BY <1>4 DEF DoPush, Disturbances, boundVars, Owing
  <2>2. pushed[k] \in Nat /\ p[1] \in Instances /\ p[2] \in Slots /\ p = <<p[1], p[2]>>
    BY DEF TypeOK
  <2>3. Cardinality(Owing(k)) + Cardinality(PendingBy(k)) + pushed[k] <= 1 + Disturbances
    BY DEF RunsPaid
  <2>4. CASE k = p[2]
    <3>1. p[1] \in PendingBy(k) /\ PendingBy(k)' \subseteq PendingBy(k) \ {p[1]}
      BY <1>4, <2>2, <2>4 DEF DoPush, PendingBy
    <3>2. Cardinality(PendingBy(k) \ {p[1]}) = Cardinality(PendingBy(k)) - 1
      BY <3>1, RunSets, RemoveOne
    <3>3. PendingBy(k) \ {p[1]} \in SUBSET Instances
      BY RunSets
    <3>4. Cardinality(PendingBy(k)') <= Cardinality(PendingBy(k)) - 1
      BY <3>1, <3>2, <3>3, SubsetSize
    <3>5. pushed'[k] = pushed[k] + 1
      BY <1>4, <2>2, <2>4 DEF DoPush, TypeOK
    <3>6. ~(k > slot)
      BY <3>1 DEF RunsPaid
    <3>7. QED
      BY <1>d, <2>1, <2>2, <2>3, <3>4, <3>5, <3>6, RunSets, RunSetsAfter
  <2>5. CASE k # p[2]
    <3>1. PendingBy(k)' = PendingBy(k)
      BY <1>4, <2>2, <2>5 DEF DoPush, PendingBy
    <3>2. pushed'[k] = pushed[k]
      BY <1>4, <2>2, <2>5 DEF DoPush, TypeOK
    <3>3. QED
      BY <2>1, <2>3, <3>1, <3>2 DEF RunsPaid
  <2>6. QED
    BY <2>4, <2>5
<1>5. QED
  BY <1>1, <1>2, <1>3, <1>4 DEF Next, Job

\* A run of a job with a cron trigger is published once, and at most once more for
\* each disturbance, however the instances stop, start and take over from each other.
THEOREM FewPublications == Spec => []FewRuns
<1>1. TypeOK /\ RunsPaid => FewRuns
  <2> SUFFICES ASSUME TypeOK, RunsPaid, NEW k \in Slots
               PROVE  pushed[k] <= 1 + Disturbances
    BY DEF FewRuns
  <2>1. pushed[k] \in Nat /\ Disturbances \in Nat
    BY DisturbancesType DEF TypeOK
  <2>2. QED
    BY <2>1, RunSets DEF RunsPaid
<1>2. QED
  BY <1>1, InitTypeOK, InitHoldersPaid, InitRunsPaid, NextTypeOK, NextHoldersPaid,
     NextRunsPaid, PTL DEF Spec

=============================================================================
