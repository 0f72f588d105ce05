-------------------------- MODULE KeyedMutex_proofs --------------------------
(***************************************************************************)
(* For every number of tasks, keys and permits: the per-key lock excludes, *)
(* and the map never outgrows its capacity.                                *)
(***************************************************************************)
EXTENDS KeyedMutex, FiniteSetTheorems, TLAPS

(***************************************************************************)
(* The inductive invariant: a task's Arc clone is the mutex resident for   *)
(* its key, so two tasks that refer to one key refer to one mutex.         *)
(***************************************************************************)
LEMMA InitIInv == Init => IInv
BY SentinelAssumption, CapacityAssumption
   DEF Init, IInv, TypeOK, RefIsResident, HasRef, OwnerHolds, MapLockHeld, PC

\* Taking the map's own mutex, in lock(), insert_new_key() or Drop.
LEMMA TakeMapKeeps ==
  ASSUME IInv, NEW t \in Tasks,
         NEW from \in {"fast", "insert", "drop"},
         NEW to \in {"fastIn", "insertIn", "dropIn"},
         TakeMap(t, from, to)
  PROVE  IInv'
BY SentinelAssumption
   DEF IInv, TypeOK, PC, RefIsResident, HasRef, OwnerHolds, MapLockHeld, TakeMap, Goto

\* Every step of the lock keeps the inductive invariant.
LEMMA NextIInv == IInv /\ [Next]_vars => IInv'
<1> SUFFICES ASSUME IInv, [Next]_vars PROVE IInv'
  OBVIOUS
<1> USE SentinelAssumption DEF IInv, TypeOK, PC, RefIsResident, HasRef, OwnerHolds, MapLockHeld
<1>1. CASE UNCHANGED vars
  BY <1>1 DEF vars
<1>2. ASSUME NEW t \in Tasks, Call(t) PROVE IInv'
  BY <1>2 DEF Call, Goto
<1>3. ASSUME NEW t \in Tasks, FastTake(t) \/ InsertTake(t) \/ DropTryLock(t) PROVE IInv'
  BY <1>3, TakeMapKeeps DEF FastTake, InsertTake, DropTryLock
<1>4. ASSUME NEW t \in Tasks, FastLookup(t) PROVE IInv'
  BY <1>4 DEF FastLookup, Goto
<1>5. ASSUME NEW t \in Tasks, AcquireCapacity(t) PROVE IInv'
  BY <1>5 DEF AcquireCapacity, Goto
<1>6. ASSUME NEW t \in Tasks, InsertLost(t) PROVE IInv'
  BY <1>6 DEF InsertLost, Goto
<1>7. ASSUME NEW t \in Tasks, InsertNew(t) PROVE IInv'
  <2>1. PICK l \in LockIds : /\ owner[l] = NoTask
                             /\ map' = [map EXCEPT ![key[t]] = l]
                             /\ ref' = [ref EXCEPT ![t] = l]
    BY <1>7 DEF InsertNew
  <2> QED BY <1>7, <2>1 DEF InsertNew, Goto
<1>8. ASSUME NEW t \in Tasks, Acquire(t) PROVE IInv'
  BY <1>8 DEF Acquire, Goto
<1>9. ASSUME NEW t \in Tasks, Cancel(t) PROVE IInv'
  BY <1>9 DEF Cancel, Goto
<1>10. ASSUME NEW t \in Tasks, Release(t) PROVE IInv'
  BY <1>10 DEF Release, Goto
<1>11. ASSUME NEW t \in Tasks, DropSkip(t) PROVE IInv'
  BY <1>11 DEF DropSkip, Goto
<1>12. ASSUME NEW t \in Tasks, DropPrune(t) PROVE IInv'
  BY <1>12 DEF DropPrune, Goto, Referenced
<1>13. CASE SweepTake
  BY <1>13 DEF SweepTake
<1>14. CASE SweepRetain
  <2>1. permits' \in Nat
    <3>1. IsFiniteSet(Stale)
      BY FinitenessAssumption, FS_Subset DEF Stale, Resident
    <3> QED BY <3>1, <1>14, FS_CardinalityType DEF SweepRetain
  <2>2. RefIsResident'
    BY <1>14 DEF SweepRetain, Stale, Resident, Referenced
  <2>3. map' \in [Keys -> LockIds \cup {NoLock}]
    BY <1>14 DEF SweepRetain
  <2>4. UNCHANGED <<pc, key, ref, owner, calls>> /\ mapLock = Sweeper /\ mapLock' = NoTask
    BY <1>14 DEF SweepRetain
  <2>5. TypeOK'
    BY <2>1, <2>3, <2>4
  <2>6. HasRef' /\ OwnerHolds'
    BY <2>4
  <2>7. MapLockHeld'
    BY <2>4
  <2> QED BY <2>2, <2>5, <2>6, <2>7
<1> QED
  BY <1>1, <1>2, <1>3, <1>4, <1>5, <1>6, <1>7, <1>8, <1>9, <1>10, <1>11, <1>12,
     <1>13, <1>14 DEF Next

\* keyed_mutex.rs: type correctness of the lock's state.
THEOREM TypeCorrect == Spec => []TypeOK
<1>1. IInv => TypeOK
  BY DEF IInv
<1> QED BY InitIInv, NextIInv, <1>1, PTL DEF Spec

\* keyed_mutex.rs Drop and sweep(): no two guards of one key coexist, for any
\* number of tasks, keys and permits, although mutexes are pruned and recreated.
THEOREM Excludes == Spec => []MutualExclusion
<1>1. IInv => MutualExclusion
  BY SentinelAssumption
     DEF IInv, TypeOK, RefIsResident, HasRef, OwnerHolds, MutualExclusion
<1> QED BY InitIInv, NextIInv, <1>1, PTL DEF Spec

-----------------------------------------------------------------------------
(***************************************************************************)
(* The refinement.  A step that changes no phase is a stutter; the others  *)
(* are Call, Acquire, Cancel and Release.                                  *)
(***************************************************************************)
LEMMA InitLock == Init => Lock!KLInit
BY DEF Init, Phase, Lock!KLInit

\* A step inside lock(), Drop or sweep().
LEMMA SilentStep ==
  ASSUME IInv, [Next]_vars, \A t \in Tasks : ~Call(t) /\ ~Acquire(t) /\ ~Cancel(t) /\ ~Release(t)
  PROVE  UNCHANGED Lock!klvars
<1>t. pc \in [Tasks -> PC]
  BY DEF IInv, TypeOK
<1>1. ASSUME NEW t \in Tasks, NEW from \in PC, NEW to \in PC,
             pc[t] = from, pc' = [pc EXCEPT ![t] = to], key' = key,
             from \in {"fast", "fastIn", "permit", "insert", "insertIn"} =>
               to \in {"fastIn", "permit", "insert", "insertIn", "wait"},
             from \in {"drop", "dropIn"} => to \in {"dropIn", "idle"},
             from \notin {"idle", "wait", "held"}
      PROVE  UNCHANGED Lock!klvars
  <2>1. \A u \in Tasks : pc'[u] = IF u = t THEN to ELSE pc[u]
    BY <1>1, <1>t
  <2>2. Phase' = Phase
    BY <1>1, <1>t, <2>1 DEF Phase, PC
  <2> QED BY <1>1, <2>2 DEF Lock!klvars
<1>2. CASE UNCHANGED <<pc, key>>
  BY <1>2 DEF Lock!klvars, Phase
<1>3. ASSUME NEW t \in Tasks, FastTake(t) \/ InsertTake(t) \/ DropTryLock(t)
      PROVE  UNCHANGED Lock!klvars
  BY <1>3, <1>1 DEF FastTake, InsertTake, DropTryLock, TakeMap, Goto, PC
<1>4. ASSUME NEW t \in Tasks, FastLookup(t) \/ AcquireCapacity(t)
      PROVE  UNCHANGED Lock!klvars
  BY <1>4, <1>1 DEF FastLookup, AcquireCapacity, Goto, PC
<1>5. ASSUME NEW t \in Tasks, InsertLost(t) \/ InsertNew(t)
      PROVE  UNCHANGED Lock!klvars
  BY <1>5, <1>1 DEF InsertLost, InsertNew, Goto, PC
<1>6. ASSUME NEW t \in Tasks, DropSkip(t) \/ DropPrune(t)
      PROVE  UNCHANGED Lock!klvars
  BY <1>6, <1>1 DEF DropSkip, DropPrune, Goto, PC
<1>7. CASE SweepTake \/ SweepRetain \/ UNCHANGED vars
  BY <1>7, <1>2 DEF SweepTake, SweepRetain, vars
<1> QED BY <1>3, <1>4, <1>5, <1>6, <1>7 DEF Next

\* Every step of KeyedMutex is a step of KeyedLock or a stutter.
LEMMA NextLock == IInv /\ [Next]_vars => [Lock!KLNext]_(Lock!klvars)
<1> SUFFICES ASSUME IInv, [Next]_vars PROVE Lock!KLNext \/ UNCHANGED Lock!klvars
  OBVIOUS
<1>t. pc \in [Tasks -> PC] /\ key \in [Tasks -> Keys]
  BY DEF IInv, TypeOK
<1>1. ASSUME NEW t \in Tasks, Call(t) PROVE Lock!Ask(t)
  <2>1. Phase[t] = "idle"
    BY <1>1 DEF Call, Phase
  <2>2. Phase' = [Phase EXCEPT ![t] = "asking"]
    BY <1>1, <1>t DEF Call, Goto, Phase
  <2> QED BY <1>1, <2>1, <2>2 DEF Call, Lock!Ask
<1>2. ASSUME NEW t \in Tasks, Acquire(t) PROVE Lock!Grant(t)
  <2>1. Phase[t] = "asking"
    BY <1>2 DEF Acquire, Phase
  <2>2. Phase' = [Phase EXCEPT ![t] = "holding"]
    BY <1>2, <1>t DEF Acquire, Goto, Phase
  \* A holder of the key refers to the mutex resident for it, which is the one
  \* that was found unlocked.
  <2>3. ASSUME NEW u \in Tasks, pc[u] = "held", key[u] = key[t] PROVE FALSE
    <3>1. ref[u] = map[key[u]] /\ ref[t] = map[key[t]] /\ ref[u] \in LockIds
      BY <1>2, <2>3 DEF Acquire, IInv, HasRef, RefIsResident, TypeOK
    <3>2. owner[ref[u]] = u
      BY <2>3, <3>1 DEF IInv, OwnerHolds
    <3> QED BY <1>2, <2>3, <3>1, <3>2, SentinelAssumption DEF Acquire
  <2>4. Lock!Holders(key[t]) = {}
    BY <2>3 DEF Lock!Holders, Phase
  <2>5. key' = key
    BY <1>2 DEF Acquire
  <2> QED BY <2>1, <2>2, <2>4, <2>5 DEF Lock!Grant
<1>3. ASSUME NEW t \in Tasks, Cancel(t) \/ Release(t) PROVE Lock!Leave(t)
  <2>1. Phase[t] \in {"asking", "holding"}
    BY <1>3 DEF Cancel, Release, Phase
  <2>2. Phase' = [Phase EXCEPT ![t] = "idle"]
    BY <1>3, <1>t DEF Cancel, Release, Goto, Phase
  <2>3. key' = key
    BY <1>3 DEF Cancel, Release
  <2> QED BY <2>1, <2>2, <2>3 DEF Lock!Leave
<1> QED BY <1>1, <1>2, <1>3, SilentStep DEF Lock!KLNext

\* keyed_mutex.rs lock() and Drop: the map of reference-counted mutexes, pruned
\* and swept as it goes, implements a lock per key.
THEOREM MutexImplementsLock == Spec => ImplementsLock
BY InitIInv, NextIInv, InitLock, NextLock, PTL DEF Spec, ImplementsLock, Lock!KLSpec

\* keyed_mutex.rs Drop and sweep(): a mutex somebody can still lock is never
\* pruned from the map.
THEOREM PruneIsSafe == Spec => []RefIsResident
<1>1. IInv => RefIsResident
  BY DEF IInv
<1> QED BY InitIInv, NextIInv, <1>1, PTL DEF Spec

-----------------------------------------------------------------------------
(***************************************************************************)
(* Permit accounting.  A step moves a permit between the semaphore, a task *)
(* that is about to insert, and a resident entry; it makes and loses none. *)
(***************************************************************************)
LEMMA FiniteParts == IsFiniteSet(Resident) /\ IsFiniteSet(Carriers)
BY FinitenessAssumption, FS_Subset DEF Resident, Carriers

LEMMA CardinalParts ==
  /\ Cardinality(Resident) \in Nat
  /\ Cardinality(Carriers) \in Nat
BY FiniteParts, FS_CardinalityType

\* Neither the resident keys nor the carried permits change.
LEMMA SameParts ==
  ASSUME PermitConservation, permits' = permits, Resident' = Resident, Carriers' = Carriers
  PROVE  PermitConservation'
BY DEF PermitConservation

\* A task takes a permit from the semaphore.
LEMMA TakePermit ==
  ASSUME PermitConservation, permits \in Nat, NEW t \in Tasks, t \notin Carriers,
         permits > 0, permits' = permits - 1,
         Resident' = Resident, Carriers' = Carriers \cup {t}
  PROVE  PermitConservation'
<1>1. Cardinality(Carriers \cup {t}) = Cardinality(Carriers) + 1
  BY FiniteParts, FS_AddElement
<1>2. Cardinality(Carriers') = Cardinality(Carriers) + 1
  BY <1>1
<1> QED BY <1>2, CardinalParts, CapacityAssumption DEF PermitConservation

\* A task gives its permit back.
LEMMA ReturnPermit ==
  ASSUME PermitConservation, permits \in Nat, NEW t \in Tasks, t \in Carriers,
         permits' = permits + 1,
         Resident' = Resident, Carriers' = Carriers \ {t}
  PROVE  PermitConservation'
<1>1. Cardinality(Carriers \ {t}) = Cardinality(Carriers) - 1
  BY FiniteParts, FS_RemoveElement
<1>2. Cardinality(Carriers') = Cardinality(Carriers) - 1
  BY <1>1
<1> QED BY <1>2, CardinalParts, CapacityAssumption DEF PermitConservation

\* A task spends its permit on a new entry.
LEMMA SpendPermit ==
  ASSUME PermitConservation, permits \in Nat, NEW t \in Tasks, t \in Carriers,
         NEW k \in Keys, k \notin Resident, permits' = permits,
         Resident' = Resident \cup {k}, Carriers' = Carriers \ {t}
  PROVE  PermitConservation'
<1>1. Cardinality(Carriers \ {t}) = Cardinality(Carriers) - 1
  BY FiniteParts, FS_RemoveElement
<1>2. Cardinality(Resident \cup {k}) = Cardinality(Resident) + 1
  BY FiniteParts, FS_AddElement
<1>3. /\ Cardinality(Carriers') = Cardinality(Carriers) - 1
      /\ Cardinality(Resident') = Cardinality(Resident) + 1
  BY <1>1, <1>2
<1> QED BY <1>3, CardinalParts, CapacityAssumption DEF PermitConservation

\* The entries in S leave the map and their permits return.
LEMMA FreePermits ==
  ASSUME PermitConservation, permits \in Nat, NEW S \in SUBSET Resident,
         permits' = permits + Cardinality(S),
         Resident' = Resident \ S, Carriers' = Carriers
  PROVE  PermitConservation'
<1>1. Cardinality(Resident \ S) = Cardinality(Resident) - Cardinality(S)
  <2>1. Resident \cap S = S
    OBVIOUS
  <2> QED BY <2>1, FiniteParts, FS_Difference
<1>2. IsFiniteSet(S) /\ Cardinality(S) \in Nat
  BY FiniteParts, FS_Subset, FS_CardinalityType
<1>3. Cardinality(Resident') = Cardinality(Resident) - Cardinality(S)
  BY <1>1
<1>4. Cardinality(Carriers') = Cardinality(Carriers)
  OBVIOUS
<1> QED BY <1>2, <1>3, <1>4, CardinalParts, CapacityAssumption DEF PermitConservation

\* Every step conserves the permits.
LEMMA NextPermits == IInv /\ PermitConservation /\ [Next]_vars => PermitConservation'
<1> SUFFICES ASSUME IInv, PermitConservation, [Next]_vars PROVE PermitConservation'
  OBVIOUS
<1> USE DEF Resident, Carriers, Goto
<1>t. TypeOK /\ HasRef
  BY DEF IInv
<1>1. CASE UNCHANGED vars
  BY <1>1, SameParts DEF vars
<1>2. ASSUME NEW t \in Tasks,
             \/ Call(t) \/ FastTake(t) \/ FastLookup(t) \/ InsertTake(t) \/ Acquire(t)
             \/ Release(t) \/ DropTryLock(t) \/ DropSkip(t)
      PROVE PermitConservation'
  <2>1. Carriers' = Carriers
    BY <1>2, <1>t DEF TypeOK, Call, FastTake, FastLookup, InsertTake, Acquire, Release,
                      DropTryLock, DropSkip, TakeMap
  <2>2. permits' = permits /\ map' = map
    BY <1>2 DEF Call, FastTake, FastLookup, InsertTake, Acquire, Release, DropTryLock,
                DropSkip, TakeMap
  <2> QED BY <2>1, <2>2, SameParts
<1>3. ASSUME NEW t \in Tasks, AcquireCapacity(t) PROVE PermitConservation'
  BY <1>3, <1>t, TakePermit DEF TypeOK, AcquireCapacity
<1>4. ASSUME NEW t \in Tasks, InsertLost(t) PROVE PermitConservation'
  BY <1>4, <1>t, ReturnPermit DEF TypeOK, InsertLost
<1>5. ASSUME NEW t \in Tasks, InsertNew(t) PROVE PermitConservation'
  <2>1. PICK l \in LockIds : map' = [map EXCEPT ![key[t]] = l]
    BY <1>5 DEF InsertNew
  <2>2. key[t] \in Keys /\ key[t] \notin Resident /\ t \in Carriers /\ permits' = permits
    BY <1>5, <1>t DEF TypeOK, InsertNew
  <2>3. Resident' = Resident \cup {key[t]}
    BY <2>1, <1>t, SentinelAssumption DEF TypeOK
  <2>4. Carriers' = Carriers \ {t}
    BY <1>5, <1>t DEF TypeOK, InsertNew
  <2> QED BY <2>2, <2>3, <2>4, <1>t, SpendPermit DEF TypeOK
<1>6. ASSUME NEW t \in Tasks, Cancel(t) PROVE PermitConservation'
  <2>1. CASE pc[t] = "insert"
    BY <1>6, <2>1, <1>t, ReturnPermit DEF TypeOK, Cancel
  <2>2. CASE pc[t] # "insert"
    BY <1>6, <2>2, <1>t, SameParts DEF TypeOK, Cancel
  <2> QED BY <2>1, <2>2
<1>7. ASSUME NEW t \in Tasks, DropPrune(t) PROVE PermitConservation'
  <2>1. Carriers' = Carriers
    BY <1>7, <1>t DEF TypeOK, DropPrune
  <2>2. CASE map[key[t]] # NoLock /\ ~Referenced(map[key[t]])
    <3>1. /\ {key[t]} \in SUBSET Resident
          /\ Resident' = Resident \ {key[t]}
          /\ permits' = permits + 1
      BY <1>7, <2>2, <1>t DEF TypeOK, DropPrune
    <3>2. Cardinality({key[t]}) = 1
      BY FS_Singleton
    <3> QED BY <2>1, <3>1, <3>2, <1>t, FreePermits DEF TypeOK
  <2>3. CASE ~(map[key[t]] # NoLock /\ ~Referenced(map[key[t]]))
    BY <1>7, <2>1, <2>3, SameParts DEF DropPrune
  <2> QED BY <2>2, <2>3
<1>8. CASE SweepTake
  BY <1>8, SameParts DEF SweepTake
<1>9. CASE SweepRetain
  <2>1. Stale \in SUBSET Resident /\ Carriers' = Carriers
    BY <1>9 DEF SweepRetain, Stale
  <2>2. Resident' = Resident \ Stale
    BY <1>9, <1>t DEF SweepRetain, TypeOK
  <2>3. permits \in Nat /\ permits' = permits + Cardinality(Stale)
    BY <1>9, <1>t DEF SweepRetain, TypeOK
  <2> QED BY <2>1, <2>2, <2>3, FreePermits
<1> QED
  BY <1>1, <1>2, <1>3, <1>4, <1>5, <1>6, <1>7, <1>8, <1>9 DEF Next

LEMMA InitPermits == Init => PermitConservation
<1> SUFFICES ASSUME Init PROVE PermitConservation
  OBVIOUS
<1>1. Resident = {} /\ Carriers = {} /\ permits = Capacity
  BY DEF Init, Resident, Carriers
<1> QED BY <1>1, FS_EmptySet, CapacityAssumption DEF PermitConservation

\* keyed_mutex.rs capacity: no path of lock(), cancellation, Drop or sweep()
\* leaks or forges a permit, so the resident keys never exceed the cap.
THEOREM CapacityHolds == Spec => [](PermitConservation /\ CapacityBound)
<1>1. IInv /\ PermitConservation => CapacityBound
  BY CardinalParts, CapacityAssumption DEF IInv, TypeOK, PermitConservation, CapacityBound
<1> QED BY InitIInv, NextIInv, InitPermits, NextPermits, <1>1, PTL DEF Spec
=============================================================================
