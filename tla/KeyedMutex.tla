------------------------------ MODULE KeyedMutex ------------------------------
(***************************************************************************)
(* The per-key lock of livrarr-domain (keyed_mutex.rs): a map from keys to *)
(* reference-counted mutexes, a semaphore that bounds the resident keys,   *)
(* and a guard whose Drop prunes its own key when nobody else refers to    *)
(* it.  The import lock, the refresh lock and the cover-slot lock are      *)
(* instances of it, each swept every five minutes.                         *)
(*                                                                         *)
(* The mutex stored for a key is an object: a key that is pruned and       *)
(* inserted again has a NEW mutex.  Mutual exclusion therefore depends on  *)
(* pruning never dropping a mutex somebody can still lock.                 *)
(***************************************************************************)
EXTENDS Naturals, FiniteSets

CONSTANTS
  Tasks,       \* the async tasks that call lock()
  Keys,        \* the lock keys
  LockIds,     \* identities of Arc<Mutex<()>> objects
  Capacity,    \* MAX_ACTIVE_KEYS
  MaxCalls,    \* bound on the calls of one task
  NoTask, NoLock, Sweeper

ASSUME CapacityAssumption == Capacity \in Nat \ {0}
ASSUME SentinelAssumption ==
  NoTask \notin Tasks /\ Sweeper \notin Tasks /\ NoTask # Sweeper /\ NoLock \notin LockIds
ASSUME FinitenessAssumption == IsFiniteSet(Tasks) /\ IsFiniteSet(Keys)

VARIABLES
  pc,       \* where each task is inside lock() / Drop
  key,      \* the key of the task's current or last call
  ref,      \* the Arc clone a task holds, or NoLock
  map,      \* key -> the resident entry's mutex, or NoLock
  owner,    \* mutex -> the task whose OwnedMutexGuard locks it
  permits,  \* available permits of the capacity semaphore
  mapLock,  \* holder of the map's own mutex
  calls     \* calls each task has started

vars == <<pc, key, ref, map, owner, permits, mapLock, calls>>

PC == {"idle", "fast", "fastIn", "permit", "insert", "insertIn", "wait",
       "held", "drop", "dropIn"}

TypeOK ==
  /\ pc \in [Tasks -> PC]
  /\ key \in [Tasks -> Keys]
  /\ ref \in [Tasks -> LockIds \cup {NoLock}]
  /\ map \in [Keys -> LockIds \cup {NoLock}]
  /\ owner \in [LockIds -> Tasks \cup {NoTask}]
  /\ permits \in Nat
  /\ mapLock \in Tasks \cup {Sweeper, NoTask}
  /\ calls \in [Tasks -> Nat]

Resident == {k \in Keys : map[k] # NoLock}

\* Arc::strong_count(&entry.lock) > 1: some task holds a clone besides the map.
Referenced(l) == \E t \in Tasks : ref[t] = l

Goto(t, to) == pc' = [pc EXCEPT ![t] = to]

Init ==
  /\ pc = [t \in Tasks |-> "idle"]
  /\ key \in [Tasks -> Keys]
  /\ ref = [t \in Tasks |-> NoLock]
  /\ map = [k \in Keys |-> NoLock]
  /\ owner = [l \in LockIds |-> NoTask]
  /\ permits = Capacity
  /\ mapLock = NoTask
  /\ calls = [t \in Tasks |-> 0]

-----------------------------------------------------------------------------
(* lock(): the fast path looks the key up under the map lock.              *)

Call(t) ==
  /\ pc[t] = "idle" /\ calls[t] < MaxCalls
  /\ \E k \in Keys : key' = [key EXCEPT ![t] = k]
  /\ calls' = [calls EXCEPT ![t] = @ + 1]
  /\ Goto(t, "fast")
  /\ UNCHANGED <<ref, map, owner, permits, mapLock>>

\* The map mutex is free and the task is the one it is handed to.
TakeMap(t, from, to) ==
  /\ pc[t] = from /\ mapLock = NoTask
  /\ mapLock' = t
  /\ Goto(t, to)
  /\ UNCHANGED <<key, ref, map, owner, permits, calls>>

FastTake(t) == TakeMap(t, "fast", "fastIn")

FastLookup(t) ==
  LET l == map[key[t]] IN
  /\ pc[t] = "fastIn"
  /\ ref' = [ref EXCEPT ![t] = l]
  /\ Goto(t, IF l = NoLock THEN "permit" ELSE "wait")
  /\ mapLock' = NoTask
  /\ UNCHANGED <<key, map, owner, permits, calls>>

-----------------------------------------------------------------------------
(* insert_new_key(): a capacity permit first, then the map lock again.     *)

AcquireCapacity(t) ==
  /\ pc[t] = "permit" /\ permits > 0
  /\ permits' = permits - 1
  /\ Goto(t, "insert")
  /\ UNCHANGED <<key, ref, map, owner, mapLock, calls>>

InsertTake(t) == TakeMap(t, "insert", "insertIn")

\* Lost the race: another caller inserted the key; the permit goes back.
InsertLost(t) ==
  /\ pc[t] = "insertIn" /\ map[key[t]] # NoLock
  /\ permits' = permits + 1
  /\ ref' = [ref EXCEPT ![t] = map[key[t]]]
  /\ Goto(t, "wait")
  /\ mapLock' = NoTask
  /\ UNCHANGED <<key, map, owner, calls>>

\* A fresh mutex, one nobody refers to; the entry keeps the permit.
InsertNew(t) ==
  /\ pc[t] = "insertIn" /\ map[key[t]] = NoLock
  /\ \E l \in LockIds :
       /\ ~Referenced(l) /\ \A k \in Keys : map[k] # l
       /\ owner[l] = NoTask
       /\ map' = [map EXCEPT ![key[t]] = l]
       /\ ref' = [ref EXCEPT ![t] = l]
  /\ Goto(t, "wait")
  /\ mapLock' = NoTask
  /\ UNCHANGED <<key, owner, permits, calls>>

\* lock.lock_owned().await returns: the caller now holds the guard.
Acquire(t) ==
  /\ pc[t] = "wait" /\ owner[ref[t]] = NoTask
  /\ owner' = [owner EXCEPT ![ref[t]] = t]
  /\ Goto(t, "held")
  /\ UNCHANGED <<key, ref, map, permits, mapLock, calls>>

\* The future is dropped at one of lock()'s await points.  No guard exists
\* yet, so nothing is pruned; a permit already acquired returns.
Cancel(t) ==
  /\ pc[t] \in {"fast", "permit", "insert", "wait"}
  /\ permits' = IF pc[t] = "insert" THEN permits + 1 ELSE permits
  /\ ref' = [ref EXCEPT ![t] = NoLock]
  /\ Goto(t, "idle")
  /\ UNCHANGED <<key, map, owner, mapLock, calls>>

-----------------------------------------------------------------------------
(* Drop for KeyedMutexGuard: unlock first, then a try_lock on the map.     *)

Release(t) ==
  /\ pc[t] = "held"
  /\ owner' = [owner EXCEPT ![ref[t]] = NoTask]
  /\ ref' = [ref EXCEPT ![t] = NoLock]
  /\ Goto(t, "drop")
  /\ UNCHANGED <<key, map, permits, mapLock, calls>>

DropTryLock(t) == TakeMap(t, "drop", "dropIn")

DropSkip(t) ==
  /\ pc[t] = "drop" /\ mapLock # NoTask
  /\ Goto(t, "idle")
  /\ UNCHANGED <<key, ref, map, owner, permits, mapLock, calls>>

\* Mutant: the release prunes its key without looking at the strong count.
DropPruneUnchecked(t) ==
  LET k == key[t] IN
  /\ pc[t] = "dropIn"
  /\ map' = [map EXCEPT ![k] = NoLock]
  /\ permits' = IF map[k] # NoLock THEN permits + 1 ELSE permits
  /\ mapLock' = NoTask
  /\ Goto(t, "idle")
  /\ UNCHANGED <<key, ref, owner, calls>>

\* Removing the entry drops its permit with it.
DropPrune(t) ==
  LET k == key[t]
      prunable == map[k] # NoLock /\ ~Referenced(map[k])
  IN
  /\ pc[t] = "dropIn"
  /\ map' = IF prunable THEN [map EXCEPT ![k] = NoLock] ELSE map
  /\ permits' = IF prunable THEN permits + 1 ELSE permits
  /\ mapLock' = NoTask
  /\ Goto(t, "idle")
  /\ UNCHANGED <<key, ref, owner, calls>>

-----------------------------------------------------------------------------
(* sweep(): retain the entries somebody refers to.                         *)

SweepTake ==
  /\ mapLock = NoTask
  /\ mapLock' = Sweeper
  /\ UNCHANGED <<pc, key, ref, map, owner, permits, calls>>

Stale == {k \in Resident : ~Referenced(map[k])}

\* Mutant: the sweep keeps every entry (strong_count >= 1).
SweepRetainAll ==
  /\ mapLock = Sweeper
  /\ mapLock' = NoTask
  /\ UNCHANGED <<pc, key, ref, map, owner, permits, calls>>

SweepRetain ==
  /\ mapLock = Sweeper
  /\ map' = [k \in Keys |-> IF k \in Stale THEN NoLock ELSE map[k]]
  /\ permits' = permits + Cardinality(Stale)
  /\ mapLock' = NoTask
  /\ UNCHANGED <<pc, key, ref, owner, calls>>

-----------------------------------------------------------------------------
Next ==
  \/ \E t \in Tasks :
       \/ Call(t) \/ FastTake(t) \/ FastLookup(t)
       \/ AcquireCapacity(t) \/ InsertTake(t) \/ InsertLost(t) \/ InsertNew(t)
       \/ Acquire(t) \/ Cancel(t)
       \/ Release(t) \/ DropTryLock(t) \/ DropSkip(t) \/ DropPrune(t)
  \/ SweepTake \/ SweepRetain

\* tokio's mutexes and semaphores are FIFO, so a waiter for which the lock is
\* free again and again gets it (strong fairness); a task that can run does
\* run, and a guard is dropped in the end (weak fairness).  Nobody has to call
\* lock() and nobody has to cancel.
Awaits(t) == FastTake(t) \/ AcquireCapacity(t) \/ InsertTake(t) \/ Acquire(t)
Runs(t) ==
  \/ FastLookup(t) \/ InsertLost(t) \/ InsertNew(t)
  \/ Release(t) \/ DropTryLock(t) \/ DropSkip(t) \/ DropPrune(t)

Fairness ==
  /\ \A t \in Tasks : SF_vars(Awaits(t)) /\ WF_vars(Runs(t))
  /\ SF_vars(SweepTake) /\ WF_vars(SweepRetain)

Spec == Init /\ [][Next]_vars
FairSpec == Spec /\ Fairness

-----------------------------------------------------------------------------
(* Properties *)

\* keyed_mutex.rs Drop/sweep: two guards for one key never coexist, although
\* the key's mutex object is pruned and recreated between calls.
MutualExclusion ==
  \A t, u \in Tasks : pc[t] = "held" /\ pc[u] = "held" /\ key[t] = key[u] => t = u

\* Where a caller is, seen from outside: the guard's Drop has given the key back
\* when it goes on to prune.
Phase ==
  [t \in Tasks |-> CASE pc[t] = "held" -> "holding"
                     [] pc[t] \in {"idle", "drop", "dropIn"} -> "idle"
                     [] OTHER -> "asking"]

\* keyed_mutex.rs lock() and Drop: whatever is pruned, swept, recreated or
\* cancelled meanwhile, a call is granted only while nobody holds its key, and
\* the key is free as soon as its guard is dropped: the map of mutexes implements
\* KeyedLock.
Lock == INSTANCE KeyedLock WITH phase <- Phase, on <- key
ImplementsLock == Lock!KLSpec

\* keyed_mutex.rs MAX_ACTIVE_KEYS: the map never holds more distinct keys than
\* the cap, whatever is cancelled, pruned or inserted concurrently.
CapacityBound == Cardinality(Resident) <= Capacity

\* keyed_mutex.rs lock(): a call is granted or given up; no caller waits for
\* ever behind entries nobody refers to any more.
CallSettles == \A t \in Tasks : pc[t] = "fast" ~> pc[t] \in {"held", "idle"}

\* Every task inside lock() or holding a guard refers to the mutex that is
\* resident for its key: pruning has not dropped it.
RefIsResident == \A t \in Tasks : ref[t] # NoLock => map[key[t]] = ref[t]

HasRef == \A t \in Tasks : pc[t] \in {"wait", "held"} <=> ref[t] # NoLock

OwnerHolds ==
  \A l \in LockIds, t \in Tasks : owner[l] = t <=> (pc[t] = "held" /\ ref[t] = l)

MapLockHeld ==
  \A t \in Tasks : pc[t] \in {"fastIn", "insertIn", "dropIn"} <=> mapLock = t

Carriers == {t \in Tasks : pc[t] \in {"insert", "insertIn"}}

\* Every capacity permit is available, spent by a resident entry, or carried
\* by a task between acquire_owned() and the insertion.
PermitConservation ==
  permits + Cardinality(Resident) + Cardinality(Carriers) = Capacity

IInv == TypeOK /\ RefIsResident /\ HasRef /\ OwnerHolds /\ MapLockHeld
=============================================================================
