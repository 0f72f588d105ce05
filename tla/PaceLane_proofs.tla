--------------------------- MODULE PaceLane_proofs ---------------------------
(***************************************************************************)
(* For every number of requests, priorities, indexers and permits, every   *)
(* interval and breaker configuration: the lane implements RateLimiter,    *)
(* its dispatcher never finds the heap empty after a wait, and requests    *)
(* leave the queue in order and for reasons of their own.                  *)
(***************************************************************************)
EXTENDS PaceLane, FiniteSetTheorems, TLAPS

-----------------------------------------------------------------------------
(* The breaker operators return breakers.                                  *)

LEMMA NewBreakerType == NewBreaker \in Breaker
BY BreakerAssumption DEF NewBreaker, Breaker, NoFailures, CircuitState

LEMMA CurrentType == ASSUME NEW b \in Breaker PROVE Current(b) \in Breaker
BY DEF Current, Breaker, CircuitState

LEMMA OpenedType ==
  ASSUME NEW b, NEW for \in Nat PROVE Opened(b, for) \in Breaker
BY BreakerAssumption DEF Opened, Breaker, NoFailures, CircuitState

LEMMA NoFailuresType == NoFailures \in [0..EvalWindow -> 0..FailureThreshold]
BY BreakerAssumption DEF NoFailures

LEMMA CloseType == ASSUME NEW b \in Breaker PROVE Close(b) \in Breaker
BY NoFailuresType DEF Close, Breaker, CircuitState

LEMMA RecordSuccessType == ASSUME NEW b \in Breaker PROVE RecordSuccess(b) \in Breaker
<1> DEFINE p == b.probes + 1
           w == b.wins + 1
           probed == [b EXCEPT !.fails = NoFailures, !.probes = p, !.wins = w]
<1>a. p \in Nat /\ w \in Nat
  BY DEF Breaker
<1> HIDE DEF p, w
<1>1. probed \in Breaker /\ [b EXCEPT !.fails = NoFailures] \in Breaker
  BY <1>a, NoFailuresType DEF Breaker
<1>2. b.state \in {"Closed", "Open", "HalfOpen"}
  BY DEF Breaker, CircuitState
<1>3. Close(probed) \in Breaker /\ Close(b) \in Breaker
  BY <1>1, CloseType
<1> HIDE DEF probed
<1>4. RecordSuccess(b) \in {[b EXCEPT !.fails = NoFailures], Close(b), probed, Close(probed)}
  BY <1>2 DEF RecordSuccess, probed, p, w
<1> QED BY <1>1, <1>3, <1>4

LEMMA WithFailureType == ASSUME NEW b \in Breaker PROVE WithFailure(b) \in Breaker
<1> DEFINE n == IF b.fails[0] < FailureThreshold THEN b.fails[0] + 1 ELSE b.fails[0]
           f == [b.fails EXCEPT ![0] = n]
<1>1. b.fails \in [0..EvalWindow -> 0..FailureThreshold] /\ 0 \in 0..EvalWindow
  BY BreakerAssumption DEF Breaker
<1>2. n \in 0..FailureThreshold
  BY <1>1, BreakerAssumption
<1> HIDE DEF n
<1>3. f \in [0..EvalWindow -> 0..FailureThreshold]
  BY <1>1, <1>2
<1> HIDE DEF f
<1>4. [b EXCEPT !.fails = f] \in Breaker
  BY <1>3 DEF Breaker
<1>5. WithFailure(b) = [b EXCEPT !.fails = f]
  BY DEF WithFailure, n, f
<1> QED BY <1>4, <1>5

LEMMA RecordFailureType == ASSUME NEW b \in Breaker PROVE RecordFailure(b) \in Breaker
<1>1. Opened(WithFailure(b), OpenDuration) \in Breaker /\ WithFailure(b) \in Breaker
  BY WithFailureType, OpenedType, BreakerAssumption
<1> QED BY <1>1 DEF RecordFailure

LEMMA TripType ==
  ASSUME NEW b, NEW for \in Nat PROVE TripImmediately(b, for) \in Breaker
BY OpenedType DEF TripImmediately

LEMMA AgedType == ASSUME NEW b \in Breaker PROVE Aged(b) \in Breaker
<1>1. [a \in 0..EvalWindow |-> IF a = 0 THEN 0 ELSE b.fails[a - 1]]
        \in [0..EvalWindow -> 0..FailureThreshold]
  BY BreakerAssumption DEF Breaker
<1>2. (IF b.openLeft > 0 THEN b.openLeft - 1 ELSE 0) \in Nat
  BY DEF Breaker
<1> QED BY <1>1, <1>2 DEF Aged, Breaker

BreakersOK == transport \in Breaker /\ rl \in [Indexers -> Breaker]

\* The lazy half-open transition keeps the breakers well typed.
LEMMA LookedType ==
  ASSUME BreakersOK, NEW items, Looked(items) PROVE BreakersOK'
BY CurrentType DEF BreakersOK, Looked

-----------------------------------------------------------------------------
(* The breakers stay breakers.                                             *)

LEMMA InitBreakers == Init => BreakersOK
BY NewBreakerType DEF Init, BreakersOK

LEMMA TripRlType ==
  ASSUME BreakersOK, NEW r \in Requests, idx[r] \in Indexers, NEW for \in Nat, TripRl(r, for)
  PROVE  rl' \in [Indexers -> Breaker]
BY TripType DEF TripRl, BreakersOK

LEMMA SucceedRlType ==
  ASSUME BreakersOK, NEW r \in Requests, SucceedRl(r)
  PROVE  rl' \in [Indexers -> Breaker]
BY RecordSuccessType DEF SucceedRl, BreakersOK

LEMMA NextBreakers == BreakersOK /\ [Next]_vars => BreakersOK'
<1> SUFFICES ASSUME BreakersOK, [Next]_vars PROVE BreakersOK'
  OBVIOUS
<1>1. CASE UNCHANGED vars
  BY <1>1 DEF vars, BreakersOK
<1>2. ASSUME NEW r \in Requests, Enqueue(r) \/ Refuse(r) \/ CancelQueued(r) \/ Probe(r)
                                 \/ SendEnds(r) \/ CancelSend(r)
      PROVE BreakersOK'
  BY <1>2 DEF Enqueue, Refuse, CancelQueued, Probe, SendEnds, CancelSend, BreakersOK
<1>3. ASSUME NEW r \in Requests, Report1(r) PROVE BreakersOK'
  <2>1. CASE transport' = RecordFailure(transport) /\ UNCHANGED rl
    BY <2>1, RecordFailureType DEF BreakersOK
  <2>2. CASE transport' = TripImmediately(transport, OpenDuration) /\ UNCHANGED rl
    BY <2>2, TripType, BreakerAssumption DEF BreakersOK
  <2>3. CASE transport' = RecordSuccess(transport) /\ UNCHANGED rl
    BY <2>3, RecordSuccessType DEF BreakersOK
  <2>4. CASE UNCHANGED brkVars
    BY <2>4 DEF brkVars, BreakersOK
  <2>5. CASE idx[r] \in Indexers /\ (\E for \in OpenForSet : TripRl(r, for)) /\ UNCHANGED transport
    BY <2>5, TripRlType, BreakerAssumption DEF BreakersOK
  <2> QED BY <1>3, <2>1, <2>2, <2>3, <2>4, <2>5 DEF Report1
<1>4. ASSUME NEW r \in Requests, Report2(r) PROVE BreakersOK'
  <2>1. CASE transport' = RecordSuccess(transport) /\ UNCHANGED rl
    BY <2>1, RecordSuccessType DEF BreakersOK
  <2>2. CASE SucceedRl(r) /\ UNCHANGED transport
    BY <2>2, SucceedRlType DEF BreakersOK
  <2>3. CASE UNCHANGED brkVars
    BY <2>3 DEF brkVars, BreakersOK
  <2> QED BY <1>4, <2>1, <2>2, <2>3 DEF Report2
<1>5. ASSUME NEW r \in Requests, ClientReport(r) PROVE BreakersOK'
  BY <1>5, RecordSuccessType, RecordFailureType, TripType, BreakerAssumption
     DEF ClientReport, BreakersOK
<1>6. ASSUME NEW d \in Dispatchers, Gate(d) PROVE BreakersOK'
  BY <1>6, LookedType DEF Gate
<1>7. ASSUME NEW d \in Dispatchers, Wake(d) \/ AcquirePermit(d) \/ Die(d) PROVE BreakersOK'
  BY <1>7 DEF Wake, AcquirePermit, Die, BreakersOK
<1>8. ASSUME NEW d \in Dispatchers, PopReject(d) \/ PopGrant(d) PROVE BreakersOK'
  BY <1>8, LookedType DEF PopReject, PopGrant, Pop
<1>9. CASE Tick
  BY <1>9, AgedType DEF Tick, BreakersOK
<1> QED
  BY <1>1, <1>2, <1>3, <1>4, <1>5, <1>6, <1>7, <1>8, <1>9 DEF Next, Caller, Dispatch

-----------------------------------------------------------------------------
(* The lane's own invariant.                                               *)

LEMMA InitIInv == Init => IInv
<1> SUFFICES ASSUME Init PROVE IInv
  OBVIOUS
<1>1. TypeOK
  <2>1. (CHOOSE p \in Priorities : TRUE) \in Priorities
    BY LaneAssumption
  <2>2. prio \in [Requests -> Priorities]
    BY <2>1 DEF Init
  <2>3. /\ status \in [Requests -> Status] /\ out \in [Requests -> Outcome]
        /\ dpc \in [Dispatchers -> DPC]
    BY DEF Init, Status, Outcome, DPC
  <2>4. /\ wait \in [Dispatchers -> 0..Interval] /\ since \in 0..Interval
        /\ seq \in [Requests -> Nat] /\ nextSeq \in Nat /\ avail \in Nat /\ deaths \in Nat
    BY LaneAssumption DEF Init
  <2>5. transport \in Breaker /\ rl \in [Indexers -> Breaker]
    BY InitBreakers DEF BreakersOK
  <2>6. /\ idx \in [Requests -> Indexers \cup {NoIndexer}]
        /\ heap \in SUBSET Requests /\ running \in BOOLEAN
    BY DEF Init
  <2> QED BY <2>2, <2>3, <2>4, <2>5, <2>6 DEF TypeOK
<1>2. HeapIsPending /\ SoleDispatcher /\ Paced /\ HeapReady
  BY DEF Init, HeapIsPending, SoleDispatcher, Paced, HeapReady, Alive
<1> QED BY <1>1, <1>2 DEF IInv

\* Everything of IInv but the breakers, which have a lemma of their own.
LaneTypeOK ==
  /\ status \in [Requests -> Status]
  /\ prio \in [Requests -> Priorities]
  /\ idx \in [Requests -> Indexers \cup {NoIndexer}]
  /\ seq \in [Requests -> Nat]
  /\ nextSeq \in Nat
  /\ out \in [Requests -> Outcome]
  /\ heap \in SUBSET Requests
  /\ running \in BOOLEAN
  /\ dpc \in [Dispatchers -> DPC]
  /\ wait \in [Dispatchers -> 0..Interval]
  /\ avail \in Nat
  /\ since \in 0..Interval
  /\ deaths \in Nat

LInv == LaneTypeOK /\ HeapIsPending /\ SoleDispatcher /\ Paced /\ HeapReady

LEMMA SpawnKeeps ==
  ASSUME LInv, Spawn, ~running
  PROVE  /\ running' = TRUE
         /\ dpc' \in [Dispatchers -> DPC]
         /\ \E d \in Dispatchers : dpc' = [e \in Dispatchers |-> IF e = d THEN "spawned" ELSE "none"]
BY DEF LInv, LaneTypeOK, Spawn, SoleDispatcher, Alive, DPC

LEMMA NextLInv == LInv /\ [Next]_vars => LInv'
<1> SUFFICES ASSUME LInv, [Next]_vars PROVE LInv'
  OBVIOUS
<1> USE LaneAssumption
    DEF LInv, LaneTypeOK, Status, Outcome, DPC, HeapIsPending, SoleDispatcher, Paced,
        HeapReady, Alive
<1>1. CASE UNCHANGED vars
  BY <1>1 DEF vars
<1>2. ASSUME NEW r \in Requests, Enqueue(r) PROVE LInv'
  <2>1. PICK p \in Priorities, i \in Buckets : /\ prio' = [prio EXCEPT ![r] = p]
                                              /\ idx' = [idx EXCEPT ![r] = i]
    BY <1>2 DEF Enqueue
  <2>2. i \in Indexers \cup {NoIndexer}
    BY DEF Buckets
  <2>3. CASE running
    BY <1>2, <2>1, <2>2, <2>3 DEF Enqueue, SpawnIfIdle
  <2>4. CASE ~running
    <3>1. Spawn
      BY <1>2, <2>4 DEF Enqueue, SpawnIfIdle
    <3>2. PICK d \in Dispatchers :
             dpc' = [e \in Dispatchers |-> IF e = d THEN "spawned" ELSE "none"]
      BY <2>4, <3>1, SpawnKeeps
    <3>3. running' = TRUE
      BY <2>4, <3>1, SpawnKeeps
    <3> QED BY <1>2, <2>1, <2>2, <3>2, <3>3 DEF Enqueue
  <2> QED BY <2>3, <2>4
<1>3. ASSUME NEW r \in Requests, Refuse(r) \/ CancelQueued(r) PROVE LInv'
  BY <1>3 DEF Refuse, CancelQueued
<1>4. ASSUME NEW r \in Requests, Probe(r) PROVE LInv'
  <2>1. PICK d \in Dispatchers :
           dpc' = [e \in Dispatchers |-> IF e = d THEN "spawned" ELSE "none"]
    BY <1>4, SpawnKeeps DEF Probe
  <2> QED BY <1>4, <2>1, SpawnKeeps DEF Probe
<1>5. ASSUME NEW r \in Requests, SendEnds(r) PROVE LInv'
  BY <1>5 DEF SendEnds
<1>6. ASSUME NEW r \in Requests, Report1(r) PROVE LInv'
  BY <1>6 DEF Report1
<1>7. ASSUME NEW r \in Requests, Report2(r) PROVE LInv'
  BY <1>7 DEF Report2
<1>8. ASSUME NEW r \in Requests, ClientReport(r) \/ CancelSend(r) PROVE LInv'
  BY <1>8 DEF ClientReport, CancelSend
<1>9. ASSUME NEW d \in Dispatchers, Gate(d) PROVE LInv'
  <2>1. Drained \subseteq heap
    BY DEF Drained
  <2> QED BY <1>9, <2>1 DEF Gate
<1>10. ASSUME NEW d \in Dispatchers, Wake(d) PROVE LInv'
  BY <1>10 DEF Wake
<1>11. ASSUME NEW d \in Dispatchers, AcquirePermit(d) PROVE LInv'
  BY <1>11 DEF AcquirePermit
<1>12. ASSUME NEW d \in Dispatchers, PopReject(d) \/ PopGrant(d) PROVE LInv'
  <2>1. PICK r \in heap : /\ Pop(d, r)
                          /\ status' = [status EXCEPT ![r] = "done"]
                               \/ status' = [status EXCEPT ![r] = "flight"]
                          /\ since' = since \/ since' = 0
                          /\ avail' = avail \/ avail' = avail + 1
    BY <1>12 DEF PopReject, PopGrant
  <2> QED BY <2>1 DEF Pop
<1>13. ASSUME NEW d \in Dispatchers, Die(d) PROVE LInv'
  <2>1. CASE running' = FALSE /\ dpc[d] \in {"sleep", "sem"}
    <3>1. \A e \in Dispatchers : dpc'[e] = "none"
      BY <1>13, <2>1 DEF Die
    <3>2. dpc' \in [Dispatchers -> DPC] /\ deaths' \in Nat
      BY <1>13 DEF Die
    <3>3. running' \in BOOLEAN
      BY <2>1
    <3>4. UNCHANGED <<status, prio, idx, seq, nextSeq, out, heap, wait, avail, since>>
      BY <1>13 DEF Die
    <3>5. LaneTypeOK' /\ HeapIsPending'
      BY <3>2, <3>3, <3>4
    <3> QED BY <3>1, <3>5
  <2>2. CASE UNCHANGED running
    BY <1>13, <2>2 DEF Die
  <2> QED BY <1>13, <2>1, <2>2 DEF Die
<1>14. CASE Tick
  <2>1. since' \in 0..Interval /\ wait' \in [Dispatchers -> 0..Interval]
    BY <1>14 DEF Tick
  <2>2. Paced'
    BY <1>14 DEF Tick
  <2> QED BY <1>14, <2>1, <2>2 DEF Tick
<1> QED
  BY <1>1, <1>2, <1>3, <1>4, <1>5, <1>6, <1>7, <1>8, <1>9, <1>10, <1>11, <1>12, <1>13, <1>14
     DEF Next, Caller, Dispatch

LEMMA IInvParts == IInv <=> LInv /\ BreakersOK
BY DEF IInv, LInv, TypeOK, LaneTypeOK, BreakersOK

LEMMA NextIInv == IInv /\ [Next]_vars => IInv'
BY IInvParts, NextLInv, NextBreakers DEF IInv, LInv, TypeOK, LaneTypeOK, BreakersOK

\* outbound_queue.rs: type correctness of the lane's state.
THEOREM TypeCorrect == Spec => []TypeOK
<1>1. IInv => TypeOK
  BY DEF IInv
<1> QED BY InitIInv, NextIInv, <1>1, PTL DEF Spec

\* outbound_queue.rs run_dispatcher: the expect() after the two awaits of the
\* dispatcher never fails, with any number of dispatcher deaths and respawns.
THEOREM NeverPopsEmpty == Spec => []HeapReady
<1>1. IInv => HeapReady
  BY DEF IInv
<1> QED BY InitIInv, NextIInv, <1>1, PTL DEF Spec

-----------------------------------------------------------------------------
(* Permit accounting.                                                      *)

Popping == {d \in Dispatchers : dpc[d] = "pop"}

LEMMA FiniteParts ==
  /\ IsFiniteSet(Holding) /\ Cardinality(Holding) \in Nat
  /\ IsFiniteSet(Popping) /\ Cardinality(Popping) \in Nat
<1>1. IsFiniteSet(Holding) /\ IsFiniteSet(Popping)
  BY LaneAssumption, FS_Subset DEF Holding, Popping
<1> QED BY <1>1, FS_CardinalityType

LEMMA ConservationIs ==
  PermitConservation <=> avail + Cardinality(Holding) + Cardinality(Popping) = Cap
BY DEF PermitConservation, Popping

\* A step that moves no permit.
LEMMA SamePermits ==
  ASSUME PermitConservation, avail' = avail, Holding' = Holding, Popping' = Popping
  PROVE  PermitConservation'
BY DEF PermitConservation, Popping

\* The holder r gives its permit back.
LEMMA HolderReturns ==
  ASSUME PermitConservation, avail \in Nat, NEW r \in Holding, avail' = avail + 1,
         Holding' = Holding \ {r}, Popping' = Popping
  PROVE  PermitConservation'
<1>1. Cardinality(Holding \ {r}) = Cardinality(Holding) - 1
  BY FiniteParts, FS_RemoveElement
<1>2. Cardinality(Holding') = Cardinality(Holding) - 1 /\ Cardinality(Popping') = Cardinality(Popping)
  BY <1>1
<1> QED BY <1>2, FiniteParts, LaneAssumption DEF PermitConservation, Popping

\* The dispatcher d takes a permit, gives it back, or passes it to r.
LEMMA DispatcherTakes ==
  ASSUME PermitConservation, avail \in Nat, NEW d \in Dispatchers, d \notin Popping,
         avail > 0, avail' = avail - 1, Holding' = Holding, Popping' = Popping \cup {d}
  PROVE  PermitConservation'
<1>1. Cardinality(Popping \cup {d}) = Cardinality(Popping) + 1
  BY FiniteParts, FS_AddElement
<1>2. Cardinality(Holding') = Cardinality(Holding) /\ Cardinality(Popping') = Cardinality(Popping) + 1
  BY <1>1
<1> QED BY <1>2, FiniteParts, LaneAssumption DEF PermitConservation, Popping

LEMMA DispatcherReturns ==
  ASSUME PermitConservation, avail \in Nat, NEW d \in Popping,
         avail' = avail + 1, Holding' = Holding, Popping' = Popping \ {d}
  PROVE  PermitConservation'
<1>1. Cardinality(Popping \ {d}) = Cardinality(Popping) - 1
  BY FiniteParts, FS_RemoveElement
<1>2. Cardinality(Holding') = Cardinality(Holding) /\ Cardinality(Popping') = Cardinality(Popping) - 1
  BY <1>1
<1> QED BY <1>2, FiniteParts, LaneAssumption DEF PermitConservation, Popping

LEMMA DispatcherGrants ==
  ASSUME PermitConservation, avail \in Nat, NEW d \in Popping,
         NEW r \in Requests, r \notin Holding,
         avail' = avail, Holding' = Holding \cup {r}, Popping' = Popping \ {d}
  PROVE  PermitConservation'
<1>1. Cardinality(Popping \ {d}) = Cardinality(Popping) - 1
  BY FiniteParts, FS_RemoveElement
<1>2. Cardinality(Holding \cup {r}) = Cardinality(Holding) + 1
  BY FiniteParts, FS_AddElement
<1>3. /\ Cardinality(Holding') = Cardinality(Holding) + 1
      /\ Cardinality(Popping') = Cardinality(Popping) - 1
  BY <1>1, <1>2
<1> QED BY <1>3, FiniteParts, LaneAssumption DEF PermitConservation, Popping

-----------------------------------------------------------------------------
(* What each action does to the holders, the dispatcher and the clock.     *)

\* Steps that neither move a permit nor touch the pacing clock.
Quiet == avail' = avail /\ Holding' = Holding /\ Popping' = Popping /\ since' = since

LEMMA CallerQuiet ==
  ASSUME LInv, NEW r \in Requests,
         Refuse(r) \/ CancelQueued(r) \/ SendEnds(r) \/ Report1(r) \/ ClientReport(r)
  PROVE  Quiet
BY DEF LInv, LaneTypeOK, Status, Quiet, Holding, Popping,
       Refuse, CancelQueued, SendEnds, Report1, ClientReport

LEMMA SpawnQuiet ==
  ASSUME LInv, NEW r \in Requests, Enqueue(r) \/ Probe(r)
  PROVE  Quiet
<1>1. Popping' = Popping
  BY DEF LInv, LaneTypeOK, Popping, Enqueue, Probe, SpawnIfIdle, Spawn, Alive, DPC
<1>2. Holding' = Holding /\ avail' = avail /\ since' = since
  BY DEF LInv, LaneTypeOK, Status, Holding, Enqueue, Probe
<1> QED BY <1>1, <1>2 DEF Quiet

LEMMA DispatcherQuiet ==
  ASSUME LInv, NEW d \in Dispatchers, Gate(d) \/ Wake(d) \/ Die(d)
  PROVE  Quiet
<1>1. Popping' = Popping
  BY DEF LInv, LaneTypeOK, Popping, Gate, Wake, Die, DPC
<1>2. CASE Gate(d)
  <2>1. \A r \in Drained : status[r] \in {"queued", "dead"}
    BY DEF LInv, HeapIsPending, Drained
  <2> QED BY <1>1, <1>2, <2>1 DEF Gate, Holding, Quiet
<1>3. CASE Wake(d) \/ Die(d)
  BY <1>1, <1>3 DEF Wake, Die, Holding, Quiet
<1> QED BY <1>2, <1>3

\* The holder's permit returns with the end of do_fetch or its cancellation.
LEMMA ReturnStep ==
  ASSUME LInv, NEW r \in Requests, Report2(r) \/ CancelSend(r)
  PROVE  /\ r \in Holding /\ avail' = avail + 1 /\ Holding' = Holding \ {r}
         /\ Popping' = Popping /\ since' = since
<1>1. r \in Holding /\ Holding' = Holding \ {r}
  BY DEF LInv, LaneTypeOK, Status, Holding, Report2, CancelSend
<1> QED BY <1>1 DEF Popping, Report2, CancelSend

LEMMA TakeStep ==
  ASSUME LInv, NEW d \in Dispatchers, AcquirePermit(d)
  PROVE  /\ d \notin Popping /\ avail > 0 /\ avail' = avail - 1 /\ Holding' = Holding
         /\ Popping' = Popping \cup {d} /\ since' = since
BY DEF LInv, LaneTypeOK, DPC, Holding, Popping, AcquirePermit

LEMMA RejectStep ==
  ASSUME LInv, NEW d \in Dispatchers, PopReject(d)
  PROVE  /\ d \in Popping /\ avail' = avail + 1 /\ Holding' = Holding
         /\ Popping' = Popping \ {d} /\ since' = since
<1>1. PICK r \in heap : /\ Pop(d, r) /\ status' = [status EXCEPT ![r] = "done"]
                        /\ avail' = avail + 1 /\ since' = since
  BY DEF PopReject
<1>2. status[r] \in {"queued", "dead"} /\ r \in Requests
  BY DEF LInv, HeapIsPending
<1>3. Holding' = Holding
  BY <1>1, <1>2 DEF LInv, LaneTypeOK, Holding
<1>4. d \in Popping /\ Popping' = Popping \ {d}
  BY <1>1 DEF LInv, LaneTypeOK, DPC, Popping, Pop
<1> QED BY <1>1, <1>3, <1>4

LEMMA GrantStep ==
  ASSUME LInv, NEW d \in Dispatchers, PopGrant(d)
  PROVE  \E r \in Requests :
           /\ d \in Popping /\ r \notin Holding /\ avail' = avail
           /\ Holding' = Holding \cup {r} /\ Popping' = Popping \ {d}
           /\ since = Interval /\ since' = 0
<1>1. PICK r \in heap : /\ Pop(d, r) /\ status' = [status EXCEPT ![r] = "flight"]
                        /\ avail' = avail /\ since' = 0
  BY DEF PopGrant
<1>2. status[r] \in {"queued", "dead"} /\ r \in Requests
  BY DEF LInv, HeapIsPending
<1>3. r \notin Holding /\ Holding' = Holding \cup {r}
  BY <1>1, <1>2 DEF LInv, LaneTypeOK, Holding
<1>4. d \in Popping /\ Popping' = Popping \ {d}
  BY <1>1 DEF LInv, LaneTypeOK, DPC, Popping, Pop
<1>5. since = Interval
  BY <1>1 DEF LInv, Paced, Pop
<1> QED BY <1>1, <1>2, <1>3, <1>4, <1>5

LEMMA TickStep ==
  ASSUME LInv, Tick
  PROVE  /\ avail' = avail /\ Holding' = Holding /\ Popping' = Popping
         /\ since' = IF since < Interval THEN since + 1 ELSE since
BY DEF Tick, Holding, Popping

LEMMA StutterQuiet == ASSUME UNCHANGED vars PROVE Quiet
BY DEF vars, Quiet, Holding, Popping

\* Every step of the lane is one of these five.
LEMMA StepKinds ==
  ASSUME LInv, [Next]_vars
  PROVE  \/ Quiet
         \/ \E r \in Requests : Report2(r) \/ CancelSend(r)
         \/ \E d \in Dispatchers : AcquirePermit(d) \/ PopReject(d) \/ PopGrant(d)
         \/ Tick
BY CallerQuiet, SpawnQuiet, DispatcherQuiet, StutterQuiet DEF Next, Caller, Dispatch

LEMMA InitPermits == Init => PermitConservation
<1> SUFFICES ASSUME Init PROVE PermitConservation
  OBVIOUS
<1>1. Holding = {} /\ Popping = {} /\ avail = Cap
  BY DEF Init, Holding, Popping
<1> QED BY <1>1, FS_EmptySet, ConservationIs, LaneAssumption

LEMMA NextPermits == LInv /\ PermitConservation /\ [Next]_vars => PermitConservation'
<1> SUFFICES ASSUME LInv, PermitConservation, [Next]_vars PROVE PermitConservation'
  OBVIOUS
<1>t. avail \in Nat
  BY DEF LInv, LaneTypeOK
<1>1. CASE Quiet
  BY <1>1, SamePermits DEF Quiet
<1>2. ASSUME NEW r \in Requests, Report2(r) \/ CancelSend(r) PROVE PermitConservation'
  BY <1>2, <1>t, ReturnStep, HolderReturns
<1>3. ASSUME NEW d \in Dispatchers, AcquirePermit(d) PROVE PermitConservation'
  BY <1>3, <1>t, TakeStep, DispatcherTakes
<1>4. ASSUME NEW d \in Dispatchers, PopReject(d) PROVE PermitConservation'
  BY <1>4, <1>t, RejectStep, DispatcherReturns
<1>5. ASSUME NEW d \in Dispatchers, PopGrant(d) PROVE PermitConservation'
  BY <1>5, <1>t, GrantStep, DispatcherGrants
<1>6. CASE Tick
  BY <1>6, TickStep, SamePermits
<1> QED BY StepKinds, <1>1, <1>2, <1>3, <1>4, <1>5, <1>6

\* outbound_queue.rs in-flight semaphore: no cancellation, rejection, dead caller
\* or dispatcher death leaks or forges an in-flight permit.
THEOREM PermitsConserved == Spec => []PermitConservation
<1>1. IInv => LInv
  BY IInvParts
<1> QED BY InitIInv, NextIInv, InitPermits, NextPermits, <1>1, PTL DEF Spec

-----------------------------------------------------------------------------
(* Refinement: every step of the lane is a step of RateLimiter or leaves   *)
(* its two variables alone.                                                *)

LEMMA InitRefines == Init => Limiter!RLInit
BY DEF Init, Limiter!RLInit, Holding

LEMMA NextRefines ==
  LInv /\ PermitConservation /\ [Next]_vars => [Limiter!RLNext]_(Limiter!rlvars)
<1> SUFFICES ASSUME LInv, PermitConservation, [Next]_vars
             PROVE  [Limiter!RLNext]_(Limiter!rlvars)
  OBVIOUS
<1>t. avail \in Nat /\ since \in 0..Interval
  BY DEF LInv, LaneTypeOK
<1>1. CASE Quiet
  BY <1>1 DEF Quiet, Limiter!rlvars
<1>2. ASSUME NEW r \in Requests, Report2(r) \/ CancelSend(r)
      PROVE  Limiter!RLNext
  <2>1. Limiter!Finish(r)
    BY <1>2, ReturnStep DEF Limiter!Finish
  <2> QED BY <2>1 DEF Limiter!RLNext
<1>3. ASSUME NEW d \in Dispatchers, AcquirePermit(d) \/ PopReject(d)
      PROVE  UNCHANGED Limiter!rlvars
  BY <1>3, TakeStep, RejectStep DEF Limiter!rlvars
<1>4. ASSUME NEW d \in Dispatchers, PopGrant(d) PROVE Limiter!RLNext
  <2>1. PICK r \in Requests :
           /\ d \in Popping /\ r \notin Holding
           /\ Holding' = Holding \cup {r} /\ since = Interval /\ since' = 0
    BY <1>4, GrantStep
  <2>2. Cardinality(Popping) >= 1
    <3>1. Cardinality(Popping) # 0
      BY <2>1, FiniteParts, FS_EmptySet
    <3> QED BY <3>1, FiniteParts
  <2>3. Cardinality(Holding) < Cap
    BY <2>2, <1>t, FiniteParts, ConservationIs, LaneAssumption
  <2>4. Limiter!Cardinality(Holding) = Cardinality(Holding)
    BY DEF Limiter!Cardinality, Cardinality
  <2>5. Limiter!Start(r)
    BY <2>1, <2>3, <2>4 DEF Limiter!Start
  <2> QED BY <2>5 DEF Limiter!RLNext
<1>5. CASE Tick
  <2>1. CASE since < Interval
    <3>1. since' = since + 1 /\ Holding' = Holding
      BY <1>5, <2>1, TickStep
    <3>2. Limiter!Pass
      BY <2>1, <3>1 DEF Limiter!Pass
    <3> QED BY <3>2 DEF Limiter!RLNext
  <2>2. CASE ~(since < Interval)
    <3>1. since' = since /\ Holding' = Holding
      BY <1>5, <2>2, TickStep
    <3> QED BY <3>1 DEF Limiter!rlvars
  <2> QED BY <2>1, <2>2
<1> QED BY StepKinds, <1>1, <1>2, <1>3, <1>4, <1>5

\* outbound_queue.rs: for any interval, cap, number of callers and breaker
\* configuration the lane keeps the promise made to the remote host: bounded
\* in-flight sends, paced starts, and a cancelled caller burns no interval.
THEOREM LaneImplementsLimiter == Spec => ImplementsLimiter
<1>1. IInv => LInv
  BY IInvParts
<1> QED
  BY InitIInv, NextIInv, InitPermits, NextPermits, InitRefines, NextRefines, <1>1, PTL
     DEF Spec, ImplementsLimiter, Limiter!RLSpec

-----------------------------------------------------------------------------
(* Who leaves the queue, and how.                                          *)

LEMMA InitNumbered == Init => Numbered
BY DEF Init, Numbered

LEMMA NextNumbered == LInv /\ Numbered /\ [Next]_vars => Numbered'
<1> SUFFICES ASSUME LInv, Numbered, [Next]_vars PROVE Numbered'
  OBVIOUS
<1>t. nextSeq \in Nat /\ seq \in [Requests -> Nat] /\ heap \in SUBSET Requests
  BY DEF LInv, LaneTypeOK
<1>1. ASSUME NEW r \in Requests, Enqueue(r) PROVE Numbered'
  <2>1. r \notin heap
    BY <1>1 DEF LInv, HeapIsPending, Enqueue
  <2>2. /\ seq' = [seq EXCEPT ![r] = nextSeq] /\ nextSeq' = nextSeq + 1
        /\ heap' = heap \cup {r}
    BY <1>1 DEF Enqueue
  <2> QED BY <1>t, <2>1, <2>2 DEF Numbered
<1>2. ASSUME heap' \subseteq heap, seq' = seq, nextSeq' = nextSeq PROVE Numbered'
  BY <1>2 DEF Numbered
<1>3. ASSUME NEW r \in Requests, Caller(r), ~Enqueue(r) PROVE Numbered'
  <2>1. heap' = heap /\ seq' = seq /\ nextSeq' = nextSeq
    BY <1>3 DEF Caller, Refuse, CancelQueued, Probe, SendEnds, Report1, Report2,
                ClientReport, CancelSend
  <2> QED BY <1>2, <2>1
<1>4. ASSUME NEW d \in Dispatchers, Dispatch(d) \/ Die(d) PROVE Numbered'
  <2>1. heap' \subseteq heap /\ seq' = seq /\ nextSeq' = nextSeq
    BY <1>4 DEF Dispatch, Gate, Wake, AcquirePermit, PopReject, PopGrant, Pop, Die
  <2> QED BY <1>2, <2>1
<1>5. CASE Tick \/ UNCHANGED vars
  <2>1. heap' = heap /\ seq' = seq /\ nextSeq' = nextSeq
    BY <1>5 DEF Tick, vars
  <2> QED BY <1>2, <2>1
<1> QED BY <1>1, <1>3, <1>4, <1>5 DEF Next

\* A waiting request goes to "flight" only as the top that Phase 3 pops.
LEMMA OnlyGrantStarts ==
  ASSUME LInv, [Next]_vars, NEW r \in Requests, status[r] = "queued", status'[r] = "flight"
  PROVE  \E d \in Dispatchers : Pop(d, r) /\ ~Blocked(r)
<1>1. PICK d \in Dispatchers : PopGrant(d)
  <2> USE DEF LInv, LaneTypeOK, Status
  <2>1. ASSUME NEW q \in Requests, Caller(q) PROVE FALSE
    <3>1. CASE q = r
      BY <2>1, <3>1 DEF Caller, Enqueue, Refuse, CancelQueued, Probe, SendEnds, Report1,
                  Report2, ClientReport, CancelSend
    <3>2. CASE q # r
      BY <2>1, <3>2 DEF Caller, Enqueue, Refuse, CancelQueued, Probe, SendEnds, Report1,
                  Report2, ClientReport, CancelSend
    <3> QED BY <3>1, <3>2
  <2>2. ASSUME NEW d \in Dispatchers, Gate(d) \/ Wake(d) \/ AcquirePermit(d) \/ PopReject(d)
                                      \/ Die(d)
        PROVE FALSE
    BY <2>2 DEF Gate, Wake, AcquirePermit, PopReject, Die
  <2>3. CASE Tick \/ UNCHANGED vars
    BY <2>3 DEF Tick, vars
  <2> QED BY <2>1, <2>2, <2>3 DEF Next, Dispatch
<1>2. PICK q \in heap : /\ Pop(d, q) /\ ~Blocked(q)
                        /\ status' = [status EXCEPT ![q] = "flight"]
  BY <1>1 DEF PopGrant
<1>3. q = r
  BY <1>2 DEF LInv, LaneTypeOK
<1> QED BY <1>2, <1>3

\* A waiting request is turned away only by Phase 1's drain or Phase 3's second
\* look, both of which found one of its own breakers open.
LEMMA OnlyBlockedLeaves ==
  ASSUME LInv, [Next]_vars, NEW r \in Requests, status[r] = "queued", status'[r] = "done"
  PROVE  Blocked(r)
<1> USE DEF LInv, LaneTypeOK, Status
<1>1. ASSUME NEW q \in Requests, Caller(q) PROVE FALSE
  <2>1. CASE q = r
    BY <1>1, <2>1 DEF Caller, Enqueue, Refuse, CancelQueued, Probe, SendEnds, Report1,
                Report2, ClientReport, CancelSend
  <2>2. CASE q # r
    BY <1>1, <2>2 DEF Caller, Enqueue, Refuse, CancelQueued, Probe, SendEnds, Report1,
                Report2, ClientReport, CancelSend
  <2> QED BY <2>1, <2>2
<1>2. ASSUME NEW d \in Dispatchers, Gate(d) PROVE Blocked(r)
  BY <1>2 DEF Gate, Drained
<1>3. ASSUME NEW d \in Dispatchers, PopReject(d) PROVE Blocked(r)
  <2>1. PICK q \in heap : /\ Blocked(q) \/ status[q] = "dead"
                          /\ status' = [status EXCEPT ![q] = "done"]
    BY <1>3 DEF PopReject
  <2>2. q = r
    BY <2>1
  <2> QED BY <2>1, <2>2
<1>4. ASSUME NEW d \in Dispatchers, Wake(d) \/ AcquirePermit(d) \/ PopGrant(d) \/ Die(d)
      PROVE FALSE
  BY <1>4 DEF Wake, AcquirePermit, PopGrant, Die
<1>5. CASE Tick \/ UNCHANGED vars
  BY <1>5 DEF Tick, vars
<1> QED BY <1>1, <1>2, <1>3, <1>4, <1>5 DEF Next, Dispatch

\* outbound_queue.rs Phase 3: whatever trips during the pacing and permit waits,
\* no request starts under an open breaker of its own.
THEOREM NoStartWhileOpen == Spec => QuietWhileOpen
<1>1. IInv => LInv
  BY IInvParts
<1>2. LInv /\ [Next]_vars =>
        [\A r \in Requests : status[r] = "queued" /\ status'[r] = "flight" => ~Blocked(r)]_vars
  BY OnlyGrantStarts
<1> QED BY InitIInv, NextIInv, <1>1, <1>2, PTL DEF Spec, QuietWhileOpen

\* outbound_queue.rs Phase 1 (issue #130): for any set of indexers behind one
\* origin, a request is turned away for its own breakers and for no other's.
THEOREM OnlyOwnBreakerRejects == Spec => NeighbourUnharmed
<1>1. IInv => LInv
  BY IInvParts
<1>2. LInv /\ [Next]_vars =>
        [\A r \in Requests : status[r] = "queued" /\ status'[r] = "done" => Blocked(r)]_vars
  BY OnlyBlockedLeaves
<1> QED BY InitIInv, NextIInv, <1>1, <1>2, PTL DEF Spec, NeighbourUnharmed

\* outbound_queue.rs QueuedItem: for any number of requests and priorities, the
\* starts follow priority first and enqueue order second.
THEOREM OrderedStarts == Spec => StartsInOrder
<1>1. IInv => LInv
  BY IInvParts
<1>2. ASSUME LInv, Numbered, [Next]_vars, NEW r \in Requests,
             status[r] = "queued", status'[r] = "flight",
             NEW q \in Requests \ {r}, status[q] = "queued"
      PROVE  prio[q] < prio[r] \/ (prio[q] = prio[r] /\ seq[q] > seq[r])
  <2>1. IsTop(r, heap)
    BY <1>2, OnlyGrantStarts DEF Pop
  <2>2. q \in heap /\ r \in heap
    BY <1>2 DEF LInv, HeapIsPending
  <2>3. seq[q] # seq[r]
    BY <1>2, <2>2 DEF Numbered
  <2>4. /\ prio[q] \in Nat /\ prio[r] \in Nat /\ seq[q] \in Nat /\ seq[r] \in Nat
    BY <1>2, LaneAssumption DEF LInv, LaneTypeOK
  <2> QED BY <2>1, <2>2, <2>3, <2>4 DEF IsTop, Before
<1>3. LInv /\ Numbered /\ [Next]_vars =>
        [\A r \in Requests : status[r] = "queued" /\ status'[r] = "flight" =>
           \A q \in Requests \ {r} : status[q] = "queued" =>
             prio[q] < prio[r] \/ (prio[q] = prio[r] /\ seq[q] > seq[r])]_vars
  BY <1>2
<1> QED BY InitIInv, NextIInv, InitNumbered, NextNumbered, <1>1, <1>3, PTL
        DEF Spec, StartsInOrder
=============================================================================
