------------------------------- MODULE PaceLane -------------------------------
(***************************************************************************)
(* One lane of the outbound queue of livrarr-http (outbound_queue.rs): the *)
(* pending heap, the dispatcher that is spawned on demand, the pacing      *)
(* clock, the in-flight semaphore, the lane's transport breaker and the    *)
(* rate-limit breakers of the indexers behind it, together with the        *)
(* reports that do_fetch (fetcher.rs) and the provider clients make.       *)
(*                                                                         *)
(* A request is one call of acquire() and the send that follows it.  The   *)
(* heap holds the requests whose QueuedItem is pending, also the ones      *)
(* whose caller has gone away.                                             *)
(***************************************************************************)
EXTENDS CircuitBreaker

CONSTANTS
  Requests,     \* the calls to acquire()
  Priorities,   \* request priorities, a set of naturals
  Threshold,    \* admission_threshold, a function of the priority
  Indexers,     \* the resolved indexers behind this origin
  NoIndexer,    \* the bucket carries no indexer identity
  ProviderLane, \* TRUE: a book provider's lane; FALSE: an indexer origin's
  Dispatchers,  \* identities of dispatcher tasks
  Cap,          \* OUTBOUND_IN_FLIGHT_CAP
  Interval,     \* interval_for(bucket), in ticks
  Teardown,     \* which dispatchers a dying runtime may take with it
  MaxDeaths     \* bound on how many it takes

ASSUME LaneAssumption ==
  /\ IsFiniteSet(Requests) /\ IsFiniteSet(Dispatchers)
  /\ Priorities \subseteq Nat /\ Priorities # {}
  /\ Threshold \in [Priorities -> Nat]
  /\ NoIndexer \notin Indexers
  /\ ProviderLane \in BOOLEAN
  /\ Cap \in Nat \ {0}
  /\ Interval \in Nat
  /\ Teardown \in {"never", "started", "any"}

VARIABLES
  status,     \* where each request is
  prio, idx,  \* its priority and indexer, chosen when it is made
  seq,        \* its enqueue sequence number
  nextSeq,    \* SEQ
  out,        \* the outcome of its send
  heap,       \* the pending requests
  running,    \* dispatcher_running
  dpc,        \* where each dispatcher task is; "none" is no task
  wait,       \* ticks until the dispatcher's next_allowed
  avail,      \* free permits of the in-flight semaphore
  since,      \* ticks since last_dispatch, counted up to Interval
  transport,  \* the lane's transport breaker
  rl,         \* the indexers' rate-limit breakers
  deaths      \* dispatchers lost so far

reqVars == <<status, prio, idx, seq, nextSeq, out>>
dispVars == <<running, dpc, wait, deaths>>
brkVars == <<transport, rl>>
vars == <<status, prio, idx, seq, nextSeq, out, heap, running, dpc, wait, avail, since,
          transport, rl, deaths>>

Status == {"new", "queued", "dead", "flight", "report1", "report2", "client", "done"}
Outcome == {"ok", "limited", "failed", "antibot"}
DPC == {"none", "spawned", "gate", "sleep", "sem", "pop"}

TypeOK ==
  /\ status \in [Requests -> Status]
  /\ prio \in [Requests -> Priorities]
  /\ idx \in [Requests -> Indexers \cup {NoIndexer}]
  /\ seq \in [Requests -> Nat]
  /\ nextSeq \in Nat
  /\ out \in [Requests -> Outcome]
  /\ heap \in SUBSET Requests
  /\ running \in BOOLEAN
  /\ dpc \in [Dispatchers -> DPC]
  /\ wait \in [Dispatchers -> 0..Interval]
  /\ avail \in Nat
  /\ since \in 0..Interval
  /\ transport \in Breaker
  /\ rl \in [Indexers -> Breaker]
  /\ deaths \in Nat

\* A QueuePermit exists from the grant until do_fetch returns or is dropped.
Holding == {r \in Requests : status[r] \in {"flight", "report1", "report2"}}

Alive(d) == dpc[d] # "none"

Init ==
  /\ status = [r \in Requests |-> "new"]
  /\ prio = [r \in Requests |-> CHOOSE p \in Priorities : TRUE]
  /\ idx = [r \in Requests |-> NoIndexer]
  /\ seq = [r \in Requests |-> 0]
  /\ nextSeq = 0
  /\ out = [r \in Requests |-> "ok"]
  /\ heap = {}
  /\ running = FALSE
  /\ dpc = [d \in Dispatchers |-> "none"]
  /\ wait = [d \in Dispatchers |-> 0]
  /\ avail = Cap
  /\ since = Interval     \* last_dispatch is backdated by one interval
  /\ transport = NewBreaker
  /\ rl = [i \in Indexers |-> NewBreaker]
  /\ deaths = 0

-----------------------------------------------------------------------------
(* acquire(): admission, enqueue, and the waiter's probe.                  *)

Spawn ==
  \E d \in Dispatchers :
    /\ ~Alive(d)
    /\ running' = TRUE
    /\ dpc' = [dpc EXCEPT ![d] = "spawned"]

\* Mutant: the flag is not consulted before a dispatcher is spawned.
SpawnAlways == Spawn

SpawnIfIdle == IF running THEN UNCHANGED <<running, dpc>> ELSE Spawn

Buckets == IF ProviderLane THEN {NoIndexer} ELSE Indexers \cup {NoIndexer}

Enqueue(r) ==
  /\ status[r] = "new"
  /\ \E p \in Priorities, i \in Buckets :
       /\ Cardinality(heap) < Threshold[p]
       /\ prio' = [prio EXCEPT ![r] = p]
       /\ idx' = [idx EXCEPT ![r] = i]
  /\ status' = [status EXCEPT ![r] = "queued"]
  /\ seq' = [seq EXCEPT ![r] = nextSeq]
  /\ nextSeq' = nextSeq + 1
  /\ heap' = heap \cup {r}
  /\ SpawnIfIdle
  /\ UNCHANGED <<out, wait, avail, since, transport, rl, deaths>>

\* QueueFull: this priority has no headroom left.
Refuse(r) ==
  /\ status[r] = "new"
  /\ \E p \in Priorities : Cardinality(heap) >= Threshold[p]
  /\ status' = [status EXCEPT ![r] = "done"]
  /\ UNCHANGED <<prio, idx, seq, nextSeq, out, heap, running, dpc, wait, avail, since,
                 transport, rl, deaths>>

\* The caller's future is dropped while it waits: its item stays in the heap.
CancelQueued(r) ==
  /\ status[r] = "queued"
  /\ status' = [status EXCEPT ![r] = "dead"]
  /\ UNCHANGED <<prio, idx, seq, nextSeq, out, heap, running, dpc, wait, avail, since,
                 transport, rl, deaths>>

\* Mutant: the probe revives only what is running.
ProbeInverted(r) ==
  /\ status[r] = "queued"
  /\ running /\ heap # {}
  /\ \A d \in Dispatchers : ~Alive(d)
  /\ Spawn
  /\ UNCHANGED <<status, prio, idx, seq, nextSeq, out, heap, wait, avail, since,
                 transport, rl, deaths>>

\* A waiter's DISPATCHER_PROBE finds a pending heap and no dispatcher.
Probe(r) ==
  /\ status[r] = "queued"
  /\ ~running /\ heap # {}
  /\ Spawn
  /\ UNCHANGED <<status, prio, idx, seq, nextSeq, out, heap, wait, avail, since,
                 transport, rl, deaths>>

-----------------------------------------------------------------------------
(* run_dispatcher().                                                       *)

\* Mutant: the latest arrival of a priority comes first.
BeforeLifo(q, r) == prio[q] > prio[r] \/ (prio[q] = prio[r] /\ seq[q] > seq[r])

\* QueuedItem's order: higher priority first, then earlier sequence number.
Before(q, r) == prio[q] > prio[r] \/ (prio[q] = prio[r] /\ seq[q] < seq[r])

RlOpen(r) == idx[r] \in Indexers /\ IsOpen(rl[idx[r]])
Blocked(r) == RlOpen(r) \/ IsOpen(transport)

\* breaker_open_retry() on the items looked at: the lazy half-open transition
\* happens to each rate-limit breaker asked, and to the transport breaker when
\* it is asked, which is only after a rate-limit breaker that is not Open.
Looked(items) ==
  /\ rl' = [i \in Indexers |->
              IF \E r \in items : idx[r] = i THEN Current(rl[i]) ELSE rl[i]]
  /\ transport' = IF \E r \in items : ~RlOpen(r) THEN Current(transport) ELSE transport

\* Mutant: a blocked top item takes the whole pending queue with it.
DrainedAll ==
  IF \E r \in heap : Blocked(r) /\ \A q \in heap : ~Before(q, r) THEN heap ELSE {}

\* The items Phase 1 pops: blocked, with every item above them blocked too.
Drained == {r \in heap : Blocked(r) /\ \A q \in heap : Before(q, r) => Blocked(q)}

IsTop(r, items) == r \in items /\ \A q \in items : ~Before(q, r)

\* Mutant: the pacing wait is dropped when the lane has a free permit.
GateUnpaced(d) ==
  LET left == heap \ Drained IN
  /\ dpc[d] \in {"spawned", "gate"}
  /\ Looked(Drained \cup {r \in left : IsTop(r, left)})
  /\ status' = [r \in Requests |-> IF r \in Drained THEN "done" ELSE status[r]]
  /\ heap' = left
  /\ running' = (left # {})
  /\ dpc' = [dpc EXCEPT ![d] = IF left = {} THEN "none" ELSE "sleep"]
  /\ wait' = [wait EXCEPT ![d] = 0]
  /\ UNCHANGED <<prio, idx, seq, nextSeq, out, avail, since, deaths>>

\* Phase 1, under one hold of the state lock: reject what a breaker blocks;
\* leave, clearing the flag, when nothing is left; else pace.
Gate(d) ==
  LET left == heap \ Drained IN
  /\ dpc[d] \in {"spawned", "gate"}
  /\ Looked(Drained \cup {r \in left : IsTop(r, left)})
  /\ status' = [r \in Requests |-> IF r \in Drained THEN "done" ELSE status[r]]
  /\ heap' = left
  /\ running' = (left # {})
  /\ dpc' = [dpc EXCEPT ![d] = IF left = {} THEN "none" ELSE "sleep"]
  /\ wait' = [wait EXCEPT ![d] = Interval - since]
  /\ UNCHANGED <<prio, idx, seq, nextSeq, out, avail, since, deaths>>

Wake(d) ==
  /\ dpc[d] = "sleep" /\ wait[d] = 0
  /\ dpc' = [dpc EXCEPT ![d] = "sem"]
  /\ UNCHANGED <<status, prio, idx, seq, nextSeq, out, heap, running, wait, avail, since,
                 transport, rl, deaths>>

AcquirePermit(d) ==
  /\ dpc[d] = "sem" /\ avail > 0
  /\ avail' = avail - 1
  /\ dpc' = [dpc EXCEPT ![d] = "pop"]
  /\ UNCHANGED <<status, prio, idx, seq, nextSeq, out, heap, running, wait, since,
                 transport, rl, deaths>>

\* Phase 3 pops the item now on top, whatever Phase 1 saw, and looks again.
Pop(d, r) ==
  /\ dpc[d] = "pop" /\ IsTop(r, heap)
  /\ heap' = heap \ {r}
  /\ Looked({r})
  /\ dpc' = [dpc EXCEPT ![d] = "gate"]
  /\ UNCHANGED <<prio, idx, seq, nextSeq, out, running, wait, deaths>>

\* A breaker tripped during the wait, or the caller is gone: the permit goes
\* back and the pacing clock stays.
PopReject(d) ==
  \E r \in heap :
    /\ Pop(d, r)
    /\ Blocked(r) \/ status[r] = "dead"
    /\ status' = [status EXCEPT ![r] = "done"]
    /\ avail' = avail + 1
    /\ UNCHANGED since

\* Mutant: the breakers are not looked at again after the wait.
PopGrantBlind(d) ==
  \E r \in heap :
    /\ Pop(d, r)
    /\ status[r] = "queued"
    /\ status' = [status EXCEPT ![r] = "flight"]
    /\ since' = 0
    /\ UNCHANGED avail

PopGrant(d) ==
  \E r \in heap :
    /\ Pop(d, r)
    /\ ~Blocked(r) /\ status[r] = "queued"
    /\ status' = [status EXCEPT ![r] = "flight"]
    /\ since' = 0
    /\ UNCHANGED avail

\* A runtime is torn down at one of the dispatcher's await points: its guard
\* clears the flag.  A task dropped before its first poll has no guard yet.
Die(d) ==
  /\ deaths < MaxDeaths
  /\ \/ Teardown # "never" /\ dpc[d] \in {"sleep", "sem"} /\ running' = FALSE
     \/ Teardown = "any" /\ dpc[d] = "spawned" /\ UNCHANGED running
  /\ dpc' = [dpc EXCEPT ![d] = "none"]
  /\ deaths' = deaths + 1
  /\ UNCHANGED <<status, prio, idx, seq, nextSeq, out, heap, wait, avail, since,
                 transport, rl>>

-----------------------------------------------------------------------------
(* do_fetch(): send, report, release.                                      *)

SendEnds(r) ==
  /\ status[r] = "flight"
  /\ \E o \in Outcome : out' = [out EXCEPT ![r] = o]
  /\ status' = [status EXCEPT ![r] = "report1"]
  /\ UNCHANGED <<prio, idx, seq, nextSeq, heap, running, dpc, wait, avail, since,
                 transport, rl, deaths>>

TripRl(r, for) == rl' = [rl EXCEPT ![idx[r]] = TripImmediately(@, for)]
SucceedRl(r) ==
  IF idx[r] \in Indexers
  THEN rl' = [rl EXCEPT ![idx[r]] = RecordSuccess(@)]
  ELSE UNCHANGED rl

\* The first report.  A 429 is the indexer's own affair on an indexer lane and
\* an ordinary failure on a provider's.
Report1(r) ==
  /\ status[r] = "report1"
  /\ \/ /\ out[r] = "failed" \/ (out[r] = "limited" /\ ProviderLane)
        /\ transport' = RecordFailure(transport) /\ UNCHANGED rl
     \/ /\ out[r] = "antibot"
        /\ transport' = TripImmediately(transport, OpenDuration) /\ UNCHANGED rl
     \/ /\ out[r] = "limited" /\ idx[r] \in Indexers
        /\ \E for \in OpenForSet : TripRl(r, for)
        /\ UNCHANGED transport
     \/ /\ out[r] = "limited" /\ ~ProviderLane /\ idx[r] = NoIndexer
        /\ transport' = RecordSuccess(transport) /\ UNCHANGED rl
     \/ /\ out[r] = "ok" /\ ~ProviderLane
        /\ transport' = RecordSuccess(transport) /\ UNCHANGED rl
     \/ out[r] = "ok" /\ ProviderLane /\ UNCHANGED brkVars
  /\ status' = [status EXCEPT ![r] = "report2"]
  /\ UNCHANGED <<prio, idx, seq, nextSeq, out, heap, running, dpc, wait, avail, since, deaths>>

\* The second report, of the level the first one did not touch; then do_fetch
\* returns and its permit is dropped.
Report2(r) ==
  /\ status[r] = "report2"
  /\ \/ /\ out[r] = "limited" /\ idx[r] \in Indexers
        /\ transport' = RecordSuccess(transport) /\ UNCHANGED rl
     \/ /\ out[r] = "ok" /\ ~ProviderLane
        /\ SucceedRl(r) /\ UNCHANGED transport
     \/ /\ out[r] \in {"failed", "antibot"} \/ (out[r] = "limited" /\ idx[r] = NoIndexer)
           \/ (out[r] = "ok" /\ ProviderLane)
        /\ UNCHANGED brkVars
  /\ status' = [status EXCEPT ![r] = IF ProviderLane /\ out[r] = "ok" THEN "client" ELSE "done"]
  /\ avail' = avail + 1
  /\ UNCHANGED <<prio, idx, seq, nextSeq, out, heap, running, dpc, wait, since, deaths>>

\* A provider client reads the response after the permit is gone and reports.
ClientReport(r) ==
  /\ status[r] = "client"
  /\ \/ transport' = RecordSuccess(transport)
     \/ transport' = RecordFailure(transport)
     \/ \E for \in OpenForSet \cup {OpenDuration} : transport' = TripImmediately(transport, for)
  /\ status' = [status EXCEPT ![r] = "done"]
  /\ UNCHANGED <<prio, idx, seq, nextSeq, out, heap, running, dpc, wait, avail, since, rl, deaths>>

\* The caller is dropped during the send: the permit returns, nothing is reported.
CancelSend(r) ==
  /\ status[r] = "flight"
  /\ status' = [status EXCEPT ![r] = "done"]
  /\ avail' = avail + 1
  /\ UNCHANGED <<prio, idx, seq, nextSeq, out, heap, running, dpc, wait, since,
                 transport, rl, deaths>>

Tick ==
  /\ since' = IF since < Interval THEN since + 1 ELSE since
  /\ wait' = [d \in Dispatchers |-> IF wait[d] > 0 THEN wait[d] - 1 ELSE 0]
  /\ transport' = Aged(transport)
  /\ rl' = [i \in Indexers |-> Aged(rl[i])]
  /\ UNCHANGED <<status, prio, idx, seq, nextSeq, out, heap, running, dpc, avail, deaths>>

-----------------------------------------------------------------------------
Caller(r) ==
  \/ Enqueue(r) \/ Refuse(r) \/ CancelQueued(r) \/ Probe(r)
  \/ SendEnds(r) \/ Report1(r) \/ Report2(r) \/ ClientReport(r) \/ CancelSend(r)

Dispatch(d) ==
  Gate(d) \/ Wake(d) \/ AcquirePermit(d) \/ PopReject(d) \/ PopGrant(d)

Next ==
  \/ \E r \in Requests : Caller(r)
  \/ \E d \in Dispatchers : Dispatch(d) \/ Die(d)
  \/ Tick

\* The runtime polls every ready task, time passes, every send ends (the client
\* has a timeout), and a waiter's probe timer fires.  Nobody has to call,
\* cancel or die.
Fairness ==
  /\ WF_vars(Tick)
  /\ \A d \in Dispatchers : WF_vars(Dispatch(d))
  /\ \A r \in Requests : WF_vars(Probe(r)) /\ WF_vars(SendEnds(r))
                         /\ WF_vars(Report1(r)) /\ WF_vars(Report2(r))

Spec == Init /\ [][Next]_vars
FairSpec == Spec /\ Fairness

-----------------------------------------------------------------------------
(* Properties *)

\* outbound_queue.rs OUTBOUND_IN_FLIGHT_CAP and acquire(): whatever is cancelled,
\* rejected or torn down, the host sees at most Cap sends at once, each started
\* at least Interval after the one before: the lane implements RateLimiter.
Limiter == INSTANCE RateLimiter WITH inFlight <- Holding, idle <- since
ImplementsLimiter == Limiter!RLSpec

\* The permits are free, with a caller, or with the dispatcher that popped one.
PermitConservation ==
  avail + Cardinality(Holding) + Cardinality({d \in Dispatchers : dpc[d] = "pop"}) = Cap

\* outbound_queue.rs run_dispatcher: the expect() of Phase 3 holds. No second
\* dispatcher and no cancellation empties the heap during the two awaits.
HeapReady == \A d \in Dispatchers : dpc[d] \in {"sleep", "sem", "pop"} => heap # {}

\* The rest of the inductive invariant of the proofs: the heap holds exactly the
\* undecided requests, one dispatcher at most is alive and the flag is up with
\* it, and past its sleep the pacing interval has run out.
HeapIsPending == heap = {r \in Requests : status[r] \in {"queued", "dead"}}
SoleDispatcher ==
  \A d \in Dispatchers : Alive(d) => running /\ \A e \in Dispatchers : Alive(e) => d = e
Paced ==
  \A d \in Dispatchers :
    /\ dpc[d] = "sleep" => since + wait[d] >= Interval
    /\ dpc[d] \in {"sem", "pop"} => since = Interval

\* SEQ is handed out once: the pending requests have distinct numbers below it,
\* so that the heap's order is total and has one top.
Numbered ==
  \A q \in heap : seq[q] < nextSeq /\ \A r \in heap \ {q} : seq[q] # seq[r]

IInv == TypeOK /\ HeapIsPending /\ SoleDispatcher /\ Paced /\ HeapReady

\* outbound_queue.rs Phase 3: no request starts while its indexer's or the lane's
\* breaker is Open, also when the breaker tripped during the pacing wait.
QuietWhileOpen ==
  [][ \A r \in Requests : status[r] = "queued" /\ status'[r] = "flight" => ~Blocked(r) ]_vars

\* outbound_queue.rs Phase 1 (issue #130): a waiting request is turned away only
\* by a breaker of its own, never for a neighbour's on the same origin.
NeighbourUnharmed ==
  [][ \A r \in Requests : status[r] = "queued" /\ status'[r] = "done" => Blocked(r) ]_vars

\* outbound_queue.rs acquire(): a request starts only when no live request of a
\* higher priority, or of the same priority and enqueued earlier, is waiting.
StartsInOrder ==
  [][ \A r \in Requests : status[r] = "queued" /\ status'[r] = "flight" =>
        \A q \in Requests \ {r} : status[q] = "queued" =>
           prio[q] < prio[r] \/ (prio[q] = prio[r] /\ seq[q] > seq[r]) ]_vars

\* outbound_queue.rs acquire(): every caller that waits is given a turn or turned
\* away, also when the dispatcher dies under it.
Answered == \A r \in Requests : status[r] = "queued" ~> status[r] # "queued"
=============================================================================
