----------------------------- MODULE LaneRegistry -----------------------------
(***************************************************************************)
(* The registry of pace lanes (outbound_queue.rs): which BucketHandle the  *)
(* callers of a pace key find.  acquire() looks a handle up, pushes on it  *)
(* and re-asserts it in three critical sections of two different locks; a  *)
(* lookup of a new key at the cap sweeps the handles that look quiescent.  *)
(*                                                                         *)
(* Each lane is what PaceLane implements: it starts at most Cap sends at   *)
(* once, Interval ticks apart, none while its breaker is Open.             *)
(***************************************************************************)
EXTENDS CircuitBreaker

CONSTANTS
  Callers,   \* calls to acquire(), each with the send that follows
  Keys,      \* pace keys
  Handles,   \* identities of BucketHandles
  NoHandle,
  RegCap,    \* PACE_REGISTRY_CAP
  Cap,       \* OUTBOUND_IN_FLIGHT_CAP
  Interval   \* interval_for(key), in ticks

ASSUME RegistryAssumption ==
  /\ NoHandle \notin Handles
  /\ RegCap \in Nat \ {0} /\ Cap \in Nat \ {0} /\ Interval \in Nat

VARIABLES
  cpc,       \* where each caller is
  ckey,      \* its pace key
  ch,        \* the handle it cloned
  turn,      \* what the dispatcher sent it: "none", "granted" or "rejected"
  registry,  \* pace key -> handle
  used,      \* the handles created so far
  running,   \* handle -> dispatcher_running
  brk,       \* handle -> its transport breaker
  cool,      \* handle -> ticks since its last_dispatch, up to Interval
  quiet,     \* pace key -> ticks since the host last got a request, up to Interval
  split      \* the keys for which a handle was made although a caller had one in hand

vars == <<cpc, ckey, ch, turn, registry, used, running, brk, cool, quiet, split>>

TypeOK ==
  /\ cpc \in [Callers -> {"idle", "looked", "pushed", "waiting", "sending", "dead", "done"}]
  /\ ckey \in [Callers -> Keys]
  /\ ch \in [Callers -> Handles \cup {NoHandle}]
  /\ turn \in [Callers -> {"none", "granted", "rejected"}]
  /\ registry \in [Keys -> Handles \cup {NoHandle}]
  /\ used \in SUBSET Handles
  /\ running \in [Handles -> BOOLEAN]
  /\ brk \in [Handles -> Breaker]
  /\ cool \in [Handles -> 0..Interval]
  /\ quiet \in [Keys -> 0..Interval]
  /\ split \subseteq Keys

Init ==
  /\ cpc = [c \in Callers |-> "idle"]
  /\ ckey \in [Callers -> Keys]
  /\ ch = [c \in Callers |-> NoHandle]
  /\ turn = [c \in Callers |-> "none"]
  /\ registry = [k \in Keys |-> NoHandle]
  /\ used = {}
  /\ running = [h \in Handles |-> FALSE]
  /\ brk = [h \in Handles |-> NewBreaker]
  /\ cool = [h \in Handles |-> Interval]
  /\ quiet = [k \in Keys |-> Interval]
  /\ split = {}

\* The items in a handle's heap; a "dead" one has no receiver any more.
Pending(h) ==
  {c \in Callers : ch[c] = h /\ cpc[c] \in {"pushed", "waiting", "dead"} /\ turn[c] = "none"}

\* A permit is out from the grant until the caller is done with it.
Holding(h) == {c \in Callers : ch[c] = h /\ turn[c] = "granted" /\ cpc[c] # "done"}

Resident == {k \in Keys : registry[k] # NoHandle}

\* bucket_handle_is_quiescent(): the breaker is asked last, and asking makes its
\* half-open transition.
Idle(h) == Holding(h) = {} /\ Pending(h) = {} /\ ~running[h]
Quiescent(h) == Idle(h) /\ ~IsOpen(brk[h])

Sweeps(k) == registry[k] = NoHandle /\ Cardinality(Resident) >= RegCap
AskedBreakers(k) ==
  [h \in Handles |-> IF Sweeps(k) /\ Idle(h) /\ (\E j \in Resident : registry[j] = h)
                     THEN Current(brk[h]) ELSE brk[h]]

\* The callers that have looked the key up and not re-asserted what they found.
InHand(k) == {c \in Callers : ckey[c] = k /\ cpc[c] \in {"looked", "pushed"}}

\* bucket_handle(): afterwards the key is resident and h is its handle; a new
\* key at the cap first sweeps every quiescent handle.
BucketHandle(k, h) ==
  LET kept == [j \in Keys |-> IF Sweeps(k) /\ j \in Resident /\ Quiescent(registry[j])
                              THEN NoHandle ELSE registry[j]]
  IN
  /\ registry' = [kept EXCEPT ![k] = h]
  /\ \/ h = registry[k] /\ UNCHANGED <<used, split>>
     \/ /\ registry[k] = NoHandle /\ h \notin used /\ used' = used \cup {h}
        /\ split' = IF InHand(k) # {} THEN split \cup {k} ELSE split

-----------------------------------------------------------------------------
Lookup(c) ==
  /\ cpc[c] = "idle"
  /\ \E h \in Handles :
       /\ BucketHandle(ckey[c], h)
       /\ ch' = [ch EXCEPT ![c] = h]
  /\ brk' = AskedBreakers(ckey[c])
  /\ cpc' = [cpc EXCEPT ![c] = "looked"]
  /\ UNCHANGED <<ckey, turn, running, cool, quiet>>

\* The push and the spawn of a dispatcher, under the handle's state lock.
Push(c) ==
  /\ cpc[c] = "looked"
  /\ cpc' = [cpc EXCEPT ![c] = "pushed"]
  /\ running' = [running EXCEPT ![ch[c]] = TRUE]
  /\ UNCHANGED <<ckey, ch, turn, registry, used, brk, cool, quiet, split>>

\* Mutant: acquire() without the re-assertion.
ReassertNot(c) ==
  /\ cpc[c] = "pushed"
  /\ cpc' = [cpc EXCEPT ![c] = "waiting"]
  /\ UNCHANGED <<ckey, ch, turn, registry, used, running, brk, cool, quiet, split>>

\* reassert_non_quiescent(): an unconditional overwrite.
Reassert(c) ==
  /\ cpc[c] = "pushed"
  /\ registry' = [registry EXCEPT ![ckey[c]] = ch[c]]
  /\ cpc' = [cpc EXCEPT ![c] = "waiting"]
  /\ UNCHANGED <<ckey, ch, turn, used, running, brk, cool, quiet, split>>

-----------------------------------------------------------------------------
(* The lane behind a handle.                                               *)

\* The lane has paced, has a permit and finds its breaker closed or half-open.
Ready(h) ==
  /\ running[h] /\ ~IsOpen(brk[h]) /\ cool[h] = Interval
  /\ Cardinality(Holding(h)) < Cap

Grant(c) ==
  LET h == ch[c] IN
  /\ c \in Pending(h) /\ cpc[c] # "dead"
  /\ Ready(h)
  /\ turn' = [turn EXCEPT ![c] = "granted"]
  /\ brk' = [brk EXCEPT ![h] = Current(@)]
  /\ cool' = [cool EXCEPT ![h] = 0]
  /\ quiet' = [quiet EXCEPT ![ckey[c]] = 0]
  /\ UNCHANGED <<cpc, ckey, ch, registry, used, running, split>>

\* The item of a cancelled caller is popped and burns no interval.
Skip(c) ==
  LET h == ch[c] IN
  /\ c \in Pending(h) /\ cpc[c] = "dead"
  /\ Ready(h)
  /\ turn' = [turn EXCEPT ![c] = "rejected"]
  /\ brk' = [brk EXCEPT ![h] = Current(@)]
  /\ UNCHANGED <<cpc, ckey, ch, registry, used, running, cool, quiet, split>>

Reject(c) ==
  /\ c \in Pending(ch[c])
  /\ running[ch[c]] /\ IsOpen(brk[ch[c]])
  /\ turn' = [turn EXCEPT ![c] = "rejected"]
  /\ UNCHANGED <<cpc, ckey, ch, registry, used, running, brk, cool, quiet, split>>

\* The dispatcher finds the heap empty and leaves.
DrainExit(h) ==
  /\ running[h] /\ Pending(h) = {}
  /\ running' = [running EXCEPT ![h] = FALSE]
  /\ UNCHANGED <<cpc, ckey, ch, turn, registry, used, brk, cool, quiet, split>>

-----------------------------------------------------------------------------
Receive(c) ==
  /\ cpc[c] = "waiting" /\ turn[c] # "none"
  /\ cpc' = [cpc EXCEPT ![c] = IF turn[c] = "granted" THEN "sending" ELSE "done"]
  /\ UNCHANGED <<ckey, ch, turn, registry, used, running, brk, cool, quiet, split>>

\* The send ends: report_outcome() looks the key's handle up again and applies
\* the signal to whatever it finds; then the permit is dropped.
Finish(c) ==
  /\ cpc[c] = "sending"
  /\ \E h \in Handles, report \in {"success", "failure", "trip"} :
       /\ BucketHandle(ckey[c], h)
       /\ brk' = [AskedBreakers(ckey[c]) EXCEPT ![h] =
                   CASE report = "success" -> RecordSuccess(@)
                     [] report = "failure" -> RecordFailure(@)
                     [] report = "trip" -> TripImmediately(@, OpenDuration)]
  /\ cpc' = [cpc EXCEPT ![c] = "done"]
  /\ UNCHANGED <<ckey, ch, turn, running, cool, quiet>>

\* The caller's future is dropped while it waits or sends.
Cancel(c) ==
  /\ cpc[c] \in {"waiting", "sending"}
  /\ cpc' = [cpc EXCEPT ![c] = IF turn[c] = "none" THEN "dead" ELSE "done"]
  /\ UNCHANGED <<ckey, ch, turn, registry, used, running, brk, cool, quiet, split>>

Tick ==
  /\ brk' = [h \in Handles |-> Aged(brk[h])]
  /\ cool' = [h \in Handles |-> IF cool[h] < Interval THEN cool[h] + 1 ELSE Interval]
  /\ quiet' = [k \in Keys |-> IF quiet[k] < Interval THEN quiet[k] + 1 ELSE Interval]
  /\ UNCHANGED <<cpc, ckey, ch, turn, registry, used, running, split>>

Next ==
  \/ \E c \in Callers : \/ Lookup(c) \/ Push(c) \/ Reassert(c)
                        \/ Grant(c) \/ Skip(c) \/ Reject(c)
                        \/ Receive(c) \/ Finish(c) \/ Cancel(c)
  \/ \E h \in Handles : DrainExit(h)
  \/ Tick

Spec == Init /\ [][Next]_vars

-----------------------------------------------------------------------------
(* Properties *)

\* The callers whose requests are with a lane, in its heap or in flight.
Engaged(c) == c \in Pending(ch[c]) \cup Holding(ch[c])

\* outbound_queue.rs:508-520 and 648-651, bucket_handle(), its sweep at the cap and
\* reassert_non_quiescent(): a caller that has re-asserted its lane finds it in the
\* registry for as long as its request is queued or in flight, so later callers of
\* the host join its queue, cap and breaker and its outcome is reported to the
\* breaker that let it go, although lookups of other keys sweep at any moment, also
\* between its own lookup and its push.  The exception is spelled out in `split`: a
\* second caller of the key that looks up after such a sweep and before the first
\* one's re-assertion makes another lane, and nothing is claimed for that key.
OneLane ==
  \A c \in Callers :
    Engaged(c) /\ cpc[c] # "pushed" /\ ckey[c] \notin split => registry[ckey[c]] = ch[c]

\* outbound_queue.rs:491-492, "eviction can never create a second live pace lane or
\* silently reset an open breaker".  Does not hold (see the README).
NoSecondLane ==
  \A c, d \in Callers : Engaged(c) /\ Engaged(d) /\ ckey[c] = ckey[d] => ch[c] = ch[d]

\* outbound_queue.rs:582, "interval since the last ACTUAL dispatch", of a host whose
\* lane never was split.  Does not hold: a lane that is swept and made again has
\* forgotten its last dispatch (see the README).
HostPaced ==
  [][ \A c \in Callers :
        turn[c] = "none" /\ turn'[c] = "granted" /\ ckey[c] \notin split =>
          quiet[ckey[c]] = Interval ]_vars
=============================================================================
