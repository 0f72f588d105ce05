-------------------------- MODULE AuthorLink_proofs --------------------------
(***************************************************************************)
(* For any set of keys, routes and providers and any number of user acts,  *)
(* crashes and lost leases: the author-linking road keeps every open       *)
(* question answerable and no recorded observation of a name stranded,     *)
(* never puts back what the user removed or asks again what the user       *)
(* dismissed, and ends a pass only when every key is tried and no name     *)
(* search is owed.                                                         *)
(***************************************************************************)
EXTENDS AuthorLink, TLAPS

Progress ==
  [state : State, tier : 0..3, fp : (SUBSET Settleable) \cup {NoFingerprint},
   gen : Nat, dgen : Nat, dirty : BOOLEAN, due : BOOLEAN,
   claim : {"none", "pass", "orphan"}]
RouteRow ==
  {NoRoute} \cup [owner : {"me", "other"}, state : {"active", "removed"},
                  provenance : {"legacy", "guarded", "user"}]
Question == [route : Routes, reason : Reason, gen : Nat, status : Status]
AttemptRow == [state : Attempt, credits : 0..1]

LEMMA TypeParts ==
  TypeOK <=> /\ prog \in Progress /\ settled \in SUBSET Settleable
             /\ route \in [Routes -> RouteRow] /\ cand \in SUBSET Question
             /\ att \in [Keys -> AttemptRow] /\ pass \in PassRecord
             /\ disp \in [gen : Nat, user : BOOLEAN] /\ chosen \in BOOLEAN
             /\ unheard \in BOOLEAN
             /\ search \in {"none", "failed", "answered", "inherited"}
             /\ removing \in BOOLEAN /\ acts \in Nat
BY DEF TypeOK, Progress, RouteRow, Question, AttemptRow

-----------------------------------------------------------------------------
(* The operators of the ledger.                                            *)

LEMMA UpsertType ==
  ASSUME NEW cs \in SUBSET Question, NEW r \in Routes, NEW reason \in Reason, NEW gen \in Nat
  PROVE  Upsert(cs, r, reason, gen) \in SUBSET Question
BY DEF Upsert, Question, Status

LEMMA RederivedKeeps ==
  ASSUME NEW p \in Progress, NEW cs, NEW rt
  PROVE  /\ Rederived(p, cs, rt) \in Progress
         /\ Rederived(p, cs, rt).gen = p.gen /\ Rederived(p, cs, rt).dgen = p.dgen
         /\ Rederived(p, cs, rt).dirty = p.dirty /\ Rederived(p, cs, rt).claim = p.claim
<1> DEFINE s == IF Pending(cs, p.gen) # {} THEN "needs_review"
                ELSE IF \E r \in Routes : rt[r].owner = "me" /\ rt[r].state = "active"
                     THEN "linked" ELSE p.state
<1>1. s \in State
  BY DEF State, Progress
<1>2. Rederived(p, cs, rt) = [p EXCEPT !.state = s]
  BY DEF Rederived, Progress
<1> HIDE DEF s
<1> QED BY <1>1, <1>2 DEF Progress

LEMMA EnqueuedKeeps ==
  ASSUME NEW p \in Progress, NEW user \in BOOLEAN
  PROVE  /\ Enqueued(p, user) \in Progress
         /\ Enqueued(p, user).gen = p.gen /\ Enqueued(p, user).dgen = p.dgen
         /\ Enqueued(p, user).dirty = p.dirty
<1> DEFINE s == IF user \/ p.claim = "none" THEN "queued" ELSE p.state
           c == IF user THEN "none" ELSE p.claim
<1>1. s \in State /\ c \in {"none", "pass", "orphan"}
  BY DEF State, Progress
<1>2. Enqueued(p, user) = [p EXCEPT !.state = s, !.due = TRUE, !.claim = c]
  BY DEF Enqueued, Progress
<1> HIDE DEF s, c
<1> QED BY <1>1, <1>2 DEF Progress

LEMMA OutcomeIs ==
  ASSUME TypeOK, NEW r \in Routes
  PROVE  /\ Outcome(r) \in {"active", "ownership_collision", "tombstoned", "legacy_contradiction"}
         /\ route[r].owner = "me" /\ route[r].state = "removed" => Outcome(r) = "tombstoned"
<1>1. route[r] \in RouteRow
  BY TypeParts
<1>2. CASE route[r] = NoRoute
  BY <1>2 DEF Outcome, NoRoute, Mine
<1>3. CASE route[r] \in [owner : {"me", "other"}, state : {"active", "removed"},
                         provenance : {"legacy", "guarded", "user"}]
  <2>1. CASE route[r].owner = "other"
    BY <1>3, <2>1 DEF Outcome, NoRoute, Mine
  <2>2. CASE route[r].owner = "me" /\ route[r].state = "removed"
    BY <1>3, <2>2 DEF Outcome, NoRoute, Mine
  <2>3. CASE route[r].owner = "me" /\ route[r].state = "active"
    BY <1>3, <2>3 DEF Outcome, NoRoute, Mine
  <2> QED BY <1>3, <2>1, <2>2, <2>3
<1> QED BY <1>1, <1>2, <1>3 DEF RouteRow

\* The guarded writer attaches or confirms a route that is not a tombstone, or
\* parks a question of the author's generation; never both.
LEMMA GuardedIs ==
  ASSUME TypeOK, NEW r \in Routes, apply_guarded_route(r)
  PROVE  \/ /\ cand' = cand
            /\ \E p \in {"legacy", "guarded", "user"} :
                 route' = [route EXCEPT ![r] = [owner |-> "me", state |-> "active", provenance |-> p]]
            /\ ~(route[r].owner = "me" /\ route[r].state = "removed")
         \/ /\ route' = route
            /\ \E o \in {"ownership_collision", "tombstoned", "legacy_contradiction"} :
                 cand' = Upsert(cand, r, o, prog.gen)
<1>1. CASE Outcome(r) = "active"
  <2> DEFINE p == IF Mine(r) /\ route[r].provenance # "legacy" THEN route[r].provenance ELSE "guarded"
  <2>1. route \in [Routes -> RouteRow]
    BY TypeParts
  <2>2. p \in {"legacy", "guarded", "user"}
    BY <2>1 DEF RouteRow, NoRoute, Mine
  <2>3. route' = [route EXCEPT ![r] = [owner |-> "me", state |-> "active", provenance |-> p]]
    BY <1>1, <2>1 DEF apply_guarded_route, Mine
  <2> HIDE DEF p
  <2>4. ~(route[r].owner = "me" /\ route[r].state = "removed")
    BY <1>1, OutcomeIs
  <2>5. cand' = cand
    BY <1>1 DEF apply_guarded_route
  <2> QED BY <2>2, <2>3, <2>4, <2>5
<1>2. CASE Outcome(r) # "active"
  BY <1>2, OutcomeIs DEF apply_guarded_route
<1> QED BY <1>1, <1>2

LEMMA GuardedType ==
  ASSUME TypeOK, NEW r \in Routes, apply_guarded_route(r)
  PROVE  route' \in [Routes -> RouteRow] /\ cand' \in SUBSET Question
<1>1. /\ route \in [Routes -> RouteRow] /\ cand \in SUBSET Question /\ prog.gen \in Nat
  BY TypeParts DEF Progress
<1>2. CASE /\ cand' = cand
           /\ \E p \in {"legacy", "guarded", "user"} :
                route' = [route EXCEPT ![r] = [owner |-> "me", state |-> "active", provenance |-> p]]
  <2>1. PICK p \in {"legacy", "guarded", "user"} :
          route' = [route EXCEPT ![r] = [owner |-> "me", state |-> "active", provenance |-> p]]
    BY <1>2
  <2>2. [owner |-> "me", state |-> "active", provenance |-> p] \in RouteRow
    BY DEF RouteRow
  <2> QED BY <1>1, <1>2, <2>1, <2>2
<1>3. CASE /\ route' = route
           /\ \E o \in {"ownership_collision", "tombstoned", "legacy_contradiction"} :
                cand' = Upsert(cand, r, o, prog.gen)
  BY <1>1, <1>3, UpsertType DEF Reason
<1> QED BY <1>2, <1>3, GuardedIs

\* What record_candidates adds: open questions of the pass's generation, none of
\* them dismissed.
LEMMA RecordedIs ==
  ASSUME NEW R \in SUBSET Routes, NEW reason, NEW c \in Recorded(R, reason) \ cand
  PROVE  /\ \E r \in R : /\ ~Dismissed(r, reason)
                        /\ c = [route |-> r, reason |-> reason, gen |-> pass.gen,
                                status |-> "pending"]
         /\ c.status = "pending" /\ c.gen = pass.gen
BY DEF Recorded, Questions, Unasked

LEMMA RecordedType ==
  ASSUME TypeOK, NEW R \in SUBSET Routes, NEW reason \in Reason
  PROVE  Recorded(R, reason) \in SUBSET Question
<1>1. cand \in SUBSET Question /\ pass.gen \in Nat
  BY TypeParts DEF PassRecord
<1>2. ASSUME NEW c \in Recorded(R, reason) \ cand PROVE c \in Question
  BY <1>1, <1>2, RecordedIs DEF Question, Status
<1> QED BY <1>1, <1>2

LEMMA AttachedType ==
  ASSUME TypeOK, NEW r \in Routes PROVE Attached(r) \in [Routes -> RouteRow]
BY TypeParts DEF Attached, RouteRow

\* The pass as load_road_input has filled it in, before it moves on.
Loaded ==
  [pass EXCEPT !.dirty = prog.dirty, !.fp = settled, !.changed = (prog.fp # settled),
               !.gen = Generation(prog.fp # settled),
               !.tier = prog.tier,
               !.active = (\E r \in Routes : Mine(r)),
               !.ol = (\E r \in Pages("ol") : Mine(r))]

LEMMA LoadedType == ASSUME TypeOK PROVE Loaded \in PassRecord
<1> DEFINE changed == prog.fp # settled
           g == Generation(changed)
           m == \E r \in Routes : Mine(r)
           o == \E r \in Pages("ol") : Mine(r)
<1>t. prog \in Progress /\ pass \in PassRecord /\ settled \in SUBSET Settleable
  BY TypeParts
<1>1. changed \in BOOLEAN /\ g \in Nat /\ m \in BOOLEAN /\ o \in BOOLEAN
  BY <1>t DEF Generation, Progress
<1>2. prog.dirty \in BOOLEAN /\ prog.tier \in 0..3
  BY <1>t DEF Progress
<1>3. Loaded = [pass EXCEPT !.dirty = prog.dirty, !.fp = settled, !.changed = changed,
                            !.gen = g, !.tier = prog.tier, !.active = m, !.ol = o]
  BY DEF Loaded
<1> DEFINE a == [pass EXCEPT !.dirty = prog.dirty, !.fp = settled, !.changed = changed]
<1> HIDE DEF changed, g, m, o
<1>4. a \in PassRecord
  BY <1>1, <1>2, <1>t DEF PassRecord
<1>5. Loaded = [a EXCEPT !.gen = g, !.tier = prog.tier, !.active = m, !.ol = o]
  BY <1>3, <1>t DEF PassRecord
<1> HIDE DEF a
<1> QED BY <1>1, <1>2, <1>4, <1>5 DEF PassRecord

LEMMA IdleType == Idle \in PassRecord
BY DEF Idle, PassRecord, PC, Verdicts

-----------------------------------------------------------------------------
(* Type correctness.                                                       *)

LEMMA InitType == Init => TypeOK
<1> SUFFICES ASSUME Init PROVE TypeOK
  OBVIOUS
<1>1. prog \in Progress
  BY DEF Init, Progress, State
<1>2. route \in [Routes -> RouteRow]
  BY DEF Init, RouteRow, NoRoute, LegacyRoute
<1>3. att \in [Keys -> AttemptRow]
  BY DEF Init, AttemptRow, Attempt
<1>4. settled \in SUBSET Settleable /\ cand \in SUBSET Question
  BY DEF Init, Settleable
<1> QED BY <1>1, <1>2, <1>3, <1>4, IdleType, TypeParts DEF Init

\* A name that comes in is noted, or the names are read.
LEMMA UnheardType ==
  ASSUME TypeOK, [Next]_vars PROVE unheard' \in BOOLEAN
<1>t. unheard \in BOOLEAN
  BY TypeParts
<1>1. CASE UNCHANGED vars
  BY <1>1, <1>t DEF vars
<1>2. CASE Pass
  <2>1. CASE load_road_input
    BY <2>1, <1>t DEF load_road_input
  <2>2. CASE run_key_attempt
    BY <2>2, <1>t DEF run_key_attempt, apply_guarded_route, insert_name_variant
  <2> QED BY <1>2, <1>t, <2>1, <2>2 DEF Pass, ClaimLost, claim_due, converge_display_name,
        begin_evidence_generation, Begin, prepare_key_attempts, complete_key_attempt, Gate,
        run_name_search, generation_pending_candidate_count, advance_progress
<1>3. CASE submit_agreed_evidence
  BY <1>3, <1>t DEF submit_agreed_evidence, apply_guarded_route, insert_name_variant
<1>4. CASE pick_candidate_as_user \/ record_readarr_rejection \/ fold_author_link_state
  BY <1>4 DEF pick_candidate_as_user, record_readarr_rejection, fold_author_link_state,
              insert_name_variant
<1>5. CASE \/ attach_route_as_user \/ dismiss_candidate_as_user \/ remove_route_as_user
           \/ revoke_dismissals_and_replay \/ rename_author_and_cascade \/ ensure_enqueued
           \/ record_observed_names \/ EvidenceChanges \/ OtherAttaches
           \/ TimePasses \/ KeyDue \/ LeaseEnds \/ Crash
  <2>1. unheard' = unheard
    BY <1>5 DEF attach_route_as_user, dismiss_candidate_as_user, remove_route_as_user,
       revoke_dismissals_and_replay, rename_author_and_cascade, ensure_enqueued,
       record_observed_names, EvidenceChanges, OtherAttaches, TimePasses, KeyDue, LeaseEnds,
       Crash
  <2> QED BY <2>1, <1>t
<1> QED BY <1>1, <1>2, <1>3, <1>4, <1>5 DEF Next, User, Others

LEMMA PassTypeStep ==
  ASSUME TypeOK, Pass PROVE TypeOK'
<1>t. /\ prog \in Progress /\ settled \in SUBSET Settleable
      /\ route \in [Routes -> RouteRow] /\ cand \in SUBSET Question
      /\ att \in [Keys -> AttemptRow] /\ pass \in PassRecord
      /\ disp \in [gen : Nat, user : BOOLEAN] /\ chosen \in BOOLEAN
      /\ unheard \in BOOLEAN
      /\ search \in {"none", "failed", "answered", "inherited"}
      /\ removing \in BOOLEAN /\ acts \in Nat
  BY TypeParts
<1> SUFFICES /\ prog' \in Progress /\ settled' \in SUBSET Settleable
             /\ route' \in [Routes -> RouteRow] /\ cand' \in SUBSET Question
             /\ att' \in [Keys -> AttemptRow] /\ pass' \in PassRecord
             /\ disp' \in [gen : Nat, user : BOOLEAN] /\ chosen' \in BOOLEAN
             /\ search' \in {"none", "failed", "answered", "inherited"}
             /\ removing' \in BOOLEAN /\ acts' \in Nat
  <2>1. unheard' \in BOOLEAN
    BY UnheardType DEF Next
  <2> QED BY <2>1 DEF Progress, RouteRow, Question, AttemptRow, TypeOK
<1>1. CASE ClaimLost
  BY <1>1, <1>t, IdleType DEF ClaimLost, userVars
<1>2. CASE claim_due
  <2>1. prog' \in Progress
    BY <1>2, <1>t DEF claim_due, Progress, State
  <2>2. pass' \in PassRecord
    BY <1>2, <1>t, IdleType DEF claim_due, Progress, PassRecord, PC
  <2> QED BY <1>2, <1>t, <2>1, <2>2 DEF claim_due, userVars
<1>3. CASE load_road_input
  <2> DEFINE p == Loaded
  <2>2. p \in PassRecord
    BY LoadedType
  <2> HIDE DEF p
  <2>3. Evidence(p) \in PC
    BY DEF Evidence, PC
  <2>4. /\ [p EXCEPT !.pc = "converge", !.heard = prog.dgen, !.chosen = chosen] \in PassRecord
        /\ [p EXCEPT !.pc = Evidence(p)] \in PassRecord
    <3>1. prog.dgen \in Nat /\ chosen \in BOOLEAN /\ "converge" \in PC
      BY <1>t DEF Progress, PC
    <3> DEFINE d == prog.dgen
    <3> HIDE DEF d
    <3>2. [p EXCEPT !.pc = "converge", !.heard = d, !.chosen = chosen] \in PassRecord
      BY ONLY <2>2, <3>1 DEF d, PassRecord
    <3>3. [p EXCEPT !.pc = Evidence(p)] \in PassRecord
      BY ONLY <2>2, <2>3 DEF PassRecord
    <3> QED BY <3>2, <3>3 DEF d
  <2>5. pass' \in PassRecord
    BY <1>3, <2>4 DEF load_road_input, p, Loaded
  <2>6. search' \in {"none", "failed", "answered", "inherited"}
    BY <1>3, <1>t DEF load_road_input
  <2> QED BY <1>3, <1>t, <2>5, <2>6 DEF load_road_input, userVars
<1>4. CASE converge_display_name
  <2>1. Evidence(pass) \in PC
    BY DEF Evidence, PC
  <2>2. pass' \in PassRecord
    BY <1>4, <1>t, <2>1 DEF converge_display_name, PassRecord
  <2>3. disp' \in [gen : Nat, user : BOOLEAN]
    BY <1>4, <1>t DEF converge_display_name, choose_author_display_name, PassRecord
  <2> QED BY <1>4, <1>t, <2>2, <2>3 DEF converge_display_name, userVars
<1>5. CASE begin_evidence_generation
  <2>1. prog' \in Progress
    BY <1>5, <1>t DEF begin_evidence_generation, Begin, Progress, PassRecord
  <2>2. pass' \in PassRecord
    BY <1>5, <1>t DEF begin_evidence_generation, Begin, To, PassRecord, PC
  <2>3. att' \in [Keys -> AttemptRow]
    BY <1>5 DEF begin_evidence_generation, Begin, AttemptRow, Attempt
  <2> QED BY <1>5, <1>t, <2>1, <2>2, <2>3 DEF begin_evidence_generation, Begin, userVars
<1>6. CASE prepare_key_attempts
  <2> DEFINE mine == {k \in Keys : Taken(k)}
  <2>1. pass' \in PassRecord
    <3> DEFINE b == mine # {}
    <3>1. pass' = [pass EXCEPT !.todo = mine, !.ran = b, !.pc = "keys"]
      BY <1>6 DEF prepare_key_attempts
    <3>2. mine \in SUBSET Keys /\ b \in BOOLEAN /\ "keys" \in PC
      BY DEF PC
    <3>3. pass \in PassRecord
      BY <1>t
    <3> HIDE DEF mine, b
    <3> QED BY ONLY <3>1, <3>2, <3>3 DEF PassRecord
  <2>2. att' \in [Keys -> AttemptRow]
    <3>1. \A k \in Keys : [att[k] EXCEPT !.state = "running"] \in AttemptRow /\ att[k] \in AttemptRow
      BY <1>t DEF AttemptRow, Attempt
    <3> QED BY <1>6, <3>1 DEF prepare_key_attempts
  <2> QED BY <1>6, <1>t, <2>1, <2>2 DEF prepare_key_attempts, userVars
<1>7. CASE run_key_attempt
  <2>1. ASSUME \E k \in pass.todo, v \in {"retryable", "nobody", "named"} : pass' = Answer(k, v)
        PROVE  pass' \in PassRecord
    <3>1. PICK k \in pass.todo, v \in {"retryable", "nobody", "named"} : pass' = Answer(k, v)
      BY <2>1
    <3>2. k \in Keys /\ v \in Verdicts
      BY <1>t DEF PassRecord, Verdicts
    <3>3. (IF v = "named" THEN "credits" ELSE "complete") \in PC
      BY DEF PC
    <3> DEFINE c == IF v = "named" THEN "credits" ELSE "complete"
    <3>4. pass' = [pass EXCEPT !.pc = c, !.key = k, !.verdict = v] /\ c \in PC
      BY <3>1, <3>3 DEF Answer
    <3>5. pass \in PassRecord
      BY <1>t
    <3> HIDE DEF c
    <3> QED BY ONLY <3>2, <3>4, <3>5 DEF PassRecord
  <2>2. \A a, o \in BOOLEAN : [pass EXCEPT !.active = a, !.ol = o] \in PassRecord
    BY <1>t DEF PassRecord
  <2>3. pass.active \in BOOLEAN /\ pass.ol \in BOOLEAN
    BY <1>t DEF PassRecord
  <2>4. ASSUME \E r \in Routes :
               pass' = [pass EXCEPT !.active = @ \/ Outcome(r) = "active",
                                    !.ol = @ \/ (Outcome(r) = "active" /\ Provider[r] = "ol")]
        PROVE  pass' \in PassRecord
    <3>1. PICK r \in Routes :
               pass' = [pass EXCEPT !.active = @ \/ Outcome(r) = "active",
                                    !.ol = @ \/ (Outcome(r) = "active" /\ Provider[r] = "ol")]
      BY <2>4
    <3>2. pass' = [pass EXCEPT !.active = pass.active \/ Outcome(r) = "active",
                     !.ol = pass.ol \/ (Outcome(r) = "active" /\ Provider[r] = "ol")]
      BY <3>1, <1>t DEF PassRecord
    <3> DEFINE a == pass.active \/ Outcome(r) = "active"
               o == pass.ol \/ (Outcome(r) = "active" /\ Provider[r] = "ol")
    <3>3. a \in BOOLEAN /\ o \in BOOLEAN
      BY <2>3
    <3>4. pass' = [pass EXCEPT !.active = a, !.ol = o]
      BY <3>2
    <3> HIDE DEF a, o
    <3> QED BY <2>2, <3>3, <3>4
  <2>5. ASSUME pass' = [pass EXCEPT !.pc = "complete"] PROVE pass' \in PassRecord
    <3>1. pass \in PassRecord /\ "complete" \in PC
      BY <1>t DEF PC
    <3> QED BY ONLY <2>5, <3>1 DEF PassRecord
  <2>6. pass' \in PassRecord
    BY <1>7, <2>1, <2>4, <2>5 DEF run_key_attempt, Pages, To
  <2>7. route' \in [Routes -> RouteRow] /\ cand' \in SUBSET Question
    <3>1. \/ route' = route /\ cand' = cand
          \/ \E r \in Routes : apply_guarded_route(r)
          \/ /\ route' = route
             /\ \E R \in SUBSET Routes : cand' = Recorded(R, "name_guard_failed")
      BY <1>7 DEF run_key_attempt, Pages
    <3>2. "name_guard_failed" \in Reason
      BY DEF Reason
    <3> QED BY <3>1, <3>2, <1>t, GuardedType, RecordedType
  <2> QED BY <1>7, <1>t, <2>6, <2>7 DEF run_key_attempt, userVars
<1>8. CASE complete_key_attempt
  <2>1. pass' \in PassRecord
    <3> DEFINE y == pass.retry \/ pass.verdict = "retryable"
               o == pass.olretry \/ (pass.verdict = "retryable" /\ Provider[pass.key] = "ol")
               n == pass.todo \ {pass.key}
    <3>1. y \in BOOLEAN /\ o \in BOOLEAN /\ n \in SUBSET Keys
      BY <1>t DEF PassRecord
    <3>2. pass' = [pass EXCEPT !.pc = "keys", !.todo = n, !.key = "none", !.verdict = "none",
                               !.retry = y, !.olretry = o]
      BY <1>8, <1>t DEF complete_key_attempt, PassRecord
    <3>3. pass \in PassRecord /\ "keys" \in PC /\ "none" \in Verdicts
      BY <1>t DEF PC, Verdicts
    <3> HIDE DEF y, o, n
    <3> DEFINE a == [pass EXCEPT !.pc = "keys", !.todo = n, !.key = "none"]
    <3>4. a \in PassRecord
      BY ONLY <3>1, <3>3 DEF PassRecord
    <3>5. [a EXCEPT !.verdict = "none", !.retry = y, !.olretry = o] \in PassRecord
      <4> HIDE DEF a
      <4> QED BY ONLY <3>1, <3>3, <3>4 DEF PassRecord
    <3>6. pass' = [a EXCEPT !.verdict = "none", !.retry = y, !.olretry = o]
      BY ONLY <3>2, <3>3 DEF PassRecord
    <3> QED BY <3>5, <3>6
  <2>2. att' \in [Keys -> AttemptRow]
    <3>1. [state |-> IF pass.verdict = "retryable" THEN "waiting" ELSE "terminal",
           credits |-> IF pass.verdict = "named" THEN 1 ELSE 0] \in AttemptRow
      BY DEF AttemptRow, Attempt
    <3> QED BY <1>8, <1>t, <3>1 DEF complete_key_attempt
  <2> QED BY <1>8, <1>t, <2>1, <2>2 DEF complete_key_attempt, userVars
<1>9. CASE Gate
  <2> DEFINE t == IF RunTier2 THEN 2 ELSE IF pass.ran THEN 1 ELSE IF pass.changed THEN 0 ELSE pass.tier
             c == IF RunTier2 THEN "search" ELSE "count"
             y == pass.retry \/ Owed # {}
  <2>1. t \in 0..3 /\ c \in PC /\ y \in BOOLEAN
    BY <1>t DEF PassRecord, PC
  <2>2. pass' = [pass EXCEPT !.retry = y, !.ran = FALSE, !.tier = t, !.pc = c]
    BY <1>9, <1>t DEF Gate, PassRecord
  <2> HIDE DEF t, c, y
  <2>3. pass' \in PassRecord
    BY <2>1, <2>2, <1>t DEF PassRecord
  <2> QED BY <1>9, <1>t, <2>3 DEF Gate, userVars
<1>10. CASE run_name_search
  <2>1. pass' \in PassRecord
    <3>1. \A b \in BOOLEAN : [pass EXCEPT !.pc = "count", !.retry = b] \in PassRecord
      BY <1>t DEF PassRecord, PC
    <3>2. [pass EXCEPT !.pc = "count"] \in PassRecord
      BY <1>t DEF PassRecord, PC
    <3>3. pass.retry \in BOOLEAN
      BY <1>t DEF PassRecord
    <3> QED BY <1>10, <3>1, <3>2, <3>3 DEF run_name_search
  <2>2. cand' \in SUBSET Question
    <3>1. cand' = cand \/ \E R \in SUBSET Routes : cand' = Recorded(R, "tier2_name_search")
      BY <1>10 DEF run_name_search, Pages
    <3>2. "tier2_name_search" \in Reason
      BY DEF Reason
    <3> QED BY <3>1, <3>2, <1>t, RecordedType
  <2>3. search' \in {"none", "failed", "answered", "inherited"}
    BY <1>10 DEF run_name_search
  <2> QED BY <1>10, <1>t, <2>1, <2>2, <2>3 DEF run_name_search, userVars
<1>11. CASE generation_pending_candidate_count
  <2>1. pass' \in PassRecord
    <3> DEFINE b == Pending(cand, pass.gen) # {}
    <3>1. pass' = [pass EXCEPT !.pc = "advance", !.pending = b]
      BY <1>11 DEF generation_pending_candidate_count
    <3>2. b \in BOOLEAN /\ "advance" \in PC /\ pass \in PassRecord
      BY <1>t DEF PC
    <3> HIDE DEF b
    <3> QED BY ONLY <3>1, <3>2 DEF PassRecord
  <2> QED BY <1>11, <1>t, <2>1 DEF generation_pending_candidate_count, userVars
<1>12. CASE advance_progress
  <2>1. Verdict \in State
    BY DEF Verdict, State
  <2>2. prog' \in Progress
    <3>1. (IF pass.fp = {} THEN 3 ELSE pass.tier) \in 0..3 /\ pass.fp \in SUBSET Settleable
          /\ pass.gen \in Nat /\ pass.dirty \in BOOLEAN /\ prog.dgen \in Nat
      BY <1>t DEF PassRecord, Progress
    <3>2. /\ (IF prog.dgen = pass.dgen THEN pass.dirty ELSE TRUE) \in BOOLEAN
          /\ (~(prog.dgen = pass.dgen)) \in BOOLEAN
      BY <3>1
    <3>3. prog' = [state |-> Verdict, tier |-> IF pass.fp = {} THEN 3 ELSE pass.tier,
                  fp |-> pass.fp, gen |-> pass.gen, dgen |-> prog.dgen,
                  dirty |-> IF prog.dgen = pass.dgen THEN pass.dirty ELSE TRUE,
                  due |-> ~(prog.dgen = pass.dgen), claim |-> "none"]
      BY <1>12 DEF advance_progress
    <3> QED BY <2>1, <3>1, <3>2, <3>3 DEF Progress
  <2> QED BY <1>12, <1>t, <2>2, IdleType DEF advance_progress, userVars
<1> QED
  BY <1>1, <1>2, <1>3, <1>4, <1>5, <1>6, <1>7, <1>8, <1>9, <1>10, <1>11, <1>12 DEF Pass

-----------------------------------------------------------------------------
(* Everybody but the pass: users, Readarr, merges, time, failures.          *)

Outside == User \/ Others \/ TimePasses \/ KeyDue \/ LeaseEnds \/ Crash

\* None of them opens a generation, takes back an observation or hides one.
ProgKept ==
  /\ prog' \in Progress /\ prog'.gen = prog.gen
  /\ \/ prog'.dgen = prog.dgen /\ prog'.dirty = prog.dirty
     \/ prog'.dgen = prog.dgen + 1 /\ prog'.dirty = TRUE

LEMMA OutsideProg ==
  ASSUME TypeOK, Outside PROVE ProgKept
<1>t. prog \in Progress
  BY TypeParts
<1>r. ASSUME NEW cs, NEW rt, prog' = Rederived(prog, cs, rt) PROVE ProgKept
  BY <1>t, <1>r, RederivedKeeps DEF ProgKept
<1>e. ASSUME NEW u \in BOOLEAN, prog' = Enqueued(prog, u) PROVE ProgKept
  BY <1>t, <1>e, EnqueuedKeeps DEF ProgKept
<1>s. ASSUME prog' = prog PROVE ProgKept
  BY <1>t, <1>s DEF ProgKept
<1>1. CASE pick_candidate_as_user \/ attach_route_as_user \/ dismiss_candidate_as_user
  BY <1>1, <1>r DEF pick_candidate_as_user, attach_route_as_user, dismiss_candidate_as_user
<1>2. CASE remove_route_as_user
  BY <1>2, <1>r, <1>e DEF remove_route_as_user
<1>3. CASE revoke_dismissals_and_replay
  <2> DEFINE p == Enqueued(prog, TRUE)
  <2>1. p \in Progress /\ p.gen = prog.gen /\ p.dgen = prog.dgen /\ p.dirty = prog.dirty
    BY <1>t, EnqueuedKeeps
  <2>2. prog' = [p EXCEPT !.fp = NoFingerprint]
    BY <1>3 DEF revoke_dismissals_and_replay
  <2> HIDE DEF p
  <2> QED BY <2>1, <2>2 DEF Progress, ProgKept
<1>4. CASE \/ rename_author_and_cascade \/ submit_agreed_evidence \/ record_readarr_rejection
           \/ OtherAttaches \/ KeyDue
  BY <1>4, <1>s DEF rename_author_and_cascade, submit_agreed_evidence, record_readarr_rejection,
                    OtherAttaches, KeyDue
<1>5. CASE ensure_enqueued
  BY <1>5, <1>e DEF ensure_enqueued
<1>6. CASE record_observed_names
  <2> DEFINE n == prog.dgen + 1
  <2>n. n \in Nat
    BY <1>t DEF Progress
  <2>1. prog' = [prog EXCEPT !.dgen = n, !.dirty = TRUE, !.due = TRUE]
    BY <1>6, <1>t DEF record_observed_names, Progress
  <2> HIDE DEF n
  <2>2. prog' \in Progress /\ prog'.gen = prog.gen /\ prog'.dgen = n
    BY <2>1, <2>n, <1>t DEF Progress
  <2>3. prog'.dirty = TRUE
    BY <2>1, <1>t DEF Progress
  <2> QED BY <2>2, <2>3 DEF ProgKept, n
<1>7. CASE EvidenceChanges
  BY <1>7, <1>s, <1>e DEF EvidenceChanges
<1>8. CASE fold_author_link_state
  <2> DEFINE p == Enqueued(prog, FALSE)
  <2>1. p \in Progress /\ p.gen = prog.gen /\ p.dgen = prog.dgen /\ p.dirty = prog.dirty
    BY <1>t, EnqueuedKeeps
  <2>2. prog' = Rederived(p, cand', route')
    BY <1>8 DEF fold_author_link_state
  <2> HIDE DEF p
  <2> QED BY <2>1, <2>2, RederivedKeeps DEF ProgKept
<1>9. CASE TimePasses
  BY <1>9, <1>t DEF TimePasses, ProgKept, Progress
<1>10. CASE LeaseEnds
  BY <1>10, <1>t DEF LeaseEnds, ProgKept, Progress
<1>11. CASE Crash
  BY <1>11, <1>t DEF Crash, ProgKept, Progress
<1> QED
  BY <1>1, <1>2, <1>3, <1>4, <1>5, <1>6, <1>7, <1>8, <1>9, <1>10, <1>11
     DEF Outside, User, Others

\* Their writes to the questions: an answer, or a new one of this generation.
LEMMA OutsideCand ==
  ASSUME TypeOK, PendingIsCurrent, Outside
  PROVE  cand' \in SUBSET Question /\ PendingIsCurrent'
<1>t. cand \in SUBSET Question /\ prog \in Progress /\ prog.gen \in Nat
  BY TypeParts DEF Progress
<1>g. prog'.gen = prog.gen
  BY OutsideProg DEF ProgKept
<1> SUFFICES \A c \in cand' : c \in Question /\ (c.status = "pending" => c.gen = prog.gen)
  BY <1>g DEF PendingIsCurrent
<1>o. \A c \in cand : c \in Question /\ (c.status = "pending" => c.gen = prog.gen)
  BY <1>t DEF PendingIsCurrent
<1>u. \A r \in Routes, reason \in Reason : \A c \in Upsert(cand, r, reason, prog.gen) :
        c \in Question /\ (c.status = "pending" => c.gen = prog.gen)
  <2>1. \A r \in Routes, reason \in Reason : Upsert(cand, r, reason, prog.gen) \in SUBSET Question
    BY <1>t, UpsertType
  <2> QED BY <1>o, <2>1 DEF Upsert
<1>1. CASE pick_candidate_as_user
  <2>1. PICK c \in Pending(cand, prog.gen) :
          cand' = {IF d = c THEN [d EXCEPT !.status = "picked"]
                   ELSE IF d \in Pending(cand, prog.gen) THEN [d EXCEPT !.status = "superseded"]
                   ELSE d : d \in cand}
    BY <1>1 DEF pick_candidate_as_user
  <2>2. ASSUME NEW d \in cand
        PROVE  /\ [d EXCEPT !.status = "picked"] \in Question
               /\ [d EXCEPT !.status = "superseded"] \in Question
               /\ [d EXCEPT !.status = "picked"].status = "picked"
               /\ [d EXCEPT !.status = "superseded"].status = "superseded"
    BY <1>t DEF Question, Status
  <2> QED BY <1>o, <2>1, <2>2
<1>2. CASE dismiss_candidate_as_user
  <2>1. PICK c \in Pending(cand, prog.gen) :
          cand' = (cand \ {c}) \cup {[c EXCEPT !.status = "dismissed"]}
    BY <1>2 DEF dismiss_candidate_as_user
  <2>2. /\ [c EXCEPT !.status = "dismissed"] \in Question
        /\ [c EXCEPT !.status = "dismissed"].status = "dismissed"
    BY <1>t DEF Question, Status, Pending
  <2> QED BY <1>o, <2>1, <2>2
<1>3. CASE revoke_dismissals_and_replay
  BY <1>3, <1>o DEF revoke_dismissals_and_replay
<1>4. CASE submit_agreed_evidence
  <2>1. PICK r \in Routes : apply_guarded_route(r)
    BY <1>4 DEF submit_agreed_evidence, Pages
  <2> QED BY <2>1, <1>o, <1>u, GuardedIs DEF Reason
<1>5. CASE record_readarr_rejection
  BY <1>5, <1>u DEF record_readarr_rejection, Reason, Pages
<1>6. CASE fold_author_link_state
  <2>1. PICK q \in Routes : cand' \in {cand, Upsert(cand, q, "name_guard_failed", prog.gen)}
    BY <1>6 DEF fold_author_link_state
  <2> QED BY <2>1, <1>o, <1>u DEF Reason
<1>7. CASE \/ attach_route_as_user \/ remove_route_as_user \/ rename_author_and_cascade
           \/ ensure_enqueued \/ record_observed_names \/ EvidenceChanges \/ OtherAttaches
           \/ TimePasses \/ KeyDue \/ LeaseEnds \/ Crash
  <2>1. cand' = cand
    BY <1>7 DEF attach_route_as_user, remove_route_as_user, rename_author_and_cascade,
       ensure_enqueued, record_observed_names, EvidenceChanges, OtherAttaches,
       TimePasses, KeyDue, LeaseEnds, Crash
  <2> QED BY <2>1, <1>o
<1> QED BY <1>1, <1>2, <1>3, <1>4, <1>5, <1>6, <1>7 DEF Outside, User, Others

LEMMA OutsideRoute ==
  ASSUME TypeOK, Outside PROVE route' \in [Routes -> RouteRow]
<1>t. route \in [Routes -> RouteRow]
  BY TypeParts
<1>1. CASE pick_candidate_as_user
  <2>1. PICK c \in Pending(cand, prog.gen) : route' = Attached(c.route)
    BY <1>1 DEF pick_candidate_as_user
  <2>2. c.route \in Routes
    BY TypeParts DEF Pending, Question
  <2> QED BY <2>1, <2>2, AttachedType
<1>2. CASE attach_route_as_user
  BY <1>2, AttachedType DEF attach_route_as_user
<1>3. CASE remove_route_as_user
  <2>1. CASE UNCHANGED route
    BY <2>1, <1>t
  <2>2. CASE \E r \in Routes : Mine(r) /\ route' = [route EXCEPT ![r].state = "removed"]
    <3>1. PICK r \in Routes : Mine(r) /\ route' = [route EXCEPT ![r].state = "removed"]
      BY <2>2
    <3>2. route[r] \in [owner : {"me", "other"}, state : {"active", "removed"},
                        provenance : {"legacy", "guarded", "user"}]
      BY <3>1, <1>t DEF Mine, RouteRow, NoRoute
    <3>3. [route[r] EXCEPT !.state = "removed"] \in RouteRow
      BY <3>2 DEF RouteRow
    <3> QED BY <3>1, <3>3, <1>t
  <2> QED BY <1>3, <2>1, <2>2 DEF remove_route_as_user
<1>4. CASE submit_agreed_evidence
  BY <1>4, GuardedType DEF submit_agreed_evidence, Pages
<1>5. CASE OtherAttaches
  <2>1. [owner |-> "other", state |-> "active", provenance |-> "guarded"] \in RouteRow
    BY DEF RouteRow
  <2> QED BY <1>5, <1>t, <2>1 DEF OtherAttaches
<1>6. CASE fold_author_link_state
  <2>1. \A r \in Routes : route[r].owner = "other" => [route[r] EXCEPT !.owner = "me"] \in RouteRow
    BY <1>t DEF RouteRow, NoRoute
  <2> QED BY <1>6, <1>t, <2>1 DEF fold_author_link_state
<1>7. CASE \/ dismiss_candidate_as_user \/ revoke_dismissals_and_replay
           \/ rename_author_and_cascade \/ record_readarr_rejection
           \/ ensure_enqueued \/ record_observed_names \/ EvidenceChanges
           \/ TimePasses \/ KeyDue \/ LeaseEnds \/ Crash
  BY <1>7, <1>t DEF dismiss_candidate_as_user, revoke_dismissals_and_replay,
     rename_author_and_cascade, record_readarr_rejection, ensure_enqueued,
     record_observed_names, EvidenceChanges, TimePasses, KeyDue, LeaseEnds, Crash, userVars
<1> QED BY <1>1, <1>2, <1>3, <1>4, <1>5, <1>6, <1>7 DEF Outside, User, Others

\* They leave the pass alone or end it, and of the key attempts they touch only
\* a waiting one, which comes due.
AttKept ==
  /\ att' \in [Keys -> AttemptRow]
  /\ \A k \in Keys :
       /\ att'[k].credits = att[k].credits
       /\ att'[k].state # att[k].state => att[k].state = "waiting" /\ att'[k].state = "due"

LEMMA OutsideRest ==
  ASSUME TypeOK, Outside
  PROVE  /\ pass' = pass \/ pass' = Idle
         /\ search' = search
         /\ disp' \in [gen : Nat, user : BOOLEAN] /\ disp'.gen = disp.gen
         /\ AttKept
<1>t. att \in [Keys -> AttemptRow] /\ disp \in [gen : Nat, user : BOOLEAN]
  BY TypeParts
<1> USE DEF Outside, User, Others, pick_candidate_as_user, attach_route_as_user,
      dismiss_candidate_as_user, remove_route_as_user, revoke_dismissals_and_replay,
      rename_author_and_cascade, ensure_enqueued, submit_agreed_evidence,
      record_readarr_rejection, record_observed_names, EvidenceChanges, OtherAttaches,
      fold_author_link_state, TimePasses, KeyDue, LeaseEnds, Crash
<1>1. (pass' = pass \/ pass' = Idle) /\ search' = search
  OBVIOUS
<1>2. disp' = disp \/ disp' = [disp EXCEPT !.user = TRUE]
  OBVIOUS
<1>3. disp' \in [gen : Nat, user : BOOLEAN] /\ disp'.gen = disp.gen
  BY <1>2, <1>t
<1>4. att' = att \/ \E k \in Keys : att[k].state = "waiting" /\ att' = [att EXCEPT ![k].state = "due"]
  OBVIOUS
<1>5. AttKept
  BY <1>4, <1>t DEF AttKept, AttemptRow, Attempt
<1> QED BY <1>1, <1>3, <1>5

LEMMA OutsideType ==
  ASSUME TypeOK, PendingIsCurrent, Outside PROVE TypeOK'
<1>t. /\ settled \in SUBSET Settleable /\ pass \in PassRecord /\ chosen \in BOOLEAN
      /\ search \in {"none", "failed", "answered", "inherited"}
      /\ removing \in BOOLEAN /\ acts \in Nat
  BY TypeParts
<1>1. settled' \in SUBSET Settleable /\ chosen' \in BOOLEAN /\ removing' \in BOOLEAN /\ acts' \in Nat
  <2> USE DEF Outside, User, Others, pick_candidate_as_user, attach_route_as_user,
        dismiss_candidate_as_user, remove_route_as_user, revoke_dismissals_and_replay,
        rename_author_and_cascade, ensure_enqueued, submit_agreed_evidence,
        record_readarr_rejection, record_observed_names, EvidenceChanges, OtherAttaches,
        fold_author_link_state, TimePasses, KeyDue, LeaseEnds, Crash, userVars, Act
  <2>1. settled' = settled \/ settled' \in SUBSET Settleable
    OBVIOUS
  <2>2. chosen' = chosen \/ chosen' = TRUE
    OBVIOUS
  <2>3. removing' = removing \/ removing' = TRUE \/ removing' = FALSE
    OBVIOUS
  <2>4. acts' = acts \/ acts' = acts + 1
    OBVIOUS
  <2>5. settled' \in SUBSET Settleable /\ acts' \in Nat
    BY ONLY <1>t, <2>1, <2>4
  <2>6. chosen' \in BOOLEAN /\ removing' \in BOOLEAN
    BY ONLY <1>t, <2>2, <2>3
  <2> QED BY ONLY <2>5, <2>6
<1>2. pass' \in PassRecord /\ search' \in {"none", "failed", "answered", "inherited"}
  BY <1>t, OutsideRest, IdleType
<1>3. /\ prog' \in Progress /\ route' \in [Routes -> RouteRow] /\ cand' \in SUBSET Question
      /\ att' \in [Keys -> AttemptRow] /\ disp' \in [gen : Nat, user : BOOLEAN]
  BY OutsideProg, OutsideRoute, OutsideCand, OutsideRest DEF ProgKept, AttKept
<1>4. unheard' \in BOOLEAN
  BY UnheardType DEF Outside, Next
<1> QED BY <1>1, <1>2, <1>3, <1>4 DEF TypeOK, Progress, RouteRow, Question, AttemptRow

-----------------------------------------------------------------------------
(* The invariant under the steps of everybody else.                         *)

PassInv == PassGeneration /\ PassDisplay /\ PassKeys /\ PassSearch

LEMMA IInvParts ==
  IInv <=> TypeOK /\ PendingIsCurrent /\ DisplayCurrent /\ PassInv
BY DEF IInv, PassInv

\* Of an idle pass nothing is asked.
LEMMA IdleInv == ASSUME pass' = Idle PROVE PassInv'
<1>1. pass'.pc = "idle" /\ pass'.todo = {} /\ pass'.olretry = FALSE
  BY DEF Idle
<1>2. PassGeneration' /\ PassDisplay'
  BY <1>1 DEF PassGeneration, PassDisplay
<1>3. PassKeys' /\ PassSearch'
  BY <1>1 DEF PassKeys, PassSearch
<1> QED BY <1>2, <1>3 DEF PassInv

LEMMA AttemptsKept ==
  ASSUME TypeOK, AttKept
  PROVE  /\ Owed' = Owed /\ Credited' = Credited
         /\ \A k \in Keys : att'[k].state \in {"none", "running"} <=> att[k].state \in {"none", "running"}
<1>1. att \in [Keys -> AttemptRow]
  BY TypeParts
<1>2. \A k \in Keys : /\ att'[k].state \in {"waiting", "due"} <=> att[k].state \in {"waiting", "due"}
                      /\ att'[k].state \in {"none", "running"} <=> att[k].state \in {"none", "running"}
                      /\ att'[k].credits = att[k].credits
  BY DEF AttKept
<1>3. Owed' = Owed
  BY <1>2 DEF Owed
<1>4. Credited' = Credited
  BY <1>2 DEF Credited
<1> QED BY <1>2, <1>3, <1>4

LEMMA OutsideDisplay ==
  ASSUME TypeOK, DisplayCurrent, PassDisplay, ProgKept, pass' = pass, disp'.gen = disp.gen
  PROVE  PassDisplay'
<1>t. prog.dgen \in Nat /\ prog'.dgen \in Nat /\ pass.dgen \in Nat /\ prog.dirty \in BOOLEAN
  BY TypeParts DEF ProgKept, Progress, PassRecord
<1>1. CASE prog'.dgen = prog.dgen /\ prog'.dirty = prog.dirty
  BY <1>1 DEF PassDisplay
<1>2. CASE prog'.dgen = prog.dgen + 1 /\ prog'.dirty = TRUE
  <2>1. pass.pc # "idle" => pass.dgen <= prog'.dgen /\ prog'.dgen # pass.dgen
    BY <1>2, <1>t DEF PassDisplay
  <2>2. pass.pc \notin {"idle", "load", "converge"} => ~pass.dirty
    BY DEF PassDisplay
  <2> QED BY <1>2, <2>1, <2>2 DEF PassDisplay
<1> QED BY <1>1, <1>2 DEF ProgKept

LEMMA OutsideInv ==
  ASSUME IInv, Outside PROVE IInv'
<1>i. TypeOK /\ PendingIsCurrent /\ DisplayCurrent /\ PassInv
  BY IInvParts
<1>1. TypeOK' /\ PendingIsCurrent'
  BY <1>i, OutsideType, OutsideCand
<1>2. ProgKept /\ search' = search /\ disp'.gen = disp.gen /\ AttKept
  BY <1>i, OutsideProg, OutsideRest
<1>3. DisplayCurrent'
  BY <1>i, <1>2 DEF DisplayCurrent, ProgKept
<1>4. CASE pass' = Idle
  BY <1>1, <1>3, <1>4, IdleInv DEF IInv, PassInv
<1>5. CASE pass' = pass
  <2>1. /\ Owed' = Owed /\ Credited' = Credited
        /\ \A k \in Keys : att'[k].state \in {"none", "running"} <=> att[k].state \in {"none", "running"}
    BY <1>i, <1>2, AttemptsKept
  <2>2. PassGeneration'
    BY <1>i, <1>2, <1>5 DEF PassInv, PassGeneration, ProgKept
  <2>3. PassDisplay'
    BY <1>i, <1>2, <1>5, OutsideDisplay DEF PassInv
  <2>4. PassKeys'
    <3> QED BY <1>i, <1>5, <2>1 DEF PassInv, PassKeys
  <2>5. NoSearchOwed' <=> NoSearchOwed
    BY <1>2, <1>5, <2>1 DEF NoSearchOwed
  <2>6. PassSearch'
    BY <1>i, <1>2, <1>5, <2>1, <2>5 DEF PassInv, PassSearch
  <2> QED BY <1>1, <1>3, <2>2, <2>3, <2>4, <2>6 DEF IInv
<1> QED BY <1>i, <1>4, <1>5, OutsideRest

-----------------------------------------------------------------------------
(* The open questions and the shown name under the steps of a pass.         *)

LEMMA PassPending ==
  ASSUME IInv, Pass PROVE PendingIsCurrent'
<1>i. TypeOK /\ PendingIsCurrent /\ PassGeneration
  BY DEF IInv
<1>t. prog \in Progress /\ pass \in PassRecord
  BY <1>i, TypeParts
<1>o. \A c \in cand : c.status = "pending" => c.gen = prog.gen
  BY <1>i DEF PendingIsCurrent
<1>u. \A r, reason : \A c \in Upsert(cand, r, reason, prog.gen) :
        c.status = "pending" => c.gen = prog.gen
  BY <1>o DEF Upsert
<1>1. CASE \/ ClaimLost \/ load_road_input \/ converge_display_name \/ prepare_key_attempts
           \/ complete_key_attempt \/ Gate \/ generation_pending_candidate_count
  <2>1. cand' = cand /\ prog' = prog
    BY <1>1 DEF ClaimLost, load_road_input, converge_display_name, prepare_key_attempts,
                complete_key_attempt, Gate, generation_pending_candidate_count
  <2> QED BY <1>o, <2>1 DEF PendingIsCurrent
<1>2. CASE claim_due
  <2>1. cand' = cand /\ prog'.gen = prog.gen
    BY <1>2, <1>t DEF claim_due, Progress
  <2> QED BY <1>o, <2>1 DEF PendingIsCurrent
<1>3. CASE begin_evidence_generation
  BY <1>3 DEF begin_evidence_generation, Begin, PendingIsCurrent
<1>4. CASE run_key_attempt
  <2>1. pass.gen = prog.gen /\ prog' = prog
    BY <1>4, <1>i DEF run_key_attempt, Claimed, PassGeneration
  <2>2. \/ cand' = cand
        \/ \E R \in SUBSET Routes : cand' = Recorded(R, "name_guard_failed")
        \/ \E r \in Routes : apply_guarded_route(r)
    BY <1>4 DEF run_key_attempt, Pages
  <2>3. ASSUME NEW R \in SUBSET Routes, cand' = Recorded(R, "name_guard_failed")
        PROVE  PendingIsCurrent'
    BY <2>1, <2>3, <1>o, RecordedIs DEF PendingIsCurrent
  <2>4. ASSUME NEW r \in Routes, apply_guarded_route(r) PROVE PendingIsCurrent'
    BY <2>1, <2>4, <1>i, <1>o, <1>u, GuardedIs DEF PendingIsCurrent
  <2> QED BY <2>1, <2>2, <2>3, <2>4, <1>o DEF PendingIsCurrent
<1>5. CASE run_name_search
  <2>1. pass.gen = prog.gen /\ prog' = prog
    BY <1>5, <1>i DEF run_name_search, PassGeneration
  <2>2. cand' = cand \/ \E R \in SUBSET Routes : cand' = Recorded(R, "tier2_name_search")
    BY <1>5 DEF run_name_search, Pages
  <2> QED BY <2>1, <2>2, <1>o, RecordedIs DEF PendingIsCurrent
<1>6. CASE advance_progress
  <2>1. cand' = cand /\ prog'.gen = pass.gen /\ pass.gen = prog.gen
    BY <1>6, <1>i DEF advance_progress, Claimed, PassGeneration
  <2> QED BY <1>o, <2>1 DEF PendingIsCurrent
<1> QED BY <1>1, <1>2, <1>3, <1>4, <1>5, <1>6 DEF Pass

LEMMA PassDisplayCurrent ==
  ASSUME IInv, Pass PROVE DisplayCurrent'
<1>i. TypeOK /\ DisplayCurrent /\ PassDisplay
  BY DEF IInv
<1>t. prog \in Progress /\ pass \in PassRecord
  BY <1>i, TypeParts
<1>1. CASE \/ ClaimLost \/ load_road_input \/ prepare_key_attempts \/ run_key_attempt
           \/ complete_key_attempt \/ Gate \/ run_name_search
           \/ generation_pending_candidate_count
  <2>1. disp' = disp /\ prog' = prog
    BY <1>1 DEF ClaimLost, load_road_input, prepare_key_attempts, run_key_attempt,
                complete_key_attempt, Gate, run_name_search, generation_pending_candidate_count
  <2> QED BY <1>i, <2>1 DEF DisplayCurrent
<1>2. CASE claim_due \/ begin_evidence_generation
  <2>1. disp' = disp /\ prog'.dgen = prog.dgen /\ prog'.dirty = prog.dirty
    BY <1>2, <1>t DEF claim_due, begin_evidence_generation, Begin, Progress
  <2> QED BY <1>i, <2>1 DEF DisplayCurrent
<1>3. CASE converge_display_name
  <2>1. prog' = prog /\ prog.dirty
    BY <1>3, <1>i DEF converge_display_name, PassDisplay
  <2> QED BY <2>1 DEF DisplayCurrent
<1>4. CASE advance_progress
  <2>1. /\ disp' = disp /\ prog'.dgen = prog.dgen
        /\ prog'.dirty = IF prog.dgen = pass.dgen THEN pass.dirty ELSE TRUE
    BY <1>4 DEF advance_progress
  <2>2. ~pass.dirty /\ (prog.dgen = pass.dgen => disp.gen = prog.dgen)
    BY <1>4, <1>i DEF advance_progress, Claimed, PassDisplay
  <2>3. CASE prog.dgen = pass.dgen
    BY <2>1, <2>2, <2>3 DEF DisplayCurrent
  <2>4. CASE prog.dgen # pass.dgen
    BY <2>1, <2>4 DEF DisplayCurrent
  <2> QED BY <2>3, <2>4
<1> QED BY <1>1, <1>2, <1>3, <1>4 DEF Pass

-----------------------------------------------------------------------------
(* The pass's own invariant, one lemma per step.                            *)

LEMMA ClaimInv ==
  ASSUME IInv, claim_due PROVE PassInv'
<1>t. prog \in Progress
  BY TypeParts DEF IInv
<1>1. pass' = [Idle EXCEPT !.pc = "load", !.dgen = prog.dgen]
  BY DEF claim_due
<1>2. /\ pass'.pc = "load" /\ pass'.dgen = prog.dgen /\ pass'.todo = {} /\ pass'.olretry = FALSE
  BY <1>1 DEF Idle
<1>3. prog'.dgen = prog.dgen /\ prog.dgen \in Nat
  BY <1>t DEF claim_due, Progress
<1>4. PassGeneration' /\ PassDisplay'
  BY <1>2, <1>3 DEF PassGeneration, PassDisplay
<1>5. PassKeys' /\ PassSearch'
  BY <1>2 DEF PassKeys, PassSearch
<1> QED BY <1>4, <1>5 DEF PassInv

LEMMA LoadInv ==
  ASSUME IInv, load_road_input PROVE PassInv'
<1>i. TypeOK /\ DisplayCurrent /\ PassInv
  BY DEF IInv, PassInv
<1>t. /\ prog \in Progress /\ pass \in PassRecord /\ prog.dgen \in Nat /\ pass.dgen \in Nat
      /\ prog.dirty \in BOOLEAN
  BY <1>i, TypeParts DEF Progress, PassRecord
<1> DEFINE changed == prog.fp # settled
           p == Loaded
<1>r. p \in PassRecord
  BY <1>i, LoadedType
<1>p. /\ p.dirty = prog.dirty /\ p.fp = settled /\ p.changed = changed
      /\ p.gen = Generation(changed) /\ p.tier = prog.tier /\ p.dgen = pass.dgen
      /\ p.todo = pass.todo /\ p.olretry = pass.olretry
  BY <1>t DEF PassRecord, Loaded
<1>l. pass.pc = "load" /\ pass.todo = {} /\ ~pass.olretry /\ pass.dgen <= prog.dgen
  BY <1>i DEF load_road_input, Claimed, PassInv, PassKeys, PassSearch, PassDisplay
<1>e. /\ Evidence(p) \in {"begin", "advance", "prepare"}
      /\ Evidence(p) = "begin" <=> p.changed
      /\ Evidence(p) = "advance" => p.fp = {}
  BY DEF Evidence
<1>q. /\ prog' = prog /\ disp' = disp /\ att' = att
      /\ pass' = IF prog.dirty
                 THEN [p EXCEPT !.pc = "converge", !.heard = prog.dgen, !.chosen = chosen]
                 ELSE [p EXCEPT !.pc = Evidence(p)]
      /\ search' = IF ~changed /\ prog.tier = 2 /\ search = "none" THEN "inherited" ELSE search
  BY DEF load_road_input, Loaded
<1> HIDE DEF p
<1>f. /\ pass'.pc = IF prog.dirty THEN "converge" ELSE Evidence(p)
      /\ prog.dirty => pass'.heard = prog.dgen
      /\ pass'.dirty = p.dirty /\ pass'.fp = p.fp /\ pass'.changed = p.changed
      /\ pass'.gen = p.gen /\ pass'.tier = p.tier /\ pass'.dgen = p.dgen
      /\ pass'.todo = p.todo /\ pass'.olretry = p.olretry
  BY <1>r, <1>p, <1>q DEF PassRecord
<1>1. PassGeneration'
  <2>1. ~pass'.changed => pass'.gen = prog'.gen
    BY <1>p, <1>q, <1>f DEF Generation
  <2>2. pass'.pc \in {"converge", "begin", "advance", "prepare"}
    BY <1>e, <1>f
  <2>3. pass'.pc = "begin" => pass'.changed
    BY <1>e, <1>f
  <2>4. pass'.pc \in {"advance", "prepare"} => ~pass'.changed
    BY <1>e, <1>f
  <2> HIDE DEF changed
  <2> QED BY <2>1, <2>2, <2>3, <2>4 DEF PassGeneration
<1>2. PassDisplay'
  <2>1. CASE prog.dirty
    <3>1. pass'.pc = "converge" /\ pass'.heard = prog.dgen /\ pass'.dgen = pass.dgen
      BY <2>1, <1>f, <1>p
    <3> QED BY <2>1, <3>1, <1>l, <1>q DEF PassDisplay
  <2>2. CASE ~prog.dirty
    <3>1. /\ pass'.pc \in {"begin", "advance", "prepare"} /\ ~pass'.dirty
          /\ pass'.dgen = pass.dgen
      BY <2>2, <1>e, <1>f, <1>p
    <3>2. disp.gen = prog.dgen
      BY <2>2, <1>i DEF DisplayCurrent
    <3> QED BY <3>1, <3>2, <1>l, <1>q DEF PassDisplay
  <2> QED BY <2>1, <2>2
<1>3. PassKeys'
  BY <1>p, <1>l, <1>e, <1>f DEF PassKeys
<1>4. PassSearch'
  <2>1. ~pass'.changed /\ pass'.tier = 2 => search' # "none"
    BY <1>p, <1>f, <1>q
  <2>2. ~pass'.olretry /\ pass'.pc # "count" /\ ~(pass'.pc = "advance" /\ pass'.fp # {})
    BY <1>p, <1>l, <1>e, <1>f
  <2> QED BY <2>1, <2>2 DEF PassSearch
<1> QED BY <1>1, <1>2, <1>3, <1>4 DEF PassInv

LEMMA ConvergeInv ==
  ASSUME IInv, converge_display_name PROVE PassInv'
<1>i. TypeOK /\ PassInv
  BY DEF IInv, PassInv
<1>t. pass \in PassRecord /\ prog.dgen \in Nat /\ pass.dgen \in Nat
  BY <1>i, TypeParts DEF Progress, PassRecord
<1>c. pass.pc = "converge"
  BY DEF converge_display_name
<1>e. /\ Evidence(pass) \in {"begin", "advance", "prepare"}
      /\ Evidence(pass) = "begin" <=> pass.changed
      /\ Evidence(pass) = "advance" => pass.fp = {}
  BY DEF Evidence
<1>f. /\ pass'.pc = Evidence(pass) /\ pass'.dirty = FALSE /\ pass'.fp = pass.fp
      /\ pass'.changed = pass.changed /\ pass'.gen = pass.gen /\ pass'.tier = pass.tier
      /\ pass'.dgen = pass.dgen /\ pass'.todo = pass.todo /\ pass'.olretry = pass.olretry
  BY <1>t DEF converge_display_name, PassRecord
<1>q. prog' = prog /\ search' = search /\ att' = att /\ disp'.gen = pass.heard
  BY DEF converge_display_name, choose_author_display_name
<1>1. PassGeneration'
  BY <1>i, <1>c, <1>e, <1>f, <1>q DEF PassInv, PassGeneration
<1>2. PassDisplay'
  BY <1>i, <1>c, <1>e, <1>f, <1>q DEF PassInv, PassDisplay
<1>3. PassKeys'
  BY <1>i, <1>c, <1>e, <1>f DEF PassInv, PassKeys
<1>4. PassSearch'
  BY <1>i, <1>c, <1>e, <1>f, <1>q DEF PassInv, PassSearch
<1> QED BY <1>1, <1>2, <1>3, <1>4 DEF PassInv

LEMMA BeginInv ==
  ASSUME IInv, begin_evidence_generation PROVE PassInv'
<1>i. TypeOK /\ PassInv
  BY DEF IInv, PassInv
<1>t. pass \in PassRecord /\ prog \in Progress
  BY <1>i, TypeParts
<1>c. pass.pc = "begin"
  BY DEF begin_evidence_generation, Begin, Claimed
<1>f. /\ pass'.pc = IF pass.fp = {} THEN "advance" ELSE "prepare"
      /\ pass'.dirty = pass.dirty /\ pass'.fp = pass.fp /\ pass'.changed = pass.changed
      /\ pass'.gen = pass.gen /\ pass'.dgen = pass.dgen /\ pass'.todo = pass.todo
      /\ pass'.olretry = pass.olretry
  BY <1>t DEF begin_evidence_generation, Begin, To, PassRecord
<1>q. prog'.gen = pass.gen /\ prog'.dgen = prog.dgen /\ prog'.dirty = prog.dirty /\ disp' = disp
  BY <1>t DEF begin_evidence_generation, Begin, Progress
<1>1. PassGeneration'
  BY <1>f, <1>q DEF PassGeneration
<1>2. PassDisplay'
  BY <1>i, <1>c, <1>f, <1>q DEF PassInv, PassDisplay
<1>3. PassKeys'
  BY <1>i, <1>c, <1>f DEF PassInv, PassKeys
<1>4. PassSearch'
  BY <1>i, <1>c, <1>f DEF PassInv, PassSearch, PassGeneration
<1> QED BY <1>1, <1>2, <1>3, <1>4 DEF PassInv

LEMMA PrepareInv ==
  ASSUME IInv, prepare_key_attempts PROVE PassInv'
<1>i. TypeOK /\ PassInv
  BY DEF IInv, PassInv
<1>t. pass \in PassRecord /\ att \in [Keys -> AttemptRow]
  BY <1>i, TypeParts
<1>c. pass.pc = "prepare"
  BY DEF prepare_key_attempts, Claimed
<1> DEFINE mine == {k \in Keys : Taken(k)}
<1>f. /\ pass'.pc = "keys" /\ pass'.todo = mine
      /\ pass'.dirty = pass.dirty /\ pass'.fp = pass.fp /\ pass'.changed = pass.changed
      /\ pass'.gen = pass.gen /\ pass'.dgen = pass.dgen /\ pass'.tier = pass.tier
      /\ pass'.olretry = pass.olretry
  BY <1>t DEF prepare_key_attempts, PassRecord
<1>q. prog' = prog /\ disp' = disp /\ search' = search
  BY DEF prepare_key_attempts
<1>1. PassGeneration'
  BY <1>i, <1>c, <1>f, <1>q DEF PassInv, PassGeneration
<1>2. PassDisplay'
  BY <1>i, <1>c, <1>f, <1>q DEF PassInv, PassDisplay
<1>3. PassKeys'
  <2>1. ASSUME NEW k \in pass.fp \cap Keys, k \notin mine PROVE att'[k].state \notin {"none", "running"}
    <3>1. k \in Keys
      BY <1>t DEF PassRecord
    <3>2. att'[k] = att[k]
      BY <2>1, <3>1 DEF prepare_key_attempts
    <3> QED BY <2>1, <3>1, <3>2 DEF Taken
  <2> HIDE DEF mine
  <2> QED BY <1>f, <2>1 DEF PassKeys
<1>4. PassSearch'
  BY <1>i, <1>c, <1>f, <1>q DEF PassInv, PassSearch
<1> QED BY <1>1, <1>2, <1>3, <1>4 DEF PassInv

LEMMA RunKeyInv ==
  ASSUME IInv, run_key_attempt PROVE PassInv'
<1>i. TypeOK /\ PassInv
  BY DEF IInv, PassInv
<1>t. pass \in PassRecord
  BY <1>i, TypeParts
<1>c. pass.pc \in {"keys", "credits"}
  BY DEF run_key_attempt, Claimed
<1>f. /\ pass'.pc \in {"credits", "complete"} /\ pass'.todo = pass.todo
      /\ pass'.key \in pass.todo /\ pass'.verdict # "none"
      /\ pass'.dirty = pass.dirty /\ pass'.fp = pass.fp /\ pass'.changed = pass.changed
      /\ pass'.gen = pass.gen /\ pass'.dgen = pass.dgen /\ pass'.tier = pass.tier
      /\ pass'.olretry = pass.olretry
  <2>1. CASE \E k \in pass.todo, v \in {"retryable", "nobody", "named"} : pass' = Answer(k, v)
    BY <2>1, <1>t DEF Answer, PassRecord
  <2>2. CASE /\ pass.pc = "credits"
             /\ \/ \E a, l : pass' = [pass EXCEPT !.active = a, !.ol = l]
                \/ pass' = [pass EXCEPT !.pc = "complete"]
    <3>1. pass.key \in pass.todo /\ pass.verdict # "none"
      BY <2>2, <1>i DEF PassInv, PassKeys
    <3> QED BY ONLY <2>2, <3>1, <1>t DEF PassRecord
  <2>3. \/ \E k \in pass.todo, v \in {"retryable", "nobody", "named"} : pass' = Answer(k, v)
        \/ /\ pass.pc = "credits"
           /\ \/ \E a, l : pass' = [pass EXCEPT !.active = a, !.ol = l]
              \/ pass' = [pass EXCEPT !.pc = "complete"]
    BY DEF run_key_attempt, Claimed, To
  <2> QED BY <2>1, <2>2, <2>3
<1>q. prog' = prog /\ disp' = disp /\ search' = search /\ att' = att
  BY DEF run_key_attempt
<1>o. Owed' = Owed
  BY <1>q DEF Owed
<1>1. PassGeneration'
  BY <1>i, <1>c, <1>f, <1>q DEF PassInv, PassGeneration
<1>2. PassDisplay'
  BY <1>i, <1>c, <1>f, <1>q DEF PassInv, PassDisplay
<1>3. PassKeys'
  BY <1>i, <1>c, <1>f, <1>q DEF PassInv, PassKeys
<1>4. PassSearch'
  BY <1>i, <1>c, <1>f, <1>q, <1>o DEF PassInv, PassSearch
<1> QED BY <1>1, <1>2, <1>3, <1>4 DEF PassInv

LEMMA CompleteInv ==
  ASSUME IInv, complete_key_attempt PROVE PassInv'
<1>i. TypeOK /\ PassInv
  BY DEF IInv, PassInv
<1>t. pass \in PassRecord /\ att \in [Keys -> AttemptRow]
  BY <1>i, TypeParts
<1>c. pass.pc = "complete" /\ pass.key \in pass.todo /\ pass.key \in Keys
  BY <1>i, <1>t DEF complete_key_attempt, Claimed, PassInv, PassKeys, PassRecord
<1> DEFINE o == pass.olretry \/ (pass.verdict = "retryable" /\ Provider[pass.key] = "ol")
           n == pass.todo \ {pass.key}
<1>f. /\ pass'.pc = "keys" /\ pass'.todo = n /\ pass'.olretry = o
      /\ pass'.dirty = pass.dirty /\ pass'.fp = pass.fp /\ pass'.changed = pass.changed
      /\ pass'.gen = pass.gen /\ pass'.dgen = pass.dgen /\ pass'.tier = pass.tier
  BY <1>t DEF complete_key_attempt, PassRecord
<1>q. prog' = prog /\ disp' = disp /\ search' = search
  BY DEF complete_key_attempt
<1>a. /\ att'[pass.key].state = IF pass.verdict = "retryable" THEN "waiting" ELSE "terminal"
      /\ \A k \in Keys \ {pass.key} : att'[k] = att[k]
  BY <1>t, <1>c DEF complete_key_attempt
<1>1. PassGeneration'
  BY <1>i, <1>c, <1>f, <1>q DEF PassInv, PassGeneration
<1>2. PassDisplay'
  BY <1>i, <1>c, <1>f, <1>q DEF PassInv, PassDisplay
<1>3. PassKeys'
  <2>1. ASSUME NEW k \in pass.fp \cap Keys, att'[k].state \in {"none", "running"} PROVE k \in n
    <3>1. k \in Keys /\ k # pass.key
      BY <1>t, <1>a, <2>1 DEF PassRecord
    <3>2. k \in pass.todo
      BY <1>i, <1>c, <1>a, <2>1, <3>1 DEF PassInv, PassKeys
    <3> QED BY <3>1, <3>2
  <2> HIDE DEF n
  <2> QED BY <1>f, <2>1 DEF PassKeys
<1>4. PassSearch'
  <2>1. ASSUME o PROVE \E k \in Owed' \ n : Provider[k] = "ol"
    <3>1. CASE pass.olretry
      <4>1. PICK k \in Owed \ pass.todo : Provider[k] = "ol"
        BY <3>1, <1>i DEF PassInv, PassSearch
      <4>2. k \in Owed' /\ k \notin n
        BY <4>1, <1>c, <1>a DEF Owed
      <4> QED BY <4>1, <4>2
    <3>2. CASE pass.verdict = "retryable" /\ Provider[pass.key] = "ol"
      BY <3>2, <1>c, <1>a DEF Owed
    <3> QED BY <2>1, <3>1, <3>2
  <2>2. ~pass'.changed /\ pass'.tier = 2 => search' # "none"
    BY <1>i, <1>c, <1>f, <1>q DEF PassInv, PassSearch
  <2> HIDE DEF o, n
  <2> QED BY <1>f, <2>1, <2>2 DEF PassSearch
<1> QED BY <1>1, <1>2, <1>3, <1>4 DEF PassInv

LEMMA GateInv ==
  ASSUME IInv, Gate PROVE PassInv'
<1>i. TypeOK /\ PassInv
  BY DEF IInv, PassInv
<1>t. pass \in PassRecord
  BY <1>i, TypeParts
<1>c. pass.pc = "keys" /\ pass.todo = {}
  BY DEF Gate, Claimed
<1>f. /\ pass'.pc = IF RunTier2 THEN "search" ELSE "count"
      /\ pass'.todo = pass.todo /\ pass'.olretry = pass.olretry
      /\ pass'.dirty = pass.dirty /\ pass'.fp = pass.fp
      /\ pass'.gen = pass.gen /\ pass'.dgen = pass.dgen
      /\ pass'.ol = pass.ol
  BY <1>t DEF Gate, PassRecord
<1>q. prog' = prog /\ disp' = disp /\ search' = search /\ att' = att
  BY DEF Gate
<1>o. Owed' = Owed /\ Credited' = Credited
  BY <1>q DEF Owed, Credited
<1>p. pass'.pc \in {"search", "count"} /\ (pass'.pc = "count" <=> ~RunTier2)
  BY <1>f
<1>1. PassGeneration'
  BY <1>i, <1>c, <1>f, <1>p, <1>q DEF PassInv, PassGeneration
<1>2. PassDisplay'
  BY <1>i, <1>c, <1>f, <1>p, <1>q DEF PassInv, PassDisplay
<1>3. PassKeys'
  BY <1>i, <1>c, <1>f, <1>p, <1>q DEF PassInv, PassKeys
<1>4. PassSearch'
  <2>1. pass.olretry => \E k \in Owed \ pass.todo : Provider[k] = "ol"
    BY <1>i DEF PassInv, PassSearch
  <2>2. ASSUME ~RunTier2 PROVE NoSearchOwed
    <3>1. ~pass.changed /\ pass.tier = 2 => search # "none"
      BY <1>i, <1>c DEF PassInv, PassSearch
    <3> QED BY <2>1, <2>2, <3>1 DEF RunTier2, NoSearchOwed
  <2>3. NoSearchOwed' <=> NoSearchOwed
    BY <1>f, <1>q, <1>o DEF NoSearchOwed
  <2> QED BY <1>f, <1>p, <1>o, <2>1, <2>2, <2>3 DEF PassSearch
<1> QED BY <1>1, <1>2, <1>3, <1>4 DEF PassInv

LEMMA SearchInv ==
  ASSUME IInv, run_name_search PROVE PassInv'
<1>i. TypeOK /\ PassInv
  BY DEF IInv, PassInv
<1>t. pass \in PassRecord
  BY <1>i, TypeParts
<1>c. pass.pc = "search"
  BY DEF run_name_search
<1>f. /\ pass'.pc = "count"
      /\ pass'.todo = pass.todo /\ pass'.olretry = pass.olretry
      /\ pass'.dirty = pass.dirty /\ pass'.fp = pass.fp
      /\ pass'.gen = pass.gen /\ pass'.dgen = pass.dgen
  BY <1>t DEF run_name_search, PassRecord
<1>q. prog' = prog /\ disp' = disp /\ search' # "none" /\ att' = att
  BY DEF run_name_search
<1>o. Owed' = Owed
  BY <1>q DEF Owed
<1>1. PassGeneration'
  BY <1>i, <1>c, <1>f, <1>q DEF PassInv, PassGeneration
<1>2. PassDisplay'
  BY <1>i, <1>c, <1>f, <1>q DEF PassInv, PassDisplay
<1>3. PassKeys'
  BY <1>i, <1>c, <1>f, <1>q DEF PassInv, PassKeys
<1>4. PassSearch'
  BY <1>i, <1>c, <1>f, <1>q, <1>o DEF PassInv, PassSearch, NoSearchOwed
<1> QED BY <1>1, <1>2, <1>3, <1>4 DEF PassInv

LEMMA CountInv ==
  ASSUME IInv, generation_pending_candidate_count PROVE PassInv'
<1>i. TypeOK /\ PassInv
  BY DEF IInv, PassInv
<1>t. pass \in PassRecord
  BY <1>i, TypeParts
<1>c. pass.pc = "count"
  BY DEF generation_pending_candidate_count, Claimed
<1>f. /\ pass'.pc = "advance"
      /\ pass'.todo = pass.todo /\ pass'.olretry = pass.olretry
      /\ pass'.dirty = pass.dirty /\ pass'.fp = pass.fp
      /\ pass'.gen = pass.gen /\ pass'.dgen = pass.dgen
      /\ pass'.ol = pass.ol
  BY <1>t DEF generation_pending_candidate_count, PassRecord
<1>q. prog' = prog /\ disp' = disp /\ search' = search /\ att' = att
  BY DEF generation_pending_candidate_count
<1>o. Owed' = Owed /\ Credited' = Credited
  BY <1>q DEF Owed, Credited
<1>1. PassGeneration'
  BY <1>i, <1>c, <1>f, <1>q DEF PassInv, PassGeneration
<1>2. PassDisplay'
  BY <1>i, <1>c, <1>f, <1>q DEF PassInv, PassDisplay
<1>3. PassKeys'
  BY <1>i, <1>c, <1>f, <1>q DEF PassInv, PassKeys
<1>4. PassSearch'
  BY <1>i, <1>c, <1>f, <1>q, <1>o DEF PassInv, PassSearch, NoSearchOwed
<1> QED BY <1>1, <1>2, <1>3, <1>4 DEF PassInv

-----------------------------------------------------------------------------
(* The invariant holds.                                                     *)

LEMMA InitInv == Init => IInv
<1> SUFFICES ASSUME Init PROVE IInv
  OBVIOUS
<1>1. pass.pc = "idle" /\ pass.todo = {} /\ pass.olretry = FALSE
  BY DEF Init, Idle
<1>2. PassInv
  BY <1>1 DEF PassInv, PassGeneration, PassDisplay, PassKeys, PassSearch
<1>3. PendingIsCurrent /\ DisplayCurrent
  BY DEF Init, PendingIsCurrent, DisplayCurrent
<1> QED BY <1>2, <1>3, InitType, IInvParts

LEMMA NextInv == IInv /\ [Next]_vars => IInv'
<1> SUFFICES ASSUME IInv, [Next]_vars PROVE IInv'
  OBVIOUS
<1>1. CASE UNCHANGED vars
  BY <1>1 DEF vars, IInv, TypeOK, PendingIsCurrent, DisplayCurrent, PassGeneration,
     PassDisplay, PassKeys, PassSearch, NoSearchOwed, Owed, Credited
<1>2. CASE Outside
  BY <1>2, OutsideInv
<1>3. CASE Pass
  <2>1. TypeOK' /\ PendingIsCurrent' /\ DisplayCurrent'
    BY <1>3, PassTypeStep, PassPending, PassDisplayCurrent DEF IInv
  <2>2. ASSUME ClaimLost \/ advance_progress PROVE PassInv'
    BY <2>2, IdleInv DEF ClaimLost, advance_progress
  <2>3. PassInv'
    BY <1>3, <2>2, ClaimInv, LoadInv, ConvergeInv, BeginInv, PrepareInv, RunKeyInv,
       CompleteInv, GateInv, SearchInv, CountInv DEF Pass
  <2> QED BY <2>1, <2>3 DEF IInv, PassInv
<1> QED BY <1>1, <1>2, <1>3 DEF Next, Outside

\* author_linking.rs, sqlite_author_link.rs: type correctness of the ledger and
\* of the pass over it.
THEOREM TypesHold == Spec => []TypeOK
<1>1. IInv => TypeOK
  BY DEF IInv
<1> QED BY InitInv, NextInv, <1>1, PTL DEF Spec

\* sqlite_author_link.rs candidates: whatever passes, users, imports and merges
\* do between one another's transactions, an open question is of the generation
\* that picking and dismissing accept.
THEOREM QuestionsAnswerable == Spec => []PendingIsCurrent
<1>1. IInv => PendingIsCurrent
  BY DEF IInv
<1> QED BY InitInv, NextInv, <1>1, PTL DEF Spec

\* advance_progress's compare of display_name_generation: of the names recorded by
\* record_observed_names, one that comes in while a pass runs is never taken for one
\* that the pass has heard.  A name inserted without a new generation, with a route,
\* a Readarr rejection, a pick or a merge, is outside the statement.
THEOREM ObservationsHeard == Spec => []DisplayCurrent
<1>1. IInv => DisplayCurrent
  BY DEF IInv
<1> QED BY InitInv, NextInv, <1>1, PTL DEF Spec

-----------------------------------------------------------------------------
(* What no step does.                                                       *)

\* The writers of a route: the guarded one, the user's attach, the user's
\* removal, another author, a merge.
LEMMA RouteWrites ==
  ASSUME TypeOK, [Next]_vars
  PROVE  \/ route' = route
         \/ \E r \in Routes : apply_guarded_route(r)
         \/ \E r \in Routes : route' = Attached(r)
         \/ \E r \in Routes : Mine(r) /\ route' = [route EXCEPT ![r].state = "removed"]
         \/ \E r \in Routes : /\ route[r] = NoRoute
                              /\ route' = [route EXCEPT ![r] =
                                   [owner |-> "other", state |-> "active", provenance |-> "guarded"]]
         \/ route' = [r \in Routes |-> IF route[r].owner = "other"
                                       THEN [route[r] EXCEPT !.owner = "me"] ELSE route[r]]
<1>1. CASE UNCHANGED vars
  BY <1>1 DEF vars
<1>2. CASE Pass
  <2>1. CASE run_key_attempt
    BY <2>1 DEF run_key_attempt, Pages
  <2>2. CASE ~run_key_attempt
    BY <1>2, <2>2 DEF Pass, ClaimLost, claim_due, load_road_input, converge_display_name,
       begin_evidence_generation, Begin, prepare_key_attempts, complete_key_attempt, Gate,
       run_name_search, generation_pending_candidate_count, advance_progress
  <2> QED BY <2>1, <2>2
<1>3. CASE pick_candidate_as_user
  <2>1. PICK c \in Pending(cand, prog.gen) : route' = Attached(c.route)
    BY <1>3 DEF pick_candidate_as_user
  <2>2. c.route \in Routes
    BY TypeParts DEF Pending, Question
  <2> QED BY <2>1, <2>2
<1>4. CASE attach_route_as_user
  BY <1>4 DEF attach_route_as_user
<1>5. CASE remove_route_as_user
  BY <1>5 DEF remove_route_as_user
<1>6. CASE submit_agreed_evidence
  BY <1>6 DEF submit_agreed_evidence, Pages
<1>7. CASE OtherAttaches
  BY <1>7 DEF OtherAttaches
<1>8. CASE fold_author_link_state
  BY <1>8 DEF fold_author_link_state
<1>9. CASE \/ dismiss_candidate_as_user \/ revoke_dismissals_and_replay
           \/ rename_author_and_cascade \/ record_readarr_rejection
           \/ ensure_enqueued \/ record_observed_names \/ EvidenceChanges
           \/ TimePasses \/ KeyDue \/ LeaseEnds \/ Crash
  BY <1>9 DEF dismiss_candidate_as_user, revoke_dismissals_and_replay,
     rename_author_and_cascade, record_readarr_rejection, ensure_enqueued,
     record_observed_names, EvidenceChanges, TimePasses, KeyDue, LeaseEnds, Crash
<1> QED
  BY <1>1, <1>2, <1>3, <1>4, <1>5, <1>6, <1>7, <1>8, <1>9 DEF Next, User, Others

LEMMA TombstoneStep ==
  ASSUME TypeOK, [Next]_vars, NEW r \in Routes,
         route[r].owner = "me", route[r].state = "removed", route'[r].state = "active"
  PROVE  route'[r].provenance = "user"
<1>t. route \in [Routes -> RouteRow]
  BY TypeParts
<1>1. CASE route' = route
  BY <1>1
<1>2. ASSUME NEW q \in Routes, apply_guarded_route(q) PROVE FALSE
  <2>1. CASE route' = route
    BY <2>1
  <2>2. CASE /\ \E p \in {"legacy", "guarded", "user"} :
                  route' = [route EXCEPT ![q] = [owner |-> "me", state |-> "active", provenance |-> p]]
             /\ ~(route[q].owner = "me" /\ route[q].state = "removed")
    <3>1. q # r
      BY <2>2
    <3>2. route'[r] = route[r]
      BY <2>2, <3>1, <1>t
    <3> QED BY <3>2
  <2> QED BY <1>2, <2>1, <2>2, GuardedIs
<1>3. ASSUME NEW q \in Routes, route' = Attached(q) PROVE route'[r].provenance = "user"
  BY <1>3, <1>t DEF Attached
<1>4. ASSUME NEW q \in Routes, Mine(q), route' = [route EXCEPT ![q].state = "removed"] PROVE FALSE
  <2>1. q # r
    BY <1>4 DEF Mine
  <2> QED BY <1>4, <1>t, <2>1
<1>5. ASSUME NEW q \in Routes, route[q] = NoRoute,
             route' = [route EXCEPT ![q] =
                         [owner |-> "other", state |-> "active", provenance |-> "guarded"]]
      PROVE  FALSE
  <2>1. q # r
    BY <1>5 DEF NoRoute
  <2> QED BY <1>5, <1>t, <2>1
<1>6. ASSUME route' = [q \in Routes |-> IF route[q].owner = "other"
                                        THEN [route[q] EXCEPT !.owner = "me"] ELSE route[q]]
      PROVE  FALSE
  BY <1>6, <1>t
<1> QED BY <1>1, <1>2, <1>3, <1>4, <1>5, <1>6, RouteWrites

\* apply_guarded_route and the claim-free paths to it: what the user removed is
\* put back by the user's own attach or pick and by nobody else.
THEOREM TombstonesStand == Spec => TombstoneStands
<1>1. IInv => TypeOK
  BY DEF IInv
<1>2. TypeOK /\ [Next]_vars =>
        [\A r \in Routes :
           route[r].owner = "me" /\ route[r].state = "removed" /\ route'[r].state = "active"
           => route'[r].provenance = "user"]_vars
  BY TombstoneStep
<1> QED BY InitInv, NextInv, <1>1, <1>2, PTL DEF Spec, TombstoneStands

\* A step that is nobody's act and adds a question is the sweep's: the guarded
\* writer's, or record_candidates, which has looked for the dismissal.
LEMMA ReaskStep ==
  ASSUME TypeOK, [Next]_vars, NEW r \in Routes,
         NEW reason \in {"name_guard_failed", "tier2_name_search"},
         Dismissed(r, reason), acts' = acts,
         NEW c \in cand' \ cand
  PROVE  ~(Same(c, r, reason) /\ c.status = "pending")
<1>a. ~Act
  BY TypeParts DEF Act
<1>n. cand' # cand
  OBVIOUS
<1>1. ASSUME NEW R \in SUBSET Routes, NEW why, cand' = Recorded(R, why)
      PROVE  ~(Same(c, r, reason) /\ c.status = "pending")
  <2>1. PICK q \in R : /\ ~Dismissed(q, why)
                       /\ c = [route |-> q, reason |-> why, gen |-> pass.gen,
                               status |-> "pending"]
    BY <1>1, RecordedIs
  <2>2. CASE Same(c, r, reason)
    <3>1. q = r /\ why = reason
      BY <2>1, <2>2 DEF Same
    <3> QED BY <2>1, <3>1
  <2> QED BY <2>2
<1>2. ASSUME NEW q \in Routes, apply_guarded_route(q)
      PROVE  ~(Same(c, r, reason) /\ c.status = "pending")
  <2>1. PICK o \in {"ownership_collision", "tombstoned", "legacy_contradiction"} :
           cand' = Upsert(cand, q, o, prog.gen)
    BY <1>2, <1>n, GuardedIs
  <2>2. c.reason = o
    BY <2>1 DEF Upsert
  <2> QED BY <2>2 DEF Same
<1>3. CASE run_key_attempt
  <2>1. \/ cand' = cand
        \/ \E R \in SUBSET Routes : cand' = Recorded(R, "name_guard_failed")
        \/ \E q \in Routes : apply_guarded_route(q)
    BY <1>3 DEF run_key_attempt, Pages
  <2> QED BY <1>n, <1>1, <1>2, <2>1
<1>4. CASE run_name_search
  <2>1. cand' = cand \/ \E R \in SUBSET Routes : cand' = Recorded(R, "tier2_name_search")
    BY <1>4 DEF run_name_search, Pages
  <2> QED BY <1>n, <1>1, <2>1
<1>5. CASE begin_evidence_generation
  BY <1>5 DEF begin_evidence_generation, Begin
<1>6. CASE \/ ClaimLost \/ claim_due \/ load_road_input \/ converge_display_name
           \/ prepare_key_attempts \/ complete_key_attempt \/ Gate
           \/ generation_pending_candidate_count \/ advance_progress
           \/ remove_route_as_user \/ TimePasses \/ KeyDue \/ LeaseEnds \/ UNCHANGED vars
  BY <1>6, <1>n DEF ClaimLost, claim_due, load_road_input, converge_display_name,
     prepare_key_attempts, complete_key_attempt, Gate, generation_pending_candidate_count,
     advance_progress, remove_route_as_user, TimePasses, KeyDue, LeaseEnds, vars
<1>7. CASE \/ pick_candidate_as_user \/ attach_route_as_user \/ dismiss_candidate_as_user
           \/ revoke_dismissals_and_replay \/ rename_author_and_cascade \/ Others \/ Crash
  BY <1>7, <1>a DEF Others, pick_candidate_as_user, attach_route_as_user,
     dismiss_candidate_as_user, revoke_dismissals_and_replay, rename_author_and_cascade,
     ensure_enqueued, submit_agreed_evidence, record_readarr_rejection,
     record_observed_names, EvidenceChanges, OtherAttaches, fold_author_link_state, Crash
<1> QED BY <1>3, <1>4, <1>5, <1>6, <1>7 DEF Next, Pass, User

\* record_candidates: in no generation, and for no way the evidence comes back,
\* does the sweep ask what the user has dismissed.
THEOREM DismissalsBind == Spec => NeverReasked
<1>1. IInv => TypeOK
  BY DEF IInv
<1>2. TypeOK /\ [Next]_vars =>
        [acts' = acts =>
         \A r \in Routes, reason \in {"name_guard_failed", "tier2_name_search"} :
           Dismissed(r, reason)
           => \A c \in cand' \ cand : ~(Same(c, r, reason) /\ c.status = "pending")]_vars
  BY ReaskStep
<1> QED BY InitInv, NextInv, <1>1, <1>2, PTL DEF Spec, NeverReasked

\* author_linking.rs, the reads before the tier-2 gate: however the generation's
\* earlier passes were cut off, a pass that reaches its verdict has tried every
\* key of the evidence and owes no name search.
THEOREM PassesAnswer == Spec => PassAnswers
<1>1. IInv /\ [Next]_vars =>
        [pass.pc = "advance" /\ Held /\ pass' = Idle /\ prog'.claim = "none" /\ pass.fp # {}
         => /\ \A k \in pass.fp \cap Keys : att[k].state \notin {"none", "running"}
            /\ NoSearchOwed]_vars
  <2> SUFFICES ASSUME IInv, pass.pc = "advance", pass.fp # {}
               PROVE  /\ \A k \in pass.fp \cap Keys : att[k].state \notin {"none", "running"}
                      /\ NoSearchOwed
    OBVIOUS
  <2>1. PassKeys /\ PassSearch
    BY DEF IInv
  <2>2. \A k \in pass.fp \cap Keys : att[k].state \notin {"none", "running"}
    BY <2>1 DEF PassKeys
  <2>3. NoSearchOwed
    BY <2>1 DEF PassSearch
  <2> QED BY <2>2, <2>3
<1> QED BY InitInv, NextInv, <1>1, PTL DEF Spec, PassAnswers
=============================================================================
