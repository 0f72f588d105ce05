------------------------------ MODULE AuthorLink ------------------------------
(***************************************************************************)
(* The author-linking road (livrarr-metadata, author_linking.rs) over its  *)
(* ledger (livrarr-db, sqlite_author_link.rs), for one author.             *)
(*                                                                         *)
(* The sweep claims the author under a lease and runs one pass: display    *)
(* name, evidence generation, every provider key of every settled work     *)
(* (tier 1), a name search when the keys named nobody (tier 2), and the    *)
(* verdict.  Every write of a pass is a transaction of its own that first  *)
(* verifies the claim.  Between two of them the user answers questions,    *)
(* removes routes and asks again; Readarr brings evidence without a claim; *)
(* the lease runs out; the process dies.                                   *)
(*                                                                         *)
(* A route is a provider's page of an author; the ledger holds at most one *)
(* row per route, whoever owns it.  Time is next_attempt_at seen from now: *)
(* due, or later (a retry, or the recheck a day or a week away).  Names    *)
(* are not spelled: an observed name is a count, and a name that arrives   *)
(* with a route or a merge is only known to have come or to have been read.*)
(***************************************************************************)
EXTENDS Naturals, FiniteSets

CONSTANTS
  Keys,        \* provider keys of works that can be settled
  Bare,        \* works that can be settled and carry no provider key
  Routes,      \* provider pages of authors
  Provider,    \* the provider of a key or of a route
  Guard,       \* what the name guard may say of a page's name: it agrees, it rejects it
  Legacy,      \* routes the cutover may have ingested
  NoFingerprint,  \* evaluated_fingerprint IS NULL
  MaxActs      \* bound: what users, imports and other authors do, process deaths,
               \* and leases that run out under a pass

ASSUME ProviderAssumption == Provider \in [Keys \cup Routes -> {"ol", "gr"}]
ASSUME BareAssumption == Bare \cap Keys = {}
ASSUME FingerprintAssumption == \A S \in SUBSET (Keys \cup Bare) : NoFingerprint # S
ASSUME GuardAssumption == Guard \in [Routes -> SUBSET {"agree", "reject"}]
ASSUME LegacyAssumption == Legacy \subseteq Routes
ASSUME BoundAssumption == MaxActs \in Nat

VARIABLES
  prog,     \* the author's row of author_link_progress
  settled,  \* the author's settled works, by their keys: the live fingerprint
  route,    \* author_provider_routes
  cand,     \* author_link_candidates
  att,      \* author_link_key_attempts of the current generation
  pass,     \* the sweep's pass over this author
  disp,     \* which observations and whether the user's choice the shown name reflects
  chosen,   \* the user has selected a name
  unheard,  \* a name, perhaps a new one, came in without an observation since names
            \* were last read to choose the shown one
  search,   \* the generation's name search: not asked, failed for now, answered,
            \* or taken for asked because the row's tier is an older generation's
  removing, \* remove_route between its two transactions
  acts

vars == <<prog, settled, route, cand, att, pass, disp, chosen, unheard, search,
          removing, acts>>
userVars == <<chosen, removing, acts>>

Reason == {"name_guard_failed", "tier2_name_search", "readarr_name_guard_failed",
           "tombstoned", "legacy_contradiction", "ownership_collision"}
State == {"queued", "running", "parked_no_settled_work", "parked_no_evidence",
          "needs_review", "linked", "retryable_failure"}
Status == {"pending", "dismissed", "picked", "superseded"}

Attempt == {"none", "running", "waiting", "due", "terminal"}
PC == {"idle", "load", "converge", "begin", "prepare", "keys", "credits", "complete",
       "search", "count", "advance"}

Settleable == Keys \cup Bare

NoRoute == [owner |-> "nobody", state |-> "none", provenance |-> "none"]
LegacyRoute == [owner |-> "me", state |-> "active", provenance |-> "legacy"]
Pages(provider) == {r \in Routes : Provider[r] = provider}
Mine(r) == route[r].owner = "me" /\ route[r].state = "active"

Idle == [pc |-> "idle", dgen |-> 0, heard |-> 0, chosen |-> FALSE, dirty |-> FALSE,
         fp |-> {}, changed |-> FALSE, gen |-> 0, tier |-> 0, ran |-> FALSE,
         todo |-> {}, key |-> "none", verdict |-> "none",
         active |-> FALSE, ol |-> FALSE, retry |-> FALSE, olretry |-> FALSE,
         pending |-> FALSE]

Verdicts == {"none", "retryable", "nobody", "named"}

PassRecord ==
  [pc : PC, dgen : Nat, heard : Nat, chosen : BOOLEAN, dirty : BOOLEAN,
   fp : SUBSET Settleable, changed : BOOLEAN, gen : Nat, tier : 0..3,
   ran : BOOLEAN, todo : SUBSET Keys, key : Keys \cup {"none"}, verdict : Verdicts,
   active : BOOLEAN, ol : BOOLEAN, retry : BOOLEAN, olretry : BOOLEAN, pending : BOOLEAN]

TypeOK ==
  /\ prog \in [state : State, tier : 0..3, fp : (SUBSET Settleable) \cup {NoFingerprint},
               gen : Nat, dgen : Nat, dirty : BOOLEAN, due : BOOLEAN,
               claim : {"none", "pass", "orphan"}]
  /\ settled \in SUBSET Settleable
  /\ route \in [Routes -> {NoRoute} \cup
                  [owner : {"me", "other"}, state : {"active", "removed"},
                   provenance : {"legacy", "guarded", "user"}]]
  /\ cand \subseteq [route : Routes, reason : Reason, gen : Nat, status : Status]
  /\ att \in [Keys -> [state : Attempt, credits : 0..1]]
  /\ pass \in PassRecord
  /\ disp \in [gen : Nat, user : BOOLEAN] /\ chosen \in BOOLEAN
  /\ unheard \in BOOLEAN
  /\ search \in {"none", "failed", "answered", "inherited"}
  /\ removing \in BOOLEAN /\ acts \in Nat

Init ==
  /\ prog = [state |-> "queued", tier |-> 0, fp |-> NoFingerprint, gen |-> 0,
             dgen |-> 0, dirty |-> FALSE, due |-> TRUE, claim |-> "none"]
  /\ settled = Keys
  /\ \E L \in SUBSET Legacy :
       route = [r \in Routes |-> IF r \in L THEN LegacyRoute ELSE NoRoute]
  /\ cand = {}
  /\ att = [k \in Keys |-> [state |-> "none", credits |-> 0]]
  /\ pass = Idle
  /\ disp = [gen |-> 0, user |-> FALSE] /\ chosen = FALSE /\ unheard = FALSE
  /\ search = "none" /\ removing = FALSE
  /\ acts = 0

-----------------------------------------------------------------------------
(* The ledger's transactions, as the sweep, the user and Readarr share them. *)

Same(c, r, reason) == c.route = r /\ c.reason = reason

\* ON CONFLICT keeps the row and its status.
Upsert(cs, r, reason, gen) ==
  IF \E c \in cs : Same(c, r, reason) /\ c.gen = gen THEN cs
  ELSE cs \cup {[route |-> r, reason |-> reason, gen |-> gen, status |-> "pending"]}

Dismissed(r, reason) == \E c \in cand : Same(c, r, reason) /\ c.status = "dismissed"

Pending(cs, gen) == {c \in cs : c.status = "pending" /\ c.gen = gen}

\* rederive_progress_tx: with neither a question nor a route the state stays.
Rederived(p, cs, rt) ==
  [p EXCEPT !.state =
     IF Pending(cs, p.gen) # {} THEN "needs_review"
     ELSE IF \E r \in Routes : rt[r].owner = "me" /\ rt[r].state = "active"
          THEN "linked" ELSE @]

\* ensure_progress_tx: a user's request voids the lease, an automatic one does not.
Enqueued(p, user) ==
  [p EXCEPT !.state = IF user \/ p.claim = "none" THEN "queued" ELSE @,
            !.due = TRUE,
            !.claim = IF user THEN "none" ELSE @]

\* Mutant: automation puts back what the user removed.
OutcomeForgetsTombstone(r) ==
  IF route[r].owner = "other" THEN "ownership_collision"
  ELSE IF route[r].owner = "me" THEN "active"
  ELSE IF \E s \in Routes : Mine(s) /\ route[s].provenance = "legacy" /\ Provider[s] = Provider[r]
       THEN "legacy_contradiction" ELSE "active"

\* What the guarded writer makes of a route the name guard agreed with.
Outcome(r) ==
  CASE route[r].owner = "other" -> "ownership_collision"
    [] route[r].owner = "me" /\ route[r].state = "removed" -> "tombstoned"
    [] Mine(r) -> "active"
    [] route[r] = NoRoute ->
         IF \E s \in Routes : /\ Mine(s) /\ route[s].provenance = "legacy"
                              /\ Provider[s] = Provider[r]
         THEN "legacy_contradiction" ELSE "active"

\* insert_name_variant_tx outside record_observed_names: the name may be new, and
\* no display generation says so.
insert_name_variant == unheard' = TRUE

\* apply_guarded_route: attach or confirm, with the observed name, or park the
\* question.
apply_guarded_route(r) ==
  IF Outcome(r) = "active"
  THEN /\ route' = [route EXCEPT ![r] =
             [owner |-> "me", state |-> "active",
              provenance |-> IF Mine(r) /\ @.provenance # "legacy" THEN @.provenance
                                                                  ELSE "guarded"]]
       /\ insert_name_variant
       /\ UNCHANGED cand
  ELSE /\ cand' = Upsert(cand, r, Outcome(r), prog.gen)
       /\ UNCHANGED <<route, unheard>>

-----------------------------------------------------------------------------
(* One pass of the sweep.                                                   *)

\* verify_claim_tx: this pass's token, and its lease still runs.
Held == prog.claim = "pass"

To(pc) == pass' = [pass EXCEPT !.pc = pc]

\* A step of the pass: with the claim lost, the pass ends there.
Claimed(pc) == pass.pc = pc /\ Held

ClaimLost ==
  /\ pass.pc \in {"load", "begin", "prepare", "keys", "credits", "complete", "search", "count",
               "advance"}
  /\ ~Held
  /\ pass' = Idle
  /\ UNCHANGED <<prog, settled, route, cand, att, disp, unheard, search, userVars>>

claim_due ==
  /\ pass = Idle /\ prog.claim = "none" /\ (prog.due \/ prog.dirty)
  /\ prog' = [prog EXCEPT !.claim = "pass", !.state = "running"]
  /\ pass' = [Idle EXCEPT !.pc = "load", !.dgen = prog.dgen]
  /\ UNCHANGED <<settled, route, cand, att, disp, unheard, search, userVars>>

\* Where the pass goes once the display name is dealt with.
Evidence(p) == IF p.changed THEN "begin" ELSE IF p.fp = {} THEN "advance" ELSE "prepare"

\* Changed evidence opens a generation.
Generation(changed) == IF changed THEN prog.gen + 1 ELSE prog.gen

\* load_road_input and load_progress: what the pass will decide from.
load_road_input ==
  /\ Claimed("load")
  /\ LET changed == prog.fp # settled
         p == [pass EXCEPT
           !.dirty = prog.dirty, !.fp = settled, !.changed = changed,
           !.gen = Generation(changed),
           !.tier = prog.tier,
           !.active = \E r \in Routes : Mine(r),
           !.ol = \E r \in Pages("ol") : Mine(r)]
     IN  /\ pass' = IF prog.dirty
                    THEN [p EXCEPT !.pc = "converge", !.heard = prog.dgen, !.chosen = chosen]
                    ELSE [p EXCEPT !.pc = Evidence(p)]
         /\ search' = IF ~changed /\ prog.tier = 2 /\ search = "none" THEN "inherited" ELSE search
         /\ unheard' = (unheard /\ ~prog.dirty)
  /\ UNCHANGED <<prog, settled, route, cand, att, disp, userVars>>

\* The user's selection first, then the providers' names in a fixed order.
choose_author_display_name == [gen |-> pass.heard, user |-> pass.chosen]

\* converge_display_name, from the variants just loaded; the one write of a
\* pass that does not verify the claim.
converge_display_name ==
  /\ pass.pc = "converge"
  /\ disp' = choose_author_display_name
  /\ pass' = [pass EXCEPT !.pc = Evidence(pass), !.dirty = FALSE, !.heard = 0, !.chosen = FALSE]
  /\ UNCHANGED <<prog, settled, route, cand, att, unheard, search, userVars>>

Begin(kept) ==
  /\ Claimed("begin")
  /\ prog' = [prog EXCEPT !.gen = pass.gen]
  /\ cand' = kept
  /\ att' = [k \in Keys |-> [state |-> "none", credits |-> 0]]
  /\ search' = "none"
  /\ To(IF pass.fp = {} THEN "advance" ELSE "prepare")
  /\ UNCHANGED <<settled, route, disp, unheard, userVars>>

\* Mutant: the questions of the generation before stay open.
begin_keeping_questions == Begin(cand)

\* Rows of older generations that nobody reads again (superseded, picked) are
\* dropped here.
begin_evidence_generation == Begin({c \in cand : c.status = "dismissed"})

\* Mutant: a retry that has come due is not taken up.
TakenUnlessRetry(k) == att[k].state = "running" \/ (att[k].state = "none" /\ k \in pass.fp)

Taken(k) == att[k].state \in {"running", "due"} \/ (att[k].state = "none" /\ k \in pass.fp)

\* New keys, abandoned ones and due retries are this pass's; the rest is
\* settled or not yet due.
prepare_key_attempts ==
  /\ Claimed("prepare")
  /\ LET mine == {k \in Keys : Taken(k)}
     IN  /\ att' = [k \in Keys |-> IF k \in mine THEN [att[k] EXCEPT !.state = "running"]
                                                 ELSE att[k]]
         /\ pass' = [pass EXCEPT !.todo = mine, !.ran = mine # {}, !.pc = "keys"]
  /\ UNCHANGED <<prog, settled, route, cand, disp, unheard, search, userVars>>

Questions(R, reason) ==
  {[route |-> r, reason |-> reason, gen |-> pass.gen, status |-> "pending"] : r \in R}

\* Not a row of this generation yet.
Unasked(R, reason) ==
  {r \in R : ~\E c \in cand : Same(c, r, reason) /\ c.gen = pass.gen}

\* Mutant: a dismissal does not bind later generations.
RecordedAfresh(R, reason) == cand \cup Questions(Unasked(R, reason), reason)

\* record_candidates, in one transaction: a question the user dismissed is not
\* asked again.
Recorded(R, reason) ==
  cand \cup Questions({r \in Unasked(R, reason) : ~Dismissed(r, reason)}, reason)

\* guard_author_route: the pages it may agree with and those it may reject.
Agreed == {r \in Routes : "agree" \in Guard[r]}
Rejected == {r \in Routes : "reject" \in Guard[r]}

Answer(k, v) ==
  [pass EXCEPT !.pc = IF v = "named" THEN "credits" ELSE "complete", !.key = k, !.verdict = v]

\* run_key_attempt fetches whom the key credits: the provider fails for now,
\* names nobody (or fails for good), or names authors, one after the other.
\* Those the name guard agrees with go to the guarded writer as they come; those
\* it rejects are questions, recorded together at the end; the others are dropped.
run_key_attempt ==
  \/ /\ Claimed("keys")
     /\ \E k \in pass.todo, v \in {"retryable", "nobody", "named"} : pass' = Answer(k, v)
     /\ UNCHANGED <<prog, settled, route, cand, att, disp, unheard, search, userVars>>
  \/ /\ Claimed("credits")
     /\ \E r \in Pages(Provider[pass.key]) \cap Agreed :
          /\ apply_guarded_route(r)
          /\ pass' = [pass EXCEPT
               !.active = @ \/ Outcome(r) = "active",
               !.ol = @ \/ (Outcome(r) = "active" /\ Provider[r] = "ol")]
     /\ UNCHANGED <<prog, settled, att, disp, search, userVars>>
  \/ /\ Claimed("credits")
     /\ \E R \in SUBSET (Pages(Provider[pass.key]) \cap Rejected) :
          cand' = Recorded(R, "name_guard_failed")
     /\ To("complete")
     /\ UNCHANGED <<prog, settled, route, att, disp, unheard, search, userVars>>

complete_key_attempt ==
  /\ Claimed("complete")
  /\ att' = [att EXCEPT ![pass.key] =
       [state |-> IF pass.verdict = "retryable" THEN "waiting" ELSE "terminal",
        credits |-> IF pass.verdict = "named" THEN 1 ELSE 0]]
  /\ pass' = [pass EXCEPT !.pc = "keys", !.todo = @ \ {pass.key},
                          !.key = "none", !.verdict = "none",
                          !.retry = @ \/ pass.verdict = "retryable",
                          !.olretry = @ \/ (pass.verdict = "retryable"
                                            /\ Provider[pass.key] = "ol")]
  /\ UNCHANGED <<prog, settled, route, cand, disp, unheard, search, userVars>>

Owed == {k \in Keys : att[k].state \in {"waiting", "due"}}
Credited == \E k \in Keys : att[k].credits > 0

\* Mutant: only what this pass saw decides whether a search is owed.
Tier2OfThisPass ==
  pass.ran /\ ~pass.olretry /\ ~pass.ol
  /\ ~Credited

\* Tier 2 is for authors whose keys, over the whole generation, named nobody.
RunTier2 ==
  /\ ~(~pass.changed /\ pass.tier = 2)
  /\ ~Credited
  /\ ~pass.ol
  /\ ~pass.olretry /\ ~(\E k \in Owed : Provider[k] = "ol")

\* The reads after the last key: what the generation still owes and whom its
\* keys have named, and from them whether the name search runs.
Gate ==
  /\ Claimed("keys") /\ pass.todo = {}
  /\ LET tier1 == IF pass.ran THEN 1 ELSE IF pass.changed THEN 0 ELSE pass.tier
     IN  pass' = [pass EXCEPT !.retry = @ \/ Owed # {}, !.ran = FALSE,
                              !.tier = IF RunTier2 THEN 2 ELSE tier1,
                              !.pc = IF RunTier2 THEN "search" ELSE "count"]
  /\ UNCHANGED <<prog, settled, route, cand, att, disp, unheard, search, userVars>>

\* run_name_search: the search fails for now, finds nobody (or fails for
\* good), or finds pages, whose catalogues may fail for now as well; every page
\* found is a question.
run_name_search ==
  /\ pass.pc = "search"
  /\ \/ /\ pass' = [pass EXCEPT !.pc = "count", !.retry = TRUE]
        /\ search' = "failed"
        /\ UNCHANGED cand
     \/ /\ pass' = [pass EXCEPT !.pc = "count"]
        /\ search' = "answered"
        /\ UNCHANGED cand
     \/ /\ Held
        /\ \E R \in (SUBSET Pages("ol")) \ {{}}, cut \in BOOLEAN :
             /\ pass' = [pass EXCEPT !.pc = "count", !.retry = @ \/ cut]
             /\ cand' = Recorded(R, "tier2_name_search")
        /\ search' = "answered"
  /\ UNCHANGED <<prog, settled, route, att, disp, unheard, userVars>>

generation_pending_candidate_count ==
  /\ Claimed("count")
  /\ pass' = [pass EXCEPT !.pc = "advance", !.pending = Pending(cand, pass.gen) # {}]
  /\ UNCHANGED <<prog, settled, route, cand, att, disp, unheard, search, userVars>>

Verdict ==
  IF pass.fp = {} THEN "parked_no_settled_work"
  ELSE IF pass.retry THEN "retryable_failure"
  ELSE IF pass.pending THEN "needs_review"
  ELSE IF pass.active THEN "linked"
  ELSE "parked_no_evidence"

\* Mutant: the dirty flag is cleared without the compare.
advance_without_compare ==
  /\ Claimed("advance")
  /\ prog' = [prog EXCEPT !.state = Verdict, !.tier = IF pass.fp = {} THEN 3 ELSE pass.tier,
              !.fp = pass.fp, !.gen = pass.gen, !.dirty = pass.dirty,
              !.due = FALSE, !.claim = "none"]
  /\ pass' = Idle
  /\ UNCHANGED <<settled, route, cand, att, disp, unheard, search, userVars>>

\* advance_progress: the verdict, and the end of the lease; an observation
\* that came in meanwhile keeps the author dirty and due.
advance_progress ==
  /\ Claimed("advance")
  /\ LET same == prog.dgen = pass.dgen
     IN  prog' = [state |-> Verdict, tier |-> IF pass.fp = {} THEN 3 ELSE pass.tier,
                  fp |-> pass.fp, gen |-> pass.gen, dgen |-> prog.dgen,
                  dirty |-> IF same THEN pass.dirty ELSE TRUE,
                  due |-> ~same, claim |-> "none"]
  /\ pass' = Idle
  /\ UNCHANGED <<settled, route, cand, att, disp, unheard, search, userVars>>

Pass ==
  \/ ClaimLost \/ claim_due \/ load_road_input \/ converge_display_name
  \/ begin_evidence_generation \/ prepare_key_attempts
  \/ run_key_attempt \/ complete_key_attempt
  \/ Gate \/ run_name_search
  \/ generation_pending_candidate_count \/ advance_progress

-----------------------------------------------------------------------------
(* Everybody else.                                                          *)

Act == acts < MaxActs /\ acts' = acts + 1

Attached(r) == [route EXCEPT ![r] = [owner |-> "me", state |-> "active", provenance |-> "user"]]

\* pick_candidate_as_user: the other open questions of the generation lose, and
\* the picked page's names are kept.
pick_candidate_as_user ==
  /\ Act
  /\ \E c \in Pending(cand, prog.gen) :
       /\ route[c.route].owner # "other"
       /\ route' = Attached(c.route)
       /\ cand' = {IF d = c THEN [d EXCEPT !.status = "picked"]
                   ELSE IF d \in Pending(cand, prog.gen) THEN [d EXCEPT !.status = "superseded"]
                   ELSE d : d \in cand}
       /\ prog' = Rederived(prog, cand', route')
  /\ insert_name_variant
  /\ UNCHANGED <<settled, att, pass, disp, chosen, search, removing>>

attach_route_as_user ==
  /\ Act
  /\ \E r \in Routes :
       /\ route[r].owner # "other"
       /\ route' = Attached(r)
       /\ prog' = Rederived(prog, cand, route')
  /\ UNCHANGED <<settled, cand, att, pass, disp, chosen, unheard, search, removing>>

dismiss_candidate_as_user ==
  /\ Act
  /\ \E c \in Pending(cand, prog.gen) :
       /\ cand' = (cand \ {c}) \cup {[c EXCEPT !.status = "dismissed"]}
       /\ prog' = Rederived(prog, cand', route)
  /\ UNCHANGED <<settled, route, att, pass, disp, chosen, unheard, search, removing>>

\* remove_route: the tombstone in one transaction, the request in another.
remove_route_as_user ==
  /\ \/ /\ ~removing /\ Act /\ removing' = TRUE
        /\ \E r \in Routes :
             /\ Mine(r)
             /\ route' = [route EXCEPT ![r].state = "removed"]
             /\ prog' = Rederived(prog, cand, route')
     \/ /\ removing /\ removing' = FALSE
        /\ prog' = Enqueued(prog, TRUE)
        /\ UNCHANGED <<route, acts>>
  /\ UNCHANGED <<settled, cand, att, pass, disp, chosen, unheard, search>>

\* re_resolve: dismissals are revoked, the fingerprint cleared, the lease void.
revoke_dismissals_and_replay ==
  /\ Act
  /\ cand' = {c \in cand : c.status # "dismissed"}
  /\ prog' = [Enqueued(prog, TRUE) EXCEPT !.fp = NoFingerprint]
  /\ UNCHANGED <<settled, route, att, pass, disp, chosen, unheard, search, removing>>

\* ensure_enqueued by an add that finds the author there.
ensure_enqueued ==
  /\ Act
  /\ prog' = Enqueued(prog, FALSE)
  /\ UNCHANGED <<settled, route, cand, att, pass, disp, chosen, unheard, search, removing>>

\* Readarr's author record: agreed with, it goes to the guarded writer without
\* a claim; rejected, it is a question without a claim.
submit_agreed_evidence ==
  /\ Act
  /\ \E r \in Pages("gr") \cap Agreed : apply_guarded_route(r)
  /\ UNCHANGED <<prog, settled, att, pass, disp, chosen, search, removing>>

record_readarr_rejection ==
  /\ Act
  /\ \E r \in Pages("gr") \cap Rejected :
       cand' = Upsert(cand, r, "readarr_name_guard_failed", prog.gen)
  /\ insert_name_variant
  /\ UNCHANGED <<prog, settled, route, att, pass, disp, chosen, search, removing>>

\* A provider names the author in a way not seen before.
record_observed_names ==
  /\ Act
  /\ prog' = [prog EXCEPT !.dgen = @ + 1, !.dirty = TRUE, !.due = TRUE]
  /\ UNCHANGED <<settled, route, cand, att, pass, disp, chosen, unheard, search, removing>>

\* The user renames the author: recorded as the choice, and shown.
rename_author_and_cascade ==
  /\ Act
  /\ chosen' = TRUE /\ disp' = [disp EXCEPT !.user = TRUE]
  /\ UNCHANGED <<prog, settled, route, cand, att, pass, unheard, search, removing>>

\* The works' evidence changes; a change of the legacy columns fires the
\* trigger, one of identity_routes does not.
EvidenceChanges ==
  /\ Act
  /\ settled' \in SUBSET Settleable /\ settled' # settled
  /\ \/ prog' = prog
     \/ prog' = Enqueued(prog, TRUE)
  /\ UNCHANGED <<route, cand, att, pass, disp, chosen, unheard, search, removing>>

\* Another author of the user takes a free route.
OtherAttaches ==
  /\ Act
  /\ \E r \in Routes :
       /\ route[r] = NoRoute
       /\ route' = [route EXCEPT ![r] = [owner |-> "other", state |-> "active",
                                         provenance |-> "guarded"]]
  /\ UNCHANGED <<prog, settled, cand, att, pass, disp, chosen, unheard, search, removing>>

\* fold_author_link_state_tx: the other author is merged into this one, with
\* its routes, its names, one of which its user may have chosen, and an open
\* question.
fold_author_link_state ==
  /\ Act
  /\ route' = [r \in Routes |-> IF route[r].owner = "other"
                                THEN [route[r] EXCEPT !.owner = "me"] ELSE route[r]]
  /\ \E q \in Routes : cand' \in {cand, Upsert(cand, q, "name_guard_failed", prog.gen)}
  /\ prog' = Rederived(Enqueued(prog, FALSE), cand', route')
  /\ chosen' \in {chosen, TRUE}
  /\ insert_name_variant
  /\ UNCHANGED <<settled, att, pass, disp, search, removing>>

TimePasses ==
  /\ ~prog.due /\ prog' = [prog EXCEPT !.due = TRUE]
  /\ UNCHANGED <<settled, route, cand, att, pass, disp, unheard, search, userVars>>

KeyDue ==
  /\ \E k \in Keys : /\ att[k].state = "waiting" /\ prog.due
                     /\ att' = [att EXCEPT ![k].state = "due"]
  /\ UNCHANGED <<prog, settled, route, cand, pass, disp, unheard, search, userVars>>

\* The five minutes of a lease are over: of a dead pass, or of one at work.
LeaseEnds ==
  /\ \/ prog.claim = "orphan" /\ UNCHANGED acts
     \/ prog.claim = "pass" /\ Act
  /\ prog' = [prog EXCEPT !.claim = "none"]
  /\ UNCHANGED <<settled, route, cand, att, pass, disp, chosen, unheard, search, removing>>

\* The process dies; a pass leaves its lease, remove_route its second half.
Crash ==
  /\ Act
  /\ pass' = Idle /\ removing' = FALSE
  /\ prog' = [prog EXCEPT !.claim = IF @ = "pass" THEN "orphan" ELSE @]
  /\ UNCHANGED <<settled, route, cand, att, disp, chosen, unheard, search>>

User ==
  \/ pick_candidate_as_user \/ attach_route_as_user \/ dismiss_candidate_as_user
  \/ remove_route_as_user \/ revoke_dismissals_and_replay \/ rename_author_and_cascade

Others ==
  \/ ensure_enqueued \/ submit_agreed_evidence \/ record_readarr_rejection
  \/ record_observed_names \/ EvidenceChanges \/ OtherAttaches \/ fold_author_link_state

Next == Pass \/ User \/ Others \/ TimePasses \/ KeyDue \/ LeaseEnds \/ Crash

Spec == Init /\ [][Next]_vars

\* The sweep job ticks forever, a dead lease ends, time passes; users need not act.
FairSpec ==
  /\ Spec
  /\ WF_vars(Pass)
  /\ WF_vars(TimePasses \/ (prog.claim = "orphan" /\ LeaseEnds))

-----------------------------------------------------------------------------
\* What the steps of a pass have made of it so far; with PendingIsCurrent and
\* DisplayCurrent, the inductive invariant of the proofs.

\* The evidence is dealt with: the pass writes to the ledger's own generation.
PassGeneration ==
  /\ pass.pc = "begin" => pass.changed
  /\ \/ pass.pc \in {"prepare", "keys", "credits", "complete", "search", "count", "advance"}
     \/ pass.pc = "converge" /\ ~pass.changed
     => pass.gen = prog.gen

\* A pass that no observation overtook has converged on all of them.
PassDisplay ==
  /\ pass.pc # "idle" => pass.dgen <= prog.dgen
  /\ pass.pc = "converge" =>
       prog.dirty /\ (prog.dgen = pass.dgen => pass.heard = prog.dgen)
  /\ pass.pc \notin {"idle", "load", "converge"} =>
       ~pass.dirty /\ (prog.dgen = pass.dgen => disp.gen = prog.dgen)

\* A key of the evidence is untried only while it is still on the pass's list.
PassKeys ==
  /\ pass.pc \notin {"keys", "credits", "complete"} => pass.todo = {}
  /\ pass.pc \in {"credits", "complete"} => pass.key \in pass.todo /\ pass.verdict # "none"
  /\ pass.pc \in {"keys", "credits", "complete", "search", "count"}
       \/ (pass.pc = "advance" /\ pass.fp # {})
     => \A k \in pass.fp \cap Keys : att[k].state \in {"none", "running"} => k \in pass.todo

\* Why the generation owes no name search, or why this pass is about to ask.
NoSearchOwed ==
  \/ search # "none" \/ Credited
  \/ pass.ol
  \/ \E k \in Owed : Provider[k] = "ol"

PassSearch ==
  /\ pass.pc \in {"converge", "begin", "prepare", "keys", "credits", "complete"}
       /\ ~pass.changed /\ pass.tier = 2 => search # "none"
  /\ pass.olretry =>
       pass.pc # "idle" /\ \E k \in Owed \ pass.todo : Provider[k] = "ol"
  /\ pass.pc \in {"load", "converge", "begin", "prepare"} => ~pass.olretry
  /\ pass.pc = "count" \/ (pass.pc = "advance" /\ pass.fp # {}) => NoSearchOwed

\* A question that is open belongs to the current generation, so that picking
\* and dismissing, which refuse any other generation, can answer it.
PendingIsCurrent == \A c \in cand : c.status = "pending" => c.gen = prog.gen

\* "Automation may see this key again and must park it rather than put back what
\* the user took away": only the user's own attach or pick revives a tombstone.
TombstoneStands ==
  [][ \A r \in Routes :
        route[r].owner = "me" /\ route[r].state = "removed" /\ route'[r].state = "active"
        => route'[r].provenance = "user" ]_vars

\* A question of the name guard or of the name search that the user dismissed is
\* not asked again by the sweep, in whatever generation its evidence returns.
NeverReasked ==
  [][ acts' = acts =>
        \A r \in Routes, reason \in {"name_guard_failed", "tier2_name_search"} :
          Dismissed(r, reason)
          => \A c \in cand' \ cand : ~(Same(c, r, reason) /\ c.status = "pending") ]_vars

\* "A pass that stops between the last one and this gate leaves a generation
\* whose keys are all terminal": however the generation's passes were cut off,
\* the one that ends has tried every key and owes no name search.  The one way
\* out is evidence that returned, under an unfinished generation, to what the
\* last verdict was about: the new generation inherits the old one's tier.
PassAnswers ==
  [][ pass.pc = "advance" /\ Held /\ pass' = Idle /\ prog'.claim = "none" /\ pass.fp # {}
      => /\ \A k \in pass.fp \cap Keys : att[k].state \notin {"none", "running"}
         /\ NoSearchOwed ]_vars

\* record_observed_names strands nothing: with the author clean, the shown name was
\* chosen knowing every name that was recorded as an observation, whenever in a
\* pass it came.  Names that arrive otherwise are NamesHeard's.
DisplayCurrent == prog.dirty \/ disp.gen = prog.dgen

\* With the author clean, the shown name was chosen knowing every name the author
\* has, those that came with a route, a Readarr rejection, a pick or a merge too.
NamesHeard == prog.dirty \/ ~unheard

IInv ==
  /\ TypeOK /\ PendingIsCurrent /\ DisplayCurrent
  /\ PassGeneration /\ PassDisplay /\ PassKeys /\ PassSearch

\* A key whose retry has come is tried again: the retry is not lost when the
\* verdict, a user's answer or a crash rewrites the author's row.
RetryRuns == \A k \in Keys :
  att[k].state = "due" ~> att[k].state # "due"

\* A name search that failed for now is tried again before the generation is
\* put to rest without evidence.
SearchAnswered ==
  [][ pass.pc = "advance" /\ Held /\ pass' = Idle /\ prog'.claim = "none" /\ pass.tier = 2
      /\ prog'.state \in {"parked_no_evidence", "needs_review", "linked"}
      => search = "answered" ]_vars
=============================================================================
