----------------------------- MODULE IdentityRoad -----------------------------
(***************************************************************************)
(* The identity layer: which book a work of the library is.  One user, one *)
(* author.                                                                 *)
(*                                                                         *)
(* A work has a title, a generation that every identity write advances,    *)
(* and routes: provider ids (a work id of a provider, or an ISBN) that are *)
(* active on it, whether or not another work has them too.  Passes of the  *)
(* convergence loop and of manual refreshes ask the providers              *)
(* (livrarr-enrichment, provider_queue.rs) and hand the routes they find   *)
(* to the road (livrarr-metadata, identity_road.rs).  The road attaches    *)
(* them, or asks the user: a pending route (does this id belong to this    *)
(* work?) or a group identity (is this one of these works?).  Meanwhile    *)
(* doors add books and the user edits, answers, dismisses and deletes.     *)
(* Every write is one transaction (livrarr-db, identity_layer.rs); what it *)
(* is based on was read before, in other transactions.                     *)
(*                                                                         *)
(* Merging works is switched off in the code (WORK_MERGING_AVAILABLE), so  *)
(* a group of several works is always a question.                          *)
(***************************************************************************)
EXTENDS Naturals, FiniteSets

CONSTANTS
  Works,       \* row ids, in the order they are given out
  Routes,      \* provider ids a book may have
  Isbns,       \* those of them that are ISBNs; the rest are work ids
  Providers,
  ProviderOf,  \* the provider of each work id
  Titles, Main, \* title tuples, and the main title of each
  Alike,       \* the pairs of tuples evaluate_match calls the same title
  Machines,    \* concurrent passes
  Doors,       \* concurrent additions of a book
  Offers,      \* sets of routes that a book found at the providers may carry
  Libraries,   \* libraries to start from: the works' titles and routes
  None,
  Threshold,   \* convergence.attempt_threshold
  MaxActs,     \* bound: what users and doors do
  MaxPasses    \* bound: passes

ASSUME WorksAssumption == Works \subseteq Nat
ASSUME RoutesAssumption ==
  /\ Isbns \subseteq Routes
  /\ ProviderOf \in [Routes \ Isbns -> Providers]
ASSUME OffersAssumption ==
  \A R \in Offers : R \subseteq Routes /\ \A r, s \in R \ Isbns : ProviderOf[r] = ProviderOf[s] => r = s
ASSUME TitlesAssumption ==
  /\ DOMAIN Main = Titles
  /\ \A t \in Titles : <<t, t>> \in Alike
ASSUME LibrariesAssumption ==
  \A lib \in Libraries :
    LET live == {w \in Works : lib.title[w] # None} IN
    /\ lib \in [title : [Works -> Titles \cup {None}], routes : [Works -> SUBSET Routes]]
    /\ \A v \in live, w \in Works : /\ w < v => w \in live
                                   /\ w \in live /\ Main[lib.title[v]] = Main[lib.title[w]] => v = w
    /\ \A w \in Works : IF w \in live THEN lib.routes[w] \in Offers ELSE lib.routes[w] = {}
ASSUME NoneAssumption == None \notin Works \cup Routes \cup Titles
ASSUME BoundAssumption == Threshold \in Nat /\ MaxActs \in Nat /\ MaxPasses \in Nat

VARIABLES
  work,      \* works: title, text_distinction, identity_generation, identity_status_v2
  route,     \* identity_routes: the routes active on a work, the user_confirmed among them
  cards,     \* identity_review_cards that are pending
  dismissed, \* identity_review_dismissals that are not revoked
  standing,  \* provider_retry_state: the terminal outcome of each provider
  attempts,  \* convergence attempts recorded under the current generation
  pass, door,
  visits, acts  \* passes begun; acts of users and doors

vars == <<work, route, cards, dismissed, standing, attempts, pass, door, visits, acts>>
identityVars == <<work, route, cards, standing, attempts>>

WorkRoutes == Routes \ Isbns
Live == {w \in Works : work[w].title # None}
Active(w) == route[w].active
Of(p, R) == {r \in R \cap WorkRoutes : ProviderOf[r] = p}
First(G) == CHOOSE w \in G : \A v \in G : w <= v

\* A review card is its canonical key (ReviewDismissalKeyV1): two cards with one
\* key are one card, and the key is what a dismissal remembers.
RouteCard(w, r) == [kind |-> "route", works |-> {w}, title |-> None, routes |-> {r}]
GroupCard(G, t, R) == [kind |-> "group", works |-> G, title |-> t, routes |-> R]
At(c) == First(c.works)
Card == [kind : {"route", "group"}, works : SUBSET Works, title : Titles \cup {None},
         routes : SUBSET Routes]

Unanswered == [p \in Providers |-> "none"]
NoRoutes == [active |-> {}, confirmed |-> {}]
NoPlan == [work |-> None, gen |-> 0, title |-> None, routes |-> {}, confirm |-> {},
           cards |-> {}, explicit |-> FALSE]
IdlePass == [pc |-> "idle", work |-> None, gen |-> 0, title |-> None, routes |-> {},
             asked |-> [p \in Providers |-> None], search |-> {}, ev |-> {}, props |-> {},
             charge |-> "never", plan |-> NoPlan]
IdleDoor == [pc |-> "idle", title |-> None, routes |-> {}, group |-> {}, plan |-> NoPlan]

Plan == [work : Works \cup {None}, gen : Nat, title : Titles \cup {None},
         routes : SUBSET Routes, confirm : SUBSET Routes, cards : SUBSET Card,
         explicit : BOOLEAN]

RoutesOf == [active : SUBSET Routes, confirmed : SUBSET Routes]
Row == [title : Titles \cup {None}, distinct : BOOLEAN, gen : Nat,
        status : {"not_connected", "connected", "user_confirmed"}]
Pass == [pc : {"idle", "gather", "handoff", "settle", "commit", "mint", "burn"},
         work : Works \cup {None}, gen : Nat, title : Titles \cup {None},
         routes : SUBSET Routes, asked : [Providers -> Routes \cup {None}],
         search : SUBSET Providers, ev : SUBSET Routes, props : SUBSET Routes,
         charge : {"never", "search", "bridge"}, plan : Plan]
Door == [pc : {"idle", "attach", "review", "commit"}, title : Titles \cup {None},
         routes : SUBSET Routes, group : SUBSET Works, plan : Plan]

TypeOK ==
  /\ work \in [Works -> Row]
  /\ route \in [Works -> RoutesOf]
  /\ cards \subseteq Card /\ dismissed \subseteq Card
  /\ standing \in [Works -> [Providers -> {"none", "found", "not_found"}]]
  /\ attempts \in [Works -> Nat]
  /\ pass \in [Machines -> Pass]
  /\ door \in [Doors -> Door]
  /\ visits \in 0..MaxPasses /\ acts \in 0..MaxActs

-----------------------------------------------------------------------------
(* The settlement transaction.                                             *)

\* One work id per provider, at most.
Coherent(R) == \A r, s \in R \cap WorkRoutes : ProviderOf[r] = ProviderOf[s] => r = s

\* A work id against another id of the same provider.
Contradicts(R, S) ==
  \E r \in R \cap WorkRoutes, s \in S \cap WorkRoutes :
    ProviderOf[r] = ProviderOf[s] /\ r # s

StatusOf(rt) ==
  IF rt.confirmed # {} THEN "user_confirmed"
  ELSE IF rt.active # {} THEN "connected" ELSE "not_connected"

\* Mutant: only cards are looked up among the dismissals.
SuppressedCards(p) == ~p.explicit /\ p.cards # {} /\ p.cards \subseteq dismissed

\* Suppression is read before anything else is, also before the generation.
Suppressed(p) ==
  /\ ~p.explicit
  /\ \/ p.cards # {} /\ p.cards \subseteq dismissed
     \/ /\ p.work # None
        /\ \E r \in p.routes \ Active(p.work) : RouteCard(p.work, r) \in dismissed

\* Mutant: no compare-and-set on the generation.
StaleGone(p) == p.work \in Works /\ p.work \notin Live

Stale(p) == p.work \in Works /\ (p.work \notin Live \/ work[p.work].gen # p.gen)

\* Mutant: no unique index.
TwinNever(p) == FALSE

\* idx_works_identity_v2: one tuple, one undistinguished work.
Twin(p) ==
  /\ p.work \in Works => ~work[p.work].distinct
  /\ \E v \in Live \ {p.work} : work[v].title = p.title /\ ~work[v].distinct

\* Another work's row of a route is no obstacle: the index of the active owners is
\* not unique, and insert_route looks at the rows of its own work only.
Refused(p) == Stale(p) \/ Twin(p)

\* Mutant: settling leaves the questions.
SatisfiedNever(w, R) == {}

\* cancel_satisfied_pending_route_cards
Satisfied(w, R) == {RouteCard(w, r) : r \in R}

\* invalidate_retry_state_if_route_graph_changed
Invalidated(w, before, after) ==
  [standing EXCEPT ![w] = IF before = after THEN @ ELSE Unanswered]

\* insert_route: a confirmation, once given, stays with the row.
Attached(w, R, confirm) ==
  [active |-> route[w].active \cup R, confirmed |-> route[w].confirmed \cup confirm]

Written(p, w) ==
  LET mine == Attached(w, p.routes, p.confirm) IN
  /\ route' = [route EXCEPT ![w] = mine]
  /\ work' = [work EXCEPT ![w] =
       [title |-> p.title, distinct |-> @.distinct, gen |-> @.gen + 1, status |-> StatusOf(mine)]]
  /\ standing' = Invalidated(w, Active(w), mine.active)
  /\ attempts' = [attempts EXCEPT ![w] = 0]
  /\ cards' = (cards \ Satisfied(w, p.routes))
                \cup {c \in p.cards : p.explicit \/ c \notin dismissed}

-----------------------------------------------------------------------------
(* A pass: dispatch, the providers' answers, the handoff.                  *)

\* The provider's own work id, else an ISBN.
Anchors(p, R) == IF Of(p, R) # {} THEN Of(p, R) ELSE R \cap Isbns

Goto(m, pc) == pass' = [pass EXCEPT ![m].pc = pc]
End(m) == pass' = [pass EXCEPT ![m] = IdlePass]

\* A convergence visit, or a manual refresh, which first resets the standing.
Dispatch(m, w, refresh) ==
  LET R == Active(w)
      st == IF refresh THEN Unanswered ELSE standing[w]
  IN /\ pass[m].pc = "idle"
     /\ w \in Live
     /\ visits < MaxPasses /\ visits' = visits + 1
     /\ IF refresh THEN acts < MaxActs /\ acts' = acts + 1
                   ELSE attempts[w] < Threshold /\ UNCHANGED acts
     /\ \E only \in {FALSE} \cup (IF R \cap WorkRoutes = {} \/ refresh THEN {} ELSE {TRUE}) :
        \E a \in [Providers -> Routes \cup {None}] :
          /\ \A p \in Providers :
               IF Anchors(p, R) = {} \/ st[p] # "none" \/ only
               THEN a[p] = None ELSE a[p] \in Anchors(p, R)
          /\ pass' = [pass EXCEPT ![m] =
               [IdlePass EXCEPT
                  !.pc = "gather", !.work = w, !.gen = work[w].gen, !.title = work[w].title,
                  !.routes = R, !.asked = a, !.charge = IF refresh THEN "never" ELSE "search",
                  !.search = {p \in Providers :
                    /\ Of(p, R) = {}
                    /\ Anchors(p, R) = {} \/ st[p] = "not_found"}]]
     /\ standing' = [standing EXCEPT ![w] = st]
     /\ UNCHANGED <<work, route, cards, dismissed, attempts, door>>

\* The anchored fetches and the searches by title and author have answered.  A
\* healthy miss of the anchor goes on to the search.  The outcome of every
\* anchored fetch is written, whatever the work has become.
Persisted(w, ans) ==
  [standing EXCEPT ![w] = [p \in Providers |->
     CASE ans[p] = "none" -> @[p]
       [] ans[p] = "later" -> "none"
       [] OTHER -> ans[p]]]

\* What a fruitless pass is charged as: a search when every leg of it answered, the
\* bridge when no search was due.
ChargeOf(q, searched, ev, failed) ==
  IF q.charge = "never" \/ ev # {} \/ (searched # {} /\ failed)
       \/ (searched = {} /\ q.asked = IdlePass.asked)
  THEN "never"
  ELSE IF searched # {} THEN "search" ELSE "bridge"

\* Who is searched: those without an anchor, those whose anchor is known to miss,
\* and those whose anchor has missed just now.
Searched(q, ans) ==
  q.search \cup {p \in Providers : ans[p] = "not_found" /\ Of(p, q.routes) = {}}

\* Routes new to the work come back as evidence, or, where nothing corroborates the
\* search, as proposals.
Answered(m, ans, ev, props, failed) ==
  LET q == pass[m]
      found == {p \in Providers : ans[p] = "found"}
  IN /\ \A p \in Providers : (ans[p] = "none") <=> (q.asked[p] = None)
     /\ \A r \in ev : IF r \in Isbns THEN found # {}
                      ELSE ProviderOf[r] \in Searched(q, ans) \cup found
     /\ \A r \in props : r \in WorkRoutes /\ ProviderOf[r] \in Searched(q, ans)
     /\ Coherent(ev \cup props) /\ ev \cap props = {}
     /\ (\E p \in Providers : ans[p] = "later") => failed
     /\ failed => (Searched(q, ans) # {} \/ \E p \in Providers : ans[p] = "later")
     /\ pass' = [pass EXCEPT ![m] =
          [q EXCEPT
             !.asked = IdlePass.asked, !.search = {}, !.ev = ev, !.props = props,
             !.charge = ChargeOf(q, Searched(q, ans), ev, failed),
             !.pc = IF ev \cup props = {} THEN "burn" ELSE "handoff"]]
     /\ standing' = Persisted(q.work, ans)

Gather(m) ==
  /\ pass[m].pc = "gather"
  /\ \/ pass[m].work \notin Live /\ End(m) /\ UNCHANGED standing
     \/ /\ pass[m].work \in Live
        /\ \E ans \in [Providers -> {"none", "found", "not_found", "later"}] :
           \E ev \in {R \ pass[m].routes : R \in Offers}, props \in Offers, failed \in BOOLEAN :
             Answered(m, ans, ev, props, failed)
  /\ UNCHANGED <<work, route, cards, dismissed, attempts, door, visits, acts>>

\* Mutant: the handoff's generation is not compared.
FreshAlways(m) == pass[m].work \in Live

\* The work is still at the generation the evidence was captured at.
Fresh(m) == pass[m].work \in Live /\ work[pass[m].work].gen = pass[m].gen

\* apply_captured_route_handoff_authority, up to the call of settle.
Handoff(m) ==
  /\ pass[m].pc = "handoff"
  /\ IF ~Fresh(m) THEN End(m)
     ELSE Goto(m, IF pass[m].ev = {} THEN "mint" ELSE "settle")
  /\ UNCHANGED <<identityVars, dismissed, door, visits, acts>>

Group(t) == {w \in Live : Main[work[w].title] = Main[t]}

\* settle() reads the identity again, decides, and reconciles with the works of
\* the same main title.
SettleRead(m) ==
  LET q == pass[m] w == q.work R == Active(w) t == work[w].title IN
  /\ q.pc = "settle"
  /\ IF w \notin Live \/ Contradicts(q.ev, R) THEN End(m)
     ELSE IF work[w].distinct \/ Group(t) = {w}
     THEN IF q.ev \subseteq R THEN End(m)
          ELSE pass' = [pass EXCEPT ![m].pc = "commit", ![m].plan =
                 [NoPlan EXCEPT !.work = w, !.gen = work[w].gen, !.title = t, !.routes = R \cup q.ev]]
     ELSE pass' = [pass EXCEPT ![m].pc = "commit", ![m].plan =
            [NoPlan EXCEPT !.work = w, !.gen = work[w].gen, !.title = t, !.routes = R,
                           !.cards = {GroupCard(Group(t), t, q.ev)}]]
  /\ UNCHANGED <<identityVars, dismissed, door, visits, acts>>

\* A standing dismissal turns every route of the handoff into a question of its own.
Commit(m) ==
  LET q == pass[m] p == q.plan IN
  /\ q.pc = "commit"
  /\ \/ /\ Suppressed(p)
        /\ pass' = [pass EXCEPT ![m].pc = "mint", ![m].plan = NoPlan,
                                ![m].props = @ \cup q.ev]
        /\ UNCHANGED identityVars
     \/ ~Suppressed(p) /\ Refused(p) /\ End(m) /\ UNCHANGED identityVars
     \/ ~Suppressed(p) /\ ~Refused(p) /\ Written(p, p.work) /\ End(m)
  /\ UNCHANGED <<dismissed, door, visits, acts>>

\* commit_pending_route_review, one transaction per route.
Mint(m) ==
  LET q == pass[m] IN
  /\ q.pc = "mint"
  /\ \/ /\ q.props = {}
        /\ IF q.charge = "never" THEN End(m) ELSE Goto(m, "burn")
        /\ UNCHANGED cards
     \/ q.props # {} /\ ~Fresh(m) /\ End(m) /\ UNCHANGED cards
     \/ /\ Fresh(m)
        /\ \E r \in q.props :
             /\ pass' = [pass EXCEPT ![m].props = @ \ {r}]
             /\ cards' = cards \cup ({RouteCard(q.work, r)} \ dismissed)
  /\ UNCHANGED <<work, route, standing, attempts, dismissed, door, visits, acts>>

\* record_identity_convergence_attempt, against the generation of the capture.
Charged(m) ==
  /\ Fresh(m)
  /\ pass[m].charge = "bridge" => Active(pass[m].work) \cap WorkRoutes = {}

Burn(m) ==
  /\ pass[m].pc = "burn"
  /\ attempts' = IF pass[m].charge # "never" /\ Charged(m)
                 THEN [attempts EXCEPT ![pass[m].work] = @ + 1] ELSE attempts
  /\ End(m)
  /\ UNCHANGED <<work, route, cards, standing, dismissed, door, visits, acts>>

\* A call fails or the process dies: what is committed stays.
PassDies(m) ==
  /\ pass[m].pc # "idle"
  /\ End(m)
  /\ UNCHANGED <<identityVars, dismissed, door, visits, acts>>

-----------------------------------------------------------------------------
(* Doors: a user adds a book (explicit), or the author monitor does.       *)

OpenDoor(d, t, R, explicit) ==
  LET G == Group(t)
      w == First(G)
      certain == /\ Cardinality(G) = 1 /\ ~work[w].distinct
                 /\ <<work[w].title, t>> \in Alike /\ ~Contradicts(R, Active(w))
  IN /\ door[d].pc = "idle" /\ acts < MaxActs
     /\ door' = [door EXCEPT ![d] =
          [IdleDoor EXCEPT
             !.pc = IF G = {} THEN "commit" ELSE IF certain THEN "attach" ELSE "review",
             !.title = t, !.routes = R, !.group = G,
             !.plan = [NoPlan EXCEPT !.title = t, !.routes = R, !.explicit = explicit,
                                     !.confirm = IF explicit THEN R ELSE {}]]]
     /\ acts' = acts + 1
     /\ UNCHANGED <<identityVars, dismissed, pass, visits>>

\* The established work is read after the group was judged: its generation, title
\* and routes are those of now.
ReadTarget(d) ==
  LET q == door[d] w == First(q.group) p == q.plan IN
  /\ q.pc \in {"attach", "review"}
  /\ door' = [door EXCEPT ![d] =
       IF w \notin Live THEN IdleDoor
       ELSE [q EXCEPT !.pc = "commit", !.plan =
               [p EXCEPT !.work = w, !.gen = work[w].gen, !.title = work[w].title,
                  !.routes = IF q.pc = "attach" THEN Active(w) \cup q.routes ELSE Active(w),
                  !.confirm = IF q.pc = "attach" THEN @ \ Active(w) ELSE {},
                  !.cards = IF q.pc = "attach" THEN {}
                            ELSE {GroupCard(q.group, q.title, q.routes)}]]]
  /\ UNCHANGED <<identityVars, dismissed, pass, visits, acts>>

CommitDoor(d) ==
  LET p == door[d].plan IN
  /\ door[d].pc = "commit"
  /\ \/ (Suppressed(p) \/ Refused(p)) /\ UNCHANGED identityVars
     \/ /\ ~Suppressed(p) /\ ~Refused(p)
        /\ \E w \in Works :
             /\ IF p.work = None THEN work[w].gen = 0 /\ \A v \in Works : v < w => work[v].gen > 0
                                 ELSE w = p.work
             /\ Written(p, w)
  /\ door' = [door EXCEPT ![d] = IdleDoor]
  /\ UNCHANGED <<dismissed, pass, visits, acts>>

-----------------------------------------------------------------------------
(* The user.                                                               *)

Act == acts < MaxActs /\ acts' = acts + 1

\* settle_work_edit: at the generation the handler observed, never onto the exact
\* identity of another work.
Edit(w, t) ==
  LET p == [NoPlan EXCEPT !.work = w, !.gen = work[w].gen, !.title = t, !.routes = Active(w),
                          !.explicit = TRUE]
  IN /\ w \in Live /\ work[w].title # t
     /\ \A v \in Live \ {w} : work[v].title # t
     /\ ~Refused(p)
     /\ Act /\ Written(p, w)
     /\ UNCHANGED <<dismissed, pass, door, visits>>

Revoked(w) == {c \in dismissed : w \in c.works}

\* The user says a pending route belongs to its work.  This door does look for the
\* route's owner, any one of them, and turns a route of another work away.
Affirm(c) ==
  LET w == At(c)
      r == CHOOSE x \in c.routes : TRUE
      owners == {v \in Works : r \in Active(v)}
  IN /\ c \in cards /\ c.kind = "route" /\ w \in Live
     /\ Act
     /\ cards' = cards \ {c}
     /\ dismissed' = dismissed \ Revoked(w)
     /\ \/ w \in owners /\ UNCHANGED <<work, route, standing, attempts>>
        \/ /\ owners = {}
           /\ route' = [route EXCEPT ![w] = Attached(w, {r}, {r})]
           /\ work' = [work EXCEPT ![w].status = "user_confirmed", ![w].gen = @ + 1]
           /\ standing' = Invalidated(w, Active(w), Active(w) \cup {r})
           /\ attempts' = [attempts EXCEPT ![w] = 0]
     /\ UNCHANGED <<pass, door, visits>>

\* "Different from all": recorded on the first work of the card.
DifferentFromAll(c) ==
  /\ c \in cards /\ c.kind = "group" /\ At(c) \in Live
  /\ Act
  /\ cards' = cards \ {c}
  /\ work' = [work EXCEPT ![At(c)].distinct = TRUE, ![At(c)].gen = @ + 1]
  /\ attempts' = [attempts EXCEPT ![At(c)] = 0]
  /\ UNCHANGED <<route, standing, dismissed, pass, door, visits>>

\* dismiss_pending_review
Dismiss(c) ==
  /\ c \in cards
  /\ Act
  /\ cards' = cards \ {c}
  /\ dismissed' = dismissed \cup {c}
  /\ UNCHANGED <<work, route, standing, attempts, pass, door, visits>>

\* The row goes and takes what refers to it; dismissals stay.
DeleteWork(w) ==
  /\ w \in Live
  /\ Act
  /\ work' = [work EXCEPT ![w].title = None, ![w].distinct = FALSE, ![w].status = "not_connected"]
  /\ route' = [route EXCEPT ![w] = NoRoutes]
  /\ cards' = {c \in cards : At(c) # w}
  /\ standing' = [standing EXCEPT ![w] = Unanswered]
  /\ attempts' = [attempts EXCEPT ![w] = 0]
  /\ UNCHANGED <<dismissed, pass, door, visits>>

-----------------------------------------------------------------------------

\* A library as the doors leave it: every work as it was created.
Init ==
  \E lib \in Libraries :
    LET mine(w) == [active |-> lib.routes[w], confirmed |-> {}]
    IN /\ work = [w \in Works |->
            [title |-> lib.title[w], distinct |-> FALSE,
             gen |-> IF lib.title[w] = None THEN 0 ELSE 1, status |-> StatusOf(mine(w))]]
       /\ route = [w \in Works |-> mine(w)]
       /\ cards = {} /\ dismissed = {}
       /\ standing = [w \in Works |-> Unanswered]
       /\ attempts = [w \in Works |-> 0]
       /\ pass = [m \in Machines |-> IdlePass]
       /\ door = [d \in Doors |-> IdleDoor]
       /\ visits = 0 /\ acts = 0

PassStep ==
  \E m \in Machines :
    \/ \E w \in Works, refresh \in BOOLEAN : Dispatch(m, w, refresh)
    \/ Gather(m)
    \/ Handoff(m)
    \/ SettleRead(m)
    \/ Commit(m)
    \/ Mint(m)
    \/ Burn(m)
    \/ PassDies(m)

DoorStep ==
  \E d \in Doors :
    \/ \E t \in Titles, R \in Offers, explicit \in BOOLEAN : OpenDoor(d, t, R, explicit)
    \/ ReadTarget(d)
    \/ CommitDoor(d)

UserStep ==
  \/ \E w \in Works, t \in Titles : Edit(w, t)
  \/ \E c \in cards : Affirm(c)
  \/ \E c \in cards : DifferentFromAll(c)
  \/ \E c \in cards : Dismiss(c)
  \/ \E w \in Works : DeleteWork(w)

Next == PassStep \/ DoorStep \/ UserStep

Spec == Init /\ [][Next]_vars

-----------------------------------------------------------------------------
(* What the layer promises.                                                *)

\* The status shown for a work is that of the routes it has, the user's own
\* among them, through every transaction that moves a route or rewrites the row.
StatusAgrees ==
  \A w \in Live : work[w].status = StatusOf(route[w])

\* No question is pending about a route its work already has, nor about a work
\* that is gone: settling an id cancels its question, and no late transaction of
\* a handoff asks it afterwards.
QuestionsOpen ==
  \A w \in Works, r \in Routes :
    RouteCard(w, r) \in cards => w \in Live /\ r \notin Active(w)

\* No two works have one identity unless the user has told them apart, however
\* doors and edits interleave between judging the group and writing.
NoTwins ==
  \A v, w \in Live : work[v].title = work[w].title /\ v # w => work[v].distinct \/ work[w].distinct

\* What every transaction relies on: a card about a route names one work that was
\* there and one route; a plan to write has a title and asks only group questions.
PlanFormed(p) == p.title \in Titles /\ \A c \in p.cards : c.kind = "group"
CardFormed(c) ==
  c.kind = "route" => \E w \in Works, r \in Routes : c = RouteCard(w, r) /\ work[w].gen > 0
Formed ==
  /\ \A w \in Live : work[w].gen > 0
  /\ \A c \in cards \cup dismissed : CardFormed(c)
DoorFormed(d) == door[d].pc = "commit" => PlanFormed(door[d].plan)

\* A work still at the generation of a capture has the title and the routes of the
\* capture; at the generation of a plan it has no route that a planned one contradicts.
CaptureHonest(m) ==
  LET q == pass[m] IN
  q.pc # "idle" =>
    /\ q.work \in Works
    /\ q.gen <= work[q.work].gen
    /\ work[q.work].title # None /\ work[q.work].gen = q.gen =>
         work[q.work].title = q.title /\ Active(q.work) = q.routes
    /\ (q.ev \cup q.props) \cap q.routes = {}
    /\ \A p \in q.search : Of(p, q.routes) = {}
PlanHonest(m) ==
  LET q == pass[m].plan IN
  pass[m].pc = "commit" =>
    /\ PlanFormed(q) /\ ~q.explicit
    /\ q.work \in Works
    /\ q.gen <= work[q.work].gen
    /\ work[q.work].title # None /\ work[q.work].gen = q.gen =>
         \A r \in q.routes \ Active(q.work) : ~Contradicts({r}, Active(q.work))

IInv ==
  /\ TypeOK /\ Formed
  /\ \A m \in Machines : CaptureHonest(m) /\ PlanHonest(m)
  /\ \A d \in Doors : DoorFormed(d)
  /\ StatusAgrees /\ QuestionsOpen /\ NoTwins

\* A step of a pass, or of a door no user stands at.
MachineStep ==
  \/ pass' # pass
  \/ \E d \in Doors : door[d].pc = "commit" /\ ~door[d].plan.explicit /\ door'[d] # door[d]

\* What the user dismissed for a work, no machine asks again or attaches, by
\* whichever of the settlement, its fallback and the monitor's door it arrives.
DismissalStands ==
  [][MachineStep =>
       \A c \in dismissed :
         /\ c \notin cards' \ cards
         /\ c.kind = "route" =>
              c.routes \cap Active(At(c))' \subseteq Active(At(c))]_vars

\* A pass never gives a work a second id of a provider, although it decided on
\* routes it had read before the transaction that attaches.
PassNeverContradicts ==
  [][pass' # pass =>
       \A w \in Works : ~Contradicts(Active(w)' \ Active(w), Active(w))]_vars

\* The identity a pass captured is still the work's.
Captured(m) ==
  LET q == pass[m] IN
  q.work \in Live /\ work[q.work].title = q.title /\ Active(q.work) = q.routes

\* A pass spends an attempt of a work, or asks the user about a route it proposes,
\* only while the work is the book the pass went out to look for.
ChargedToOwnIdentity ==
  [][\A m \in Machines :
       pass'[m] # pass[m] =>
         /\ attempts' # attempts /\ work' = work => Captured(m)
         /\ (\E r \in Routes : RouteCard(pass[m].work, r) \in cards' \ cards) => Captured(m)]_vars

\* A terminal outcome that is recorded for a provider is about an anchor the work
\* has.  Dispatch skips the provider for it until the routes change again, so an
\* answer about a former anchor would keep the new one from being fetched.
StandingIsCurrent ==
  [][\A m \in Machines, p \in Providers :
       LET w == pass[m].work IN
       /\ pass[m].pc = "gather" /\ pass'[m] # pass[m] /\ w \in Live
       /\ pass[m].asked[p] # None /\ standing'[w][p] # "none"
       => pass[m].asked[p] \in Anchors(p, Active(w))]_vars

\* A route is active on one work at most, as RouteOwnershipCollision and the name of
\* the index idx_identity_routes_one_active_owner have it.
OneActiveOwner == \A v, w \in Works : v # w => Active(v) \cap Active(w) = {}
=============================================================================
