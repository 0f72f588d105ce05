------------------------ MODULE IdentityRoad_proofs ------------------------
(***************************************************************************)
(* Proofs about IdentityRoad, for all works, routes, providers, titles,    *)
(* passes and doors.  Every write of the layer is one transaction that     *)
(* advances the generation of the one work it changes (Advances); what the *)
(* passes have captured stays honest through any such transaction, and     *)
(* the settlement, the only one of several kinds of routes, is treated     *)
(* once (WrittenHolds) for passes, doors and edits.                        *)
(***************************************************************************)
EXTENDS IdentityRoad, TLAPS

\* No work changes its title or its routes and stays at its generation.
Advances ==
  \A v \in Works :
    /\ work[v].gen <= work'[v].gen
    /\ work'[v].title # None /\ work'[v].gen = work[v].gen =>
         work'[v].title = work[v].title /\ Active(v)' = Active(v)

\* A step on the tables keeps what they promise.
TablesHold ==
  /\ work' \in [Works -> Row]
  /\ route' \in [Works -> RoutesOf]
  /\ cards' \subseteq Card /\ dismissed' \subseteq Card
  /\ standing' \in [Works -> [Providers -> {"none", "found", "not_found"}]]
  /\ attempts' \in [Works -> Nat]
  /\ Formed' /\ StatusAgrees' /\ QuestionsOpen' /\ NoTwins'

\* The first of one work is that work.
LEMMA FirstOfOne ==
  ASSUME NEW w \in Works
  PROVE  First({w}) = w
<1>1. \E x \in {w} : \A v \in {w} : x <= v
  BY WorksAssumption
<1> QED BY <1>1 DEF First

\* A question about a route is asked at its work.
LEMMA AtRouteCard ==
  ASSUME NEW w \in Works, NEW r \in Routes
  PROVE  At(RouteCard(w, r)) = w
BY FirstOfOne DEF At, RouteCard

\* Two questions about routes are one question only if work and route agree.
LEMMA RouteCardsDiffer ==
  ASSUME NEW v, NEW w, NEW r, NEW s, RouteCard(v, r) = RouteCard(w, s)
  PROVE  v = w /\ r = s
<1>1. RouteCard(v, r).works = RouteCard(w, s).works /\ RouteCard(v, r).routes = RouteCard(w, s).routes
  OBVIOUS
<1>2. {v} = {w} /\ {r} = {s}
  BY <1>1 DEF RouteCard
<1> QED BY <1>2

\* What a work has are routes.
LEMMA ActiveRoutes ==
  ASSUME IInv, NEW w \in Works
  PROVE  Active(w) \subseteq Routes
BY DEF IInv, TypeOK, RoutesOf, Active

\* The plans that reach the settlement transaction, and the work they write.
Settling(p, w) ==
  /\ p \in Plan /\ PlanFormed(p) /\ w \in Works
  /\ p.work = w \/ (p.work = None /\ work[w].gen = 0)
  /\ ~Refused(p)
  /\ Written(p, w)
  /\ UNCHANGED dismissed

\* The settlement gives its work the routes of the plan and leaves the other works alone.
LEMMA WrittenRoutes ==
  ASSUME IInv, NEW p, NEW w, Settling(p, w)
  PROVE  /\ route' \in [Works -> RoutesOf]
         /\ route'[w] = Attached(w, p.routes, p.confirm)
         /\ Active(w)' = Active(w) \cup p.routes
         /\ \A v \in Works \ {w} : route'[v] = route[v] /\ Active(v)' = Active(v)
<1>1. /\ route \in [Works -> RoutesOf] /\ w \in Works
      /\ p.routes \subseteq Routes /\ p.confirm \subseteq Routes
  BY DEF IInv, TypeOK, Settling, Plan
<1>2. route' = [route EXCEPT ![w] = Attached(w, p.routes, p.confirm)]
  BY DEF Settling, Written
<1>3. Attached(w, p.routes, p.confirm) \in RoutesOf
  BY <1>1 DEF Attached, RoutesOf
<1>4. route'[w] = Attached(w, p.routes, p.confirm) /\ \A v \in Works \ {w} : route'[v] = route[v]
  BY <1>1, <1>2
<1> QED BY <1>1, <1>2, <1>3, <1>4 DEF Active, Attached

\* The row it writes.
LEMMA WrittenRow ==
  ASSUME IInv, NEW p, NEW w, Settling(p, w)
  PROVE  /\ work' \in [Works -> Row]
         /\ \A v \in Works \ {w} : work'[v] = work[v]
         /\ work'[w].title = p.title /\ work'[w].title # None
         /\ work'[w].gen = work[w].gen + 1
         /\ work'[w].distinct = work[w].distinct
         /\ work'[w].status = StatusOf(route'[w])
         /\ p.work = w => work[w].title # None /\ work[w].gen = p.gen
<1> DEFINE st == StatusOf(Attached(w, p.routes, p.confirm))
<1>1. /\ work \in [Works -> Row] /\ p \in Plan /\ w \in Works /\ p.title \in Titles
      /\ p.title # None
  BY NoneAssumption DEF IInv, TypeOK, Settling, PlanFormed
<1>2. work' = [work EXCEPT ![w] =
        [title |-> p.title, distinct |-> @.distinct, gen |-> @.gen + 1, status |-> st]]
  BY DEF Settling, Written
<1>3. st \in {"not_connected", "connected", "user_confirmed"}
  BY DEF StatusOf
<1>4. st = StatusOf(route'[w])
  BY WrittenRoutes
<1> HIDE DEF st
<1>6. p.work = w => work[w].title # None /\ work[w].gen = p.gen
  BY <1>1 DEF Settling, Refused, Stale, Live
<1> QED BY <1>1, <1>2, <1>3, <1>4, <1>6 DEF Row

\* So it advances its work and no other.
LEMMA WrittenAdvances ==
  ASSUME IInv, NEW p, NEW w, Settling(p, w)
  PROVE  Advances
<1>1. /\ \A v \in Works \ {w} : Active(v)' = Active(v) /\ work'[v] = work[v]
      /\ work'[w].gen = work[w].gen + 1
  BY WrittenRoutes, WrittenRow
<1>2. \A v \in Works : work[v].gen \in Nat
  BY DEF IInv, TypeOK, Row
<1> QED BY <1>1, <1>2 DEF Advances

\* idx_works_identity_v2 keeps one identity one work.
LEMMA WrittenNoTwins ==
  ASSUME IInv, NEW p, NEW w, Settling(p, w)
  PROVE  NoTwins'
<1>1. /\ \A v \in Works \ {w} : work'[v] = work[v]
      /\ work'[w].title = p.title /\ work'[w].distinct = work[w].distinct
  BY WrittenRow
<1>2. w \in Works /\ p.work \in {None, w}
  BY DEF Settling
<1>3. \/ p.work = w /\ work[w].distinct
      \/ \A v \in Live \ {w} : work[v].title = p.title => work[v].distinct
  BY <1>2, NoneAssumption DEF Settling, Refused, Twin, Live
<1>4. \A v, u \in Live : work[v].title = work[u].title /\ v # u => work[v].distinct \/ work[u].distinct
  BY DEF IInv, NoTwins
<1> SUFFICES ASSUME NEW v \in Works, NEW u \in Works, work'[v].title # None, work'[u].title # None,
                    work'[v].title = work'[u].title, v # u
             PROVE  work'[v].distinct \/ work'[u].distinct
  BY DEF NoTwins, Live
<1>5. CASE v # w /\ u # w
  BY <1>1, <1>4, <1>5 DEF Live
<1>6. CASE v = w
  BY <1>1, <1>3, <1>6 DEF Live
<1>7. CASE u = w
  BY <1>1, <1>3, <1>7 DEF Live
<1> QED BY <1>5, <1>6, <1>7

\* The status is that of the routes, of the written work and of the others.
LEMMA WrittenStatus ==
  ASSUME IInv, NEW p, NEW w, Settling(p, w)
  PROVE  StatusAgrees'
<1> SUFFICES ASSUME NEW v \in Works, work'[v].title # None
             PROVE  work'[v].status = StatusOf(route'[v])
  BY DEF StatusAgrees, Live
<1>1. CASE v = w
  BY <1>1, WrittenRow
<1>2. CASE v # w
  <2>1. work'[v] = work[v] /\ route'[v] = route[v]
    BY <1>2, WrittenRow, WrittenRoutes
  <2> QED BY <2>1 DEF IInv, StatusAgrees, Live
<1> QED BY <1>1, <1>2

\* It takes the questions it answers and asks none about a route.
LEMMA WrittenCards ==
  ASSUME IInv, NEW p, NEW w, Settling(p, w)
  PROVE  /\ cards' \subseteq Card
         /\ \A c \in cards' : c.kind = "route" => c \in cards
         /\ \A r \in p.routes : RouteCard(w, r) \notin cards'
         /\ \A c \in cards' \ cards : p.explicit \/ c \notin dismissed
<1>1. cards' = (cards \ {RouteCard(w, r) : r \in p.routes})
                  \cup {c \in p.cards : p.explicit \/ c \notin dismissed}
  BY DEF Settling, Written, Satisfied
<1>2. cards \subseteq Card /\ p.cards \subseteq Card /\ \A c \in p.cards : c.kind = "group"
  BY DEF IInv, TypeOK, Settling, Plan, PlanFormed
<1>3. ASSUME NEW r \in p.routes PROVE RouteCard(w, r) \notin p.cards
  BY <1>2 DEF RouteCard
<1> QED BY <1>1, <1>2, <1>3

\* The settlement keeps every promise of the tables.
LEMMA WrittenHolds ==
  ASSUME IInv, NEW p, NEW w, Settling(p, w)
  PROVE  TablesHold /\ Advances
<1>1. QuestionsOpen'
  <2> SUFFICES ASSUME NEW v \in Works, NEW r \in Routes, RouteCard(v, r) \in cards'
               PROVE  work'[v].title # None /\ r \notin Active(v)'
    BY DEF QuestionsOpen, Live
  <2>1. RouteCard(v, r) \in cards
    BY WrittenCards DEF RouteCard
  <2>2. work[v].title # None /\ r \notin Active(v)
    BY <2>1 DEF IInv, QuestionsOpen, Live
  <2>3. work'[v].title # None
    BY <2>2, WrittenRow
  <2>4. ASSUME v = w PROVE r \notin p.routes
    BY <2>4, WrittenCards
  <2> QED BY <2>2, <2>3, <2>4, WrittenRoutes
<1>2. Formed'
  <2>1. \A v \in Works : work'[v].gen \in Nat /\ work[v].gen \in Nat /\ work[v].gen <= work'[v].gen
    BY WrittenRow, WrittenAdvances DEF IInv, TypeOK, Row, Advances
  <2>2. ASSUME NEW v \in Works, work'[v].title # None PROVE work'[v].gen > 0
    <3>1. CASE v = w
      BY <3>1, <2>1, WrittenRow
    <3>2. CASE v # w
      <4>1. work'[v] = work[v]
        BY <3>2, WrittenRow
      <4> QED BY <4>1, <2>2 DEF IInv, Formed, Live
    <3> QED BY <3>1, <3>2
  <2>3. ASSUME NEW c \in cards' \cup dismissed', c.kind = "route"
        PROVE  \E v \in Works, r \in Routes : c = RouteCard(v, r) /\ work'[v].gen > 0
    <3>1. c \in cards \cup dismissed
      BY <2>3, WrittenCards DEF Settling
    <3>2. PICK v \in Works, r \in Routes : c = RouteCard(v, r) /\ work[v].gen > 0
      BY <3>1, <2>3 DEF IInv, Formed, CardFormed
    <3> QED BY <3>2, <2>1
  <2> QED BY <2>2, <2>3 DEF Formed, CardFormed, Live
<1>3. standing' \in [Works -> [Providers -> {"none", "found", "not_found"}]]
  <2>1. standing \in [Works -> [Providers -> {"none", "found", "not_found"}]] /\ w \in Works
    BY DEF IInv, TypeOK, Settling
  <2>2. Unanswered \in [Providers -> {"none", "found", "not_found"}]
    BY DEF Unanswered
  <2> QED BY <2>1, <2>2 DEF Settling, Written, Invalidated
<1>4. attempts' \in [Works -> Nat]
  BY DEF IInv, TypeOK, Settling, Written
<1>5. dismissed' \subseteq Card
  BY DEF IInv, TypeOK, Settling
<1> QED BY <1>1, <1>2, <1>3, <1>4, <1>5, WrittenRow, WrittenRoutes, WrittenCards, WrittenStatus,
           WrittenNoTwins, WrittenAdvances DEF TablesHold

-----------------------------------------------------------------------------
(* Steps that leave the tables, the passes or the doors alone.             *)

\* A step that leaves titles, routes and questions keeps their promises.
LEMMA TablesStill ==
  ASSUME IInv, UNCHANGED <<work, route, cards, dismissed>>,
         standing' \in [Works -> [Providers -> {"none", "found", "not_found"}]],
         attempts' \in [Works -> Nat]
  PROVE  TablesHold /\ Advances
<1>1. \A v \in Works : work[v].gen \in Nat /\ Active(v)' = Active(v)
  BY DEF IInv, TypeOK, Row, Active
<1>2. Advances
  BY <1>1 DEF Advances
<1>3. Live' = Live
  BY DEF Live
<1>4. Formed'
  BY <1>3 DEF IInv, Formed, CardFormed
<1>5. StatusAgrees'
  BY <1>1, <1>3 DEF IInv, StatusAgrees, Live
<1>6. QuestionsOpen'
  BY <1>3 DEF IInv, QuestionsOpen, Active
<1>7. NoTwins'
  BY <1>3 DEF IInv, NoTwins
<1> QED BY <1>2, <1>4, <1>5, <1>6, <1>7 DEF TablesHold, IInv, TypeOK

\* What a pass holds stays honest while others write.
LEMMA PassKept ==
  ASSUME IInv, work' \in [Works -> Row], Advances, NEW m \in Machines, pass'[m] = pass[m]
  PROVE  CaptureHonest(m)' /\ PlanHonest(m)'
<1>1. \A v \in Works : work[v].gen \in Nat /\ work'[v].gen \in Nat
  BY DEF IInv, TypeOK, Row
<1>2. pass[m].gen \in Nat /\ pass[m].plan.gen \in Nat
  BY DEF IInv, TypeOK, Pass, Plan
<1>3. CaptureHonest(m) /\ PlanHonest(m)
  BY DEF IInv
<1>4. CaptureHonest(m)'
  BY <1>1, <1>2, <1>3 DEF CaptureHonest, Advances
<1>5. PlanHonest(m)'
  <2>0. PICK q : q = pass[m].plan
    OBVIOUS
  <2> SUFFICES ASSUME pass[m].pc = "commit"
               PROVE  /\ PlanFormed(q) /\ ~q.explicit /\ q.work \in Works
                      /\ q.gen <= work'[q.work].gen
                      /\ work'[q.work].title # None /\ work'[q.work].gen = q.gen =>
                           \A r \in q.routes \ Active(q.work)' : ~Contradicts({r}, Active(q.work)')
    BY <2>0 DEF PlanHonest, PlanFormed, Contradicts
  <2>1. /\ PlanFormed(q) /\ ~q.explicit /\ q.work \in Works
        /\ q.gen <= work[q.work].gen
        /\ work[q.work].title # None /\ work[q.work].gen = q.gen =>
             \A r \in q.routes \ Active(q.work) : ~Contradicts({r}, Active(q.work))
    BY <1>3, <2>0 DEF PlanHonest
  <2>2. q.gen \in Nat
    BY <1>2, <2>0
  <2>3. q.gen <= work'[q.work].gen
    BY <1>1, <2>1, <2>2 DEF Advances
  <2>4. ASSUME work'[q.work].title # None, work'[q.work].gen = q.gen
        PROVE  /\ work[q.work].title # None /\ work[q.work].gen = q.gen
               /\ Active(q.work)' = Active(q.work)
    BY <1>1, <2>1, <2>2, <2>4 DEF Advances
  <2> QED BY <2>1, <2>3, <2>4
<1> QED BY <1>4, <1>5

\* One pass moves; the others and the doors stay.
LEMMA OnePassHolds ==
  ASSUME IInv, TablesHold, Advances, NEW m \in Machines, NEW q \in Pass,
         pass' = [pass EXCEPT ![m] = q],
         CaptureHonest(m)', PlanHonest(m)', UNCHANGED door,
         visits' \in 0..MaxPasses, acts' \in 0..MaxActs
  PROVE  IInv'
<1>1. pass \in [Machines -> Pass] /\ door \in [Doors -> Door]
  BY DEF IInv, TypeOK
<1>2. TypeOK'
  BY <1>1 DEF TypeOK, TablesHold
<1>3. ASSUME NEW k \in Machines PROVE CaptureHonest(k)' /\ PlanHonest(k)'
  <2>1. CASE k = m
    BY <2>1
  <2>2. CASE k # m
    BY <1>1, <2>2, PassKept DEF TablesHold
  <2> QED BY <2>1, <2>2
<1>4. \A d \in Doors : DoorFormed(d)'
  BY DEF IInv, DoorFormed, PlanFormed
<1> QED BY <1>2, <1>3, <1>4 DEF IInv, TablesHold

\* A pass that ends holds nothing.
LEMMA PassEnds ==
  ASSUME IInv, TablesHold, Advances, NEW m \in Machines, End(m), UNCHANGED door,
         visits' \in 0..MaxPasses, acts' \in 0..MaxActs
  PROVE  IInv'
<1>1. IdlePass \in Pass
  BY DEF IdlePass, Pass, NoPlan, Plan
<1>2. pass' = [pass EXCEPT ![m] = IdlePass]
  BY DEF End
<1>3. pass'[m] = IdlePass
  BY <1>2 DEF IInv, TypeOK
<1>4. CaptureHonest(m)' /\ PlanHonest(m)'
  BY <1>3 DEF CaptureHonest, PlanHonest, IdlePass
<1> QED BY <1>1, <1>2, <1>4, OnePassHolds

\* One door moves; the passes and the other doors stay.
LEMMA OneDoorHolds ==
  ASSUME IInv, TablesHold, Advances, NEW d \in Doors, NEW q \in Door,
         door' = [door EXCEPT ![d] = q], q.pc = "commit" => PlanFormed(q.plan), UNCHANGED pass,
         visits' \in 0..MaxPasses, acts' \in 0..MaxActs
  PROVE  IInv'
<1>1. pass \in [Machines -> Pass] /\ door \in [Doors -> Door]
  BY DEF IInv, TypeOK
<1>2. TypeOK'
  BY <1>1 DEF TypeOK, TablesHold
<1>3. ASSUME NEW k \in Machines PROVE CaptureHonest(k)' /\ PlanHonest(k)'
  BY PassKept DEF TablesHold
<1>4. ASSUME NEW e \in Doors PROVE DoorFormed(e)'
  BY <1>1 DEF IInv, DoorFormed, PlanFormed
<1> QED BY <1>2, <1>3, <1>4 DEF IInv, TablesHold

\* Only the tables move.
LEMMA NooneMoves ==
  ASSUME IInv, TablesHold, Advances, UNCHANGED <<pass, door>>,
         visits' \in 0..MaxPasses, acts' \in 0..MaxActs
  PROVE  IInv'
<1>1. TypeOK'
  BY DEF IInv, TypeOK, TablesHold
<1>2. ASSUME NEW k \in Machines PROVE CaptureHonest(k)' /\ PlanHonest(k)'
  BY PassKept DEF TablesHold
<1>3. \A e \in Doors : DoorFormed(e)'
  BY DEF IInv, DoorFormed, PlanFormed
<1> QED BY <1>1, <1>2, <1>3 DEF IInv, TablesHold

-----------------------------------------------------------------------------
(* The steps of a pass.                                                    *)

\* The routes a provider's own search may return are not routes of the work.
LEMMA DispatchHolds ==
  ASSUME IInv, NEW m \in Machines, NEW w \in Works, NEW refresh \in BOOLEAN, Dispatch(m, w, refresh)
  PROVE  IInv'
<1>1. /\ work \in [Works -> Row] /\ pass \in [Machines -> Pass]
      /\ standing \in [Works -> [Providers -> {"none", "found", "not_found"}]]
      /\ attempts \in [Works -> Nat]
      /\ visits \in 0..MaxPasses /\ acts \in 0..MaxActs
  BY DEF IInv, TypeOK
<1>2. PICK st \in [Providers -> {"none", "found", "not_found"}] :
        st = IF refresh THEN Unanswered ELSE standing[w]
  BY <1>1 DEF Unanswered
<1>3. standing' = [standing EXCEPT ![w] = st] /\ UNCHANGED <<work, route, cards, dismissed, attempts, door>>
  BY <1>2 DEF Dispatch
<1>4. PICK a \in [Providers -> Routes \cup {None}] :
        pass' = [pass EXCEPT ![m] =
               [IdlePass EXCEPT
                  !.pc = "gather", !.work = w, !.gen = work[w].gen, !.title = work[w].title,
                  !.routes = Active(w), !.asked = a, !.charge = IF refresh THEN "never" ELSE "search",
                  !.search = {p \in Providers :
                    /\ Of(p, Active(w)) = {}
                    /\ Anchors(p, Active(w)) = {} \/ st[p] = "not_found"}]]
  BY <1>2 DEF Dispatch
<1>5. PICK q : q = [IdlePass EXCEPT
                  !.pc = "gather", !.work = w, !.gen = work[w].gen, !.title = work[w].title,
                  !.routes = Active(w), !.asked = a, !.charge = IF refresh THEN "never" ELSE "search",
                  !.search = {p \in Providers :
                    /\ Of(p, Active(w)) = {}
                    /\ Anchors(p, Active(w)) = {} \/ st[p] = "not_found"}]
  OBVIOUS
<1>6. /\ q.pc = "gather" /\ q.work = w /\ q.gen = work[w].gen /\ q.title = work[w].title
      /\ q.routes = Active(w) /\ q.ev = {} /\ q.props = {}
      /\ \A p \in q.search : Of(p, Active(w)) = {}
  BY <1>5 DEF IdlePass
<1>7. q \in Pass
  <2>1. Active(w) \subseteq Routes /\ work[w].gen \in Nat /\ work[w].title \in Titles \cup {None}
    BY <1>1, ActiveRoutes DEF Row
  <2> QED BY <1>5, <2>1 DEF Pass, IdlePass, NoPlan, Plan
<1>8. pass' = [pass EXCEPT ![m] = q]
  BY <1>4, <1>5
<1>9. pass'[m] = q
  BY <1>1, <1>8
<1>10. standing' \in [Works -> [Providers -> {"none", "found", "not_found"}]]
  BY <1>1, <1>3
<1>11. TablesHold /\ Advances
  BY <1>1, <1>3, <1>10, TablesStill
<1>12. Active(w)' = Active(w) /\ work' = work
  BY <1>3 DEF Active
<1>13. CaptureHonest(m)' /\ PlanHonest(m)'
  <2>1. work[w].gen \in Nat
    BY <1>1 DEF Row
  <2> QED BY <1>6, <1>9, <1>12, <2>1 DEF CaptureHonest, PlanHonest
<1>14. visits' \in 0..MaxPasses /\ acts' \in 0..MaxActs
  BY <1>1, BoundAssumption DEF Dispatch
<1> QED BY <1>3, <1>7, <1>8, <1>11, <1>13, <1>14, OnePassHolds

\* What a pass brings back is none of the routes it went out with.
LEMMA GatherHolds ==
  ASSUME IInv, NEW m \in Machines, Gather(m)
  PROVE  IInv'
<1>1. /\ work \in [Works -> Row] /\ pass \in [Machines -> Pass]
      /\ standing \in [Works -> [Providers -> {"none", "found", "not_found"}]]
      /\ attempts \in [Works -> Nat]
      /\ visits \in 0..MaxPasses /\ acts \in 0..MaxActs
  BY DEF IInv, TypeOK
<1>2. pass[m].pc = "gather" /\ UNCHANGED <<work, route, cards, dismissed, attempts, door, visits, acts>>
  BY DEF Gather
<1>3. CASE End(m) /\ UNCHANGED standing
  <2>1. TablesHold /\ Advances
    BY <1>1, <1>2, <1>3, TablesStill
  <2> QED BY <1>1, <1>2, <1>3, <2>1, PassEnds
<1>4. ASSUME NEW ans \in [Providers -> {"none", "found", "not_found", "later"}],
             NEW ev \in {R \ pass[m].routes : R \in Offers}, NEW props \in Offers,
             NEW failed \in BOOLEAN, Answered(m, ans, ev, props, failed)
      PROVE  IInv'
  <2>0. PICK c \in {"never", "search", "bridge"} : c = ChargeOf(pass[m], Searched(pass[m], ans), ev, failed)
    BY DEF ChargeOf
  <2>1. PICK q : q = [pass[m] EXCEPT
                        !.asked = IdlePass.asked, !.search = {}, !.ev = ev, !.props = props,
                        !.charge = c, !.pc = IF ev \cup props = {} THEN "burn" ELSE "handoff"]
    OBVIOUS
  <2>2. pass[m] \in Pass
    BY <1>1
  <2>3. ev \subseteq Routes /\ props \subseteq Routes
    BY <1>4, OffersAssumption
  <2>4. IdlePass.asked \in [Providers -> Routes \cup {None}]
    BY DEF IdlePass
  <2>5. q \in Pass
    BY <2>0, <2>1, <2>2, <2>3, <2>4 DEF Pass
  <2>6. /\ q.pc \in {"burn", "handoff"} /\ q.work = pass[m].work /\ q.gen = pass[m].gen
        /\ q.title = pass[m].title /\ q.routes = pass[m].routes /\ q.ev = ev /\ q.props = props
        /\ q.search = {}
    BY <2>1, <2>2 DEF Pass
  <2>7. pass' = [pass EXCEPT ![m] = q] /\ pass'[m] = q
    BY <1>1, <1>4, <2>0, <2>1 DEF Answered
  <2>8. standing' \in [Works -> [Providers -> {"none", "found", "not_found"}]]
    <3>1. PICK f : f = [p \in Providers |->
              CASE ans[p] = "none" -> standing[pass[m].work][p]
                [] ans[p] = "later" -> "none"
                [] OTHER -> ans[p]]
      OBVIOUS
    <3>2. pass[m].work \in Works
      BY <1>2 DEF IInv, CaptureHonest
    <3>3. standing[pass[m].work] \in [Providers -> {"none", "found", "not_found"}]
      BY <1>1, <3>2
    <3>4. \A p \in Providers : f[p] \in {"none", "found", "not_found"}
      BY <3>1, <3>3
    <3>5. f \in [Providers -> {"none", "found", "not_found"}]
      BY <3>1, <3>4
    <3>6. standing' = [standing EXCEPT ![pass[m].work] = f]
      BY <1>1, <1>4, <3>1, <3>2 DEF Persisted, Answered
    <3> QED BY <1>1, <3>5, <3>6
  <2>9. TablesHold /\ Advances
    BY <1>1, <1>2, <2>8, TablesStill
  <2>10. /\ pass[m].work \in Works /\ pass[m].gen <= work[pass[m].work].gen
         /\ work[pass[m].work].title # None /\ work[pass[m].work].gen = pass[m].gen =>
              work[pass[m].work].title = pass[m].title /\ Active(pass[m].work) = pass[m].routes
         /\ \A p \in pass[m].search : Of(p, pass[m].routes) = {}
    BY <1>2 DEF IInv, CaptureHonest
  <2>11. (ev \cup props) \cap q.routes = {}
    <3>1. ASSUME NEW r \in props, r \in pass[m].routes PROVE FALSE
      <4>1. r \in WorkRoutes /\ Of(ProviderOf[r], pass[m].routes) = {}
        BY <1>4, <2>10 DEF Answered, Searched
      <4> QED BY <3>1, <4>1 DEF Of
    <3> QED BY <1>4, <2>6, <3>1
  <2>12. \A v : Active(v)' = Active(v)
    BY <1>2 DEF Active
  <2>13. CaptureHonest(m)' /\ PlanHonest(m)'
    BY <1>2, <2>6, <2>7, <2>10, <2>11, <2>12 DEF CaptureHonest, PlanHonest
  <2> QED BY <1>1, <1>2, <2>5, <2>7, <2>9, <2>13, OnePassHolds
<1> QED BY <1>3, <1>4 DEF Gather

\* A pass that only goes on to another step keeps what it holds.
LEMMA PassGoesOn ==
  ASSUME IInv, TablesHold, Advances, NEW m \in Machines, NEW pc \in {"settle", "mint", "burn"},
         pass[m].pc # "idle", Goto(m, pc), UNCHANGED door,
         visits' \in 0..MaxPasses, acts' \in 0..MaxActs
  PROVE  IInv'
<1>1. pass \in [Machines -> Pass] /\ work \in [Works -> Row] /\ work' \in [Works -> Row]
  BY DEF IInv, TypeOK, TablesHold
<1>2. PICK q : q = [pass[m] EXCEPT !.pc = pc]
  OBVIOUS
<1>3. /\ q \in Pass /\ q.pc = pc /\ q.work = pass[m].work /\ q.gen = pass[m].gen
      /\ q.title = pass[m].title /\ q.routes = pass[m].routes /\ q.ev = pass[m].ev
      /\ q.props = pass[m].props /\ q.search = pass[m].search
  BY <1>1, <1>2 DEF Pass
<1>4. pass' = [pass EXCEPT ![m] = q] /\ pass'[m] = q
  BY <1>1, <1>2 DEF Goto
<1>5. /\ q.work \in Works /\ q.gen <= work[q.work].gen
      /\ work[q.work].title # None /\ work[q.work].gen = q.gen =>
           work[q.work].title = q.title /\ Active(q.work) = q.routes
      /\ (q.ev \cup q.props) \cap q.routes = {}
      /\ \A p \in q.search : Of(p, q.routes) = {}
  BY <1>3 DEF IInv, CaptureHonest
<1>6. q.gen \in Nat /\ work[q.work].gen \in Nat /\ work'[q.work].gen \in Nat
  BY <1>1, <1>3, <1>5 DEF Pass, Row
<1>7. /\ q.gen <= work'[q.work].gen
      /\ work'[q.work].title # None /\ work'[q.work].gen = q.gen =>
           work'[q.work].title = q.title /\ Active(q.work)' = q.routes
  BY <1>5, <1>6 DEF Advances
<1>8. CaptureHonest(m)' /\ PlanHonest(m)'
  BY <1>3, <1>4, <1>5, <1>7 DEF CaptureHonest, PlanHonest
<1> QED BY <1>3, <1>4, <1>8, OnePassHolds

\* The handoff compares and goes on, or ends.
LEMMA HandoffHolds ==
  ASSUME IInv, NEW m \in Machines, Handoff(m)
  PROVE  IInv'
<1>1. UNCHANGED <<work, route, cards, standing, attempts, dismissed, door, visits, acts>>
  BY DEF Handoff, identityVars
<1>2. TablesHold /\ Advances
  BY <1>1, TablesStill DEF IInv, TypeOK
<1>3. visits' \in 0..MaxPasses /\ acts' \in 0..MaxActs
  BY <1>1 DEF IInv, TypeOK
<1>4. CASE End(m)
  BY <1>1, <1>2, <1>3, <1>4, PassEnds
<1>5. CASE Goto(m, "mint") \/ Goto(m, "settle")
  BY <1>1, <1>2, <1>3, <1>5, PassGoesOn DEF Handoff
<1> QED BY <1>4, <1>5 DEF Handoff

\* A plan that names no cards has none.
LEMMA PlanWithoutCards ==
  ASSUME NEW w, NEW g, NEW t, NEW R
  PROVE  [NoPlan EXCEPT !.work = w, !.gen = g, !.title = t, !.routes = R]
         = [NoPlan EXCEPT !.work = w, !.gen = g, !.title = t, !.routes = R, !.cards = {}]
<1>1. PICK p : p = [NoPlan EXCEPT !.work = w, !.gen = g, !.title = t, !.routes = R]
  OBVIOUS
<1>2. p.cards = {}
  BY <1>1 DEF NoPlan
<1>3. [p EXCEPT !.cards = {}] = p
  BY <1>1, <1>2 DEF NoPlan
<1> QED BY <1>1, <1>3 DEF NoPlan

\* The plan of a pass is based on the routes of its generation.
LEMMA SettleReadHolds ==
  ASSUME IInv, NEW m \in Machines, SettleRead(m)
  PROVE  IInv'
<1>1. /\ UNCHANGED <<work, route, cards, standing, attempts, dismissed, door, visits, acts>>
      /\ pass[m].pc = "settle"
  BY DEF SettleRead, identityVars
<1>2. TablesHold /\ Advances
  BY <1>1, TablesStill DEF IInv, TypeOK
<1>3. /\ visits' \in 0..MaxPasses /\ acts' \in 0..MaxActs
      /\ work \in [Works -> Row] /\ pass \in [Machines -> Pass]
  BY <1>1 DEF IInv, TypeOK
<1>4. CASE End(m)
  BY <1>1, <1>2, <1>3, <1>4, PassEnds
<1>5. ASSUME pass[m].work \in Live, ~Contradicts(pass[m].ev, Active(pass[m].work)),
             NEW R, R \in {Active(pass[m].work), Active(pass[m].work) \cup pass[m].ev},
             NEW C, C \in {{}, {GroupCard(Group(work[pass[m].work].title), work[pass[m].work].title, pass[m].ev)}},
             pass' = [pass EXCEPT ![m].pc = "commit", ![m].plan =
               [NoPlan EXCEPT !.work = pass[m].work, !.gen = work[pass[m].work].gen,
                              !.title = work[pass[m].work].title, !.routes = R, !.cards = C]]
      PROVE  IInv'
  <2>1. PICK w \in Works : w = pass[m].work /\ work[w].title \in Titles /\ work[w].gen \in Nat
    BY <1>3, <1>5 DEF Live, Row
  <2>2. PICK p : p = [NoPlan EXCEPT !.work = w, !.gen = work[w].gen, !.title = work[w].title,
                                    !.routes = R, !.cards = C]
    OBVIOUS
  <2>3. R \subseteq Routes /\ pass[m].ev \subseteq Routes
    BY <1>1, <1>3, <1>5, ActiveRoutes DEF Live, Pass
  <2>4. C \subseteq Card /\ \A c \in C : c.kind = "group"
    BY <1>5, <2>1, <2>3 DEF GroupCard, Card, Group, Live
  <2>5. /\ p.work = w /\ p.gen = work[w].gen /\ p.title = work[w].title /\ p.routes = R
        /\ p.cards = C /\ p.explicit = FALSE
    BY <2>2 DEF NoPlan
  <2>6. p \in Plan
    BY <2>1, <2>2, <2>3, <2>4 DEF NoPlan, Plan
  <2>7. PICK q : q = [pass[m] EXCEPT !.pc = "commit", !.plan = p]
    OBVIOUS
  <2>8. /\ q \in Pass /\ q.pc = "commit" /\ q.work = pass[m].work /\ q.gen = pass[m].gen
        /\ q.title = pass[m].title /\ q.routes = pass[m].routes /\ q.ev = pass[m].ev
        /\ q.props = pass[m].props /\ q.search = pass[m].search /\ q.plan = p
    BY <1>3, <2>6, <2>7 DEF Pass
  <2>9. pass' = [pass EXCEPT ![m] = q] /\ pass'[m] = q
    BY <1>3, <1>5, <2>1, <2>2, <2>7
  <2>10. /\ pass[m].work \in Works /\ pass[m].gen <= work[pass[m].work].gen
         /\ work[pass[m].work].title # None /\ work[pass[m].work].gen = pass[m].gen =>
              work[pass[m].work].title = pass[m].title /\ Active(pass[m].work) = pass[m].routes
         /\ (pass[m].ev \cup pass[m].props) \cap pass[m].routes = {}
         /\ \A s \in pass[m].search : Of(s, pass[m].routes) = {}
    BY <1>1 DEF IInv, CaptureHonest
  <2>11. work' = work /\ \A v : Active(v)' = Active(v)
    BY <1>1 DEF Active
  <2>12. CaptureHonest(m)'
    BY <2>8, <2>9, <2>10, <2>11 DEF CaptureHonest
  <2>13. \A r \in R \ Active(w) : ~Contradicts({r}, Active(w))
    BY <1>5, <2>1 DEF Contradicts
  <2>14. PlanFormed(p)
    BY <2>1, <2>4, <2>5 DEF PlanFormed
  <2>15. PlanHonest(m)'
    BY <2>1, <2>5, <2>8, <2>9, <2>11, <2>13, <2>14 DEF PlanHonest
  <2> QED BY <1>1, <1>2, <1>3, <2>8, <2>9, <2>12, <2>15, OnePassHolds
<1>6. CASE ~End(m)
  <2>1. pass[m].work \in Live /\ ~Contradicts(pass[m].ev, Active(pass[m].work))
    BY <1>6 DEF SettleRead
  <2>2. CASE work[pass[m].work].distinct \/ Group(work[pass[m].work].title) = {pass[m].work}
    <3>1. pass' = [pass EXCEPT ![m].pc = "commit", ![m].plan =
             [NoPlan EXCEPT !.work = pass[m].work, !.gen = work[pass[m].work].gen,
                            !.title = work[pass[m].work].title,
                            !.routes = Active(pass[m].work) \cup pass[m].ev]]
      BY <1>6, <2>1, <2>2 DEF SettleRead
    <3>2. [NoPlan EXCEPT !.work = pass[m].work, !.gen = work[pass[m].work].gen,
                            !.title = work[pass[m].work].title,
                            !.routes = Active(pass[m].work) \cup pass[m].ev]
          = [NoPlan EXCEPT !.work = pass[m].work, !.gen = work[pass[m].work].gen,
                            !.title = work[pass[m].work].title,
                            !.routes = Active(pass[m].work) \cup pass[m].ev, !.cards = {}]
      BY PlanWithoutCards
    <3> QED BY <2>1, <3>1, <3>2, <1>5
  <2>3. CASE ~(work[pass[m].work].distinct \/ Group(work[pass[m].work].title) = {pass[m].work})
    <3>1. pass' = [pass EXCEPT ![m].pc = "commit", ![m].plan =
             [NoPlan EXCEPT !.work = pass[m].work, !.gen = work[pass[m].work].gen,
                            !.title = work[pass[m].work].title, !.routes = Active(pass[m].work),
                            !.cards = {GroupCard(Group(work[pass[m].work].title),
                                                 work[pass[m].work].title, pass[m].ev)}]]
      BY <1>6, <2>1, <2>3 DEF SettleRead
    <3> QED BY <2>1, <3>1, <1>5
  <2> QED BY <2>2, <2>3
<1> QED BY <1>4, <1>6

\* A pass settles, is refused, or asks about each route instead.
LEMMA CommitHolds ==
  ASSUME IInv, NEW m \in Machines, Commit(m)
  PROVE  IInv'
<1>1. pass[m].pc = "commit" /\ UNCHANGED <<dismissed, door, visits, acts>>
  BY DEF Commit
<1>2. /\ visits' \in 0..MaxPasses /\ acts' \in 0..MaxActs
      /\ work \in [Works -> Row] /\ pass \in [Machines -> Pass]
      /\ standing \in [Works -> [Providers -> {"none", "found", "not_found"}]]
      /\ attempts \in [Works -> Nat]
  BY <1>1 DEF IInv, TypeOK
<1>3. CASE /\ pass' = [pass EXCEPT ![m].pc = "mint", ![m].plan = NoPlan, ![m].props = @ \cup pass[m].ev]
           /\ UNCHANGED identityVars
  <2>1. TablesHold /\ Advances
    BY <1>1, <1>2, <1>3, TablesStill DEF identityVars
  <2>2. PICK q : q = [pass[m] EXCEPT !.pc = "mint", !.plan = NoPlan, !.props = pass[m].props \cup pass[m].ev]
    OBVIOUS
  <2>3. /\ q \in Pass /\ q.pc = "mint" /\ q.work = pass[m].work /\ q.gen = pass[m].gen
        /\ q.title = pass[m].title /\ q.routes = pass[m].routes /\ q.ev = pass[m].ev
        /\ q.props = pass[m].props \cup pass[m].ev /\ q.search = pass[m].search
    <3>1. NoPlan \in Plan
      BY DEF NoPlan, Plan
    <3>2. PICK P \in SUBSET Routes : P = pass[m].props \cup pass[m].ev
      BY <1>2 DEF Pass
    <3>3. q = [pass[m] EXCEPT !.pc = "mint", !.plan = NoPlan, !.props = P]
      BY <2>2, <3>2
    <3>4. PICK x \in Pass : x = pass[m]
      BY <1>2
    <3>5. q \in Pass
      BY <3>1, <3>2, <3>3, <3>4 DEF Pass
    <3>6. /\ q.pc = "mint" /\ q.work = x.work /\ q.gen = x.gen
          /\ q.title = x.title /\ q.routes = x.routes /\ q.ev = x.ev
          /\ q.props = P /\ q.search = x.search
      BY <3>3, <3>4 DEF Pass
    <3> QED BY <3>2, <3>4, <3>5, <3>6
  <2>4. pass' = [pass EXCEPT ![m] = q] /\ pass'[m] = q
    BY <1>2, <1>3, <2>2
  <2>5. /\ pass[m].work \in Works /\ pass[m].gen <= work[pass[m].work].gen
        /\ work[pass[m].work].title # None /\ work[pass[m].work].gen = pass[m].gen =>
             work[pass[m].work].title = pass[m].title /\ Active(pass[m].work) = pass[m].routes
        /\ (pass[m].ev \cup pass[m].props) \cap pass[m].routes = {}
        /\ \A s \in pass[m].search : Of(s, pass[m].routes) = {}
    BY <1>1 DEF IInv, CaptureHonest
  <2>6. work' = work /\ \A v : Active(v)' = Active(v)
    BY <1>3 DEF Active, identityVars
  <2>7. (q.ev \cup q.props) \cap q.routes = {}
    BY <2>3, <2>5
  <2>8. CaptureHonest(m)' /\ PlanHonest(m)'
    BY <2>3, <2>4, <2>5, <2>6, <2>7 DEF CaptureHonest, PlanHonest
  <2> QED BY <1>1, <1>2, <2>1, <2>3, <2>4, <2>8, OnePassHolds
<1>4. CASE End(m) /\ UNCHANGED identityVars
  <2>1. TablesHold /\ Advances
    BY <1>1, <1>2, <1>4, TablesStill DEF identityVars
  <2> QED BY <1>1, <1>2, <1>4, <2>1, PassEnds
<1>5. CASE ~Refused(pass[m].plan) /\ Written(pass[m].plan, pass[m].plan.work) /\ End(m)
  <2>1. PICK p : p = pass[m].plan
    OBVIOUS
  <2>2. p \in Plan /\ PlanFormed(p) /\ p.work \in Works
    BY <1>1, <1>2, <2>1 DEF IInv, PlanHonest, Pass
  <2>3. Settling(p, p.work)
    BY <1>1, <1>5, <2>1, <2>2 DEF Settling
  <2>4. TablesHold /\ Advances
    BY <2>3, WrittenHolds
  <2> QED BY <1>1, <1>2, <1>5, <2>4, PassEnds
<1> QED BY <1>3, <1>4, <1>5 DEF Commit

\* A route is asked about only at the generation of the capture, where the work does
\* not have it.
LEMMA MintHolds ==
  ASSUME IInv, NEW m \in Machines, Mint(m)
  PROVE  IInv'
<1>1. pass[m].pc = "mint" /\ UNCHANGED <<work, route, standing, attempts, dismissed, door, visits, acts>>
  BY DEF Mint
<1>2. /\ visits' \in 0..MaxPasses /\ acts' \in 0..MaxActs
      /\ work \in [Works -> Row] /\ pass \in [Machines -> Pass]
      /\ route \in [Works -> RoutesOf]
      /\ cards \subseteq Card /\ dismissed \subseteq Card
      /\ standing \in [Works -> [Providers -> {"none", "found", "not_found"}]]
      /\ attempts \in [Works -> Nat]
  BY <1>1 DEF IInv, TypeOK
<1>3. CASE UNCHANGED cards /\ (End(m) \/ Goto(m, "burn"))
  <2>1. TablesHold /\ Advances
    BY <1>1, <1>2, <1>3, TablesStill
  <2>2. CASE End(m)
    BY <1>1, <1>2, <2>1, <2>2, PassEnds
  <2>3. CASE Goto(m, "burn")
    BY <1>1, <1>2, <2>1, <2>3, PassGoesOn
  <2> QED BY <1>3, <2>2, <2>3
<1>4. ASSUME Fresh(m), NEW r \in pass[m].props,
             pass' = [pass EXCEPT ![m].props = @ \ {r}],
             cards' = cards \cup ({RouteCard(pass[m].work, r)} \ dismissed)
      PROVE  IInv'
  <2>1. /\ pass[m].work \in Works /\ pass[m].gen <= work[pass[m].work].gen
        /\ work[pass[m].work].title # None /\ work[pass[m].work].gen = pass[m].gen =>
             work[pass[m].work].title = pass[m].title /\ Active(pass[m].work) = pass[m].routes
        /\ (pass[m].ev \cup pass[m].props) \cap pass[m].routes = {}
        /\ \A s \in pass[m].search : Of(s, pass[m].routes) = {}
    BY <1>1 DEF IInv, CaptureHonest
  <2>2. PICK w \in Works : w = pass[m].work
    BY <2>1
  <2>3. r \in Routes /\ work[w].title # None /\ r \notin Active(w)
    BY <1>2, <1>4, <2>1, <2>2 DEF Fresh, Live, Pass
  <2>4. RouteCard(w, r) \in Card
    BY <2>3 DEF RouteCard, Card
  <2>5. QuestionsOpen'
    <3> SUFFICES ASSUME NEW v \in Works, NEW s \in Routes, RouteCard(v, s) \in cards'
                 PROVE  work[v].title # None /\ s \notin Active(v)
      BY <1>1 DEF QuestionsOpen, Live, Active
    <3>1. CASE RouteCard(v, s) \in cards
      BY <3>1 DEF IInv, QuestionsOpen, Live
    <3>2. CASE RouteCard(v, s) = RouteCard(w, r)
      <4>1. v = w /\ s = r
        BY <3>2, RouteCardsDiffer
      <4> QED BY <4>1, <2>3
    <3> QED BY <1>4, <2>2, <3>1, <3>2
  <2>6. Formed'
    <3>1. Live' = Live
      BY <1>1 DEF Live
    <3>2. work[w].gen > 0
      BY <2>3 DEF IInv, Formed, Live
    <3>3. ASSUME NEW c \in cards' \cup dismissed', c.kind = "route"
          PROVE  \E v \in Works, s \in Routes : c = RouteCard(v, s) /\ work'[v].gen > 0
      <4>1. CASE c \in cards \cup dismissed
        BY <1>1, <3>3, <4>1 DEF IInv, Formed, CardFormed
      <4>2. CASE c = RouteCard(w, r)
        BY <1>1, <2>3, <3>2, <4>2
      <4> QED BY <1>1, <1>4, <2>2, <4>1, <4>2
    <3> QED BY <1>1, <3>1, <3>3 DEF IInv, Formed, CardFormed
  <2>7. StatusAgrees' /\ NoTwins'
    <3>1. Live' = Live /\ (\A v : Active(v)' = Active(v))
      BY <1>1 DEF Live, Active
    <3> QED BY <1>1, <3>1 DEF IInv, StatusAgrees, NoTwins
  <2>8. TablesHold
    BY <1>1, <1>2, <1>4, <2>2, <2>4, <2>5, <2>6, <2>7 DEF TablesHold
  <2>9. work' = work /\ \A v : Active(v)' = Active(v)
    BY <1>1 DEF Active
  <2>10. Advances
    BY <1>2, <2>9 DEF Advances, Row
  <2>11. PICK q : q = [pass[m] EXCEPT !.props = pass[m].props \ {r}]
    OBVIOUS
  <2>12. /\ q \in Pass /\ q.pc = "mint" /\ q.work = pass[m].work /\ q.gen = pass[m].gen
         /\ q.title = pass[m].title /\ q.routes = pass[m].routes /\ q.ev = pass[m].ev
         /\ q.props = pass[m].props \ {r} /\ q.search = pass[m].search
    <3>1. PICK P \in SUBSET Routes : P = pass[m].props \ {r}
      BY <1>2 DEF Pass
    <3>2. q = [pass[m] EXCEPT !.props = P]
      BY <2>11, <3>1
    <3> QED BY <1>1, <1>2, <3>1, <3>2 DEF Pass
  <2>13. pass' = [pass EXCEPT ![m] = q] /\ pass'[m] = q
    BY <1>2, <1>4, <2>11
  <2>14. (q.ev \cup q.props) \cap q.routes = {}
    BY <2>1, <2>12
  <2>15. CaptureHonest(m)' /\ PlanHonest(m)'
    BY <2>1, <2>9, <2>12, <2>13, <2>14 DEF CaptureHonest, PlanHonest
  <2> QED BY <1>1, <1>2, <2>8, <2>10, <2>12, <2>13, <2>15, OnePassHolds
<1> QED BY <1>3, <1>4 DEF Mint

\* The attempt is recorded, or not.
LEMMA BurnHolds ==
  ASSUME IInv, NEW m \in Machines, Burn(m)
  PROVE  IInv'
<1>1. /\ UNCHANGED <<work, route, cards, standing, dismissed, door, visits, acts>>
      /\ End(m) /\ pass[m].pc = "burn"
      /\ attempts' \in {attempts, [attempts EXCEPT ![pass[m].work] = @ + 1]}
  BY DEF Burn
<1>2. pass[m].work \in Works /\ attempts \in [Works -> Nat]
  BY <1>1 DEF IInv, CaptureHonest, TypeOK
<1>3. attempts' \in [Works -> Nat]
  BY <1>1, <1>2
<1>4. TablesHold /\ Advances
  BY <1>1, <1>3, TablesStill DEF IInv, TypeOK
<1>5. visits' \in 0..MaxPasses /\ acts' \in 0..MaxActs
  BY <1>1 DEF IInv, TypeOK
<1> QED BY <1>1, <1>4, <1>5, PassEnds

\* What is committed stays.
LEMMA PassDiesHolds ==
  ASSUME IInv, NEW m \in Machines, PassDies(m)
  PROVE  IInv'
<1>1. /\ UNCHANGED <<work, route, cards, standing, attempts, dismissed, door, visits, acts>>
      /\ End(m)
  BY DEF PassDies, identityVars
<1>2. TablesHold /\ Advances
  BY <1>1, TablesStill DEF IInv, TypeOK
<1>3. visits' \in 0..MaxPasses /\ acts' \in 0..MaxActs
  BY <1>1 DEF IInv, TypeOK
<1> QED BY <1>1, <1>2, <1>3, PassEnds

-----------------------------------------------------------------------------
(* The doors.                                                              *)

\* A book comes to a door.
LEMMA OpenDoorHolds ==
  ASSUME IInv, NEW d \in Doors, NEW t \in Titles, NEW R \in Offers, NEW explicit \in BOOLEAN,
         OpenDoor(d, t, R, explicit)
  PROVE  IInv'
<1>1. /\ UNCHANGED <<work, route, cards, standing, attempts, dismissed, pass, visits>>
      /\ acts' = acts + 1 /\ acts < MaxActs
  BY DEF OpenDoor, identityVars
<1>2. TablesHold /\ Advances
  BY <1>1, TablesStill DEF IInv, TypeOK
<1>3. visits' \in 0..MaxPasses /\ acts' \in 0..MaxActs
  BY <1>1, BoundAssumption DEF IInv, TypeOK
<1>4. PICK pc \in {"commit", "attach", "review"}, G \in SUBSET Works, C \in SUBSET Routes :
        door' = [door EXCEPT ![d] =
          [IdleDoor EXCEPT
             !.pc = pc, !.title = t, !.routes = R, !.group = G,
             !.plan = [NoPlan EXCEPT !.title = t, !.routes = R, !.explicit = explicit, !.confirm = C]]]
  <2> DEFINE X == IF explicit THEN R ELSE {}
  <2>0. X \in SUBSET Routes
    BY OffersAssumption
  <2>1. PICK pc \in {"commit", "attach", "review"}, C \in SUBSET Routes :
        /\ C = IF explicit THEN R ELSE {}
        /\ door' = [door EXCEPT ![d] =
          [IdleDoor EXCEPT
             !.pc = pc, !.title = t, !.routes = R, !.group = Group(t),
             !.plan = [NoPlan EXCEPT !.title = t, !.routes = R, !.explicit = explicit, !.confirm = C]]]
    BY <2>0 DEF OpenDoor
  <2>2. C \subseteq Routes /\ Group(t) \subseteq Works
    BY <2>1, OffersAssumption DEF Group, Live
  <2> QED BY <2>1, <2>2
<1>5. PICK p : p = [NoPlan EXCEPT !.title = t, !.routes = R, !.explicit = explicit, !.confirm = C]
  OBVIOUS
<1>6. p \in Plan /\ p.title = t /\ p.cards = {}
  BY <1>5, OffersAssumption DEF NoPlan, Plan
<1>7. PICK q : q = [IdleDoor EXCEPT !.pc = pc, !.title = t, !.routes = R, !.group = G, !.plan = p]
  OBVIOUS
<1>8. q \in Door /\ q.plan = p
  BY <1>6, <1>7, OffersAssumption DEF IdleDoor, Door
<1>9. PlanFormed(q.plan)
  BY <1>6, <1>8 DEF PlanFormed
<1> QED BY <1>1, <1>2, <1>3, <1>4, <1>5, <1>7, <1>8, <1>9, OneDoorHolds

\* An idle door plans nothing.
LEMMA DoorCloses ==
  ASSUME IInv, TablesHold, Advances, NEW d \in Doors, door' = [door EXCEPT ![d] = IdleDoor],
         UNCHANGED pass, visits' \in 0..MaxPasses, acts' \in 0..MaxActs
  PROVE  IInv'
<1>1. IdleDoor \in Door /\ IdleDoor.pc = "idle"
  BY DEF IdleDoor, Door, NoPlan, Plan
<1> QED BY <1>1, OneDoorHolds

\* The door reads the work it found.
LEMMA ReadTargetHolds ==
  ASSUME IInv, NEW d \in Doors, ReadTarget(d)
  PROVE  IInv'
<1>1. UNCHANGED <<work, route, cards, standing, attempts, dismissed, pass, visits, acts>>
  BY DEF ReadTarget, identityVars
<1>2. TablesHold /\ Advances
  BY <1>1, TablesStill DEF IInv, TypeOK
<1>3. /\ visits' \in 0..MaxPasses /\ acts' \in 0..MaxActs
      /\ work \in [Works -> Row] /\ door \in [Doors -> Door]
  BY <1>1 DEF IInv, TypeOK
<1>4. PICK w : w = First(door[d].group)
  OBVIOUS
<1>5. CASE w \notin Live
  <2>1. door' = [door EXCEPT ![d] = IdleDoor]
    BY <1>4, <1>5 DEF ReadTarget
  <2> QED BY <1>1, <1>2, <1>3, <2>1, DoorCloses
<1>6. CASE w \in Live
  <2>1. PICK R, C, K :
          /\ R = IF door[d].pc = "attach" THEN Active(w) \cup door[d].routes ELSE Active(w)
          /\ C = IF door[d].pc = "attach" THEN door[d].plan.confirm \ Active(w) ELSE {}
          /\ K = IF door[d].pc = "attach" THEN {}
                 ELSE {GroupCard(door[d].group, door[d].title, door[d].routes)}
    OBVIOUS
  <2>2. PICK x \in Door : x = door[d]
    BY <1>3
  <2>3. R \in SUBSET Routes /\ C \in SUBSET Routes
    BY <1>6, <2>1, <2>2, ActiveRoutes DEF Live, Door, Plan
  <2>4. K \in SUBSET Card /\ \A c \in K : c.kind = "group"
    BY <2>1, <2>2 DEF GroupCard, Card, Door
  <2>5. w \in Works /\ work[w].title \in Titles /\ work[w].gen \in Nat
    BY <1>3, <1>6 DEF Live, Row
  <2>6. door' = [door EXCEPT ![d] =
          [door[d] EXCEPT !.pc = "commit", !.plan =
             [door[d].plan EXCEPT !.work = w, !.gen = work[w].gen, !.title = work[w].title,
                                  !.routes = R, !.confirm = C, !.cards = K]]]
    BY <1>4, <1>6, <2>1 DEF ReadTarget
  <2>7. PICK p : p = [x.plan EXCEPT !.work = w, !.gen = work[w].gen, !.title = work[w].title,
                                    !.routes = R, !.confirm = C, !.cards = K]
    OBVIOUS
  <2>8. p \in Plan /\ p.title = work[w].title /\ p.cards = K
    BY <2>2, <2>3, <2>4, <2>5, <2>7 DEF Door, Plan
  <2>9. PICK q : q = [x EXCEPT !.pc = "commit", !.plan = p]
    OBVIOUS
  <2>10. q \in Door /\ q.plan = p
    BY <2>2, <2>8, <2>9 DEF Door
  <2>11. PlanFormed(q.plan)
    BY <2>4, <2>5, <2>8, <2>10 DEF PlanFormed
  <2>12. door' = [door EXCEPT ![d] = q]
    BY <2>2, <2>6, <2>7, <2>9
  <2> QED BY <1>1, <1>2, <1>3, <2>10, <2>11, <2>12, OneDoorHolds
<1> QED BY <1>5, <1>6

\* A door settles on its work or on a new row, or is refused.
LEMMA CommitDoorHolds ==
  ASSUME IInv, NEW d \in Doors, CommitDoor(d)
  PROVE  IInv'
<1>1. /\ UNCHANGED <<dismissed, pass, visits, acts>> /\ door[d].pc = "commit"
      /\ door' = [door EXCEPT ![d] = IdleDoor]
  BY DEF CommitDoor
<1>2. visits' \in 0..MaxPasses /\ acts' \in 0..MaxActs /\ door \in [Doors -> Door]
  BY <1>1 DEF IInv, TypeOK
<1>3. PICK p : p = door[d].plan
  OBVIOUS
<1>4. p \in Plan /\ PlanFormed(p)
  BY <1>1, <1>2, <1>3 DEF IInv, DoorFormed, Door
<1>5. CASE UNCHANGED identityVars
  <2>1. TablesHold /\ Advances
    BY <1>1, <1>5, TablesStill DEF IInv, TypeOK, identityVars
  <2> QED BY <1>1, <1>2, <2>1, DoorCloses
<1>6. CASE ~UNCHANGED identityVars
  <2>1. PICK w \in Works :
          /\ ~Refused(p)
          /\ IF p.work = None THEN work[w].gen = 0 /\ \A v \in Works : v < w => work[v].gen > 0
                              ELSE w = p.work
          /\ Written(p, w)
    BY <1>3, <1>6 DEF CommitDoor
  <2>2. Settling(p, w)
    BY <1>1, <1>4, <2>1 DEF Settling
  <2>3. TablesHold /\ Advances
    BY <2>2, WrittenHolds
  <2> QED BY <1>1, <1>2, <2>3, DoorCloses
<1> QED BY <1>5, <1>6

-----------------------------------------------------------------------------
(* The user.                                                               *)

\* An edit is a settlement under the user's eyes.
LEMMA EditHolds ==
  ASSUME IInv, NEW w \in Works, NEW t \in Titles, Edit(w, t)
  PROVE  IInv'
<1>1. PICK p : p = [NoPlan EXCEPT !.work = w, !.gen = work[w].gen, !.title = t, !.routes = Active(w),
                                  !.explicit = TRUE]
  OBVIOUS
<1>2. /\ UNCHANGED <<dismissed, pass, door, visits>> /\ acts < MaxActs /\ acts' = acts + 1
      /\ ~Refused(p) /\ Written(p, w)
  BY <1>1 DEF Edit, Act
<1>3. visits' \in 0..MaxPasses /\ acts' \in 0..MaxActs /\ work[w].gen \in Nat
  BY <1>2, BoundAssumption DEF IInv, TypeOK, Row
<1>4. PICK A \in SUBSET Routes : A = Active(w)
  BY ActiveRoutes
<1>5. p \in Plan /\ p.title = t /\ p.cards = {} /\ p.work = w
  BY <1>1, <1>3, <1>4 DEF NoPlan, Plan
<1>6. Settling(p, w)
  BY <1>2, <1>5 DEF Settling, PlanFormed
<1>7. TablesHold /\ Advances
  BY <1>6, WrittenHolds
<1> QED BY <1>2, <1>3, <1>7, NooneMoves

\* Questions that go leave the others as they were.
LEMMA FewerCards ==
  ASSUME IInv, cards' \subseteq cards, dismissed' \subseteq dismissed \cup cards,
         work' \in [Works -> Row],
         \A v \in Works : /\ work[v].gen <= work'[v].gen
                          /\ work'[v].title # None => work[v].title # None
  PROVE  cards' \subseteq Card /\ dismissed' \subseteq Card /\ Formed'
<1>1. \A v \in Works : work[v].gen \in Nat /\ work'[v].gen \in Nat
  BY DEF IInv, TypeOK, Row
<1>2. ASSUME NEW v \in Works, work'[v].title # None PROVE work'[v].gen > 0
  <2>1. work[v].gen > 0
    BY <1>2 DEF IInv, Formed, Live
  <2> QED BY <1>1, <2>1
<1>3. ASSUME NEW e \in cards' \cup dismissed', e.kind = "route"
      PROVE  \E v \in Works, r \in Routes : e = RouteCard(v, r) /\ work'[v].gen > 0
  <2>1. PICK v \in Works, r \in Routes : e = RouteCard(v, r) /\ work[v].gen > 0
    BY <1>3 DEF IInv, Formed, CardFormed
  <2> QED BY <1>1, <2>1
<1>4. Formed'
  BY <1>2, <1>3 DEF Formed, CardFormed, Live
<1> QED BY <1>4 DEF IInv, TypeOK

\* The user gives a route no work has to the work of its question.
LEMMA AffirmHolds ==
  ASSUME IInv, NEW c \in cards, Affirm(c)
  PROVE  IInv'
<1>1. /\ UNCHANGED <<pass, door, visits>> /\ acts < MaxActs /\ acts' = acts + 1
      /\ cards' = cards \ {c} /\ dismissed' \subseteq dismissed
      /\ c.kind = "route"
  BY DEF Affirm, Act, Revoked
<1>2. /\ visits' \in 0..MaxPasses /\ acts' \in 0..MaxActs
      /\ work \in [Works -> Row]
      /\ route \in [Works -> RoutesOf]
      /\ standing \in [Works -> [Providers -> {"none", "found", "not_found"}]]
      /\ attempts \in [Works -> Nat]
  BY <1>1, BoundAssumption DEF IInv, TypeOK
<1>3. PICK w \in Works, r \in Routes : c = RouteCard(w, r)
  BY <1>1 DEF IInv, Formed, CardFormed
<1>4. At(c) = w /\ c.routes = {r}
  BY <1>3, AtRouteCard DEF RouteCard
<1>5. (CHOOSE x \in c.routes : TRUE) = r
  BY <1>4
<1>6. CASE UNCHANGED <<work, route, standing, attempts>>
  <2>1. cards' \subseteq Card /\ dismissed' \subseteq Card /\ Formed'
    BY <1>1, <1>2, <1>6, FewerCards DEF Row
  <2>2. Live' = Live /\ (\A v : Active(v)' = Active(v))
    BY <1>6 DEF Live, Active
  <2>3. StatusAgrees' /\ NoTwins' /\ QuestionsOpen'
    BY <1>1, <1>6, <2>2 DEF IInv, StatusAgrees, NoTwins, QuestionsOpen
  <2>4. TablesHold
    BY <1>2, <1>6, <2>1, <2>3 DEF TablesHold
  <2>5. Advances
    BY <1>2, <1>6, <2>2 DEF Advances, Row
  <2> QED BY <1>1, <1>2, <2>4, <2>5, NooneMoves
<1>7. ASSUME route' = [route EXCEPT ![w] = Attached(w, {r}, {r})],
             work' = [work EXCEPT ![w].status = "user_confirmed", ![w].gen = @ + 1],
             standing' = Invalidated(w, Active(w), Active(w) \cup {r}),
             attempts' = [attempts EXCEPT ![w] = 0]
      PROVE  IInv'
  <2>1. work' \in [Works -> Row]
    <3>1. PICK x \in Row : x = work[w]
      BY <1>2
    <3>2. work' = [work EXCEPT ![w] = [x EXCEPT !.status = "user_confirmed", !.gen = x.gen + 1]]
      BY <1>2, <1>7, <3>1
    <3>3. [x EXCEPT !.status = "user_confirmed", !.gen = x.gen + 1] \in Row
      <4>1. PICK g \in Nat : g = x.gen + 1
        BY DEF Row
      <4>2. [x EXCEPT !.status = "user_confirmed", !.gen = g] \in Row
        BY DEF Row
      <4> QED BY <4>1, <4>2
    <3> QED BY <1>2, <3>2, <3>3
  <2>2. /\ \A v \in Works \ {w} : work'[v] = work[v]
        /\ work'[w].title = work[w].title /\ work'[w].distinct = work[w].distinct
        /\ work'[w].gen = work[w].gen + 1 /\ work'[w].status = "user_confirmed"
    <3>1. PICK x \in Row : x = work[w]
      BY <1>2
    <3>2. work' = [work EXCEPT ![w] = [x EXCEPT !.status = "user_confirmed", !.gen = x.gen + 1]]
      BY <1>2, <1>7, <3>1
    <3>3. /\ \A v \in Works \ {w} : work'[v] = work[v]
          /\ work'[w] = [x EXCEPT !.status = "user_confirmed", !.gen = x.gen + 1]
      BY <1>2, <3>2
    <3> QED BY <3>1, <3>3 DEF Row
  <2>3. \A v \in Works : work[v].gen \in Nat /\ work'[v].gen \in Nat
    BY <1>2, <2>1 DEF Row
  <2>4. route' \in [Works -> RoutesOf]
    BY <1>2, <1>7 DEF Attached, RoutesOf
  <2>5. /\ route'[w] = Attached(w, {r}, {r}) /\ Active(w)' = Active(w) \cup {r}
        /\ \A v \in Works \ {w} : route'[v] = route[v]
    BY <1>2, <1>7 DEF Active, Attached
  <2>6. \A v \in Works \ {w} : Active(v)' = Active(v)
    BY <2>5 DEF Active
  <2>7. Advances
    BY <2>2, <2>3, <2>6 DEF Advances
  <2>8. cards' \subseteq Card /\ dismissed' \subseteq Card /\ Formed'
    BY <1>1, <2>1, <2>2, <2>7, FewerCards DEF Advances
  <2>9. QuestionsOpen'
    <3> SUFFICES ASSUME NEW v \in Works, NEW x \in Routes, RouteCard(v, x) \in cards'
                 PROVE  work'[v].title # None /\ x \notin Active(v)'
      BY DEF QuestionsOpen, Live
    <3>1. RouteCard(v, x) \in cards /\ ~(v = w /\ x = r)
      BY <1>1, <1>3
    <3>2. work[v].title # None /\ x \notin Active(v)
      BY <3>1 DEF IInv, QuestionsOpen, Live
    <3>3. work'[v].title # None
      BY <2>2, <3>2
    <3> QED BY <2>5, <2>6, <3>1, <3>2, <3>3
  <2>10. NoTwins'
    <3>1. \A v \in Works : work'[v].title = work[v].title /\ work'[v].distinct = work[v].distinct
      BY <2>2
    <3> QED BY <3>1 DEF IInv, NoTwins, Live
  <2>11. StatusAgrees'
    <3> SUFFICES ASSUME NEW v \in Works, work'[v].title # None
                 PROVE  work'[v].status = StatusOf(route'[v])
      BY DEF StatusAgrees, Live
    <3>1. CASE v = w
      <4>1. r \in route'[w].confirmed
        BY <2>5 DEF Attached
      <4> QED BY <2>2, <3>1, <4>1 DEF StatusOf
    <3>2. CASE v # w
      <4>1. work'[v] = work[v] /\ route'[v] = route[v]
        BY <2>2, <2>5, <3>2
      <4> QED BY <4>1 DEF IInv, StatusAgrees, Live
    <3> QED BY <3>1, <3>2
  <2>12. standing' \in [Works -> [Providers -> {"none", "found", "not_found"}]]
    <3>1. Unanswered \in [Providers -> {"none", "found", "not_found"}]
      BY DEF Unanswered
    <3> QED BY <1>2, <1>7, <3>1 DEF Invalidated
  <2>13. attempts' \in [Works -> Nat]
    BY <1>2, <1>7
  <2>14. TablesHold
    BY <2>1, <2>4, <2>8, <2>9, <2>10, <2>11, <2>12, <2>13 DEF TablesHold
  <2> QED BY <1>1, <1>2, <2>7, <2>14, NooneMoves
<1> QED
  <2>1. \/ UNCHANGED <<work, route, standing, attempts>>
        \/ /\ route' = [route EXCEPT ![w] = Attached(w, {r}, {r})]
           /\ work' = [work EXCEPT ![w].status = "user_confirmed", ![w].gen = @ + 1]
           /\ standing' = Invalidated(w, Active(w), Active(w) \cup {r})
           /\ attempts' = [attempts EXCEPT ![w] = 0]
    BY <1>4, <1>5 DEF Affirm
  <2> QED BY <2>1, <1>6, <1>7

\* "Different" tells works apart and changes nothing else of them.
LEMMA DifferentHolds ==
  ASSUME IInv, NEW c \in cards, DifferentFromAll(c)
  PROVE  IInv'
<1>1. PICK w : w = At(c)
  OBVIOUS
<1>2. /\ UNCHANGED <<route, standing, dismissed, pass, door, visits>>
      /\ acts < MaxActs /\ acts' = acts + 1 /\ cards' = cards \ {c}
      /\ work' = [work EXCEPT ![w].distinct = TRUE, ![w].gen = @ + 1]
      /\ attempts' = [attempts EXCEPT ![w] = 0]
      /\ w \in Works
  BY <1>1 DEF DifferentFromAll, Act, Live
<1>3. /\ visits' \in 0..MaxPasses /\ acts' \in 0..MaxActs
      /\ work \in [Works -> Row] /\ attempts \in [Works -> Nat]
  BY <1>2, BoundAssumption DEF IInv, TypeOK
<1>4. work' \in [Works -> Row]
  BY <1>2, <1>3 DEF Row
<1>5. /\ \A v \in Works \ {w} : work'[v] = work[v]
      /\ work'[w].title = work[w].title /\ work'[w].distinct = TRUE
      /\ work'[w].gen = work[w].gen + 1 /\ work'[w].status = work[w].status
  BY <1>2, <1>3 DEF Row
<1>6. \A v \in Works : work[v].gen \in Nat
  BY <1>3 DEF Row
<1>7. (\A v : Active(v)' = Active(v))
  BY <1>2 DEF Active
<1>8. Advances
  BY <1>5, <1>6, <1>7 DEF Advances
<1>9. cards' \subseteq Card /\ dismissed' \subseteq Card /\ Formed'
  BY <1>2, <1>4, <1>5, <1>8, FewerCards DEF Advances
<1>10. \A v \in Works : /\ work'[v].title = work[v].title /\ work'[v].status = work[v].status
                        /\ work[v].distinct => work'[v].distinct
  BY <1>5
<1>11. Live' = Live
  BY <1>10 DEF Live
<1>12. StatusAgrees'
  BY <1>2, <1>7, <1>10, <1>11 DEF IInv, StatusAgrees, Live
<1>13. NoTwins'
  BY <1>10, <1>11 DEF IInv, NoTwins, Live
<1>14. QuestionsOpen'
  BY <1>2, <1>11 DEF IInv, QuestionsOpen, Active
<1>15. attempts' \in [Works -> Nat]
  BY <1>2, <1>3
<1>16. TablesHold
  BY <1>2, <1>4, <1>9, <1>12, <1>13, <1>14, <1>15 DEF TablesHold, IInv, TypeOK
<1> QED BY <1>2, <1>3, <1>8, <1>16, NooneMoves

\* A dismissal takes a question.
LEMMA DismissHolds ==
  ASSUME IInv, NEW c \in cards, Dismiss(c)
  PROVE  IInv'
<1>1. /\ UNCHANGED <<work, route, standing, attempts, pass, door, visits>>
      /\ acts < MaxActs /\ acts' = acts + 1 /\ cards' = cards \ {c}
      /\ dismissed' = dismissed \cup {c}
  BY DEF Dismiss, Act
<1>2. /\ visits' \in 0..MaxPasses /\ acts' \in 0..MaxActs /\ work \in [Works -> Row]
  BY <1>1, BoundAssumption DEF IInv, TypeOK
<1>3. cards' \subseteq Card /\ dismissed' \subseteq Card /\ Formed'
  BY <1>1, <1>2, FewerCards DEF Row
<1>4. Live' = Live /\ (\A v : Active(v)' = Active(v))
  BY <1>1 DEF Live, Active
<1>5. StatusAgrees' /\ NoTwins' /\ QuestionsOpen'
  BY <1>1, <1>4 DEF IInv, StatusAgrees, NoTwins, QuestionsOpen
<1>6. TablesHold
  BY <1>1, <1>3, <1>5 DEF TablesHold, IInv, TypeOK
<1>7. Advances
  BY <1>1, <1>2, <1>4 DEF Advances, Row
<1> QED BY <1>1, <1>2, <1>6, <1>7, NooneMoves

\* A deleted work takes its routes and questions along; its row id is not given out again.
LEMMA DeleteWorkHolds ==
  ASSUME IInv, NEW w \in Works, DeleteWork(w)
  PROVE  IInv'
<1>1. /\ UNCHANGED <<dismissed, pass, door, visits>>
      /\ acts < MaxActs /\ acts' = acts + 1
      /\ work' = [work EXCEPT ![w].title = None, ![w].distinct = FALSE, ![w].status = "not_connected"]
      /\ route' = [route EXCEPT ![w] = NoRoutes]
      /\ cards' = {c \in cards : At(c) # w}
      /\ standing' = [standing EXCEPT ![w] = Unanswered]
      /\ attempts' = [attempts EXCEPT ![w] = 0]
  BY DEF DeleteWork, Act
<1>2. /\ visits' \in 0..MaxPasses /\ acts' \in 0..MaxActs
      /\ work \in [Works -> Row]
      /\ route \in [Works -> RoutesOf]
      /\ standing \in [Works -> [Providers -> {"none", "found", "not_found"}]]
      /\ attempts \in [Works -> Nat]
  BY <1>1, BoundAssumption DEF IInv, TypeOK
<1>3. work' \in [Works -> Row]
  <2>1. PICK x \in Row : x = work[w]
    BY <1>2
  <2>2. work' = [work EXCEPT ![w] = [x EXCEPT !.title = None, !.distinct = FALSE, !.status = "not_connected"]]
    BY <1>1, <1>2, <2>1
  <2>3. [x EXCEPT !.title = None, !.distinct = FALSE, !.status = "not_connected"] \in Row
    BY DEF Row
  <2> QED BY <1>2, <2>2, <2>3
<1>4. /\ \A v \in Works \ {w} : work'[v] = work[v]
      /\ work'[w].title = None /\ work'[w].gen = work[w].gen
  <2>1. PICK x \in Row : x = work[w]
    BY <1>2
  <2>2. work' = [work EXCEPT ![w] = [x EXCEPT !.title = None, !.distinct = FALSE, !.status = "not_connected"]]
    BY <1>1, <1>2, <2>1
  <2>3. /\ \A v \in Works \ {w} : work'[v] = work[v]
        /\ work'[w] = [x EXCEPT !.title = None, !.distinct = FALSE, !.status = "not_connected"]
    BY <1>2, <2>2
  <2> QED BY <2>1, <2>3 DEF Row
<1>5. \A v \in Works : work[v].gen \in Nat
  BY <1>2 DEF Row
<1>6. route' \in [Works -> RoutesOf]
  BY <1>1, <1>2 DEF NoRoutes, RoutesOf
<1>7. \A v \in Works \ {w} : route'[v] = route[v]
  BY <1>1, <1>2
<1>8. \A v \in Works \ {w} : Active(v)' = Active(v)
  BY <1>7 DEF Active
<1>9. Advances
  BY <1>4, <1>5, <1>8 DEF Advances
<1>10. cards' \subseteq Card /\ dismissed' \subseteq Card /\ Formed'
  BY <1>1, <1>3, <1>4, <1>9, FewerCards DEF Advances
<1>11. QuestionsOpen'
  <2> SUFFICES ASSUME NEW v \in Works, NEW x \in Routes, RouteCard(v, x) \in cards'
               PROVE  work'[v].title # None /\ x \notin Active(v)'
    BY DEF QuestionsOpen, Live
  <2>1. RouteCard(v, x) \in cards /\ v # w
    BY <1>1, AtRouteCard
  <2>2. work[v].title # None /\ x \notin Active(v)
    BY <2>1 DEF IInv, QuestionsOpen, Live
  <2> QED BY <1>4, <1>8, <2>1, <2>2
<1>12. NoTwins'
  <2>1. Live' = Live \ {w} /\ \A v \in Live' : work'[v] = work[v]
    BY <1>4 DEF Live
  <2> QED BY <2>1 DEF IInv, NoTwins
<1>13. StatusAgrees'
  <2> SUFFICES ASSUME NEW v \in Works, work'[v].title # None
               PROVE  work'[v].status = StatusOf(route'[v])
    BY DEF StatusAgrees, Live
  <2>1. v # w /\ work'[v] = work[v] /\ route'[v] = route[v]
    BY <1>4, <1>7
  <2> QED BY <2>1 DEF IInv, StatusAgrees, Live
<1>14. standing' \in [Works -> [Providers -> {"none", "found", "not_found"}]] /\ attempts' \in [Works -> Nat]
  <2>1. Unanswered \in [Providers -> {"none", "found", "not_found"}]
    BY DEF Unanswered
  <2> QED BY <1>1, <1>2, <2>1
<1>15. TablesHold
  BY <1>3, <1>6, <1>10, <1>11, <1>12, <1>13, <1>14 DEF TablesHold
<1> QED BY <1>1, <1>2, <1>9, <1>15, NooneMoves

-----------------------------------------------------------------------------
(* The invariant, and what follows from it.                                *)

\* A library as the doors leave it.
LEMMA InitHolds == Init => IInv
<1> SUFFICES ASSUME Init PROVE IInv
  OBVIOUS
<1>1. PICK lib \in Libraries :
        /\ work = [w \in Works |->
            [title |-> lib.title[w], distinct |-> FALSE,
             gen |-> IF lib.title[w] = None THEN 0 ELSE 1,
             status |-> StatusOf([active |-> lib.routes[w], confirmed |-> {}])]]
        /\ route = [w \in Works |-> [active |-> lib.routes[w], confirmed |-> {}]]
  BY DEF Init
<1>2. /\ cards = {} /\ dismissed = {}
      /\ standing = [w \in Works |-> Unanswered] /\ attempts = [w \in Works |-> 0]
      /\ pass = [m \in Machines |-> IdlePass] /\ door = [d \in Doors |-> IdleDoor]
      /\ visits = 0 /\ acts = 0
  BY DEF Init
<1>3. PICK live \in SUBSET Works :
        /\ live = {w \in Works : lib.title[w] # None}
        /\ lib \in [title : [Works -> Titles \cup {None}], routes : [Works -> SUBSET Routes]]
        /\ \A v \in live, w \in Works : w \in live /\ Main[lib.title[v]] = Main[lib.title[w]] => v = w
  BY LibrariesAssumption
<1>4. lib.title \in [Works -> Titles \cup {None}] /\ lib.routes \in [Works -> SUBSET Routes]
  BY <1>3
<1>5. \A w \in Works : /\ work[w].title = lib.title[w]
                       /\ work[w].gen = IF lib.title[w] = None THEN 0 ELSE 1
                       /\ work[w].status = StatusOf([active |-> lib.routes[w], confirmed |-> {}])
  BY <1>1
<1>6. TypeOK
  <2>1. work \in [Works -> Row]
    <3> SUFFICES ASSUME NEW w \in Works PROVE work[w] \in Row
      BY <1>1
    <3>1. StatusOf([active |-> lib.routes[w], confirmed |-> {}]) \in {"not_connected", "connected", "user_confirmed"}
      BY DEF StatusOf
    <3> QED BY <1>1, <1>4, <3>1 DEF Row
  <2>2. route \in [Works -> RoutesOf]
    BY <1>1, <1>4 DEF RoutesOf
  <2>3. standing \in [Works -> [Providers -> {"none", "found", "not_found"}]] /\ attempts \in [Works -> Nat]
    BY <1>2 DEF Unanswered
  <2>4. pass \in [Machines -> Pass] /\ door \in [Doors -> Door]
    BY <1>2 DEF IdlePass, IdleDoor, NoPlan, Pass, Door, Plan
  <2> QED BY <1>2, <2>1, <2>2, <2>3, <2>4, BoundAssumption DEF TypeOK
<1>7. Formed
  <2>1. ASSUME NEW w \in Works, work[w].title # None PROVE work[w].gen > 0
    <3>1. work[w].gen = 1
      BY <1>5, <2>1
    <3> QED BY <3>1
  <2>2. cards \cup dismissed = {}
    BY <1>2
  <2> QED BY <2>1, <2>2 DEF Formed, Live
<1>8. \A m \in Machines : CaptureHonest(m) /\ PlanHonest(m)
  BY <1>2 DEF CaptureHonest, PlanHonest, IdlePass
<1>9. \A d \in Doors : DoorFormed(d)
  BY <1>2 DEF DoorFormed, IdleDoor
<1>10. StatusAgrees
  BY <1>1, <1>5 DEF StatusAgrees, Live
<1>11. QuestionsOpen
  BY <1>2 DEF QuestionsOpen
<1>12. NoTwins
  <2> SUFFICES ASSUME NEW v \in Live, NEW w \in Live, work[v].title = work[w].title, v # w
               PROVE  FALSE
    BY DEF NoTwins
  <2>1. v \in live /\ w \in live /\ w \in Works /\ lib.title[v] = lib.title[w]
    BY <1>3, <1>5 DEF Live
  <2> QED BY <1>3, <2>1
<1> QED BY <1>6, <1>7, <1>8, <1>9, <1>10, <1>11, <1>12 DEF IInv

\* Every step keeps the invariant, and so does none.
LEMMA NextHolds == IInv /\ [Next]_vars => IInv'
<1> SUFFICES ASSUME IInv, [Next]_vars PROVE IInv'
  OBVIOUS
<1>1. CASE PassStep
  BY <1>1, DispatchHolds, GatherHolds, HandoffHolds, SettleReadHolds, CommitHolds, MintHolds,
     BurnHolds, PassDiesHolds DEF PassStep
<1>2. CASE DoorStep
  BY <1>2, OpenDoorHolds, ReadTargetHolds, CommitDoorHolds DEF DoorStep
<1>3. CASE UserStep
  BY <1>3, EditHolds, AffirmHolds, DifferentHolds, DismissHolds, DeleteWorkHolds DEF UserStep
<1>4. CASE UNCHANGED vars
  <2>1. UNCHANGED <<work, route, cards, dismissed, standing, attempts, pass, door, visits, acts>>
    BY <1>4 DEF vars
  <2>2. TablesHold /\ Advances
    BY <2>1, TablesStill DEF IInv, TypeOK
  <2>3. visits' \in 0..MaxPasses /\ acts' \in 0..MaxActs
    BY <2>1 DEF IInv, TypeOK
  <2> QED BY <2>1, <2>2, <2>3, NooneMoves
<1> QED BY <1>1, <1>2, <1>3, <1>4 DEF Next

\* The inductive invariant holds in every state.
THEOREM InvariantHolds == Spec => []IInv
BY InitHolds, NextHolds, PTL DEF Spec

\* Every table, pass and door keeps its shape.
THEOREM TypesHold == Spec => []TypeOK
<1>1. IInv => TypeOK
  BY DEF IInv
<1> QED BY <1>1, InvariantHolds, PTL

\* identity_status_v2 is the status of the routes the work has, through settlements,
\* answers and deletions.
THEOREM StatusIsOfTheRoutes == Spec => []StatusAgrees
<1>1. IInv => StatusAgrees
  BY DEF IInv
<1> QED BY <1>1, InvariantHolds, PTL

\* No pending route card asks about a route its work has, or about a work that is gone:
\* cancel_satisfied_pending_route_cards and the generation of the handoff are enough.
THEOREM QuestionsStayOpen == Spec => []QuestionsOpen
<1>1. IInv => QuestionsOpen
  BY DEF IInv
<1> QED BY <1>1, InvariantHolds, PTL

\* idx_works_identity_v2, which settlements answer for, keeps one identity one work.
THEOREM OneIdentityOneWork == Spec => []NoTwins
<1>1. IInv => NoTwins
  BY DEF IInv
<1> QED BY <1>1, InvariantHolds, PTL

-----------------------------------------------------------------------------
(* What a step may never do.                                               *)

\* Apart from the settlements, no step attaches a route but the user's.
LEMMA PassMoves ==
  ASSUME IInv, [Next]_vars, pass' # pass
  PROVE  PassStep
<1>1. DoorStep => pass' = pass
  BY DEF DoorStep, OpenDoor, ReadTarget, CommitDoor
<1>2. UserStep => pass' = pass
  BY DEF UserStep, Edit, Affirm, DifferentFromAll, Dismiss, DeleteWork
<1>3. UNCHANGED vars => pass' = pass
  BY DEF vars
<1> QED BY <1>1, <1>2, <1>3 DEF Next

\* A pass writes routes only when it commits, on the work of its plan.
LEMMA PassWrites ==
  ASSUME IInv, PassStep
  PROVE  \/ UNCHANGED <<work, route, dismissed>>
         \/ \E m \in Machines :
              /\ pass[m].pc = "commit" /\ ~Suppressed(pass[m].plan)
              /\ Settling(pass[m].plan, pass[m].plan.work)
<1>a. ASSUME NEW m \in Machines, NEW w \in Works, NEW refresh \in BOOLEAN, Dispatch(m, w, refresh)
      PROVE  UNCHANGED <<work, route, dismissed>>
  BY <1>a DEF Dispatch
<1>b. ASSUME NEW m \in Machines, Gather(m) PROVE UNCHANGED <<work, route, dismissed>>
  BY <1>b DEF Gather
<1>c. ASSUME NEW m \in Machines, Mint(m) \/ Burn(m) PROVE UNCHANGED <<work, route, dismissed>>
  BY <1>c DEF Mint, Burn
<1>d. ASSUME NEW m \in Machines, Handoff(m) \/ SettleRead(m) \/ PassDies(m)
      PROVE  UNCHANGED <<work, route, dismissed>>
  BY <1>d DEF Handoff, SettleRead, PassDies, identityVars
<1> SUFFICES ASSUME NEW m \in Machines, Commit(m)
             PROVE  \/ UNCHANGED <<work, route, dismissed>>
                    \/ /\ pass[m].pc = "commit" /\ ~Suppressed(pass[m].plan)
                       /\ Settling(pass[m].plan, pass[m].plan.work)
  BY <1>a, <1>b, <1>c, <1>d DEF PassStep
<1>1. pass[m].pc = "commit" /\ UNCHANGED dismissed
  BY DEF Commit
<1>2. pass[m].plan \in Plan /\ PlanFormed(pass[m].plan) /\ pass[m].plan.work \in Works
  BY <1>1 DEF IInv, PlanHonest, TypeOK, Pass
<1>3. \/ UNCHANGED <<work, route>>
      \/ /\ ~Suppressed(pass[m].plan) /\ ~Refused(pass[m].plan)
         /\ Written(pass[m].plan, pass[m].plan.work)
  BY DEF Commit, identityVars
<1> QED BY <1>1, <1>2, <1>3 DEF Settling

\* The compare-and-set on the generation is enough: a pass never gives a work a second
\* id of a provider, although it judged the routes in an earlier transaction.
THEOREM PassesNeverContradict == Spec => PassNeverContradicts
<1>1. ASSUME IInv, [Next]_vars
      PROVE  pass' # pass =>
               \A w \in Works : ~Contradicts(Active(w)' \ Active(w), Active(w))
  <2> SUFFICES ASSUME pass' # pass, NEW w \in Works, NEW r \in Active(w)' \ Active(w)
               PROVE  ~Contradicts({r}, Active(w))
    BY DEF Contradicts
  <2>1. PassStep
    BY <1>1, PassMoves
  <2>2. PICK m \in Machines : /\ pass[m].pc = "commit"
                              /\ Settling(pass[m].plan, pass[m].plan.work)
    BY <1>1, <2>1, PassWrites DEF Active
  <2>3. PICK p : p = pass[m].plan
    OBVIOUS
  <2>4. Settling(p, p.work)
    BY <2>2, <2>3
  <2>5. r \in p.routes /\ p.work = w
    BY <1>1, <2>4, WrittenRoutes
  <2>6. work[w].title # None /\ work[w].gen = p.gen
    BY <1>1, <2>4, <2>5, WrittenRow
  <2>7. \A x \in p.routes \ Active(w) : ~Contradicts({x}, Active(w))
    BY <1>1, <2>2, <2>3, <2>5, <2>6 DEF IInv, PlanHonest
  <2> QED BY <2>5, <2>7 DEF Active
<1> QED BY <1>1, InvariantHolds, PTL DEF Spec, PassNeverContradicts

\* A pass asks about a route only when it mints, at the generation of its capture, and
\* what the user has not dismissed.
LEMMA PassAsks ==
  ASSUME IInv, PassStep, NEW c \in cards' \ cards
  PROVE  /\ c \notin dismissed
         /\ c.kind = "route" => \E m \in Machines :
              /\ Fresh(m) /\ pass[m].pc = "mint" /\ \E r \in pass[m].props : c = RouteCard(pass[m].work, r)
<1>a. ASSUME NEW m \in Machines, NEW w \in Works, NEW refresh \in BOOLEAN, Dispatch(m, w, refresh)
      PROVE  FALSE
  BY <1>a DEF Dispatch
<1>b. ASSUME NEW m \in Machines, Gather(m) PROVE FALSE
  BY <1>b DEF Gather
<1>c. ASSUME NEW m \in Machines, Burn(m) PROVE FALSE
  BY <1>c DEF Burn
<1>d. ASSUME NEW m \in Machines, Handoff(m) \/ SettleRead(m) \/ PassDies(m) PROVE FALSE
  BY <1>d DEF Handoff, SettleRead, PassDies, identityVars
<1>e. ASSUME NEW m \in Machines, Mint(m)
      PROVE  /\ c \notin dismissed
             /\ Fresh(m) /\ pass[m].pc = "mint" /\ \E r \in pass[m].props : c = RouteCard(pass[m].work, r)
  BY <1>e DEF Mint
<1>f. ASSUME NEW m \in Machines, Commit(m)
      PROVE  c \notin dismissed /\ c.kind # "route"
  <2>1. pass[m].pc = "commit" /\ UNCHANGED dismissed
    BY <1>f DEF Commit
  <2>2. PICK p : p = pass[m].plan
    OBVIOUS
  <2>3. p \in Plan /\ PlanFormed(p) /\ p.work \in Works /\ ~p.explicit
    BY <2>1, <2>2 DEF IInv, PlanHonest, TypeOK, Pass
  <2>4. ~Refused(p) /\ Written(p, p.work)
    BY <1>f, <2>2 DEF Commit, identityVars
  <2>5. Settling(p, p.work)
    BY <2>1, <2>3, <2>4 DEF Settling
  <2> QED BY <2>3, <2>5, WrittenCards
<1> QED BY <1>a, <1>b, <1>c, <1>d, <1>e, <1>f DEF PassStep

\* A settlement no user stands at leaves what was dismissed.
LEMMA SettlingRespects ==
  ASSUME IInv, NEW p, NEW w, Settling(p, w), ~p.explicit, ~Suppressed(p), NEW c \in dismissed
  PROVE  /\ c \notin cards' \ cards
         /\ c.kind = "route" => c.routes \cap Active(At(c))' \subseteq Active(At(c))
<1>1. c \notin cards' \ cards
  BY WrittenCards
<1>2. ASSUME c.kind = "route", NEW r \in c.routes, r \in Active(At(c))', r \notin Active(At(c))
      PROVE  FALSE
  <2>1. PICK v \in Works, x \in Routes : c = RouteCard(v, x) /\ work[v].gen > 0
    BY <1>2 DEF IInv, Formed, CardFormed
  <2>2. At(c) = v /\ r = x
    BY <1>2, <2>1, AtRouteCard DEF RouteCard
  <2>3. x \in p.routes /\ v = w
    BY <1>2, <2>2, WrittenRoutes
  <2>4. p.work = w /\ w # None
    BY <2>1, <2>3, NoneAssumption DEF Settling
  <2>5. x \in p.routes \ Active(w)
    BY <1>2, <2>2, <2>3
  <2> QED BY <2>1, <2>3, <2>4, <2>5 DEF Suppressed
<1> QED BY <1>1, <1>2

\* The doors write only when they commit.
LEMMA DoorWrites ==
  ASSUME IInv, [Next]_vars, NEW d \in Doors, door[d].pc = "commit", door'[d] # door[d]
  PROVE  CommitDoor(d)
<1>1. door \in [Doors -> Door]
  BY DEF IInv, TypeOK
<1>2. PassStep => door' = door
  BY DEF PassStep, Dispatch, Gather, Handoff, SettleRead, Commit, Mint, Burn, PassDies
<1>3. UserStep => door' = door
  BY DEF UserStep, Edit, Affirm, DifferentFromAll, Dismiss, DeleteWork
<1>4. UNCHANGED vars => door' = door
  BY DEF vars
<1>5. DoorStep
  BY <1>2, <1>3, <1>4 DEF Next
<1>6. ASSUME NEW e \in Doors, NEW t \in Titles, NEW R \in Offers, NEW explicit \in BOOLEAN,
             OpenDoor(e, t, R, explicit)
      PROVE  FALSE
  BY <1>1, <1>6 DEF OpenDoor
<1>7. ASSUME NEW e \in Doors, ReadTarget(e) PROVE FALSE
  BY <1>1, <1>7 DEF ReadTarget
<1>8. ASSUME NEW e \in Doors, CommitDoor(e) PROVE e = d
  BY <1>1, <1>8 DEF CommitDoor
<1> QED BY <1>5, <1>6, <1>7, <1>8 DEF DoorStep

\* review_card_suppression is looked up in the transaction that writes: what the user
\* dismissed, no pass and no monitor's door asks again or attaches.
THEOREM DismissalsStand == Spec => DismissalStands
<1>1. ASSUME IInv, [Next]_vars
      PROVE  MachineStep =>
               \A c \in dismissed :
                 /\ c \notin cards' \ cards
                 /\ c.kind = "route" =>
                      c.routes \cap Active(At(c))' \subseteq Active(At(c))
  <2> SUFFICES ASSUME MachineStep, NEW c \in dismissed
               PROVE  /\ c \notin cards' \ cards
                      /\ c.kind = "route" =>
                           c.routes \cap Active(At(c))' \subseteq Active(At(c))
    OBVIOUS
  <2>1. CASE pass' # pass
    <3>1. PassStep
      BY <1>1, <2>1, PassMoves
    <3>2. c \notin cards' \ cards
      BY <1>1, <3>1, PassAsks
    <3>3. CASE UNCHANGED <<work, route, dismissed>>
      BY <3>2, <3>3 DEF Active
    <3>4. CASE ~UNCHANGED <<work, route, dismissed>>
      <4>1. PICK m \in Machines : /\ pass[m].pc = "commit" /\ ~Suppressed(pass[m].plan)
                                  /\ Settling(pass[m].plan, pass[m].plan.work)
        BY <1>1, <3>1, <3>4, PassWrites
      <4>2. ~pass[m].plan.explicit
        BY <1>1, <4>1 DEF IInv, PlanHonest
      <4> QED BY <1>1, <4>1, <4>2, SettlingRespects
    <3> QED BY <3>3, <3>4
  <2>2. CASE pass' = pass
    <3>1. PICK d \in Doors : door[d].pc = "commit" /\ ~door[d].plan.explicit /\ door'[d] # door[d]
      BY <2>2 DEF MachineStep
    <3>2. CommitDoor(d)
      BY <1>1, <3>1, DoorWrites
    <3>3. CASE UNCHANGED identityVars
      BY <3>3 DEF identityVars, Active
    <3>4. CASE ~UNCHANGED identityVars
      <4>1. PICK w \in Works :
              /\ ~Refused(door[d].plan) /\ ~Suppressed(door[d].plan)
              /\ IF door[d].plan.work = None THEN work[w].gen = 0 ELSE w = door[d].plan.work
              /\ Written(door[d].plan, w)
        BY <3>2, <3>4 DEF CommitDoor
      <4>2. door[d].plan \in Plan /\ PlanFormed(door[d].plan)
        BY <1>1, <3>1 DEF IInv, DoorFormed, TypeOK, Door
      <4>3. UNCHANGED dismissed
        BY <3>2 DEF CommitDoor
      <4>4. Settling(door[d].plan, w)
        BY <4>1, <4>2, <4>3 DEF Settling
      <4> QED BY <1>1, <3>1, <4>1, <4>4, SettlingRespects
    <3> QED BY <3>3, <3>4
  <2> QED BY <2>1, <2>2
<1> QED BY <1>1, InvariantHolds, PTL DEF Spec, DismissalStands

\* Of the machines, the one that steps.
Moves(m) ==
  \/ \E w \in Works, refresh \in BOOLEAN : Dispatch(m, w, refresh)
  \/ Gather(m) \/ Handoff(m) \/ SettleRead(m) \/ Commit(m) \/ Mint(m) \/ Burn(m) \/ PassDies(m)

\* Who has changed has stepped.
LEMMA Mover ==
  ASSUME IInv, [Next]_vars, NEW m \in Machines, pass'[m] # pass[m]
  PROVE  Moves(m)
<1>1. PassStep
  BY PassMoves
<1>2. pass \in [Machines -> Pass]
  BY DEF IInv, TypeOK
<1>3. PICK k \in Machines : Moves(k)
  BY <1>1 DEF PassStep, Moves
<1>4. CASE k = m
  BY <1>3, <1>4
<1>5. CASE k # m
  <2>1. ASSUME NEW w \in Works, NEW refresh \in BOOLEAN, Dispatch(k, w, refresh) PROVE pass'[m] = pass[m]
    BY <1>2, <1>5, <2>1 DEF Dispatch
  <2>2. Gather(k) => pass'[m] = pass[m]
    BY <1>2, <1>5 DEF Gather, Answered, End
  <2>3. Handoff(k) \/ PassDies(k) \/ Burn(k) => pass'[m] = pass[m]
    BY <1>2, <1>5 DEF Handoff, PassDies, Burn, End, Goto
  <2>4. SettleRead(k) => pass'[m] = pass[m]
    BY <1>2, <1>5 DEF SettleRead, End
  <2>5. Commit(k) => pass'[m] = pass[m]
    BY <1>2, <1>5 DEF Commit, End
  <2>6. Mint(k) => pass'[m] = pass[m]
    BY <1>2, <1>5 DEF Mint, End, Goto
  <2> QED BY <1>3, <2>1, <2>2, <2>3, <2>4, <2>5, <2>6 DEF Moves
<1> QED BY <1>4, <1>5

\* A work at the generation of a capture is the book of the capture.
LEMMA FreshIsCaptured ==
  ASSUME IInv, NEW m \in Machines, Fresh(m), pass[m].pc # "idle"
  PROVE  Captured(m)
BY DEF IInv, CaptureHonest, Fresh, Captured, Live

\* The generation of the capture guards the ledger and the questions: a pass spends an
\* attempt, or asks about a route, only of the book it went out to look for.
THEOREM ChargesOwnIdentity == Spec => ChargedToOwnIdentity
<1>1. ASSUME IInv, [Next]_vars
      PROVE  \A m \in Machines :
               pass'[m] # pass[m] =>
                 /\ attempts' # attempts /\ work' = work => Captured(m)
                 /\ (\E r \in Routes : RouteCard(pass[m].work, r) \in cards' \ cards) => Captured(m)
  <2> SUFFICES ASSUME NEW m \in Machines, pass'[m] # pass[m]
               PROVE  /\ attempts' # attempts /\ work' = work => Captured(m)
                      /\ (\E r \in Routes : RouteCard(pass[m].work, r) \in cards' \ cards) => Captured(m)
    OBVIOUS
  <2>1. Moves(m)
    BY <1>1, Mover
  <2>2. ASSUME NEW w \in Works, NEW refresh \in BOOLEAN, Dispatch(m, w, refresh)
        PROVE  UNCHANGED <<attempts, cards>>
    BY <2>2 DEF Dispatch
  <2>3. Gather(m) => UNCHANGED <<attempts, cards>>
    BY DEF Gather
  <2>4. Handoff(m) \/ SettleRead(m) \/ PassDies(m) => UNCHANGED <<attempts, cards>>
    BY DEF Handoff, SettleRead, PassDies, identityVars
  <2>5. CASE Commit(m)
    <3>1. CASE UNCHANGED identityVars
      BY <3>1 DEF identityVars
    <3>2. CASE ~UNCHANGED identityVars
      <4>1. PICK p : p = pass[m].plan
        OBVIOUS
      <4>2. /\ pass[m].pc = "commit" /\ UNCHANGED dismissed
            /\ ~Refused(p) /\ Written(p, p.work)
        BY <2>5, <3>2, <4>1 DEF Commit
      <4>3. p \in Plan /\ PlanFormed(p) /\ p.work \in Works
        BY <1>1, <4>1, <4>2 DEF IInv, PlanHonest, TypeOK, Pass
      <4>4. Settling(p, p.work)
        BY <4>2, <4>3 DEF Settling
      <4>5. work'[p.work].gen = work[p.work].gen + 1 /\ work[p.work].gen \in Nat
        BY <1>1, <4>3, <4>4, WrittenRow DEF IInv, TypeOK, Row
      <4>6. work' # work
        BY <4>5
      <4>7. \A r : RouteCard(pass[m].work, r) \notin cards' \ cards
        <5>1. \A r : RouteCard(pass[m].work, r).kind = "route"
          BY DEF RouteCard
        <5> QED BY <1>1, <4>4, <5>1, WrittenCards
      <4> QED BY <4>6, <4>7
    <3> QED BY <3>1, <3>2
  <2>6. CASE Mint(m)
    <3>1. UNCHANGED attempts /\ pass[m].pc # "idle" /\ (cards' = cards \/ Fresh(m))
      BY <2>6 DEF Mint
    <3> QED BY <1>1, <3>1, FreshIsCaptured
  <2>7. CASE Burn(m)
    <3>1. UNCHANGED cards /\ pass[m].pc # "idle" /\ (attempts' = attempts \/ Fresh(m))
      BY <2>7 DEF Burn, Charged
    <3> QED BY <1>1, <3>1, FreshIsCaptured
  <2> QED BY <2>1, <2>2, <2>3, <2>4, <2>5, <2>6, <2>7 DEF Moves
<1> QED BY <1>1, InvariantHolds, PTL DEF Spec, ChargedToOwnIdentity
=============================================================================
