--------------------------- MODULE CoverGate_proofs ---------------------------
(***************************************************************************)
(* For any covers, tasks, hosts, crashes and failed calls: as long as none *)
(* of the interleavings in lapse has happened, the row describes the       *)
(* served file or its bytes wait beside it, recovery settles what a crash  *)
(* cut off, an automatic change is an upgrade, and the user's choice is    *)
(* not replaced.                                                           *)
(***************************************************************************)
EXTENDS CoverGate, TLAPS

LEMMA Sentinels ==
  /\ NoFile # Torn /\ NoFile \notin Covers /\ Torn \notin Covers
  /\ NoFile \notin Row /\ Torn \notin Row /\ Gone \notin Row
  /\ NoTask # Recovery /\ NoTask \notin Tasks /\ Recovery \notin Tasks
BY SentinelAssumption, CoverAssumption

LEMMA OffersAreBusy == \A o \in Offers : o # Idle
BY SentinelAssumption

LEMMA RowOfIs ==
  ASSUME NEW c \in Covers, NEW m \in BOOLEAN
  PROVE  /\ RowOf(c, m) \in Row
         /\ RowOf(c, m).url = c.url /\ RowOf(c, m).source = c.source
         /\ RowOf(c, m).w = c.w /\ RowOf(c, m).h = c.h /\ RowOf(c, m).manual = m
         /\ RowOf(c, m).source # "none"
         /\ Described(RowOf(c, m), c)
<1>1. c \in Cover /\ c.source # "none"
  BY CoverAssumption
<1> QED BY <1>1 DEF RowOf, Row, Cover, Described

LEMMA EmptyRowType == EmptyRow \in Row
BY DEF EmptyRow, Row, OtherSource

LEMMA NoFirstType == NoFirst \in [cover : Covers, manual : BOOLEAN]
<1>1. (CHOOSE c \in Covers : TRUE) \in Covers
  BY CoverAssumption
<1> QED BY <1>1 DEF NoFirst

LEMMA CreatedRowIs ==
  ASSUME first \in [cover : Covers, manual : BOOLEAN]
  PROVE  /\ CreatedRow \in Row /\ CreatedRow.source = "none" /\ CreatedRow.w = 0
         /\ CreatedRow.url = first.cover.url /\ CreatedRow.manual = first.manual
<1>1. first.cover \in Cover
  BY CoverAssumption
<1>2. first.cover.url \in DOMAIN HostSource \cup {"none"}
  BY <1>1 DEF Cover
<1> QED BY <1>2 DEF CreatedRow, EmptyRow, Row, OtherSource

\* The comparator looks at a candidate and at the row made of it alike.
LEMMA JudgedAlike ==
  ASSUME NEW r, NEW c \in Covers, NEW m \in BOOLEAN
  PROVE  should_upgrade_same_tier(r, c, RankModel)
           <=> should_upgrade_same_tier(r, RowOf(c, m), RankModel)
BY RowOfIs DEF should_upgrade_same_tier

\* A lapse once recorded stays, and a work once deleted.
LEMMA LapseIs ==
  ASSUME NEW happens \in BOOLEAN, NEW what, what # "none", Lapse(happens, what), lapse' = "none"
  PROVE  lapse = "none" /\ ~happens
BY DEF Lapse

-----------------------------------------------------------------------------
(* Type correctness.                                                       *)

LEMMA InitType == Init => TypeOK
<1> SUFFICES ASSUME Init PROVE TypeOK
  OBVIOUS
<1>1. first \in [cover : Covers, manual : BOOLEAN]
  BY NoFirstType DEF Init
<1>2. row \in Row \cup {Gone} /\ final \in Covers \cup {NoFile, Torn}
  <2>1. CASE row = EmptyRow /\ final = NoFile
    BY <2>1, EmptyRowType
  <2>2. ASSUME NEW c \in Covers, row = RowOf(c, FALSE), final = c
        PROVE  row \in Row \cup {Gone} /\ final \in Covers \cup {NoFile, Torn}
    BY <2>2, RowOfIs
  <2>3. CASE row = CreatedRow /\ final = NoFile
    BY <2>3, <1>1, CreatedRowIs
  <2> QED BY <2>1, <2>2, <2>3 DEF Init
<1>3. add \in {"no", "file", "row"} /\ boot \in Boot
  BY DEF Init, Boot
<1>4. crashes \in 0..MaxCrashes /\ faults \in 0..MaxFaults
  BY CoverAssumption DEF Init
<1> QED BY <1>1, <1>2, <1>3, <1>4, EmptyRowType DEF Init, TypeOK

OfferType == offer \in [Tasks -> Offers \cup {Idle}]

LEMMA GotoIs ==
  ASSUME OfferType, NEW t \in Tasks, offer[t] # Idle, NEW to \in PC, Goto(t, to)
  PROVE  /\ OfferType' /\ lock' = lock
         /\ offer'[t] \in Offers /\ offer'[t].pc = to /\ offer'[t].cand = offer[t].cand
         /\ offer'[t].manual = offer[t].manual /\ offer'[t].seen = offer[t].seen
         /\ offer'[t] # Idle
         /\ \A u \in Tasks \ {t} : offer'[u] = offer[u]
<1>1. offer[t] \in Offers
  BY DEF OfferType
<1>2. offer' = [offer EXCEPT ![t] = [offer[t] EXCEPT !.pc = to]]
  BY DEF Goto, OfferType
<1>3. [offer[t] EXCEPT !.pc = to] \in Offers
  BY <1>1 DEF Offers
<1>4. offer'[t] = [offer[t] EXCEPT !.pc = to]
  BY <1>2 DEF OfferType
<1>5. /\ offer'[t].pc = to /\ offer'[t].cand = offer[t].cand
      /\ offer'[t].manual = offer[t].manual /\ offer'[t].seen = offer[t].seen
  BY <1>1, <1>4 DEF Offers
<1>6. \A u \in Tasks \ {t} : offer'[u] = offer[u]
  BY <1>2 DEF OfferType
<1>7. OfferType'
  BY <1>2, <1>3 DEF OfferType
<1> QED BY <1>3, <1>4, <1>5, <1>6, <1>7, OffersAreBusy DEF Goto

LEMMA LeaveIs ==
  ASSUME OfferType, NEW t \in Tasks, Leave(t)
  PROVE  /\ OfferType' /\ lock' = NoTask
         /\ offer'[t] = Idle /\ \A u \in Tasks \ {t} : offer'[u] = offer[u]
BY DEF OfferType, Leave

\* The steps of the offer t after its entry.
OfferRest(t) ==
  \/ FetchFails(t) \/ WriteTmp(t) \/ WriteMeta(t) \/ WriteFails(t)
  \/ Decide(t) \/ Discard(t) \/ Commit(t) \/ CommitFails(t)
  \/ Rename(t) \/ RenameFails(t) \/ Cleanup(t) \/ Dropped(t)

LEMMA OfferMoves ==
  ASSUME NEW t \in Tasks, OfferRest(t)
  PROVE  offer[t] # Idle /\ (Leave(t) \/ \E to \in PC : Goto(t, to))
BY DEF OfferRest, FetchFails, WriteTmp, WriteMeta, WriteFails, Decide, Discard, Commit,
       CommitFails, Rename, RenameFails, Cleanup, Dropped, At, PC

LEMMA FaultType ==
  ASSUME TypeOK, Fault PROVE faults' \in 0..MaxFaults
BY CoverAssumption DEF TypeOK, Fault

LEMMA LapseType ==
  ASSUME TypeOK, NEW happens, NEW what \in {"overtaken", "toss", "skip", "add", "stamp", "dropped"},
         Lapse(happens, what)
  PROVE  lapse' \in {"none", "overtaken", "toss", "skip", "add", "stamp", "dropped"}
BY DEF TypeOK, Lapse

LEMMA OfferTypeStep ==
  ASSUME TypeOK, NEW t \in Tasks, OfferRest(t) PROVE TypeOK'
<1>o. OfferType
  BY DEF TypeOK, OfferType
<1>b. offer[t] \in Offers
  BY OfferMoves DEF TypeOK
<1>c. offer[t].cand \in Covers /\ RowOf(offer[t].cand, offer[t].manual) \in Row
  BY <1>b, RowOfIs DEF Offers
<1>1. OfferType' /\ lock' \in Tasks \cup {NoTask, Recovery}
  BY <1>o, OfferMoves, GotoIs, LeaveIs DEF TypeOK
<1>2. faults' \in 0..MaxFaults
  BY FaultType DEF TypeOK, OfferRest, FetchFails, WriteTmp, WriteMeta, WriteFails, Decide,
     Discard, Commit, CommitFails, Rename, RenameFails, Cleanup, Dropped, bounds
<1>3. lapse' \in {"none", "overtaken", "toss", "skip", "add", "stamp", "dropped"}
  BY LapseType DEF TypeOK, OfferRest, FetchFails, WriteTmp, WriteMeta, WriteFails, Decide,
     Discard, Commit, CommitFails, Rename, RenameFails, Cleanup, Dropped
<1>4. row' \in Row \cup {Gone} /\ final' \in Covers \cup {NoFile, Torn}
  BY <1>c DEF TypeOK, OfferRest, FetchFails, WriteTmp, WriteMeta, WriteFails, Decide,
     Discard, Commit, CommitFails, Rename, RenameFails, Cleanup, Dropped, fileVars
<1>5. tmp' \in Covers \cup {NoFile, Torn} /\ meta' \in Row \cup {NoFile, Torn}
  BY <1>c DEF TypeOK, OfferRest, FetchFails, WriteTmp, WriteMeta, WriteFails, Decide,
     Discard, Commit, CommitFails, Rename, RenameFails, Cleanup, Dropped, fileVars
<1>7. stray' \in Offers \cup {Idle}
  <2>1. CASE stray' = stray
    BY <2>1 DEF TypeOK
  <2>2. CASE stray' = [offer[t] EXCEPT !.seen = EmptyRow]
    BY <2>2, <1>b, EmptyRowType DEF Offers
  <2> QED
    BY <2>1, <2>2 DEF OfferRest, FetchFails, WriteTmp, WriteMeta, WriteFails, Decide,
       Discard, Commit, CommitFails, Rename, RenameFails, Cleanup, Dropped, otherVars
<1>6. boot' = boot /\ first' = first /\ add' = add /\ drop' = drop /\ stamp' = stamp
      /\ crashes' = crashes
  BY DEF OfferRest, FetchFails, WriteTmp, WriteMeta, WriteFails, Decide,
     Discard, Commit, CommitFails, Rename, RenameFails, Cleanup, Dropped, otherVars, bounds
<1> QED BY <1>1, <1>2, <1>3, <1>4, <1>5, <1>6, <1>7 DEF TypeOK, OfferType

LEMMA EnterIs ==
  ASSUME TypeOK, NEW t \in Tasks, NEW c \in Covers, NEW m \in BOOLEAN, Enter(t, c, m)
  PROVE  /\ OfferType' /\ offer[t] = Idle /\ lock = NoTask /\ lock' = t /\ row # Gone
         /\ offer'[t] = [pc |-> "fetch", cand |-> c, manual |-> m, seen |-> row]
         /\ offer'[t] \in Offers /\ offer'[t] # Idle
         /\ \A u \in Tasks \ {t} : offer'[u] = offer[u]
         /\ UNCHANGED <<row, final, tmp, meta, boot, stray, first, add, drop, stamp, lapse,
                        crashes, faults>>
<1> DEFINE o == [pc |-> "fetch", cand |-> c, manual |-> m, seen |-> row]
<1>1. row \in Row /\ offer \in [Tasks -> Offers \cup {Idle}]
  BY DEF TypeOK, Enter
<1>2. o \in Offers
  BY <1>1 DEF Offers, PC
<1>3. offer' = [offer EXCEPT ![t] = o]
  BY DEF Enter
<1> HIDE DEF o
<1>4. OfferType' /\ offer'[t] = o /\ \A u \in Tasks \ {t} : offer'[u] = offer[u]
  BY <1>1, <1>2, <1>3 DEF OfferType
<1> QED BY <1>2, <1>4, OffersAreBusy DEF Enter, o, fileVars, otherVars, bounds

LEMMA EntryIs ==
  ASSUME NEW t \in Tasks, Offer(t), ~OfferRest(t)
  PROVE  \E c \in Covers, m \in BOOLEAN :
           /\ Enter(t, c, m)
           /\ ~m => ~manual_selection_blocks_candidate
BY DEF Offer, OfferRest, run_cover_write_gate, run_user_cover_write

\* The call of a dropped request.
LEMMA StrayIs ==
  ASSUME TypeOK, StrayStep
  PROVE  /\ stray # Idle /\ stray.cand \in Covers /\ stray.manual \in BOOLEAN
         /\ stray' \in Offers \cup {Idle}
         /\ UNCHANGED <<lock, offer, boot, first, add, drop, stamp, lapse, crashes, faults>>
         /\ row' = row \/ (row # Gone /\ row' = RowOf(stray.cand, stray.manual))
         /\ final' = final \/ final' = tmp
         /\ tmp' \in {tmp, Torn, NoFile, stray.cand}
         /\ meta' \in {meta, Torn, NoFile, RowOf(stray.cand, stray.manual)}
<1>1. stray # Idle
  BY DEF StrayStep, Strays
<1>2. stray \in Offers
  BY <1>1 DEF TypeOK
<1>3. \A to \in PC : [stray EXCEPT !.pc = to] \in Offers
  BY <1>2 DEF Offers
<1>4. stray' \in Offers \cup {Idle}
  BY <1>3 DEF StrayStep, Strays, PC
<1>5. /\ UNCHANGED <<lock, offer, boot, first, add, drop, stamp, lapse, crashes, faults>>
      /\ row' = row \/ (row # Gone /\ row' = RowOf(stray.cand, stray.manual))
  BY DEF StrayStep, bounds, fileVars
<1>6. /\ final' = final \/ final' = tmp
      /\ tmp' \in {tmp, Torn, NoFile, stray.cand}
      /\ meta' \in {meta, Torn, NoFile, RowOf(stray.cand, stray.manual)}
  BY DEF StrayStep, fileVars
<1> QED BY <1>1, <1>2, <1>4, <1>5, <1>6 DEF Offers

LEMMA NextType == TypeOK /\ StampedHost /\ [Next]_vars => TypeOK'
<1> SUFFICES ASSUME TypeOK, StampedHost, [Next]_vars PROVE TypeOK'
  OBVIOUS
<1>1. ASSUME NEW t \in Tasks, Offer(t) PROVE TypeOK'
  <2>1. CASE OfferRest(t)
    BY <2>1, OfferTypeStep
  <2>2. CASE ~OfferRest(t)
    <3>1. PICK c \in Covers, m \in BOOLEAN : Enter(t, c, m)
      BY <1>1, <2>2, EntryIs
    <3>2. /\ OfferType' /\ lock' = t
          /\ UNCHANGED <<row, final, tmp, meta, boot, stray, first, add, drop, stamp, lapse,
                         crashes, faults>>
      BY <3>1, EnterIs
    <3> QED BY <3>2 DEF TypeOK, OfferType
  <2> QED BY <2>1, <2>2
<1>2. CASE recover_one
  <2>1. Verdict \in Boot
    BY <1>2, Sentinels DEF Verdict, Boot, TypeOK, recover_one
  <2>2. stamp' \in Row
    BY <1>2, EmptyRowType DEF recover_one, TypeOK
  <2> QED BY <1>2, <2>1, <2>2 DEF recover_one, TypeOK, Boot, fileVars, bounds
<1>3. CASE RecoverSkips
  <2>1. lapse' \in {"none", "overtaken", "toss", "skip", "add", "stamp", "dropped"} /\ faults' \in 0..MaxFaults
    BY <1>3, LapseType, FaultType DEF RecoverSkips
  <2> QED BY <1>3, <2>1, EmptyRowType DEF RecoverSkips, Release, TypeOK, Boot, fileVars
<1>4. CASE RecoverJunk \/ RecoverFinish \/ RecoverToss
  BY <1>4, EmptyRowType DEF RecoverJunk, RecoverFinish, RecoverToss, Step, Release, TypeOK,
     Boot, fileVars, bounds
<1>5. CASE RecoverHeal
  <2>1. faults' \in 0..MaxFaults
    BY <1>5, FaultType DEF RecoverHeal, TypeOK
  <2>2. row' \in Row \cup {Gone}
    BY <1>5 DEF RecoverHeal, TypeOK
  <2> QED BY <1>5, <2>1, <2>2, EmptyRowType DEF RecoverHeal, Step, Release, TypeOK, Boot
<1>6. CASE BackfillRead
  BY <1>6, EmptyRowType DEF BackfillRead, TypeOK, Boot, fileVars, bounds
<1>7. CASE BackfillWrite
  <2>1. stamp \in Row /\ HostSource[stamp.url] \in Provider
    BY <1>7, CoverAssumption DEF BackfillWrite, StampedHost, TypeOK
  <2>2. [stamp EXCEPT !.source = HostSource[stamp.url]] \in Row
    BY <2>1 DEF Row
  <2>3. lapse' \in {"none", "overtaken", "toss", "skip", "add", "stamp", "dropped"}
    BY <1>7, LapseType DEF BackfillWrite
  <2> QED BY <1>7, <2>2, <2>3, EmptyRowType DEF BackfillWrite, TypeOK, Boot, fileVars, bounds
<1>8. CASE AddFile
  <2>1. lapse' \in {"none", "overtaken", "toss", "skip", "add", "stamp", "dropped"}
    BY <1>8, LapseType DEF AddFile
  <2> QED BY <1>8, <2>1 DEF AddFile, TypeOK, bounds
<1>9. CASE AddRow
  <2>1. lapse' \in {"none", "overtaken", "toss", "skip", "add", "stamp", "dropped"}
    BY <1>9, LapseType DEF AddRow
  <2>2. row' \in Row \cup {Gone}
    <3>1. first.cover.url \in DOMAIN HostSource \cup {"none"}
      BY CoverAssumption DEF TypeOK, Cover
    <3>2. ASSUME final \in Covers PROVE final.w \in Nat /\ final.h \in Nat
      BY <3>2, CoverAssumption DEF Cover
    <3> QED BY <1>9, <3>1, <3>2 DEF AddRow, Row, OtherSource, TypeOK
  <2> QED BY <1>9, <2>1, <2>2, NoFirstType DEF AddRow, TypeOK, fileVars, bounds
<1>10. CASE DeleteWork
  BY <1>10 DEF DeleteWork, TypeOK, bounds
<1>11. CASE Crash
  <2>1. lapse' \in {"none", "overtaken", "toss", "skip", "add", "stamp", "dropped"}
    BY <1>11, LapseType DEF Crash
  <2>2. crashes' \in 0..MaxCrashes
    BY <1>11, CoverAssumption DEF Crash, TypeOK
  <2>3. offer' \in [Tasks -> Offers \cup {Idle}]
    BY <1>11 DEF Crash
  <2> QED BY <1>11, <2>1, <2>2, <2>3, NoFirstType, EmptyRowType DEF Crash, TypeOK, Boot, fileVars
<1>12. CASE UNCHANGED vars
  BY <1>12 DEF vars, TypeOK
<1>13. CASE StrayStep
  <2>1. RowOf(stray.cand, stray.manual) \in Row
    BY <1>13, StrayIs, RowOfIs
  <2>2. /\ row' \in Row \cup {Gone} /\ final' \in Covers \cup {NoFile, Torn}
        /\ tmp' \in Covers \cup {NoFile, Torn} /\ meta' \in Row \cup {NoFile, Torn}
    BY <1>13, <2>1, StrayIs DEF TypeOK
  <2> QED BY <1>13, <2>2, StrayIs DEF TypeOK
<1> QED
  BY <1>1, <1>2, <1>3, <1>4, <1>5, <1>6, <1>7, <1>8, <1>9, <1>10, <1>11, <1>12, <1>13
     DEF Next, Recover

-----------------------------------------------------------------------------
(* The lock, the deletion, the add path and the backfill.                   *)

Shape == LockHeld /\ RowFirst /\ AddIsFirst /\ StampedHost /\ StrayLapsed /\ SidecarSourced

LEMMA InitShape == Init => Shape
<1> SUFFICES ASSUME Init PROVE Shape
  OBVIOUS
<1>1. LockHeld
  BY Sentinels DEF Init, LockHeld, Verdicts
<1>2. SidecarSourced
  BY Sentinels DEF Init, SidecarSourced
<1> QED BY <1>1, <1>2 DEF Init, Shape, RowFirst, AddIsFirst, StampedHost, StrayLapsed

LEMMA OfferShape ==
  ASSUME TypeOK, Shape, NEW t \in Tasks, OfferRest(t)
  PROVE  Shape' /\ lock = t /\ boot' = boot /\ boot \notin Verdicts
<1>o. OfferType
  BY DEF TypeOK, OfferType
<1>1. offer[t] # Idle /\ lock = t /\ boot \notin Verdicts
  BY OfferMoves, Sentinels DEF Shape, LockHeld
<1>2. boot' = boot /\ add' = add /\ drop' = drop /\ stamp' = stamp /\ (row = Gone => row' = Gone)
  BY DEF OfferRest, FetchFails, WriteTmp, WriteMeta, WriteFails, Decide,
     Discard, Commit, CommitFails, Rename, RenameFails, Cleanup, Dropped, otherVars
<1>3. LockHeld'
  <2>1. CASE Leave(t)
    <3>1. lock' = NoTask /\ offer'[t] = Idle /\ \A u \in Tasks \ {t} : offer'[u] = offer[u]
      BY <2>1, <1>o, LeaveIs
    <3> QED BY <3>1, <1>1, <1>2, Sentinels DEF Shape, LockHeld
  <2>2. ASSUME NEW to \in PC, Goto(t, to) PROVE LockHeld'
    <3>1. lock' = lock /\ offer'[t] # Idle /\ \A u \in Tasks \ {t} : offer'[u] = offer[u]
      BY <2>2, <1>1, <1>o, GotoIs
    <3> QED BY <3>1, <1>1, <1>2, Sentinels DEF Shape, LockHeld
  <2> QED BY <2>1, <2>2, OfferMoves
<1>4. RowFirst' /\ AddIsFirst' /\ StampedHost'
  BY <1>2 DEF Shape, RowFirst, AddIsFirst, StampedHost
<1>5. StrayLapsed'
  BY DEF Shape, StrayLapsed, OfferRest, FetchFails, WriteTmp, WriteMeta, WriteFails, Decide,
     Discard, Commit, CommitFails, Rename, RenameFails, Cleanup, Dropped, otherVars, Lapse
<1>6. SidecarSourced'
  <2>1. offer[t].cand \in Covers /\ offer[t].manual \in BOOLEAN
    BY <1>1 DEF TypeOK, Offers
  <2>2. meta' \in {meta, NoFile, Torn, RowOf(offer[t].cand, offer[t].manual)}
    BY DEF OfferRest, FetchFails, WriteTmp, WriteMeta, WriteFails, Decide,
       Discard, Commit, CommitFails, Rename, RenameFails, Cleanup, Dropped, fileVars
  <2> QED BY <2>1, <2>2, RowOfIs, Sentinels DEF Shape, SidecarSourced
<1> QED BY <1>1, <1>2, <1>3, <1>4, <1>5, <1>6 DEF Shape

LEMMA EnterShape ==
  ASSUME TypeOK, Shape, NEW t \in Tasks, NEW c \in Covers, NEW m \in BOOLEAN, Enter(t, c, m)
  PROVE  Shape'
<1>1. /\ offer[t] = Idle /\ lock = NoTask /\ lock' = t /\ offer'[t] # Idle
      /\ \A u \in Tasks \ {t} : offer'[u] = offer[u]
      /\ UNCHANGED <<row, boot, stray, add, drop, stamp, lapse, meta>>
  BY EnterIs
<1>2. LockHeld'
  BY <1>1, Sentinels DEF Shape, LockHeld
<1> QED BY <1>1, <1>2 DEF Shape, RowFirst, AddIsFirst, StampedHost, StrayLapsed, SidecarSourced

LEMMA NextShape == TypeOK /\ Shape /\ [Next]_vars => Shape'
<1> SUFFICES ASSUME TypeOK, Shape, [Next]_vars PROVE Shape'
  OBVIOUS
<1> USE DEF Shape, RowFirst, AddIsFirst, StampedHost, StrayLapsed, SidecarSourced
<1>1. ASSUME NEW t \in Tasks, Offer(t) PROVE Shape'
  <2>1. CASE OfferRest(t)
    BY <2>1, OfferShape
  <2>2. CASE ~OfferRest(t)
    <3>1. PICK c \in Covers, m \in BOOLEAN : Enter(t, c, m)
      BY <1>1, <2>2, EntryIs
    <3> QED BY <3>1, EnterShape
  <2> QED BY <2>1, <2>2
<1>2. CASE recover_one
  <2>1. CASE meta = NoFile
    BY <1>2, <2>1 DEF recover_one, LockHeld, Verdicts, fileVars
  <2>2. CASE meta # NoFile
    <3>1. boot' = Verdict /\ lock = NoTask /\ lock' = Recovery /\ offer' = offer
      BY <1>2, <2>2 DEF recover_one
    <3>2. Verdict \in {"junk", "finish", "toss", "heal"} /\ (Verdict = "heal" => meta \in Row)
      BY <2>2, Sentinels DEF Verdict, TypeOK
    <3>3. LockHeld'
      BY <3>1, <3>2, Sentinels DEF LockHeld, Verdicts
    <3> QED BY <1>2, <3>1, <3>2, <3>3 DEF recover_one, fileVars
  <2> QED BY <2>1, <2>2
<1>3. CASE RecoverSkips
  <2>1. LockHeld'
    BY <1>3, Sentinels DEF RecoverSkips, Release, LockHeld, Verdicts
  <2> QED BY <1>3, <2>1 DEF RecoverSkips, Release, fileVars, Lapse
<1>4. CASE RecoverJunk \/ RecoverFinish \/ RecoverToss \/ RecoverHeal
  <2>1. /\ boot \in Verdicts /\ boot' # "heal" /\ boot' # "stamp" /\ add' = add /\ drop' = drop
        /\ UNCHANGED <<offer, stray, lapse>>
        /\ (boot' \in Verdicts /\ lock' = lock) \/ (boot' \notin Verdicts /\ lock' = NoTask)
        /\ row = Gone => row' = Gone
        /\ meta' \in {meta, NoFile}
    BY <1>4 DEF RecoverJunk, RecoverFinish, RecoverToss, RecoverHeal, Step, Release,
                Verdicts, fileVars
  <2>2. LockHeld'
    BY <2>1, Sentinels DEF LockHeld
  <2>3. add = "no"
    BY <2>1 DEF Verdicts
  <2> QED BY <2>1, <2>2, <2>3, Sentinels
<1>5. CASE BackfillRead
  <2>1. LockHeld'
    BY <1>5 DEF BackfillRead, LockHeld, Verdicts
  <2>2. StampedHost'
    BY <1>5 DEF BackfillRead, Stampable
  <2> QED BY <1>5, <2>1, <2>2 DEF BackfillRead, fileVars
<1>6. CASE BackfillWrite
  <2>1. LockHeld'
    BY <1>6 DEF BackfillWrite, LockHeld, Verdicts
  <2> QED BY <1>6, <2>1 DEF BackfillWrite, fileVars, Lapse
<1>7. CASE AddFile \/ AddRow
  <2>1. /\ lock' = lock /\ boot' = boot /\ offer' = offer /\ drop' = drop /\ stamp' = stamp
        /\ meta' = meta /\ add # "no" /\ (row = Gone => row' = Gone)
        /\ stray' = stray /\ (lapse # "none" => lapse' # "none")
    BY <1>7 DEF AddFile, AddRow, fileVars, Lapse
  <2> QED BY <2>1 DEF LockHeld
<1>8. CASE DeleteWork
  <2>1. /\ lock' = lock /\ boot' = boot /\ offer' = offer /\ stamp' = stamp /\ add' = add
        /\ meta' = meta /\ stray' = stray /\ lapse' = lapse
    BY <1>8 DEF DeleteWork
  <2>2. RowFirst'
    BY <1>8 DEF DeleteWork
  <2> QED BY <2>1, <2>2 DEF LockHeld
<1>9. CASE Crash
  <2>1. LockHeld'
    BY <1>9, Sentinels DEF Crash, LockHeld, Verdicts
  <2> QED BY <1>9, <2>1 DEF Crash, fileVars
<1>10. CASE UNCHANGED vars
  BY <1>10 DEF vars, LockHeld
<1>11. CASE StrayStep
  <2>1. /\ stray # Idle /\ UNCHANGED <<lock, offer, boot, add, drop, stamp, lapse>>
        /\ row = Gone => row' = Gone
    BY <1>11, StrayIs
  <2>2. RowOf(stray.cand, stray.manual).source # "none"
    BY <1>11, StrayIs, RowOfIs
  <2>3. SidecarSourced'
    BY <1>11, <2>2, StrayIs, Sentinels
  <2> QED BY <2>1, <2>3 DEF LockHeld
<1> QED
  BY <1>1, <1>2, <1>3, <1>4, <1>5, <1>6, <1>7, <1>8, <1>9, <1>10, <1>11 DEF Next, Recover

-----------------------------------------------------------------------------
(* The row and the files, step by step.                                     *)

Disk == RowDescribesDisk /\ SidecarTold /\ OfferKept /\ RecoveryKept /\ AddKept
Inv == TypeOK /\ Shape /\ Disk

LEMMA IInvIs == IInv <=> Inv
BY DEF IInv, Inv, Shape, Disk

LEMMA NotCovered == ASSUME ~Covered' PROVE Disk'
BY DEF Disk, Covered, RowDescribesDisk, SidecarTold, OfferKept, RecoveryKept, AddKept

\* What the invariant says while it says anything.
LEMMA CoveredNow ==
  ASSUME Inv, Covered
  PROVE  /\ row \in Row /\ row # Gone /\ drop = "no"
         /\ Described(row, final) \/ (meta = row /\ BytesOf(row))
         /\ meta = row /\ tmp # NoFile => BytesOf(row)
         /\ meta \notin {NoFile, Torn, row} => tmp # NoFile \/ boot = "toss2"
BY DEF Inv, TypeOK, Shape, RowFirst, Disk, Covered, RowDescribesDisk, SidecarTold, Pending, BytesOf

\* What has to be shown of a step that leaves the slot with an offer of task t.
LEMMA UnderOffer ==
  ASSUME TypeOK', Covered', NEW t \in Tasks, lock' = t, boot' \notin Verdicts,
         offer'[t].pc # "fetch",
         Described(row', final') \/ (meta' = row' /\ BytesOf(row)'),
         meta' = row' /\ tmp' # NoFile => BytesOf(row)',
         meta' \notin {NoFile, Torn, row'} => tmp' # NoFile,
         OfferAt(offer[t])',
         add' # "no" /\ row' = CreatedRow' =>
           final' = NoFile \/ (add' = "row" /\ final' = first'.cover)
  PROVE  Disk'
<1>1. RowDescribesDisk' /\ SidecarTold'
  BY DEF RowDescribesDisk, SidecarTold, Pending, BytesOf, Covered
<1>2. OfferKept'
  BY DEF OfferKept
<1>3. RecoveryKept'
  BY DEF RecoveryKept, Verdicts
<1>4. AddKept'
  BY Sentinels DEF AddKept
<1> QED BY <1>1, <1>2, <1>3, <1>4 DEF Disk

\* And of one that leaves it free.
LEMMA Free ==
  ASSUME TypeOK', Covered', lock' = NoTask, boot' \notin Verdicts,
         Described(row', final') \/ (meta' = row' /\ BytesOf(row)'),
         meta' = row' /\ tmp' # NoFile => BytesOf(row)',
         meta' \notin {NoFile, Torn, row'} => tmp' # NoFile,
         add' # "no" /\ row' = CreatedRow' =>
           final' = NoFile \/ (add' = "row" /\ final' = first'.cover),
         add' # "no" /\ meta' \in Row /\ tmp' # NoFile => BytesOf(meta)'
  PROVE  Disk'
<1>1. RowDescribesDisk' /\ SidecarTold'
  BY DEF RowDescribesDisk, SidecarTold, Pending, BytesOf, Covered
<1>2. OfferKept'
  BY Sentinels DEF OfferKept
<1>3. RecoveryKept'
  BY DEF RecoveryKept, Verdicts
<1>4. AddKept'
  BY DEF AddKept
<1> QED BY <1>1, <1>2, <1>3, <1>4 DEF Disk

\* The offer that is under way, and what it relies on.
LEMMA UnderWay ==
  ASSUME Inv, Covered, NEW t \in Tasks, OfferRest(t)
  PROVE  /\ OfferType /\ offer[t] # Idle /\ offer[t] \in Offers /\ lock = t
         /\ boot' = boot /\ boot \notin Verdicts /\ OfferAt(offer[t])
         /\ first' = first /\ add' = add
         /\ add # "no" /\ row = CreatedRow =>
              final = NoFile \/ (add = "row" /\ final = first.cover)
         /\ TypeOK'
<1>1. /\ OfferType /\ offer[t] # Idle /\ offer[t] \in Offers
  BY OfferMoves DEF Inv, TypeOK, OfferType
<1>2. lock = t /\ boot' = boot /\ boot \notin Verdicts
  BY OfferShape DEF Inv
<1>3. OfferAt(offer[t])
  BY <1>2 DEF Inv, Disk, OfferKept
<1>4. first' = first /\ add' = add
  BY DEF OfferRest, FetchFails, WriteTmp, WriteMeta, WriteFails, Decide,
     Discard, Commit, CommitFails, Rename, RenameFails, Cleanup, Dropped, otherVars
<1>5. add # "no" /\ row = CreatedRow => final = NoFile \/ (add = "row" /\ final = first.cover)
  BY DEF Inv, Disk, AddKept
<1>6. TypeOK'
  BY OfferTypeStep DEF Inv
<1> QED BY <1>1, <1>2, <1>3, <1>4, <1>5, <1>6

LEMMA FetchFailsDisk ==
  ASSUME Inv, NEW t \in Tasks, FetchFails(t), Covered' PROVE Disk'
<1>1. OfferRest(t) /\ Covered /\ UNCHANGED <<row, final, tmp, meta, first, add>>
  BY DEF OfferRest, FetchFails, Covered, fileVars, otherVars
<1>2. lock' = NoTask
  BY <1>1, UnderWay, LeaveIs DEF FetchFails
<1>3. add # "no" /\ meta \in Row /\ tmp # NoFile => BytesOf(meta)
  <2>1. lock = t /\ offer[t].pc = "fetch"
    BY <1>1, UnderWay DEF FetchFails, At
  <2> QED BY <2>1, <1>1 DEF Inv, Disk, AddKept
<1>4. boot' = boot /\ boot \notin Verdicts
  BY <1>1, UnderWay
<1> QED BY <1>1, <1>2, <1>3, <1>4, Free, CoveredNow, UnderWay DEF BytesOf, CreatedRow, Verdicts

LEMMA WriteTmpDisk ==
  ASSUME Inv, NEW t \in Tasks, WriteTmp(t), Covered' PROVE Disk'
<1>1. OfferRest(t) /\ Covered /\ UNCHANGED <<row, final, meta, first, add>>
  BY DEF OfferRest, WriteTmp, Covered, otherVars, Lapse
<1>u. /\ OfferType /\ offer[t] # Idle /\ offer[t] \in Offers /\ lock = t
      /\ boot' = boot /\ boot \notin Verdicts /\ OfferAt(offer[t]) /\ TypeOK'
      /\ add # "no" /\ row = CreatedRow => final = NoFile \/ (add = "row" /\ final = first.cover)
  BY <1>1, UnderWay
<1>c. /\ row \in Row
      /\ Described(row, final) \/ (meta = row /\ BytesOf(row))
      /\ meta \notin {NoFile, Torn, row} => tmp # NoFile \/ boot = "toss2"
  BY <1>1, CoveredNow
<1>2. CASE At(t, "fetch") /\ tmp' = Torn /\ Goto(t, "tmp2") /\ Lapse(meta = row, "overtaken")
  <2>1. meta # row
    BY <1>2, LapseIs DEF Covered
  <2>2. /\ lock' = t /\ offer'[t].pc = "tmp2" /\ offer'[t].cand = offer[t].cand
        /\ offer'[t].manual = offer[t].manual /\ offer'[t].seen = offer[t].seen
    BY <1>2, <1>u, GotoIs DEF PC
  <2>3. Described(row, final)
    BY <2>1, <1>c
  <2>4. OfferAt(offer[t])'
    BY <1>1, <1>2, <1>u, <2>1, <2>2, <2>3, Sentinels DEF OfferAt, At, Described
  <2> QED BY <1>1, <1>2, <1>u, <2>1, <2>2, <2>3, <2>4, UnderOffer, Sentinels
          DEF CreatedRow, Described
<1>3. CASE At(t, "tmp2") /\ tmp' = offer[t].cand /\ Goto(t, "meta")
  <2>1. meta # row /\ Described(row, final)
    BY <1>3, <1>u DEF OfferAt, At
  <2>2. /\ lock' = t /\ offer'[t].pc = "meta" /\ offer'[t].cand = offer[t].cand
        /\ offer'[t].manual = offer[t].manual /\ offer'[t].seen = offer[t].seen
    BY <1>3, <1>u, GotoIs DEF PC
  <2>3. tmp' \in Covers
    BY <1>3, <1>u DEF Offers
  <2>4. OfferAt(offer[t])'
    BY <1>1, <1>3, <1>u, <2>1, <2>2, <2>3, Sentinels DEF OfferAt, At, Described
  <2> QED BY <1>1, <1>u, <2>1, <2>2, <2>3, <2>4, UnderOffer, Sentinels
          DEF CreatedRow, Described
<1> QED BY <1>2, <1>3 DEF WriteTmp

LEMMA WriteMetaDisk ==
  ASSUME Inv, NEW t \in Tasks, WriteMeta(t), Covered' PROVE Disk'
<1>1. OfferRest(t) /\ Covered /\ UNCHANGED <<row, final, tmp, first, add>>
  BY DEF OfferRest, WriteMeta, Covered, otherVars
<1>u. /\ OfferType /\ offer[t] # Idle /\ offer[t] \in Offers /\ lock = t
      /\ boot' = boot /\ boot \notin Verdicts /\ OfferAt(offer[t]) /\ TypeOK'
      /\ add # "no" /\ row = CreatedRow => final = NoFile \/ (add = "row" /\ final = first.cover)
  BY <1>1, UnderWay
<1>c. row \in Row
  BY <1>1, CoveredNow
<1>b. offer[t].cand \in Covers /\ offer[t].manual \in BOOLEAN
  BY <1>u DEF Offers
<1>2. CASE At(t, "meta") /\ meta' = Torn /\ Goto(t, "meta2")
  <2>1. tmp = offer[t].cand /\ Described(row, final)
    BY <1>2, <1>u DEF OfferAt, At
  <2>2. /\ lock' = t /\ offer'[t].pc = "meta2" /\ offer'[t].cand = offer[t].cand
        /\ offer'[t].manual = offer[t].manual /\ offer'[t].seen = offer[t].seen
    BY <1>2, <1>u, GotoIs DEF PC
  <2>4. OfferAt(offer[t])'
    BY <1>1, <1>2, <1>u, <2>1, <2>2, Sentinels DEF OfferAt, At, Described
  <2> QED BY <1>1, <1>2, <1>c, <1>u, <2>1, <2>2, <2>4, UnderOffer, Sentinels
          DEF CreatedRow, Described
<1>3. CASE /\ At(t, "meta2") /\ meta' = RowOf(offer[t].cand, offer[t].manual)
           /\ Goto(t, "decide")
  <2>1. tmp = offer[t].cand /\ Described(row, final) /\ tmp # NoFile
    BY <1>3, <1>u, <1>b, Sentinels DEF OfferAt, At
  <2>2. /\ lock' = t /\ offer'[t].pc = "decide" /\ offer'[t].cand = offer[t].cand
        /\ offer'[t].manual = offer[t].manual /\ offer'[t].seen = offer[t].seen
    BY <1>3, <1>u, GotoIs DEF PC
  <2>3. meta' = row' => BytesOf(row)'
    <3>1. meta'.manual = offer[t].manual
      BY <1>3, <1>b, RowOfIs
    <3> QED BY <1>1, <1>3, <1>b, <2>1, <3>1 DEF BytesOf
  <2>4. OfferAt(offer[t])'
    BY <1>1, <1>3, <1>u, <2>1, <2>2, Sentinels DEF OfferAt, At, Described
  <2> QED BY <1>1, <1>u, <2>1, <2>2, <2>3, <2>4, UnderOffer DEF CreatedRow, Described
<1> QED BY <1>2, <1>3 DEF WriteMeta

LEMMA WriteFailsDisk ==
  ASSUME Inv, NEW t \in Tasks, WriteFails(t), Covered' PROVE Disk'
<1>1. OfferRest(t) /\ Covered /\ UNCHANGED <<row, final, tmp, meta, first, add>>
  BY DEF OfferRest, WriteFails, Covered, fileVars, otherVars
<1>u. /\ OfferType /\ offer[t] # Idle /\ offer[t] \in Offers /\ lock = t
      /\ boot' = boot /\ boot \notin Verdicts /\ OfferAt(offer[t]) /\ TypeOK'
      /\ add # "no" /\ row = CreatedRow => final = NoFile \/ (add = "row" /\ final = first.cover)
  BY <1>1, UnderWay
<1>2. /\ lock' = t /\ offer'[t].pc = "discard" /\ offer'[t].cand = offer[t].cand
      /\ offer'[t].manual = offer[t].manual /\ offer'[t].seen = offer[t].seen
  BY <1>u, GotoIs DEF WriteFails, PC
<1>3. offer[t].pc \in {"tmp2", "meta", "meta2"}
  BY DEF WriteFails, At
<1>4. Described(row, final) /\ tmp # NoFile
  BY <1>u, <1>3, Sentinels DEF OfferAt, Offers
<1>5. OfferAt(offer[t])'
  BY <1>1, <1>2, <1>3, <1>4, <1>u DEF OfferAt, Described
<1> QED BY <1>1, <1>2, <1>4, <1>5, <1>u, UnderOffer, CoveredNow DEF CreatedRow, Described, BytesOf

LEMMA DecideDisk ==
  ASSUME Inv, NEW t \in Tasks, Decide(t), Covered' PROVE Disk'
<1>1. OfferRest(t) /\ Covered /\ UNCHANGED <<row, final, tmp, meta, first, add>>
  BY DEF OfferRest, Decide, Covered, fileVars, otherVars
<1>u. /\ OfferType /\ offer[t] # Idle /\ offer[t] \in Offers /\ lock = t
      /\ boot' = boot /\ boot \notin Verdicts /\ OfferAt(offer[t]) /\ TypeOK'
      /\ add # "no" /\ row = CreatedRow => final = NoFile \/ (add = "row" /\ final = first.cover)
  BY <1>1, UnderWay
<1>d. offer[t].pc = "decide"
  BY DEF Decide, At
<1> DEFINE yes == offer[t].manual \/ should_upgrade_same_tier(offer[t].seen, offer[t].cand, RankModel)
<1>2. /\ lock' = t /\ offer'[t].pc \in {"commit", "discard"} /\ offer'[t].cand = offer[t].cand
      /\ offer'[t].manual = offer[t].manual /\ offer'[t].seen = offer[t].seen
      /\ offer'[t].pc = "commit" => yes
  <2>1. CASE yes
    BY <2>1, <1>u, GotoIs DEF Decide, PC
  <2>2. CASE ~yes
    BY <2>2, <1>u, GotoIs DEF Decide, PC
  <2> QED BY <2>1, <2>2
<1>4. Described(row, final) /\ tmp # NoFile
  BY <1>u, <1>d, Sentinels DEF OfferAt, Offers
<1>5. OfferAt(offer[t])'
  <2>1. offer'[t].pc = "commit" =>
          offer'[t].manual \/ should_upgrade_same_tier(offer'[t].seen, offer'[t].cand, RankModel)
    BY <1>2
  <2> HIDE DEF yes
  <2> QED BY <1>1, <1>2, <1>d, <1>4, <1>u, <2>1 DEF OfferAt, Described
<1> HIDE DEF yes
<1> QED BY <1>1, <1>2, <1>4, <1>5, <1>u, UnderOffer, CoveredNow DEF CreatedRow, Described, BytesOf

LEMMA DiscardDisk ==
  ASSUME Inv, NEW t \in Tasks, Discard(t), Covered' PROVE Disk'
<1>1. OfferRest(t) /\ Covered /\ UNCHANGED <<row, final, first, add>>
  BY DEF OfferRest, Discard, Covered, otherVars
<1>u. /\ OfferType /\ offer[t] # Idle /\ offer[t] \in Offers /\ lock = t
      /\ boot' = boot /\ boot \notin Verdicts /\ OfferAt(offer[t]) /\ TypeOK'
      /\ add # "no" /\ row = CreatedRow => final = NoFile \/ (add = "row" /\ final = first.cover)
  BY <1>1, UnderWay
<1>c. row \in Row /\ Described(row, final)
  BY <1>1, <1>u, CoveredNow DEF Discard, At, OfferAt
<1>2. CASE At(t, "discard") /\ meta' = NoFile /\ tmp' = tmp /\ Goto(t, "discard2")
  <2>2. /\ lock' = t /\ offer'[t].pc = "discard2" /\ offer'[t].cand = offer[t].cand
        /\ offer'[t].manual = offer[t].manual /\ offer'[t].seen = offer[t].seen
    BY <1>2, <1>u, GotoIs DEF PC
  <2>4. OfferAt(offer[t])'
    BY <1>1, <1>2, <1>c, <1>u, <2>2 DEF OfferAt, At, Described
  <2> QED BY <1>1, <1>2, <1>c, <1>u, <2>2, <2>4, UnderOffer, Sentinels DEF CreatedRow, Described
<1>3. CASE At(t, "discard2") /\ tmp' = NoFile /\ meta' = meta /\ Leave(t)
  <2>1. lock' = NoTask
    BY <1>3, <1>u, LeaveIs
  <2>2. meta = NoFile
    BY <1>3, <1>u DEF OfferAt, At
  <2> QED BY <1>1, <1>3, <1>c, <1>u, <2>1, <2>2, Free, Sentinels DEF CreatedRow, Described
<1> QED BY <1>2, <1>3 DEF Discard

LEMMA CommitDisk ==
  ASSUME Inv, NEW t \in Tasks, Commit(t), Covered' PROVE Disk'
<1>1. OfferRest(t) /\ Covered /\ UNCHANGED <<final, tmp, meta, first, add>>
  BY DEF OfferRest, Commit, Covered, fileVars, otherVars
<1>u. /\ OfferType /\ offer[t] # Idle /\ offer[t] \in Offers /\ lock = t
      /\ boot' = boot /\ boot \notin Verdicts /\ OfferAt(offer[t]) /\ TypeOK'
  BY <1>1, UnderWay
<1>b. offer[t].cand \in Covers /\ offer[t].manual \in BOOLEAN
  BY <1>u DEF Offers
<1>2. /\ lock' = t /\ offer'[t].pc = "rename" /\ offer'[t].cand = offer[t].cand
      /\ offer'[t].manual = offer[t].manual /\ offer'[t].seen = offer[t].seen
  BY <1>u, GotoIs DEF Commit, PC
<1>3. /\ tmp = offer[t].cand /\ meta = RowOf(offer[t].cand, offer[t].manual)
      /\ row' = RowOf(offer[t].cand, offer[t].manual)
  BY <1>u DEF OfferAt, Commit, At
<1>4. row'.manual = offer[t].manual /\ row'.source # "none"
  BY <1>3, <1>b, RowOfIs
<1>5. meta' = row' /\ BytesOf(row)'
  BY <1>1, <1>3, <1>4, <1>b DEF BytesOf
<1>6. row' # CreatedRow'
  BY <1>4, CreatedRowIs, <1>1 DEF Inv, TypeOK, CreatedRow
<1>7. OfferAt(offer[t])'
  BY <1>1, <1>2, <1>3, <1>5 DEF OfferAt
<1> QED BY <1>2, <1>5, <1>6, <1>7, <1>u, UnderOffer

LEMMA CommitFailsDisk ==
  ASSUME Inv, NEW t \in Tasks, CommitFails(t), Covered' PROVE Disk'
<1>1. OfferRest(t) /\ Covered /\ UNCHANGED <<row, final, tmp, meta, first, add>>
  BY DEF OfferRest, CommitFails, Covered, fileVars, otherVars
<1>u. /\ OfferType /\ offer[t] # Idle /\ offer[t] \in Offers /\ lock = t
      /\ boot' = boot /\ boot \notin Verdicts /\ OfferAt(offer[t]) /\ TypeOK'
      /\ add # "no" /\ row = CreatedRow => final = NoFile \/ (add = "row" /\ final = first.cover)
  BY <1>1, UnderWay
<1>2. lock' = NoTask
  BY <1>u, LeaveIs DEF CommitFails
<1>b. offer[t].cand \in Covers /\ offer[t].manual \in BOOLEAN
  BY <1>u DEF Offers
<1>3. /\ tmp = offer[t].cand /\ meta = RowOf(offer[t].cand, offer[t].manual)
      /\ Described(row, final)
  BY <1>u DEF OfferAt, CommitFails, At
<1>4. BytesOf(meta) /\ tmp # NoFile
  BY <1>3, <1>b, RowOfIs, Sentinels DEF BytesOf
<1> QED BY <1>1, <1>2, <1>3, <1>4, <1>u, Free DEF CreatedRow, Described, BytesOf

LEMMA RenameDisk ==
  ASSUME Inv, NEW t \in Tasks, Rename(t), Covered' PROVE Disk'
<1>1. OfferRest(t) /\ Covered /\ UNCHANGED <<row, meta, first, add>>
  BY DEF OfferRest, Rename, Covered, otherVars
<1>u. /\ OfferType /\ offer[t] # Idle /\ offer[t] \in Offers /\ lock = t
      /\ boot' = boot /\ boot \notin Verdicts /\ OfferAt(offer[t]) /\ TypeOK'
  BY <1>1, UnderWay
<1>b. offer[t].cand \in Covers /\ offer[t].manual \in BOOLEAN
  BY <1>u DEF Offers
<1>2. /\ lock' = t /\ offer'[t].pc = "cleanup" /\ offer'[t].cand = offer[t].cand
      /\ offer'[t].manual = offer[t].manual /\ offer'[t].seen = offer[t].seen
  BY <1>u, GotoIs DEF Rename, PC
<1>3. /\ final' = offer[t].cand /\ row = RowOf(offer[t].cand, offer[t].manual) /\ meta = row
      /\ tmp' = NoFile
  BY <1>u DEF OfferAt, Rename, At
<1>4. Described(row', final') /\ row.source # "none"
  BY <1>1, <1>3, <1>b, RowOfIs
<1>5. row' # CreatedRow'
  BY <1>4, CreatedRowIs, <1>1 DEF Inv, TypeOK, CreatedRow
<1>6. OfferAt(offer[t])'
  BY <1>1, <1>2, <1>3, <1>4 DEF OfferAt, Described
<1> QED BY <1>1, <1>2, <1>3, <1>4, <1>5, <1>6, <1>u, UnderOffer

LEMMA RenameFailsDisk ==
  ASSUME Inv, NEW t \in Tasks, RenameFails(t), Covered' PROVE Disk'
<1>1. OfferRest(t) /\ Covered /\ UNCHANGED <<row, final, tmp, meta, first, add>>
  BY DEF OfferRest, RenameFails, Covered, fileVars, otherVars
<1>u. /\ OfferType /\ offer[t] # Idle /\ offer[t] \in Offers /\ lock = t
      /\ boot' = boot /\ boot \notin Verdicts /\ OfferAt(offer[t]) /\ TypeOK'
      /\ add # "no" /\ row = CreatedRow => final = NoFile \/ (add = "row" /\ final = first.cover)
  BY <1>1, UnderWay
<1>2. lock' = NoTask
  BY <1>u, LeaveIs DEF RenameFails
<1>b. offer[t].cand \in Covers /\ offer[t].manual \in BOOLEAN
  BY <1>u DEF Offers
<1>3. /\ tmp = offer[t].cand /\ meta = RowOf(offer[t].cand, offer[t].manual) /\ row = meta
  BY <1>u DEF OfferAt, RenameFails, At
<1>4. BytesOf(meta)
  BY <1>3, <1>b, RowOfIs DEF BytesOf
<1> QED BY <1>1, <1>2, <1>3, <1>4, <1>u, Free DEF CreatedRow, BytesOf

LEMMA CleanupDisk ==
  ASSUME Inv, NEW t \in Tasks, Cleanup(t), Covered' PROVE Disk'
<1>1. OfferRest(t) /\ Covered /\ UNCHANGED <<row, final, tmp, first, add>>
  BY DEF OfferRest, Cleanup, Covered, otherVars
<1>u. /\ OfferType /\ offer[t] # Idle /\ lock = t
      /\ boot' = boot /\ boot \notin Verdicts /\ OfferAt(offer[t]) /\ TypeOK'
      /\ add # "no" /\ row = CreatedRow => final = NoFile \/ (add = "row" /\ final = first.cover)
  BY <1>1, UnderWay
<1>2. lock' = NoTask /\ meta' = NoFile
  BY <1>u, LeaveIs DEF Cleanup
<1>3. Described(row, final) /\ row \in Row
  BY <1>1, <1>u, CoveredNow DEF OfferAt, Cleanup, At
<1> QED BY <1>1, <1>2, <1>3, <1>u, Free, Sentinels DEF CreatedRow, Described

\* A request that is dropped between two of its calls leaves what the last one left.
LEMMA DroppedDisk ==
  ASSUME Inv, NEW t \in Tasks, Dropped(t), Covered' PROVE Disk'
<1>1. /\ Covered /\ UNCHANGED <<row, final, tmp, meta, first, add>> /\ Leave(t)
      /\ offer[t].pc \in {"decide", "rename", "discard2", "cleanup"}
  BY DEF Dropped, Covered, fileVars, Lapse
<1>2. OfferRest(t)
  BY DEF OfferRest
<1>u. /\ OfferType /\ offer[t] # Idle /\ offer[t] \in Offers /\ lock = t
      /\ boot' = boot /\ boot \notin Verdicts /\ OfferAt(offer[t]) /\ TypeOK'
      /\ add # "no" /\ row = CreatedRow => final = NoFile \/ (add = "row" /\ final = first.cover)
  BY <1>1, <1>2, UnderWay
<1>3. lock' = NoTask
  BY <1>1, <1>u, LeaveIs
<1>b. offer[t].cand \in Covers /\ offer[t].manual \in BOOLEAN
  BY <1>u DEF Offers
<1>4. CASE offer[t].pc \in {"decide", "rename"}
  <2>1. tmp = offer[t].cand /\ meta = RowOf(offer[t].cand, offer[t].manual)
    BY <1>u, <1>4 DEF OfferAt
  <2>2. BytesOf(meta) /\ tmp # NoFile
    BY <2>1, <1>b, RowOfIs, Sentinels DEF BytesOf
  <2>3. Described(row, final) \/ meta = row
    BY <1>u, <1>4 DEF OfferAt
  <2> QED BY <1>1, <1>3, <1>u, <2>2, <2>3, Free DEF CreatedRow, Described, BytesOf
<1>5. CASE offer[t].pc \in {"discard2", "cleanup"}
  <2>1. Described(row, final) /\ (meta = NoFile \/ (meta = row /\ tmp = NoFile))
    BY <1>u, <1>5 DEF OfferAt
  <2>2. row \in Row
    BY <1>1, CoveredNow
  <2> QED BY <1>1, <1>3, <1>u, <2>1, <2>2, Free, Sentinels DEF CreatedRow, Described, BytesOf
<1> QED BY <1>1, <1>4, <1>5

LEMMA OfferDisk ==
  ASSUME Inv, NEW t \in Tasks, OfferRest(t) PROVE Disk'
<1>1. CASE Covered'
  BY <1>1, FetchFailsDisk, WriteTmpDisk, WriteMetaDisk, WriteFailsDisk, DecideDisk, DiscardDisk,
     CommitDisk, CommitFailsDisk, RenameDisk, RenameFailsDisk, CleanupDisk, DroppedDisk DEF OfferRest
<1> QED BY <1>1, NotCovered

LEMMA EnterDisk ==
  ASSUME Inv, NEW t \in Tasks, NEW c \in Covers, NEW m \in BOOLEAN, Enter(t, c, m),
         ~m => ~manual_selection_blocks_candidate
  PROVE  Disk'
<1> SUFFICES ASSUME Covered' PROVE Disk'
  BY NotCovered
<1>1. /\ lock = NoTask /\ lock' = t /\ row # Gone
      /\ offer'[t] = [pc |-> "fetch", cand |-> c, manual |-> m, seen |-> row]
      /\ UNCHANGED <<row, final, tmp, meta, boot, first, add, lapse>>
  BY EnterIs DEF Inv
<1>2. Covered
  BY <1>1 DEF Covered
<1>3. boot \notin Verdicts
  BY <1>1, Sentinels DEF Inv, Shape, LockHeld
<1>4. RowDescribesDisk' /\ SidecarTold'
  BY <1>1 DEF Inv, Disk, Covered, RowDescribesDisk, SidecarTold, Described, Pending, BytesOf
<1>5. OfferKept'
  <2>1. row.manual /\ ~m => final = NoFile
    BY DEF manual_selection_blocks_candidate
  <2>2. OfferAt(offer[t])'
    BY <1>1, <2>1 DEF OfferAt
  <2> QED BY <1>1, <2>2 DEF OfferKept
<1>6. RecoveryKept'
  BY <1>1, <1>3 DEF RecoveryKept, Verdicts
<1>7. AddKept'
  BY <1>1, <1>2 DEF Inv, Disk, AddKept, CreatedRow, BytesOf
<1> QED BY <1>4, <1>5, <1>6, <1>7 DEF Disk

-----------------------------------------------------------------------------
(* Recovery.                                                                *)

\* What has to be shown of a step of the startup passes: the add path of this
\* process is not under way.
LEMMA UnderRecovery ==
  ASSUME Covered', lock' \in {NoTask, Recovery}, add' = "no",
         Described(row', final') \/ (meta' = row' /\ BytesOf(row)'),
         meta' = row' /\ tmp' # NoFile => BytesOf(row)',
         meta' \notin {NoFile, Torn, row'} => tmp' # NoFile \/ boot' = "toss2",
         RecoveryKept'
  PROVE  Disk'
<1>1. RowDescribesDisk' /\ SidecarTold'
  BY DEF RowDescribesDisk, SidecarTold, Pending, BytesOf, Covered
<1>2. OfferKept'
  BY Sentinels DEF OfferKept
<1>3. AddKept'
  BY DEF AddKept
<1> QED BY <1>1, <1>2, <1>3 DEF Disk

LEMMA ScanDisk ==
  ASSUME Inv, recover_one, Covered' PROVE Disk'
<1>1. /\ boot = "scan" /\ lock = NoTask /\ Covered
      /\ UNCHANGED <<row, final, tmp, meta, add>>
  BY DEF recover_one, Covered, fileVars
<1>2. add = "no"
  BY <1>1 DEF Inv, Shape, AddIsFirst
<1>3. lock' \in {NoTask, Recovery}
  BY <1>1 DEF recover_one
<1>4. RecoveryKept'
  <2>1. CASE meta = NoFile
    BY <2>1 DEF recover_one, RecoveryKept
  <2>2. CASE meta # NoFile
    <3>1. boot' = Verdict
      BY <2>2 DEF recover_one
    <3>2. row # Gone /\ (meta \notin {NoFile, Torn, row} => tmp # NoFile)
      BY <1>1, CoveredNow
    <3>3. boot' = "heal" => stamp' = row'
      BY <1>1, <2>2, <3>1, <3>2 DEF recover_one, Verdict
    <3> QED BY <1>1, <2>2, <3>1, <3>2, <3>3 DEF RecoveryKept, Verdict
  <2> QED BY <2>1, <2>2
<1>5. /\ Described(row', final') \/ (meta' = row' /\ BytesOf(row)')
      /\ meta' = row' /\ tmp' # NoFile => BytesOf(row)'
      /\ meta' \notin {NoFile, Torn, row'} => tmp' # NoFile
  BY <1>1, CoveredNow DEF Described, BytesOf
<1> QED BY <1>1, <1>2, <1>3, <1>4, <1>5, UnderRecovery

\* The verdict's state under recovery's lock.
LEMMA VerdictNow ==
  ASSUME Inv, Covered, boot \in Verdicts
  PROVE  /\ row \in Row /\ add = "no" /\ lock = Recovery
         /\ boot \in {"junk", "junk2", "toss", "toss2", "finish2", "heal", "heal2"} =>
              Described(row, final)
         /\ boot = "junk2" => meta = NoFile
         /\ boot = "finish" => meta = row /\ tmp # NoFile /\ BytesOf(row)
         /\ boot \in {"finish2", "heal", "heal2"} => meta = row /\ tmp = NoFile
         /\ boot \in {"toss", "toss2"} => meta # row
         /\ boot = "heal" => stamp = row
<1>1. add = "no" /\ lock = Recovery
  BY DEF Inv, Shape, AddIsFirst, LockHeld, Verdicts
<1>2. /\ boot = "junk" => meta = Torn
      /\ boot = "junk2" => meta = NoFile
      /\ boot = "finish" => meta = row /\ tmp # NoFile
      /\ boot \in {"finish2", "heal", "heal2"} => meta = row /\ tmp = NoFile
      /\ boot = "toss" => meta \notin {row, NoFile}
      /\ boot = "toss2" => meta # row
      /\ boot = "heal" => stamp = row
  BY DEF Inv, Disk, RecoveryKept
<1>3. /\ row \in Row
      /\ Described(row, final) \/ (meta = row /\ BytesOf(row))
      /\ meta = row /\ tmp # NoFile => BytesOf(row)
  BY CoveredNow
<1>4. row # NoFile /\ row # Torn /\ (tmp = NoFile => ~BytesOf(row))
  BY <1>3, Sentinels DEF BytesOf
<1> QED BY <1>1, <1>2, <1>3, <1>4

LEMMA JunkDisk ==
  ASSUME Inv, RecoverJunk, Covered' PROVE Disk'
<1>1. Covered /\ boot \in Verdicts /\ UNCHANGED <<row, final, add>>
  BY DEF RecoverJunk, Covered, Verdicts
<1>2. row \in Row /\ add = "no" /\ lock = Recovery /\ Described(row, final) /\ meta' = NoFile
  BY <1>1, VerdictNow DEF RecoverJunk
<1>3. RecoveryKept' /\ lock' \in {NoTask, Recovery}
  BY <1>2 DEF RecoverJunk, RecoveryKept, Step, Release
<1> QED BY <1>1, <1>2, <1>3, UnderRecovery, Sentinels DEF Described

LEMMA FinishDisk ==
  ASSUME Inv, RecoverFinish, Covered' PROVE Disk'
<1>1. Covered /\ boot \in Verdicts /\ UNCHANGED <<row, add>>
  BY DEF RecoverFinish, Covered, Verdicts
<1>2. row \in Row /\ add = "no" /\ lock = Recovery
  BY <1>1, VerdictNow
<1>3. CASE /\ boot = "finish" /\ final' = tmp /\ tmp' = NoFile /\ meta' = meta /\ Step("finish2")
  <2>1. meta = row /\ tmp \in Covers /\ RowOf(tmp, row.manual) = row
    BY <1>1, <1>3, VerdictNow DEF BytesOf
  <2>2. Described(row', final')
    BY <1>1, <1>2, <1>3, <2>1, RowOfIs DEF Row
  <2>3. RecoveryKept' /\ lock' \in {NoTask, Recovery}
    BY <1>1, <1>2, <1>3, <2>1 DEF RecoveryKept, Step
  <2> QED BY <1>1, <1>2, <1>3, <2>1, <2>2, <2>3, UnderRecovery
<1>4. CASE boot = "finish" /\ tmp = NoFile
  BY <1>1, <1>4, VerdictNow
<1>5. CASE boot = "finish2" /\ meta' = NoFile /\ UNCHANGED <<final, tmp>> /\ Release("backfill")
  <2>1. Described(row, final)
    BY <1>1, <1>5, VerdictNow
  <2>2. RecoveryKept' /\ lock' \in {NoTask, Recovery}
    BY <1>5 DEF RecoveryKept, Release
  <2> QED BY <1>1, <1>2, <1>5, <2>1, <2>2, UnderRecovery, Sentinels DEF Described
<1> QED BY <1>3, <1>4, <1>5 DEF RecoverFinish

LEMMA TossDisk ==
  ASSUME Inv, RecoverToss, Covered' PROVE Disk'
<1>1. Covered /\ boot \in Verdicts /\ UNCHANGED <<row, final, add>>
  BY DEF RecoverToss, Covered, Verdicts
<1>2. /\ row \in Row /\ add = "no" /\ lock = Recovery /\ Described(row, final) /\ meta # row
  BY <1>1, VerdictNow DEF RecoverToss
<1>3. /\ (boot' = "toss2" /\ meta' = meta) \/ (boot' = "backfill" /\ meta' = NoFile)
      /\ lock' \in {NoTask, Recovery}
  BY <1>2 DEF RecoverToss, Step, Release
<1>4. RecoveryKept'
  BY <1>1, <1>2, <1>3 DEF RecoveryKept
<1> QED BY <1>1, <1>2, <1>3, <1>4, UnderRecovery, Sentinels DEF Described

\* Where nothing has lapsed, the row that recovery would heal needs no healing.
LEMMA HealDisk ==
  ASSUME Inv, RecoverHeal, Covered' PROVE Disk' /\ row' = row
<1>1. Covered /\ boot \in Verdicts /\ UNCHANGED <<final, tmp, add>>
  BY DEF RecoverHeal, Covered, Verdicts
<1>2. /\ row \in Row /\ add = "no" /\ lock = Recovery /\ Described(row, final)
      /\ meta = row /\ tmp = NoFile /\ (boot = "heal" => stamp = row)
  BY <1>1, VerdictNow DEF RecoverHeal
<1>3. row' = row
  BY <1>2 DEF RecoverHeal
<1>4. /\ (boot' = "heal2" /\ meta' = meta) \/ (boot' = "backfill" /\ meta' = NoFile)
      /\ lock' \in {NoTask, Recovery}
  BY <1>2 DEF RecoverHeal, Step, Release
<1>5. RecoveryKept'
  BY <1>1, <1>2, <1>3, <1>4 DEF RecoveryKept
<1> QED BY <1>1, <1>2, <1>3, <1>4, <1>5, UnderRecovery, Sentinels DEF Described

LEMMA SkipLapses == ASSUME RecoverSkips PROVE ~Covered'
BY DEF RecoverSkips, Lapse, Covered

-----------------------------------------------------------------------------
(* The writers without the lock, and the crash.                             *)

LEMMA BackfillReadDisk ==
  ASSUME Inv, BackfillRead, Covered' PROVE Disk'
<1>1. /\ Covered /\ UNCHANGED <<row, final, tmp, meta, lock, offer, first, add>>
      /\ boot = "backfill" /\ boot' \in {"stamp", "up"}
  BY DEF BackfillRead, Covered, fileVars
<1> QED BY <1>1 DEF Inv, Disk, RowDescribesDisk, SidecarTold, OfferKept, RecoveryKept, AddKept,
           Covered, Described, Pending, BytesOf, OfferAt, CreatedRow

\* Unlapsed, the backfill rewrites the source of a row that nobody else writes.
LEMMA BackfillWriteIs ==
  ASSUME Inv, BackfillWrite, Covered'
  PROVE  /\ Covered /\ row = stamp /\ lock = NoTask /\ meta = NoFile /\ add = "no"
         /\ row' = [row EXCEPT !.source = HostSource[row.url]]
         /\ row \in Row /\ row' \in Row /\ row'.url = row.url /\ row'.w = row.w /\ row'.h = row.h
         /\ row'.manual = row.manual
<1>1. lapse' = "none" /\ row' # Gone
  BY DEF Covered
<1>2. lapse = "none" /\ ~(row # stamp \/ lock # NoTask \/ meta # NoFile)
  BY <1>1, LapseIs DEF BackfillWrite
<1>3. row # Gone
  BY <1>1 DEF BackfillWrite
<1>4. row' = [row EXCEPT !.source = HostSource[row.url]]
  BY <1>2, <1>3 DEF BackfillWrite
<1>5. row \in Row
  BY <1>3 DEF Inv, TypeOK
<1>6. add = "no"
  BY <1>2 DEF BackfillWrite, Inv, Shape, AddIsFirst, StampedHost
<1>7. row' \in Row
  BY <1>1, NextType DEF Inv, Shape, Next, TypeOK
<1> QED BY <1>2, <1>3, <1>4, <1>5, <1>6, <1>7 DEF Covered, Row

LEMMA BackfillWriteDisk ==
  ASSUME Inv, BackfillWrite, Covered' PROVE Disk'
<1>1. /\ Covered /\ lock = NoTask /\ meta = NoFile /\ add = "no" /\ row \in Row
      /\ row' \in Row /\ row'.url = row.url /\ row'.w = row.w /\ row'.h = row.h
  BY BackfillWriteIs
<1>2. UNCHANGED <<final, tmp, meta, lock, add>> /\ boot' = "up"
  BY DEF BackfillWrite, fileVars
<1>3. Described(row, final)
  BY <1>1, CoveredNow, Sentinels
<1>4. Described(row', final')
  BY <1>1, <1>2, <1>3 DEF Described
<1>5. RecoveryKept'
  BY <1>2 DEF RecoveryKept
<1> QED BY <1>1, <1>2, <1>4, <1>5, UnderRecovery, Sentinels

\* Unlapsed, the add path works on the row it was started for.
LEMMA AddIs ==
  ASSUME Inv, AddFile \/ AddRow, Covered'
  PROVE  /\ Covered /\ lock = NoTask /\ row = CreatedRow /\ row \in Row
         /\ final = NoFile \/ (add = "row" /\ final = first.cover)
         /\ meta \in Row /\ tmp # NoFile => BytesOf(meta)
         /\ first.cover \in Covers /\ boot = "up" /\ boot' = boot /\ lock' = lock
         /\ row.source = "none" /\ row.w = 0 /\ row.url = first.cover.url
         /\ row.manual = first.manual /\ first.manual \in BOOLEAN
         /\ tmp' = tmp /\ meta' = meta
<1>1. lapse' = "none" /\ row' # Gone /\ add # "no"
  BY DEF Covered, AddFile, AddRow
<1>2. lapse = "none" /\ ~Disturbed
  BY <1>1, LapseIs DEF AddFile, AddRow, Disturbed
<1>3. row # Gone
  BY <1>1 DEF AddFile, AddRow
<1>4. Covered /\ lock = NoTask /\ row = CreatedRow /\ row \in Row
  BY <1>2, <1>3 DEF Covered, Disturbed, Inv, TypeOK
<1>5. first \in [cover : Covers, manual : BOOLEAN]
  BY DEF Inv, TypeOK
<1>6. /\ final = NoFile \/ (add = "row" /\ final = first.cover)
      /\ meta \in Row /\ tmp # NoFile => BytesOf(meta)
  BY <1>1, <1>4 DEF Inv, Disk, AddKept
<1>7. boot = "up" /\ boot' = boot /\ lock' = lock /\ tmp' = tmp /\ meta' = meta
  BY <1>1 DEF Inv, Shape, AddIsFirst, AddFile, AddRow, fileVars
<1> QED BY <1>4, <1>5, <1>6, <1>7, CreatedRowIs

\* No sidecar can agree with a row that has no source.
LEMMA CreatedIsNobodys ==
  ASSUME Inv, Covered, row.source = "none" PROVE ~BytesOf(row)
<1>1. row \in Row
  BY CoveredNow
<1> QED BY <1>1, RowOfIs DEF BytesOf, Row

LEMMA AddFileDisk ==
  ASSUME Inv, AddFile, Covered' PROVE Disk'
<1>1. /\ Covered /\ lock = NoTask /\ row = CreatedRow /\ row \in Row
      /\ final = NoFile \/ (add = "row" /\ final = first.cover)
      /\ meta \in Row /\ tmp # NoFile => BytesOf(meta)
      /\ first.cover \in Covers /\ boot = "up" /\ boot' = boot /\ lock' = lock
      /\ row.w = 0 /\ row.url = first.cover.url
      /\ tmp' = tmp /\ meta' = meta
  BY AddIs
<1>2. /\ UNCHANGED <<row, first>> /\ add' = "row" /\ add = "file"
      /\ final' = first.cover \/ final' = final
  BY DEF AddFile
<1>3. Described(row', final')
  BY <1>1, <1>2 DEF Described
<1>4. TypeOK'
  BY NextType DEF Inv, Shape, Next
<1>5. /\ meta = row /\ tmp # NoFile => BytesOf(row)
      /\ meta \notin {NoFile, Torn, row} => tmp # NoFile
  BY <1>1, CoveredNow
<1> QED BY <1>1, <1>2, <1>3, <1>4, <1>5, Free DEF Verdicts, BytesOf

LEMMA AddRowDisk ==
  ASSUME Inv, AddRow, Covered' PROVE Disk'
<1>1. /\ Covered /\ lock = NoTask /\ row = CreatedRow /\ row \in Row
      /\ final = NoFile \/ (add = "row" /\ final = first.cover)
      /\ meta \in Row /\ tmp # NoFile => BytesOf(meta)
      /\ first.cover \in Covers /\ boot = "up" /\ boot' = boot /\ lock' = lock
      /\ row.source = "none" /\ row.url = first.cover.url
      /\ tmp' = tmp /\ meta' = meta
  BY AddIs
<1>2. /\ final' = final /\ add' = "no"
      /\ row'.url = first.cover.url
      /\ row'.w = IF final \in Covers THEN final.w ELSE 0
      /\ row'.h = IF final \in Covers THEN final.h ELSE 0
  BY DEF AddRow, fileVars, Covered
<1>3. Described(row', final')
  BY <1>1, <1>2, Sentinels DEF Described
<1>4. TypeOK' /\ row' \in Row
  <2>1. TypeOK'
    BY NextType DEF Inv, Shape, Next
  <2> QED BY <2>1 DEF TypeOK, Covered
<1>5. meta' = row' /\ tmp' # NoFile => BytesOf(row)'
  BY <1>1, <1>4 DEF BytesOf
<1>6. meta' \notin {NoFile, Torn, row'} => tmp' # NoFile
  <2>2. meta \in Row /\ meta # row => tmp # NoFile
    BY <1>1, CoveredNow, Sentinels
  <2>3. meta # row
    BY <1>1 DEF Inv, Shape, SidecarSourced
  <2> QED BY <1>1, <2>2, <2>3 DEF Inv, TypeOK
<1> QED BY <1>1, <1>2, <1>3, <1>4, <1>5, <1>6, Free DEF Verdicts

\* The deletion of a work takes the row first.
LEMMA DeleteUncovers == ASSUME Inv, DeleteWork PROVE ~Covered'
BY DEF DeleteWork, Covered, Inv, Shape, RowFirst

\* A crash leaves the files as they are, with nobody at work on them.
LEMMA CrashDisk ==
  ASSUME Inv, Crash, Covered' PROVE Disk'
<1>1. lapse = "none" /\ boot # "toss2"
  <2>1. lapse' = "none" /\ Lapse(boot = "toss2", "toss")
    BY DEF Covered, Crash
  <2> QED BY <2>1, LapseIs
<1>2. Covered /\ UNCHANGED <<row, final, tmp, meta>> /\ lock' = NoTask /\ add' = "no" /\ boot' = "scan"
  BY <1>1 DEF Crash, Covered, fileVars
<1>3. /\ Described(row, final) \/ (meta = row /\ BytesOf(row))
      /\ meta = row /\ tmp # NoFile => BytesOf(row)
      /\ meta \notin {NoFile, Torn, row} => tmp # NoFile
  BY <1>1, <1>2, CoveredNow
<1>4. RecoveryKept'
  BY <1>2 DEF RecoveryKept
<1>5. /\ Described(row', final') \/ (meta' = row' /\ BytesOf(row)')
      /\ meta' = row' /\ tmp' # NoFile => BytesOf(row)'
      /\ meta' \notin {NoFile, Torn, row'} => tmp' # NoFile
  BY <1>2, <1>3 DEF Described, BytesOf
<1> QED BY <1>2, <1>4, <1>5, UnderRecovery

LEMMA StrayUncovers == ASSUME Inv, StrayStep PROVE ~Covered'
BY StrayIs DEF Covered, Inv, Shape, StrayLapsed

LEMMA InitDisk == Init => Disk
<1> SUFFICES ASSUME Init PROVE Disk
  OBVIOUS
<1>1. TypeOK /\ Shape
  BY InitType, InitShape
<1>2. /\ tmp = NoFile /\ meta = NoFile /\ lock = NoTask /\ boot = "up"
  BY DEF Init
<1>3. row # Gone => row \in Row
  BY <1>1 DEF TypeOK
<1>4. row # Gone => Described(row, final)
  <2>1. CASE row = EmptyRow /\ final = NoFile
    BY <2>1 DEF EmptyRow, Described
  <2>2. ASSUME NEW c \in Covers, row = RowOf(c, FALSE), final = c
        PROVE  Described(row, final)
    BY <2>2, RowOfIs
  <2>3. CASE row = CreatedRow /\ final = NoFile
    BY <2>3, <1>1, CreatedRowIs DEF TypeOK, Described
  <2> QED BY <2>1, <2>2, <2>3 DEF Init
<1>5. RowDescribesDisk /\ SidecarTold
  BY <1>2, <1>3, <1>4, Sentinels DEF RowDescribesDisk, SidecarTold, Covered
<1>6. OfferKept
  BY <1>2, Sentinels DEF OfferKept
<1>7. RecoveryKept
  BY <1>2 DEF RecoveryKept
<1>8. AddKept
  BY <1>2, Sentinels DEF AddKept, Init
<1> QED BY <1>5, <1>6, <1>7, <1>8 DEF Disk

LEMMA NextDisk == ASSUME Inv, [Next]_vars PROVE Disk'
<1>1. ASSUME NEW t \in Tasks, Offer(t) PROVE Disk'
  <2>1. CASE OfferRest(t)
    BY <2>1, OfferDisk
  <2>2. CASE ~OfferRest(t)
    BY <1>1, <2>2, EntryIs, EnterDisk
  <2> QED BY <2>1, <2>2
<1>2. CASE Covered' /\ Recover
  BY <1>2, ScanDisk, SkipLapses, JunkDisk, FinishDisk, TossDisk, HealDisk DEF Recover
<1>3. CASE Covered' /\ (BackfillRead \/ BackfillWrite \/ AddFile \/ AddRow)
  BY <1>3, BackfillReadDisk, BackfillWriteDisk, AddFileDisk, AddRowDisk
<1>4. CASE Covered' /\ (DeleteWork \/ Crash \/ StrayStep)
  BY <1>4, DeleteUncovers, StrayUncovers, CrashDisk
<1>5. CASE UNCHANGED vars
  BY <1>5 DEF vars, Inv, Disk, RowDescribesDisk, SidecarTold, OfferKept, RecoveryKept, AddKept,
     Covered, Described, Pending, BytesOf, OfferAt, CreatedRow
<1>6. CASE ~Covered'
  BY <1>6, NotCovered
<1> QED BY <1>1, <1>2, <1>3, <1>4, <1>5, <1>6 DEF Next

LEMMA InitInv == Init => Inv
BY InitType, InitShape, InitDisk DEF Inv

LEMMA NextInv == Inv /\ [Next]_vars => Inv'
BY NextType, NextShape, NextDisk DEF Inv, Shape

LEMMA SpecInv == Spec => []Inv
BY InitInv, NextInv, PTL DEF Spec

-----------------------------------------------------------------------------
(* The results.                                                             *)

\* Type correctness: the row, the served file, both candidate files, the slot
\* lock and every offer keep their types through saves, recovery, the unlocked
\* writers and crashes.
THEOREM TypesHold == Spec => []TypeOK
<1>1. Inv => TypeOK
  BY DEF Inv
<1> QED BY <1>1, SpecInv, PTL

\* "The row always describes the file actually on disk": at every step of every
\* save, of recovery, of the backfill and of the add path, and after any crash,
\* the works row describes the served cover or its bytes still wait beside it,
\* for as long as none of the uncovered interleavings has happened.
THEOREM RowsDescribeTheDisk == Spec => []RowDescribesDisk
<1>1. Inv => RowDescribesDisk
  BY DEF Inv, Disk
<1> QED BY <1>1, SpecInv, PTL

\* Of all steps, these can change the row of a work that stays.
LEMMA RowWriters ==
  ASSUME Inv, [Next]_vars, Covered', row' # row
  PROVE  \/ \E t \in Tasks : Commit(t)
         \/ BackfillWrite \/ AddRow
<1>1. ASSUME NEW t \in Tasks, Offer(t) PROVE Commit(t)
  <2>1. CASE OfferRest(t)
    BY <2>1 DEF OfferRest, FetchFails, WriteTmp, WriteMeta, WriteFails, Decide,
       Discard, CommitFails, Rename, RenameFails, Cleanup, Dropped
  <2>2. CASE ~OfferRest(t)
    <3>1. PICK c \in Covers, m \in BOOLEAN : Enter(t, c, m)
      BY <1>1, <2>2, EntryIs
    <3> QED BY <3>1 DEF Enter
  <2> QED BY <2>1, <2>2
<1>2. CASE Recover
  <2>1. ~RecoverHeal
    BY HealDisk
  <2> QED BY <1>2, <2>1 DEF Recover, recover_one, RecoverSkips, RecoverJunk, RecoverFinish, RecoverToss
<1>3. CASE DeleteWork \/ StrayStep
  BY <1>3, DeleteUncovers, StrayUncovers
<1> QED BY <1>1, <1>2, <1>3 DEF Next, BackfillRead, AddFile, Crash, vars

\* What a commit replaces: the row it was judged against, under its own lock.
LEMMA CommitIs ==
  ASSUME Inv, NEW t \in Tasks, Commit(t), Covered'
  PROVE  /\ row' = RowOf(offer[t].cand, offer[t].manual) /\ offer[t].cand \in Covers
         /\ offer[t].manual \in BOOLEAN /\ row'.manual = offer[t].manual
         /\ offer[t].manual \/ should_upgrade_same_tier(row, row', RankModel)
         /\ row.manual /\ ~offer[t].manual => final = NoFile /\ meta.manual = FALSE
<1>1. OfferRest(t) /\ Covered
  BY DEF OfferRest, Commit, Covered
<1>2. offer[t] \in Offers /\ OfferAt(offer[t])
  BY <1>1, UnderWay
<1>3. offer[t].cand \in Covers /\ offer[t].manual \in BOOLEAN /\ offer[t].pc = "commit"
  BY <1>2 DEF Offers, Commit, At
<1>4. row' = RowOf(offer[t].cand, offer[t].manual)
  BY DEF Commit
<1>5. row'.manual = offer[t].manual
  BY <1>3, <1>4, RowOfIs
<1>6. /\ offer[t].manual \/ should_upgrade_same_tier(row, offer[t].cand, RankModel)
      /\ row.manual /\ ~offer[t].manual => final = NoFile
      /\ meta = RowOf(offer[t].cand, offer[t].manual)
  BY <1>2, <1>3 DEF OfferAt
<1>7. offer[t].manual \/ should_upgrade_same_tier(row, row', RankModel)
  BY <1>3, <1>4, <1>6, JudgedAlike
<1>8. row.manual /\ ~offer[t].manual => final = NoFile /\ meta.manual = FALSE
  BY <1>3, <1>4, <1>5, <1>6
<1> QED BY <1>3, <1>4, <1>5, <1>7, <1>8

\* An automatic change of an automatic cover is an upgrade by the comparator
\* over the very row it replaces, or keeps that row's cover: the decision taken
\* before the candidate was written is never stale when it is committed.
THEOREM ChangesAreUpgrades == Spec => UpgradesOnly
<1> DEFINE Upgrades ==
      row # Gone /\ row' # Gone /\ row' # row /\ ~row.manual /\ ~row'.manual /\ lapse' = "none"
      => should_upgrade_same_tier(row, row', RankModel) \/ row.url = row'.url
<1>1. Inv /\ [Next]_vars => Upgrades
  <2> SUFFICES ASSUME Inv, [Next]_vars, row # Gone, row' # Gone, row' # row, ~row.manual,
                      ~row'.manual, lapse' = "none"
               PROVE  should_upgrade_same_tier(row, row', RankModel) \/ row.url = row'.url
    OBVIOUS
  <2>1. Covered'
    BY DEF Covered
  <2>2. ASSUME NEW t \in Tasks, Commit(t) PROVE should_upgrade_same_tier(row, row', RankModel)
    BY <2>1, <2>2, CommitIs
  <2>3. CASE BackfillWrite
    BY <2>1, <2>3, BackfillWriteIs
  <2>4. CASE AddRow
    <3>1. row.url = first.cover.url
      BY <2>1, <2>4, AddIs
    <3> QED BY <2>4, <3>1 DEF AddRow
  <2> QED BY <2>1, <2>2, <2>3, <2>4, RowWriters
<1>2. Spec => [][Upgrades]_vars
  BY <1>1, SpecInv, PTL DEF Spec
<1> QED BY <1>2 DEF UpgradesOnly

\* A cover the user chose is never replaced by an automatic one of an offer or of
\* recovery while its file is served or waits for recovery, whichever steps of two
\* offers fall between the manual guard and the commit.  Not said of behaviours with
\* a lapse: the backfill and the add path, when they write over a row that was
\* changed since they read it, do replace the choice.
THEOREM ChoicesAreKept == Spec => ManualKept
<1> DEFINE Kept ==
      row # Gone /\ row' # Gone /\ row.manual /\ ~row'.manual /\ lapse' = "none"
      => final = NoFile /\ ~Pending
<1>1. Inv /\ [Next]_vars => Kept
  <2> SUFFICES ASSUME Inv, [Next]_vars, row # Gone, row' # Gone, row.manual, ~row'.manual,
                      lapse' = "none"
               PROVE  final = NoFile /\ ~Pending
    OBVIOUS
  <2>1. Covered' /\ row' # row
    BY DEF Covered
  <2>2. ASSUME NEW t \in Tasks, Commit(t) PROVE final = NoFile /\ ~Pending
    <3>1. final = NoFile /\ meta.manual = FALSE
      BY <2>1, <2>2, CommitIs
    <3> QED BY <3>1 DEF Pending
  <2>3. CASE BackfillWrite
    BY <2>1, <2>3, BackfillWriteIs
  <2>4. CASE AddRow
    <3>1. /\ final = NoFile \/ final = first.cover
          /\ first.cover \in Covers /\ row.manual = first.manual /\ row.source = "none"
          /\ row \in Row
      BY <2>1, <2>4, AddIs
    <3>2. row'.manual = (first.manual /\ final \in Covers)
      BY <2>4 DEF AddRow
    <3>3. meta # row
      BY <3>1 DEF Inv, Shape, SidecarSourced
    <3> QED BY <3>1, <3>2, <3>3 DEF Pending
  <2> QED BY <2>1, <2>2, <2>3, <2>4, RowWriters
<1>2. Spec => [][Kept]_vars
  BY <1>1, SpecInv, PTL DEF Spec
<1> QED BY <1>2 DEF ManualKept

\* The startup pass settles the slot: when recovery gives the lock back, no
\* sidecar is left and the row describes the served file, whichever two steps
\* of a save or a discard the crash fell between.  A crash inside an earlier
\* recovery's own discard is a lapse ("toss") and is left out.
THEOREM RecoverySettlesSlots == Spec => RecoverySettles
<1> DEFINE Settles ==
      lock = Recovery /\ lock' = NoTask /\ boot' = "backfill" /\ lapse' = "none"
      => \/ row' = Gone
         \/ meta' = NoFile /\ Described(row', final')
<1>1. Inv /\ [Next]_vars => Settles
  <2> SUFFICES ASSUME Inv, [Next]_vars, lock = Recovery, lock' = NoTask, boot' = "backfill",
                      lapse' = "none", row' # Gone
               PROVE  meta' = NoFile /\ Described(row', final')
    OBVIOUS
  <2>1. Covered'
    BY DEF Covered
  <2>2. boot \in Verdicts
    BY DEF Inv, Shape, LockHeld
  <2>3. RecoverJunk \/ RecoverFinish \/ RecoverToss \/ RecoverHeal
    <3>1. ~ \E t \in Tasks : Offer(t)
      <4> SUFFICES ASSUME NEW t \in Tasks, Offer(t) PROVE FALSE
        OBVIOUS
      <4>1. CASE OfferRest(t)
        BY <2>2, <4>1, OfferShape DEF Inv
      <4>2. CASE ~OfferRest(t)
        <5>1. PICK c \in Covers, m \in BOOLEAN : Enter(t, c, m)
          BY <4>2, EntryIs
        <5> QED BY <5>1, Sentinels DEF Enter
      <4> QED BY <4>1, <4>2
    <3>2. ~RecoverSkips
      BY <2>1, SkipLapses
    <3> QED BY <3>1, <3>2, Sentinels DEF Next, Recover, recover_one, BackfillRead, BackfillWrite,
               StrayStep, AddFile, AddRow, DeleteWork, Crash, vars
  <2>4. Covered
    BY <2>1, <2>3, HealDisk DEF Covered, RecoverJunk, RecoverFinish, RecoverToss, RecoverHeal
  <2>5. meta' = NoFile
    BY <2>2, <2>3, <2>4, VerdictNow DEF RecoverJunk, RecoverFinish, RecoverToss, RecoverHeal,
       Step, Release
  <2>6. Described(row', final')
    <3>1. Disk' /\ TypeOK'
      BY NextDisk, NextType DEF Inv, Shape
    <3>2. row' \in Row
      BY <2>1, <3>1 DEF TypeOK, Covered
    <3> QED BY <2>1, <2>5, <3>1, <3>2, Sentinels DEF Disk, RowDescribesDisk, Covered, Pending
  <2> QED BY <2>5, <2>6
<1>2. Spec => [][Settles]_vars
  BY <1>1, SpecInv, PTL DEF Spec
<1> QED BY <1>2 DEF RecoverySettles
=============================================================================
