-------------------------- MODULE GrabLifecycle_proofs --------------------------
(***************************************************************************)
(* Safety of one row of the grabs table under all its writers, for any     *)
(* downloads, imports, permits and bounds.                                 *)
(***************************************************************************)
EXTENDS GrabLifecycle, TLAPS

\* Without a row there is no import, and the poller is not working on one.
Rowed ==
  row = None => /\ \A t \in Tasks : ~Live(t)
                /\ ppc \in {"idle", "list", "retry"}

\* As long as nobody writes the status under an import, it keeps every other
\* caller of try_set_importing() out.
Held ==
  ~disturbed => \A t \in Tasks : Live(t) => row.status \in {"importing", "imported"}

IInv == TypeOK /\ Rowed /\ ImportingHasOwner /\ Held /\ OneImporterUndisturbed

\* The actions that write no row and start and end no import.
Reads(t) == Permit(t) \/ Resolve(t) \/ Read(t) \/ Lock(t) \/ Run(t) \/ PostFailed(t)

-----------------------------------------------------------------------------
(* Types *)

\* A row with one field replaced is a row.
LEMMA RowFields ==
  ASSUME NEW r \in Grab
  PROVE  /\ \A s \in GrabStatus : [r EXCEPT !.status = s] \in Grab
         /\ \A d \in Downloads \cup {None} : [r EXCEPT !.path = d] \in Grab
         /\ \A s \in GrabStatus, d \in Downloads : [r EXCEPT !.status = s, !.download = d] \in Grab
         /\ [r EXCEPT !.retries = @ + 1] \in Grab
<1>1. \A s \in GrabStatus : [r EXCEPT !.status = s] \in Grab
  BY DEF Grab
<1>2. \A d \in Downloads \cup {None} : [r EXCEPT !.path = d] \in Grab
  BY DEF Grab
<1>3. \A s \in GrabStatus, d \in Downloads : [r EXCEPT !.status = s, !.download = d] \in Grab
  BY DEF Grab
<1>4. [r EXCEPT !.retries = @ + 1] \in Grab
  BY DEF Grab
<1> QED BY <1>1, <1>2, <1>3, <1>4

\* The empty table at the start is well typed.
LEMMA InitTypeOK == Init => TypeOK
<1> SUFFICES ASSUME Init PROVE TypeOK
  OBVIOUS
<1>1. lost \in BOOLEAN /\ disturbed \in BOOLEAN
  BY DEF Init
<1>2. /\ client \in [Downloads -> ClientStates] /\ view \in [Downloads -> ClientStates]
      /\ tpc \in [Tasks -> TaskSteps] /\ by \in [Tasks -> {"poller", "request"}]
      /\ at \in [Tasks -> Downloads \cup {None}]
  BY DEF Init, ClientStates, TaskSteps
<1> QED BY <1>1, <1>2 DEF Init, TypeOK, PollSteps

\* So is the poller's empty view.
LEMMA BlankType == Blank \in [Downloads -> ClientStates]
BY DEF Blank, ClientStates

\* update_grab_status() keeps the row a row.
LEMMA SetStatusType ==
  ASSUME row \in Grab, NEW s \in GrabStatus, SetStatus(s)
  PROVE  row' \in Grab /\ row'.status = s
BY RowFields DEF SetStatus, Grab

\* Every step keeps every variable in its type.
LEMMA TypeStep ==
  ASSUME TypeOK, Rowed, [Next]_vars
  PROVE  TypeOK'
<1> USE GrabAssumption DEF TypeOK
<1>r. \A t \in Tasks : Live(t) => row \in Grab
  BY DEF Rowed
<1>1. ASSUME NEW d \in Downloads, Dispatch(d) PROVE TypeOK'
  BY <1>1 DEF Dispatch, pollVars, taskVars, ghosts, ClientStates
<1>2. ASSUME NEW d \in Downloads, Upsert(d) PROVE TypeOK'
  <2>1. row' \in Grab \cup {None}
    <3>1. [status |-> "sent", download |-> d, path |-> None, retries |-> 0] \in Grab
      BY DEF Grab, GrabStatus
    <3>2. row # None => [row EXCEPT !.status = "sent", !.download = d] \in Grab
      BY RowFields DEF GrabStatus
    <3> QED BY <1>2, <3>1, <3>2 DEF Upsert
  <2> QED BY <1>2, <2>1 DEF Upsert, pollVars, taskVars, ghosts, bounds
<1>3. ASSUME NEW d \in Downloads, ClientStep(d) PROVE TypeOK'
  BY <1>3 DEF ClientStep, pollVars, taskVars, ghosts, bounds, ClientStates
<1>4. CASE Remove
  <2>1. row' \in Grab
    BY <1>4, SetStatusType DEF Remove, GrabStatus
  <2> QED BY <1>4, <2>1 DEF Remove, Disturb, clientVars, pollVars, taskVars, bounds
<1>5. ASSUME NEW t \in Tasks, NEW who \in {"poller", "request"}, NEW step \in {"queued", "resolve"},
             Claim(t, who, step)
      PROVE  row' \in Grab /\ lost' \in BOOLEAN /\ tpc' \in [Tasks -> TaskSteps]
             /\ by' \in [Tasks -> {"poller", "request"}]
  <2>1. row' \in Grab
    BY <1>5, SetStatusType DEF Claim, Importable, GrabStatus
  <2> QED BY <1>5, <2>1 DEF Claim, TaskSteps
<1>6. ASSUME NEW t \in Tasks, RetryImport(t) PROVE TypeOK'
  BY <1>6, <1>5 DEF RetryImport, clientVars, pollVars, bounds
<1>7. CASE PollFetch
  BY <1>7 DEF PollFetch, NoFault, Fault, clientVars, taskVars, ghosts, PollSteps, ClientStates
<1>8. CASE PollList
  <2>1. snap' \in Grab \cup {None}
    BY <1>8 DEF PollList, Active
  <2>2. todo' \subseteq Downloads
    <3>1. row # None => row.download \in Downloads
      BY DEF Grab
    <3> QED BY <1>8, <3>1 DEF PollList, Active
  <2>3. view' \in [Downloads -> ClientStates]
    BY <1>8, BlankType DEF PollList
  <2>4. ppc' \in PollSteps /\ troubles' \in Nat
    BY <1>8 DEF PollList, PollSteps, NoFault, Fault
  <2> QED BY <1>8, <2>1, <2>2, <2>3, <2>4 DEF PollList, clientVars, taskVars, ghosts
<1>9. CASE PollHistory
  <2>1. view' \in [Downloads -> ClientStates]
    BY <1>9, BlankType DEF PollHistory, ClientStates
  <2> QED BY <1>9, <2>1 DEF PollHistory, NoFault, Fault, clientVars, taskVars, ghosts, PollSteps
<1>10. ASSUME NEW d \in Downloads, PollPath(d) PROVE TypeOK'
  <2>1. row' \in Grab \cup {None}
    <3>1. row \in Grab
      BY <1>10 DEF PollPath, Rowed
    <3>2. [row EXCEPT !.path = d] \in Grab
      BY <3>1, RowFields
    <3> QED BY <1>10, <3>1, <3>2 DEF PollPath
  <2> QED BY <1>10, <2>1 DEF PollPath, NoFault, Fault, clientVars, taskVars, ghosts, PollSteps
<1>11. ASSUME NEW t \in Tasks, PollClaim(t) \/ PollReclaim(t) PROVE TypeOK'
  BY <1>11, <1>5 DEF PollClaim, PollReclaim, clientVars, bounds, PollSteps
<1>12. CASE PollPass \/ PollRepass
  BY <1>12 DEF PollPass, PollRepass, NoFault, Fault, clientVars, taskVars, ghosts, PollSteps
<1>13. ASSUME NEW d \in Downloads, PollFail(d) PROVE TypeOK'
  <2>1. row' \in Grab
    BY <1>13, SetStatusType DEF PollFail, GrabStatus, Rowed
  <2> QED BY <1>13, <2>1 DEF PollFail, Disturb, clientVars, taskVars, bounds
<1>14. ASSUME NEW d \in Downloads, PollSkip(d) PROVE TypeOK'
  BY <1>14 DEF PollSkip, NoFault, Fault, clientVars, taskVars, ghosts
<1>15. CASE PollRetry
  BY <1>15, BlankType DEF PollRetry, clientVars, taskVars, ghosts, bounds, PollSteps
<1>16. CASE PollIncrement
  <2>1. row' \in Grab
    BY <1>16, RowFields DEF PollIncrement, Rowed
  <2> QED BY <1>16, <2>1 DEF PollIncrement, NoFault, Fault, clientVars, taskVars, ghosts, PollSteps
<1>17. ASSUME NEW t \in Tasks, Reads(t) PROVE TypeOK'
  <2>1. row \in Grab
    BY <1>17, <1>r DEF Reads, Permit, Resolve, Read, Lock, Run, PostFailed, Step, Live
  <2>2. row.path \in Downloads \cup {None} /\ row.download \in Downloads
    BY <2>1 DEF Grab
  <2>3. at' \in [Tasks -> Downloads \cup {None}] /\ tpc' \in [Tasks -> TaskSteps]
    BY <1>17, <2>2 DEF Reads, Permit, Resolve, Read, Lock, Run, PostFailed, Step, At, TaskSteps
  <2>4. troubles' \in Nat
    BY <1>17 DEF Reads, Permit, Resolve, Read, Lock, Run, PostFailed, NoFault, Fault, bounds
  <2> QED BY <1>17, <2>1, <2>3, <2>4
        DEF Reads, Permit, Resolve, Read, Lock, Run, PostFailed, clientVars, pollVars, ghosts, bounds
<1>18. ASSUME NEW t \in Tasks, Fetch(t) PROVE TypeOK'
  <2>1. row' \in Grab
    <3>1. row \in Grab
      BY <1>18, <1>r DEF Fetch, Step, Live
    <3>2. [row EXCEPT !.path = at[t]] \in Grab
      BY <3>1, RowFields
    <3> QED BY <1>18, <3>1, <3>2 DEF Fetch
  <2> QED BY <1>18, <2>1 DEF Fetch, Step, At, NoFault, Fault, TaskSteps, clientVars, pollVars, ghosts
<1>19. ASSUME NEW s \in GrabStatus, row \in Grab, Written(s)
       PROVE  row' \in Grab /\ lost' \in BOOLEAN /\ troubles' \in Nat
  <2>1. row' \in Grab
    BY <1>19, SetStatusType DEF Written
  <2>2. lost' \in BOOLEAN
    BY <1>19 DEF Written
  <2>3. troubles' \in Nat
    BY <1>19 DEF Written, NoFault, Fault
  <2> QED BY <2>1, <2>2, <2>3
<1>20. ASSUME NEW t \in Tasks, End(t)
       PROVE  /\ tpc' \in [Tasks -> TaskSteps] /\ by' \in [Tasks -> {"poller", "request"}]
              /\ at' \in [Tasks -> Downloads \cup {None}] /\ disturbed' \in BOOLEAN
  BY <1>20 DEF End, At, TaskSteps
<1>21. ASSUME NEW t \in Tasks, SaveImported(t) PROVE TypeOK'
  <2>1. row' \in Grab /\ lost' \in BOOLEAN /\ troubles' \in Nat
    BY <1>21, <1>19, <1>r DEF SaveImported, Step, Live, GrabStatus
  <2> QED BY <1>21, <2>1 DEF SaveImported, Step, At, TaskSteps, clientVars, pollVars
<1>22. ASSUME NEW t \in Tasks, SaveFailed(t) \/ Error(t) PROVE TypeOK'
  <2>1. row' \in Grab /\ lost' \in BOOLEAN /\ troubles' \in Nat
    BY <1>22, <1>19, <1>r DEF SaveFailed, Error, Live, GrabStatus
  <2> QED BY <1>22, <2>1, <1>20 DEF SaveFailed, Error, clientVars, pollVars
<1>23. ASSUME NEW t \in Tasks, Post(t) \/ Drop(t) PROVE TypeOK'
  BY <1>23, <1>20 DEF Post, Drop, clientVars, pollVars, bounds
<1>24. CASE Restart
  <2>1. row' \in Grab \cup {None}
    BY <1>24, RowFields DEF Restart, GrabStatus
  <2>2. lost' \in BOOLEAN /\ disturbed' \in BOOLEAN
    BY <1>24 DEF Restart
  <2>3. /\ tpc' \in [Tasks -> TaskSteps] /\ by' \in [Tasks -> {"poller", "request"}]
        /\ at' \in [Tasks -> Downloads \cup {None}]
    BY <1>24 DEF Restart, TaskSteps
  <2> QED BY <1>24, <2>1, <2>2, <2>3, BlankType DEF Restart, Fault, PollSteps
<1>25. CASE UNCHANGED vars
  BY <1>25 DEF vars
<1> QED
  BY <1>1, <1>2, <1>3, <1>4, <1>6, <1>7, <1>8, <1>9, <1>10, <1>11, <1>12, <1>13, <1>14, <1>15,
     <1>16, <1>17, <1>18, <1>21, <1>22, <1>23, <1>24, <1>25 DEF Next, Task, Poll, Reads

-----------------------------------------------------------------------------
(* The invariant *)

\* Claim: there was no import that nobody had disturbed, and now there is one.
LEMMA ClaimKeeps ==
  ASSUME IInv, TypeOK', NEW t \in Tasks, NEW who, NEW step \in {"queued", "resolve"},
         Claim(t, who, step), UNCHANGED disturbed
  PROVE  IInv'
<1> USE DEF TypeOK
<1>1. row \in Grab /\ row' \in Grab /\ row'.status = "importing" /\ row' # None
  BY SetStatusType, RowAssumption DEF IInv, Claim, Importable, GrabStatus
<1>2. tpc'[t] = step /\ \A u \in Tasks \ {t} : tpc'[u] = tpc[u]
  BY DEF IInv, Claim
<1>3. ~disturbed => \A u \in Tasks : ~Live(u)
  BY DEF IInv, Held, Claim, Importable
<1>4. Rowed'
  BY <1>1 DEF Rowed
<1>5. ImportingHasOwner'
  BY <1>2 DEF ImportingHasOwner, Importers, Live
<1>6. Held'
  BY <1>1 DEF Held
<1>7. OneImporterUndisturbed'
  BY <1>2, <1>3 DEF OneImporterUndisturbed, Live
<1> QED BY <1>4, <1>5, <1>6, <1>7 DEF IInv

\* A step that leaves the row and the imports alone.
LEMMA IdleKeeps ==
  ASSUME IInv, TypeOK', UNCHANGED <<tpc, lost, disturbed>>,
         row' = row \/ (row # None /\ row' \in Grab /\ row'.status = row.status),
         row = None => ppc' \in {"idle", "list", "retry"}
  PROVE  IInv'
<1>1. Rowed'
  BY RowAssumption DEF IInv, Rowed, Live
<1>2. ImportingHasOwner'
  BY RowAssumption DEF IInv, ImportingHasOwner, Importing, Importers, Live
<1>3. Held'
  BY DEF IInv, Held, Live, Rowed
<1>4. OneImporterUndisturbed'
  BY DEF IInv, OneImporterUndisturbed, Live
<1> QED BY <1>1, <1>2, <1>3, <1>4 DEF IInv

\* A step inside an import: it stays one, and the row keeps its status.
LEMMA StepKeeps ==
  ASSUME IInv, TypeOK', NEW t \in Tasks, NEW to \in TaskSteps \ {"none", "post"},
         Live(t), tpc' = [tpc EXCEPT ![t] = to], UNCHANGED <<lost, disturbed, ppc>>,
         row' = row \/ (row' \in Grab /\ row'.status = row.status)
  PROVE  IInv'
<1>1. row # None /\ row' # None /\ row'.status = row.status
  BY RowAssumption DEF IInv, Rowed
<1>2. tpc'[t] = to /\ \A u \in Tasks \ {t} : tpc'[u] = tpc[u]
  BY DEF IInv, TypeOK
<1>3. \A u \in Tasks : Live(u)' = Live(u)
  BY <1>2 DEF Live, TaskSteps
<1>4. Importers # {} => Importers' # {}
  BY <1>2 DEF Importers, Live, TaskSteps
<1>5. Rowed'
  BY <1>1 DEF Rowed
<1>6. ImportingHasOwner'
  BY <1>1, <1>4 DEF IInv, ImportingHasOwner, Importing
<1>7. Held'
  BY <1>1, <1>3 DEF IInv, Held
<1>8. OneImporterUndisturbed'
  BY <1>3 DEF IInv, OneImporterUndisturbed
<1> QED BY <1>5, <1>6, <1>7, <1>8 DEF IInv

\* The user or the poller writes a status whatever the row is.
LEMMA DisturbKeeps ==
  ASSUME IInv, TypeOK', NEW s \in {"removed", "failed"}, row # None, SetStatus(s), Disturb,
         UNCHANGED <<tpc, lost>>
  PROVE  IInv'
<1>1. row' \in Grab /\ row' # None /\ row'.status = s
  BY SetStatusType, RowAssumption DEF IInv, TypeOK, GrabStatus
<1>2. \A t \in Tasks : Live(t)' = Live(t)
  BY DEF Live
<1>3. ~disturbed' => \A t \in Tasks : ~Live(t)
  BY DEF Disturb
<1>4. Rowed' /\ ImportingHasOwner'
  BY <1>1 DEF Rowed, ImportingHasOwner, Importing
<1>5. Held' /\ OneImporterUndisturbed'
  BY <1>2, <1>3 DEF Held, OneImporterUndisturbed
<1> QED BY <1>4, <1>5 DEF IInv

\* An import ends: nobody disturbed it and it was alone, or others are left.
LEMMA EndKeeps ==
  ASSUME IInv, TypeOK', NEW t \in Tasks, Live(t), End(t), UNCHANGED ppc, row' # None,
         \/ row'.status # "importing"
         \/ row' = row /\ (lost' \/ (lost' = lost /\ tpc[t] = "post"))
  PROVE  IInv'
<1>1. tpc'[t] = "none" /\ \A u \in Tasks \ {t} : tpc'[u] = tpc[u]
  BY DEF IInv, TypeOK, End
<1>2. ~disturbed' => \A u \in Tasks : ~Live(u)'
  <2>1. ASSUME ~disturbed' PROVE \A u \in Tasks \ {t} : ~Live(u)
    BY <2>1 DEF IInv, End, OneImporterUndisturbed
  <2> QED BY <2>1, <1>1 DEF Live
<1>3. Rowed'
  BY DEF Rowed
<1>4. ImportingHasOwner'
  BY <1>1 DEF IInv, ImportingHasOwner, Importing, Importers, Live
<1>5. Held' /\ OneImporterUndisturbed'
  BY <1>2 DEF Held, OneImporterUndisturbed
<1> QED BY <1>3, <1>4, <1>5 DEF IInv

\* A row with a field other than its status replaced keeps its status.
LEMMA SameStatus ==
  ASSUME NEW r \in Grab
  PROVE  /\ \A d \in Downloads \cup {None} : [r EXCEPT !.path = d].status = r.status
         /\ [r EXCEPT !.retries = @ + 1].status = r.status
BY DEF Grab

\* The invariant holds before the first grab.
LEMMA InitIInv == Init => IInv
<1> SUFFICES ASSUME Init PROVE IInv
  OBVIOUS
<1>1. \A t \in Tasks : ~Live(t)
  BY DEF Init, Live
<1> QED BY <1>1, InitTypeOK
      DEF IInv, Init, Rowed, ImportingHasOwner, Importing, Held, OneImporterUndisturbed

\* Every step of every writer keeps the invariant.
LEMMA IInvStep ==
  ASSUME IInv, [Next]_vars
  PROVE  IInv'
<1>t. TypeOK'
  BY TypeStep DEF IInv
<1>r. \A t \in Tasks : Live(t) => row \in Grab /\ row # None
  BY DEF IInv, TypeOK, Rowed
<1>1. ASSUME NEW d \in Downloads, Dispatch(d) \/ ClientStep(d) PROVE IInv'
  BY <1>1, <1>t, IdleKeeps DEF Dispatch, ClientStep, pollVars, taskVars, ghosts, IInv, Rowed
<1>2. ASSUME NEW d \in Downloads, Upsert(d) PROVE IInv'
  <2>1. UNCHANGED <<tpc, lost, disturbed, ppc>>
    BY <1>2 DEF Upsert, pollVars, taskVars, ghosts
  <2>2. CASE UNCHANGED row
    BY <2>1, <2>2, <1>t, IdleKeeps DEF IInv, Rowed
  <2>3. CASE ~UNCHANGED row
    <3>1. row' # None /\ row'.status = "sent"
      <4>1. row # None => row \in Grab
        BY DEF IInv, TypeOK
      <4>2. row # None => [row EXCEPT !.status = "sent", !.download = d] \in Grab
        BY <4>1, RowFields DEF GrabStatus
      <4>3. row # None => [row EXCEPT !.status = "sent", !.download = d].status = "sent"
        BY <4>1 DEF Grab
      <4>4. [status |-> "sent", download |-> d, path |-> None, retries |-> 0] \in Grab
        BY DEF Grab, GrabStatus
      <4>5. CASE row = None
        BY <1>2, <4>4, <4>5, RowAssumption DEF Upsert
      <4>6. CASE row # None
        BY <1>2, <2>3, <4>2, <4>3, <4>6, RowAssumption DEF Upsert
      <4> QED BY <4>5, <4>6
    <3>2. ~disturbed => \A t \in Tasks : ~Live(t)
      BY <1>2, <2>3, <1>r DEF Upsert, IInv, Held
    <3>3. \A t \in Tasks : Live(t)' = Live(t)
      BY <2>1 DEF Live
    <3>4. Rowed' /\ ImportingHasOwner'
      BY <3>1 DEF Rowed, ImportingHasOwner, Importing
    <3>5. Held' /\ OneImporterUndisturbed'
      BY <2>1, <3>2, <3>3 DEF Held, OneImporterUndisturbed
    <3> QED BY <1>t, <3>4, <3>5 DEF IInv
  <2> QED BY <2>2, <2>3
<1>3. ASSUME Remove PROVE IInv'
  BY <1>3, <1>t, DisturbKeeps DEF Remove, taskVars
<1>4. ASSUME NEW d \in Downloads, PollFail(d) PROVE IInv'
  <2>1. row # None
    BY <1>4 DEF PollFail, IInv, Rowed
  <2> QED BY <1>4, <2>1, <1>t, DisturbKeeps DEF PollFail, taskVars
<1>5. ASSUME NEW t \in Tasks, RetryImport(t) \/ PollClaim(t) \/ PollReclaim(t) PROVE IInv'
  BY <1>5, <1>t, ClaimKeeps DEF RetryImport, PollClaim, PollReclaim
<1>6. ASSUME PollFetch \/ PollList \/ PollHistory \/ PollPass \/ PollRepass \/ PollRetry PROVE IInv'
  <2>1. UNCHANGED <<tpc, lost, disturbed, row>>
    BY <1>6 DEF PollFetch, PollList, PollHistory, PollPass, PollRepass, PollRetry, taskVars, ghosts
  <2>2. row = None => ppc' \in {"idle", "list", "retry"}
    BY <1>6 DEF PollFetch, PollList, PollHistory, PollPass, PollRepass, PollRetry, Active, IInv, Rowed
  <2> QED BY <2>1, <2>2, <1>t, IdleKeeps
<1>7. ASSUME NEW d \in Downloads, PollSkip(d) PROVE IInv'
  BY <1>7, <1>t, IdleKeeps DEF PollSkip, taskVars, ghosts, IInv, Rowed
<1>8. ASSUME NEW d \in Downloads, PollPath(d) PROVE IInv'
  <2>1. row \in Grab /\ row # None
    BY <1>8 DEF PollPath, IInv, TypeOK, Rowed
  <2>2. [row EXCEPT !.path = d] \in Grab /\ [row EXCEPT !.path = d].status = row.status
    BY <2>1, RowFields, SameStatus
  <2> QED BY <1>8, <2>1, <2>2, <1>t, IdleKeeps DEF PollPath, taskVars, ghosts
<1>9. ASSUME PollIncrement PROVE IInv'
  <2>1. row \in Grab /\ row # None
    BY <1>9 DEF PollIncrement, IInv, TypeOK, Rowed
  <2>2. [row EXCEPT !.retries = @ + 1] \in Grab /\ [row EXCEPT !.retries = @ + 1].status = row.status
    BY <2>1, RowFields, SameStatus
  <2> QED BY <1>9, <2>1, <2>2, <1>t, IdleKeeps DEF PollIncrement, taskVars, ghosts
<1>10. ASSUME NEW t \in Tasks, Reads(t) PROVE IInv'
  <2>1. Live(t)
    BY <1>10 DEF Reads, Permit, Resolve, Read, Lock, Run, PostFailed, Step, Live
  <2>2. UNCHANGED <<lost, disturbed, ppc, row>>
    BY <1>10 DEF Reads, Permit, Resolve, Read, Lock, Run, PostFailed, pollVars, ghosts
  <2>3. PICK to \in TaskSteps \ {"none", "post"} : tpc' = [tpc EXCEPT ![t] = to]
    BY <1>10 DEF Reads, Permit, Resolve, Read, Lock, Run, PostFailed, Step, TaskSteps
  <2> QED BY <2>1, <2>2, <2>3, <1>t, StepKeeps
<1>11. ASSUME NEW t \in Tasks, Fetch(t) PROVE IInv'
  <2>1. Live(t) /\ row \in Grab
    BY <1>11, <1>r DEF Fetch, Step, Live
  <2>2. [row EXCEPT !.path = at[t]] \in Grab /\ [row EXCEPT !.path = at[t]].status = row.status
    BY <2>1, RowFields, SameStatus DEF IInv, TypeOK
  <2>3. UNCHANGED <<lost, disturbed, ppc>>
    BY <1>11 DEF Fetch, pollVars, ghosts
  <2>4. PICK to \in TaskSteps \ {"none", "post"} : tpc' = [tpc EXCEPT ![t] = to]
    BY <1>11 DEF Fetch, Step, TaskSteps
  <2>5. row' = row \/ (row' \in Grab /\ row'.status = row.status)
    BY <1>11, <2>2 DEF Fetch
  <2> QED BY <2>1, <2>3, <2>4, <2>5, <1>t, StepKeeps
<1>12. ASSUME NEW t \in Tasks, SaveImported(t) PROVE IInv'
  <2>1. tpc[t] = "saveImported" /\ tpc' = [tpc EXCEPT ![t] = "post"] /\ Written("imported")
    BY <1>12 DEF SaveImported, Step
  <2>2. row \in Grab /\ row # None
    BY <2>1, <1>r DEF Live
  <2>3. UNCHANGED <<disturbed, ppc>>
    BY <1>12 DEF SaveImported, pollVars
  <2>4. \A u \in Tasks : Live(u)' = Live(u)
    BY <2>1 DEF Live, IInv, TypeOK
  <2>5. row' # None /\ ((row' = row /\ lost') \/ row'.status = "imported")
    BY <2>1, <2>2, SetStatusType, RowAssumption DEF Written, GrabStatus
  <2>6. Rowed' /\ ImportingHasOwner'
    BY <2>5 DEF Rowed, ImportingHasOwner, Importing
  <2>7. Held'
    BY <2>3, <2>4, <2>5 DEF IInv, Held
  <2>8. OneImporterUndisturbed'
    BY <2>3, <2>4 DEF IInv, OneImporterUndisturbed
  <2> QED BY <1>t, <2>6, <2>7, <2>8 DEF IInv
<1>13. ASSUME NEW t \in Tasks, SaveFailed(t) \/ Error(t) PROVE IInv'
  <2>1. Live(t) /\ End(t) /\ Written("importFailed") /\ UNCHANGED ppc
    BY <1>13 DEF SaveFailed, Error, Live, pollVars
  <2>2. row \in Grab /\ row # None
    BY <2>1, <1>r
  <2>3. row' # None /\ (row'.status # "importing" \/ (row' = row /\ lost'))
    BY <2>1, <2>2, SetStatusType, RowAssumption DEF Written, GrabStatus
  <2> QED BY <2>1, <2>3, <1>t, EndKeeps
<1>14. ASSUME NEW t \in Tasks, Post(t) PROVE IInv'
  BY <1>14, <1>t, <1>r, EndKeeps DEF Post, Live, pollVars
<1>15. ASSUME NEW t \in Tasks, Drop(t) PROVE IInv'
  <2>1. Live(t) /\ End(t) /\ row' = row /\ row # None /\ UNCHANGED ppc
    BY <1>15, <1>r DEF Drop, pollVars
  <2>2. lost' \/ (lost' = lost /\ tpc[t] = "post")
    BY <1>15 DEF Drop, IInv, TypeOK
  <2> QED BY <2>1, <2>2, <1>t, EndKeeps
<1>16. ASSUME Restart PROVE IInv'
  <2>1. (\A t \in Tasks : ~Live(t)') /\ ppc' = "idle"
    BY <1>16 DEF Restart, Live
  <2>2. lost' \/ row' = None \/ row'.status # "importing"
    <3>1. row # None => [row EXCEPT !.status = "confirmed"].status # "importing"
      BY DEF IInv, TypeOK, Grab
    <3> QED BY <1>16, <3>1 DEF Restart
  <2> QED BY <1>t, <2>1, <2>2
        DEF IInv, Rowed, ImportingHasOwner, Importing, Held, OneImporterUndisturbed
<1>17. ASSUME UNCHANGED vars PROVE IInv'
  BY <1>17, <1>t, IdleKeeps DEF vars, IInv, Rowed
<1> QED
  BY <1>1, <1>2, <1>3, <1>4, <1>5, <1>6, <1>7, <1>8, <1>9, <1>10, <1>11, <1>12, <1>13, <1>14,
     <1>15, <1>16, <1>17 DEF Next, Task, Poll, Reads

\* Hence it always holds.
LEMMA Inductive == Spec => []IInv
<1>1. IInv /\ [Next]_vars => IInv'
  BY IInvStep
<1> QED BY InitIInv, <1>1, PTL DEF Spec

-----------------------------------------------------------------------------
(* Theorems *)

\* download_poller.rs, queue.rs and import_workflow.rs: every writer keeps the row and
\* the state of the poller and the imports well formed.
THEOREM TypesHold == Spec => []TypeOK
<1>1. IInv => TypeOK
  BY DEF IInv
<1> QED BY Inductive, <1>1, PTL

\* spawn_import() and retry_import(): for any number of imports, a row that says
\* "importing" has an import that will change it, or one was lost since the claim.
THEOREM ImportingIsOwned == Spec => []ImportingHasOwner
<1>1. IInv => ImportingHasOwner
  BY DEF IInv
<1> QED BY Inductive, <1>1, PTL

\* try_set_importing(): for any number of imports and permits, two of them have the
\* grab at once only if it was removed or failed under one of them.
THEOREM ClaimExcludes == Spec => []OneImporterUndisturbed
<1>1. IInv => OneImporterUndisturbed
  BY DEF IInv
<1> QED BY Inductive, <1>1, PTL
=============================================================================
