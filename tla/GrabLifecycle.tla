----------------------------- MODULE GrabLifecycle -----------------------------
(***************************************************************************)
(* The life of one row of the grabs table, the row of one (user, guid,     *)
(* indexer): release_service.rs grab() and upsert_grab(), the download     *)
(* poller (download_poller.rs), the import tasks it spawns and the retry   *)
(* request (queue.rs), import_grab() of the server and of the library, the *)
(* user's removal, and the reset at startup.  All of them write the row,   *)
(* most of them without looking at what it has become since they read it.  *)
(*                                                                         *)
(* A download stands for its id and its content path.  One poller runs at  *)
(* a time; grabs, imports and requests run beside it.                      *)
(***************************************************************************)
EXTENDS Naturals, FiniteSets

CONSTANTS
  Downloads,    \* what the download client may come to hold
  Kinds,        \* protocols of the client: "usenet" and "torrent"
  Tasks,        \* imports that may be under way at once
  Permits,      \* import_semaphore
  None,         \* no row, no content path, no import
  MaxRetries,   \* MAX_RETRIES
  MaxGrabs,     \* bound on calls of grab()
  MaxTroubles   \* bound on failed calls to the database or the client, and restarts

ASSUME GrabAssumption ==
  /\ None \notin Downloads \cup Tasks
  /\ Kinds \subseteq {"usenet", "torrent"}
  /\ Permits \in Nat \ {0}
  /\ MaxRetries \in Nat /\ MaxGrabs \in Nat /\ MaxTroubles \in Nat

VARIABLES
  kind,       \* the protocol of the client
  client,     \* what it says of each download
  pend,       \* downloads dispatched by a grab() that has not reached its upsert
  row,        \* the grab
  ppc,        \* the poller's next step
  view,       \* the client's answer it works from
  snap,       \* the row it works from
  todo,       \* downloads it has yet to look at in this tick
  tpc,        \* the next step of each import
  by,         \* whether the poller spawned it or a request runs it
  at,         \* the download it asks the client for, then the content path it imports
  lost,       \* since the row was claimed, an import has ended without writing a status
  disturbed,  \* the row was removed or failed under an import that is still running
  grabs, troubles

clientVars == <<kind, client, pend>>
pollVars == <<ppc, view, snap, todo>>
taskVars == <<tpc, by, at>>
ghosts == <<lost, disturbed>>
bounds == <<grabs, troubles>>
vars == <<kind, client, pend, row, ppc, view, snap, todo, tpc, by, at, lost, disturbed,
          grabs, troubles>>

GrabStatus == {"sent", "confirmed", "importing", "imported", "importFailed", "failed", "removed"}
Grab == [status : GrabStatus, download : Downloads, path : Downloads \cup {None}, retries : Nat]
ASSUME RowAssumption == None \notin Grab

\* "done": complete, and its files are where the path mapping says.
ClientStates == {"none", "loading", "done", "failed", "gone"}
PollSteps == {"idle", "list", "history", "match", "claim", "retry", "increment", "reclaim"}
TaskSteps == {"none", "queued", "resolve", "fetch", "read", "lock", "run", "saveImported",
              "saveFailed", "post", "error"}

TypeOK ==
  /\ kind \in Kinds
  /\ client \in [Downloads -> ClientStates]
  /\ pend \subseteq Downloads
  /\ row \in Grab \cup {None}
  /\ ppc \in PollSteps
  /\ view \in [Downloads -> ClientStates]
  /\ snap \in Grab \cup {None}
  /\ todo \subseteq Downloads
  /\ tpc \in [Tasks -> TaskSteps]
  /\ by \in [Tasks -> {"poller", "request"}]
  /\ at \in [Tasks -> Downloads \cup {None}]
  /\ lost \in BOOLEAN /\ disturbed \in BOOLEAN
  /\ grabs \in Nat /\ troubles \in Nat

Init ==
  /\ kind \in Kinds
  /\ client = [d \in Downloads |-> "none"]
  /\ pend = {}
  /\ row = None
  /\ ppc = "idle" /\ view = client /\ snap = None /\ todo = {}
  /\ tpc = [t \in Tasks |-> "none"]
  /\ by = [t \in Tasks |-> "poller"]
  /\ at = [t \in Tasks |-> None]
  /\ lost = FALSE /\ disturbed = FALSE
  /\ grabs = 0 /\ troubles = 0

Live(t) == tpc[t] # "none"
Fault == troubles < MaxTroubles /\ troubles' = troubles + 1
NoFault == UNCHANGED troubles

-----------------------------------------------------------------------------
(* The table: sqlite_grab.rs.                                              *)

\* update_grab_status(): whatever the status is.
SetStatus(s) == row' = [row EXCEPT !.status = s]

\* Mutant: the statuses the trait's doc lists, "importing" among them.
ImportableAsDocumented ==
  row # None /\ row.status \in {"sent", "confirmed", "importing", "importFailed"}

\* try_set_importing()
Importable == row # None /\ row.status \in {"sent", "confirmed", "importFailed"}

\* It succeeds, and the caller runs an import as t.
Claim(t, who, step) ==
  /\ ~Live(t) /\ Importable
  /\ SetStatus("importing")
  /\ lost' = FALSE
  /\ tpc' = [tpc EXCEPT ![t] = step]
  /\ by' = [by EXCEPT ![t] = who]

\* Mutant: a row that was put back to "confirmed" is forgotten.
ActiveSent == row # None /\ row.status = "sent"

\* list_active_grabs()
Active == row # None /\ row.status \in {"sent", "confirmed"}

-----------------------------------------------------------------------------
(* The user and the download client.                                       *)

\* grab(), up to the client's confirmation.  A torrent the client has already
\* keeps its id.
Dispatch(d) ==
  /\ grabs < MaxGrabs /\ grabs' = grabs + 1
  /\ d \notin pend
  /\ \/ client[d] = "none" /\ client' = [client EXCEPT ![d] = "loading"]
     \/ kind = "torrent" /\ client[d] \in {"loading", "done"} /\ UNCHANGED client
  /\ pend' = pend \cup {d}
  /\ UNCHANGED <<kind, row, pollVars, taskVars, ghosts, troubles>>

\* upsert_grab(): a failed or removed row gets the new download and keeps its
\* content path and its retries; any other status is refused.
Upsert(d) ==
  /\ d \in pend
  /\ pend' = pend \ {d}
  /\ \/ /\ row = None
        /\ row' = [status |-> "sent", download |-> d, path |-> None, retries |-> 0]
     \/ /\ row # None /\ row.status \in {"failed", "removed"}
        /\ row' = [row EXCEPT !.status = "sent", !.download = d]
     \/ row # None /\ row.status \notin {"failed", "removed"} /\ UNCHANGED row
  /\ UNCHANGED <<kind, client, pollVars, taskVars, ghosts, bounds>>

\* The client completes a download, gives it up, or has it no more, nor its files.
ClientStep(d) ==
  /\ \/ client[d] = "loading" /\ client' \in {[client EXCEPT ![d] = s] : s \in {"done", "failed"}}
     \/ client[d] \in {"loading", "done", "failed"} /\ client' = [client EXCEPT ![d] = "gone"]
  /\ UNCHANGED <<kind, pend, row, pollVars, taskVars, ghosts, bounds>>

\* The row changes under whatever import is running.
Disturb == disturbed' = (disturbed \/ \E t \in Tasks : Live(t))

\* grab_service.rs remove(): nothing is asked of the client or of a running import.
Remove ==
  /\ row # None /\ row.status # "removed"   \* again changes nothing
  /\ SetStatus("removed")
  /\ Disturb
  /\ UNCHANGED <<clientVars, pollVars, taskVars, lost, bounds>>

\* queue.rs retry_import(): the import runs inside the request.
RetryImport(t) ==
  /\ Claim(t, "request", "resolve")
  /\ UNCHANGED <<clientVars, pollVars, at, disturbed, bounds>>

-----------------------------------------------------------------------------
(* The poller: download_poller_tick().                                     *)

Blank == [d \in Downloads |-> "none"]

\* The completed torrents, or the queue of SABnzbd.
PollFetch ==
  /\ ppc = "idle"
  /\ LET listed == IF kind = "torrent" THEN "done" ELSE "loading"
     IN \/ /\ NoFault /\ ppc' = "list"
           /\ view' = [d \in Downloads |-> IF client[d] = listed THEN listed ELSE "none"]
        \/ Fault /\ UNCHANGED view /\ ppc' = "retry"
  /\ UNCHANGED <<clientVars, row, snap, todo, taskVars, ghosts, grabs>>

\* The active grabs.  Each torrent is matched to one by id or by title; a usenet
\* grab is looked up by its id, in the history unless it was in the queue.
PollList ==
  /\ ppc = "list"
  /\ \/ /\ Active /\ NoFault
        /\ snap' = row
        /\ UNCHANGED view
        /\ \/ /\ kind = "torrent" /\ ppc' = "match"
              /\ todo' = {d \in Downloads : view[d] = "done"}
           \/ /\ kind = "usenet" /\ todo' = {row.download}
              /\ ppc' = IF view[row.download] = "loading" THEN "match" ELSE "history"
     \/ /\ (~Active /\ NoFault) \/ Fault
        /\ view' = Blank /\ ppc' = "retry" /\ UNCHANGED <<snap, todo>>
  /\ UNCHANGED <<clientVars, row, taskVars, ghosts, grabs>>

\* SABnzbd's history.  A failed request counts as an empty one.
PollHistory ==
  /\ ppc = "history" /\ ppc' = "match"
  /\ \/ /\ NoFault
        /\ view' = [Blank EXCEPT ![snap.download] =
                       IF client[snap.download] = "loading" THEN "none" ELSE client[snap.download]]
     \/ Fault /\ view' = Blank
  /\ UNCHANGED <<clientVars, row, snap, todo, taskVars, ghosts, grabs>>

\* A completed download: its path is kept if the row had none when it was listed.
PollPath(d) ==
  /\ ppc = "match" /\ d \in todo /\ view[d] = "done"
  /\ \/ NoFault /\ row' = IF snap.path = None THEN [row EXCEPT !.path = d] ELSE row
     \/ Fault /\ UNCHANGED row
  /\ todo' = todo \ {d}
  /\ ppc' = "claim"
  /\ UNCHANGED <<clientVars, view, snap, taskVars, ghosts, grabs>>

PollClaim(t) ==
  /\ ppc = "claim" /\ ppc' = "match"
  /\ Claim(t, "poller", "queued")
  /\ UNCHANGED <<clientVars, view, snap, todo, at, disturbed, bounds>>

\* The row is not importable any more, or the call fails.
PollPass ==
  /\ ppc = "claim" /\ ppc' = "match"
  /\ (~Importable /\ NoFault) \/ Fault
  /\ UNCHANGED <<clientVars, row, view, snap, todo, taskVars, ghosts, grabs>>

\* SABnzbd says it failed, or has not heard of a grab older than a day.
PollFail(d) ==
  /\ ppc = "match" /\ d \in todo /\ kind = "usenet"
  /\ view[d] \notin {"loading", "done"}
  /\ SetStatus("failed")
  /\ Disturb
  /\ todo' = todo \ {d}
  /\ UNCHANGED <<clientVars, ppc, view, snap, taskVars, lost, bounds>>

\* In the queue, not old enough, or another release's torrent; or a call fails.
PollSkip(d) ==
  /\ ppc = "match" /\ d \in todo
  /\ \/ view[d] # "done" /\ view[d] # "failed" /\ NoFault
     \/ kind = "torrent" /\ d # snap.download /\ NoFault
     \/ Fault
  /\ todo' = todo \ {d}
  /\ UNCHANGED <<clientVars, row, ppc, view, snap, taskVars, ghosts, grabs>>

\* list_retriable_grabs(), when the back-off is over.
PollRetry ==
  /\ (ppc = "match" /\ todo = {}) \/ ppc = "retry"
  /\ view' = Blank /\ snap' = None
  /\ \/ /\ row # None /\ row.status = "importFailed" /\ row.retries < MaxRetries
        /\ ppc' = "increment"
     \/ ppc' = "idle"
  /\ UNCHANGED <<clientVars, row, todo, taskVars, ghosts, bounds>>

\* increment_import_retry(), best effort.
PollIncrement ==
  /\ ppc = "increment" /\ ppc' = "reclaim"
  /\ \/ NoFault /\ row' = [row EXCEPT !.retries = @ + 1]
     \/ Fault /\ UNCHANGED row
  /\ UNCHANGED <<clientVars, view, snap, todo, taskVars, ghosts, grabs>>

PollReclaim(t) ==
  /\ ppc = "reclaim" /\ ppc' = "idle"
  /\ Claim(t, "poller", "queued")
  /\ UNCHANGED <<clientVars, view, snap, todo, at, disturbed, bounds>>

PollRepass ==
  /\ ppc = "reclaim" /\ ppc' = "idle"
  /\ (~Importable /\ NoFault) \/ Fault
  /\ UNCHANGED <<clientVars, row, view, snap, todo, taskVars, ghosts, grabs>>

-----------------------------------------------------------------------------
(* An import: spawn_import() or retry_import(), and the two import_grab(). *)

Step(t, from, to) == tpc[t] = from /\ tpc' = [tpc EXCEPT ![t] = to]
At(t, d) == at' = [at EXCEPT ![t] = d]

\* The task or the request is over.
End(t) ==
  /\ tpc' = [tpc EXCEPT ![t] = "none"]
  /\ by' = [by EXCEPT ![t] = "poller"]
  /\ At(t, None)
  /\ disturbed' = (disturbed /\ \E u \in Tasks \ {t} : Live(u))

\* The semaphore is asked for by what the poller spawned, and kept to the end.
Permitted == {t \in Tasks : Live(t) /\ tpc[t] # "queued" /\ by[t] = "poller"}

Permit(t) ==
  /\ Cardinality(Permitted) < Permits
  /\ Step(t, "queued", "resolve")
  /\ UNCHANGED <<clientVars, row, pollVars, by, at, ghosts, bounds>>

\* The row is read; a missing content path is asked of the client.
Resolve(t) ==
  /\ \/ Step(t, "resolve", "read") /\ row.path # None /\ UNCHANGED at /\ NoFault
     \/ Step(t, "resolve", "fetch") /\ row.path = None /\ At(t, row.download) /\ NoFault
     \/ Step(t, "resolve", "error") /\ UNCHANGED at /\ Fault
  /\ UNCHANGED <<clientVars, row, pollVars, by, ghosts, grabs>>

\* qBittorrent has a path for a torrent it is still loading.
HasPath(d) == client[d] = "done" \/ (kind = "torrent" /\ client[d] = "loading")

Fetch(t) ==
  /\ \/ /\ Step(t, "fetch", "read") /\ HasPath(at[t]) /\ NoFault
        /\ row' = [row EXCEPT !.path = at[t]]
     \/ /\ Step(t, "fetch", "error") /\ UNCHANGED row
        /\ (~HasPath(at[t]) /\ NoFault) \/ Fault
  /\ At(t, None)
  /\ UNCHANGED <<clientVars, pollVars, by, ghosts, grabs>>

\* The library reads the row again, and then waits for the lock of the work.
Read(t) ==
  /\ \/ Step(t, "read", "lock") /\ At(t, row.path) /\ NoFault
     \/ Step(t, "read", "error") /\ UNCHANGED at /\ Fault
  /\ UNCHANGED <<clientVars, row, pollVars, by, ghosts, grabs>>

Locking == {"run", "saveImported", "saveFailed"}

Lock(t) ==
  /\ \A u \in Tasks : tpc[u] \notin Locking
  /\ Step(t, "lock", "run")
  /\ UNCHANGED <<clientVars, row, pollVars, by, at, ghosts, bounds>>

\* Some file at the content path is imported or was before; or none can be, or
\* they are not all there; or the path is missing or a call fails.  What a torrent
\* has loaded so far may pass the check of its size.
Run(t) ==
  /\ \/ Step(t, "run", "saveImported") /\ HasPath(at[t]) /\ NoFault
     \/ Step(t, "run", "saveFailed") /\ HasPath(at[t]) /\ NoFault
     \/ Step(t, "run", "error") /\ ((~HasPath(at[t]) /\ NoFault) \/ Fault)
  /\ UNCHANGED <<clientVars, row, pollVars, by, at, ghosts, grabs>>

\* An import's last status is written, or the call fails and it is lost.
Written(s) ==
  \/ NoFault /\ SetStatus(s) /\ UNCHANGED lost
  \/ Fault /\ UNCHANGED row /\ lost' = TRUE

SaveImported(t) ==
  /\ Step(t, "saveImported", "post") /\ At(t, None)
  /\ Written("imported")
  /\ UNCHANGED <<clientVars, pollVars, by, disturbed, grabs>>

SaveFailed(t) ==
  /\ tpc[t] = "saveFailed" /\ End(t)
  /\ Written("importFailed")
  /\ UNCHANGED <<clientVars, pollVars, grabs>>

\* Tags, copies and mail.
Post(t) ==
  /\ tpc[t] = "post" /\ End(t)
  /\ UNCHANGED <<clientVars, row, pollVars, lost, bounds>>

\* The work cannot be read for them: the caller takes that for a failed import.
PostFailed(t) ==
  /\ Fault /\ Step(t, "post", "error")
  /\ UNCHANGED <<clientVars, row, pollVars, by, at, ghosts, grabs>>

\* Mutant: the caller logs the error and leaves the row.
ErrorLogged(t) ==
  /\ tpc[t] = "error" /\ End(t)
  /\ UNCHANGED <<clientVars, row, pollVars, lost, bounds>>

\* import_grab() returned an error: its caller writes the status.
Error(t) ==
  /\ tpc[t] = "error" /\ End(t)
  /\ Written("importFailed")
  /\ UNCHANGED <<clientVars, pollVars, grabs>>

\* The retry request is dropped, and with it the import inside.
Drop(t) ==
  /\ Live(t) /\ by[t] = "request" /\ End(t)
  /\ lost' = (lost \/ tpc[t] # "post")
  /\ UNCHANGED <<clientVars, row, pollVars, bounds>>

-----------------------------------------------------------------------------
(* The server restarts.                                                    *)

\* Everything in memory goes; recover_interrupted_state() calls
\* reset_importing_grabs() before the jobs start, and goes on if that fails.
Restart ==
  /\ Fault
  /\ pend' = {}
  /\ ppc' = "idle" /\ view' = Blank /\ snap' = None /\ todo' = {}
  /\ tpc' = [t \in Tasks |-> "none"]
  /\ by' = [t \in Tasks |-> "poller"] /\ at' = [t \in Tasks |-> None]
  /\ disturbed' = FALSE
  /\ \/ /\ UNCHANGED lost
        /\ row' = IF row # None /\ row.status = "importing"
                  THEN [row EXCEPT !.status = "confirmed"] ELSE row
     \/ lost' = TRUE /\ UNCHANGED row
  /\ UNCHANGED <<kind, client, grabs>>

Task(t) ==
  \/ Permit(t) \/ Resolve(t) \/ Fetch(t) \/ Read(t) \/ Lock(t) \/ Run(t) \/ SaveImported(t)
  \/ SaveFailed(t) \/ Post(t) \/ PostFailed(t) \/ Error(t)

Poll ==
  \/ PollFetch \/ PollList \/ PollHistory \/ PollPass \/ PollRetry \/ PollIncrement \/ PollRepass
  \/ \E d \in Downloads : PollPath(d) \/ PollFail(d) \/ PollSkip(d)
  \/ \E t \in Tasks : PollClaim(t) \/ PollReclaim(t)

Next ==
  \/ \E d \in Downloads : Dispatch(d) \/ Upsert(d) \/ ClientStep(d)
  \/ Remove
  \/ \E t \in Tasks : RetryImport(t) \/ Task(t) \/ Drop(t)
  \/ Poll
  \/ Restart

Spec == Init /\ [][Next]_vars

\* The job runner keeps ticking, the runtime polls every task, and the
\* semaphore and the lock are fair queues.
FairSpec ==
  /\ Spec
  /\ WF_vars(Poll)
  /\ \A t \in Tasks : SF_vars(Task(t))

-----------------------------------------------------------------------------
(* Properties *)

Importing == row # None /\ row.status = "importing"
Importers == {t \in Tasks : Live(t) /\ tpc[t] # "post"}

\* download_poller.rs spawn_import() and queue.rs retry_import(): a row that says
\* "importing" has a running import that will change it, unless an import's
\* request was dropped or its status could not be written.
ImportingHasOwner == Importing => lost \/ Importers # {}

\* sqlite_grab.rs try_set_importing(): two workers never have the same grab, unless
\* it was removed or failed while one of them was at work.
OneImporterUndisturbed == ~disturbed => \A t, u \in Tasks : Live(t) /\ Live(u) => t = u

\* CHANGELOG.md C-3: no grab stays in "importing" for ever.
ImportingEnds == (Importing /\ ~lost) ~> (~Importing \/ lost)

\* download_poller.rs: a grab whose download is complete and stays so is picked up.
Waiting ==
  row # None /\ row.status \in {"sent", "confirmed"} /\ client[row.download] = "done"
PickedUp == Waiting ~> ~Waiting

\* db/api/grab.rs "If existing grab is failed/removed, replaces it": an import that
\* nobody disturbs reads the files of the row's own download.
ImportsOwnDownload ==
  ~disturbed => \A t \in Tasks : tpc[t] = "run" => at[t] = row.download
=============================================================================
