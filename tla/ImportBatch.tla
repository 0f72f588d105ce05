----------------------------- MODULE ImportBatch -----------------------------
(***************************************************************************)
(* Imports of whole libraries and how they are undone.  A Readarr import   *)
(* is a background task that holds a slot of the process                   *)
(* (livrarr-server, readarr_import_workflow.rs); a list import is a series *)
(* of confirm requests and a last one that completes it (livrarr-metadata, *)
(* list_service.rs).  Both are rows of the table imports, of which a user  *)
(* may have one that is 'running', and both create authors and works; a    *)
(* Readarr import also creates library files.  An undo is a request of     *)
(* many transactions.  Nothing but the slot and the rows keeps imports,    *)
(* undos and the user apart.                                               *)
(*                                                                         *)
(* Every book has an author of its own.  How a book is settled is in       *)
(* IdentityRoad, how a file is placed in ImportIntent.                     *)
(***************************************************************************)
EXTENDS Naturals, FiniteSets

CONSTANTS
  Users, Books,
  Imports,    \* imports, in the order of their creation (their ids are UUIDs)
  Works,      \* row ids, in order and never used twice
  None,
  MaxActs,    \* bound: requests of the users
  MaxFaults   \* bound: failed calls, dropped requests, panics and restarts

ASSUME NoneAssumption == None \notin Imports \cup Works \cup Users
ASSUME BoundAssumption == MaxActs \in Nat /\ MaxFaults \in Nat

VARIABLES
  imp,       \* imports: status, source, user
  slot,      \* ReadarrImportProgress: running, import_id
  starting,  \* the import for which a start() of the user has the slot
  run,       \* the tasks of Readarr imports
  conf,      \* the confirm requests of list imports
  undo,      \* the undo requests
  author,    \* authors: the row for each user and book, import_id, added_at
  work,      \* works: user and book, import_id; by: the import that created it
  item,      \* library_items, by user and path (a book has one path)
  disk,      \* the paths at which there is a file
  intent,    \* import_intents: the work and the import of a path being filled
  lost,      \* imports whose task is gone, or failed to write how it ended
  held,      \* a start() was dropped while it had the slot
  acts, faults

vars == <<imp, slot, starting, run, conf, undo, author, work, item, disk, intent, lost, held,
          acts, faults>>
library == <<author, work, item, disk, intent>>
requests == <<starting, run, conf, undo>>
ends == <<lost, held>>

Keys == Users \X Books

NoRow == [status |-> "none", source |-> "list", user |-> None]
NoAuthor == [row |-> 0, live |-> FALSE, touched |-> FALSE, tag |-> None, since |-> {}]
NoItem == [row |-> 0, work |-> None, tag |-> None]
NoIntent == [work |-> None, tag |-> None]
IdleRun == [pc |-> "idle", todo |-> {}, at |-> None,
            author |-> [b \in Books |-> 0], work |-> [b \in Books |-> None]]
IdleConf == [b \in Books |-> [pc |-> "idle", author |-> 0, work |-> None]]
IdleUndo == [pc |-> "idle", items |-> {}, works |-> {}, authors |-> {}]

Row == [status : {"none", "running", "completed", "failed", "undone"},
        source : {"readarr", "list"}, user : Users \cup {None}]
Task == [pc : {"idle", "fetch", "list", "authors", "works", "rollback", "files", "record",
               "finish", "failing", "release"},
         todo : SUBSET Books, at : Books \cup {None},
         author : [Books -> Nat], work : [Books -> Works \cup {None}]]
Confirm == [pc : {"idle", "author", "settle", "tag"}, author : Nat, work : Works \cup {None}]
Undo == [pc : {"idle", "files", "rows", "orphans", "works", "authors", "mark"},
         items : SUBSET (Keys \X Nat), works : SUBSET Works, authors : SUBSET (Keys \X Nat)]
Author == [row : Nat, live : BOOLEAN, touched : BOOLEAN,
           tag : Imports \cup {None}, since : SUBSET Imports]
Work == [state : {"unused", "live", "gone"}, key : Keys \cup {None},
         tag : Imports \cup {None}, by : Imports \cup {None}]
Item == [row : Nat, work : Works \cup {None}, tag : Imports \cup {None}]
Intent == [work : Works \cup {None}, tag : Imports \cup {None}]

TypeOK ==
  /\ imp \in [Imports -> Row]
  /\ slot \in [running : BOOLEAN, imp : Imports \cup {None}]
  /\ starting \in [Users -> Imports \cup {None}]
  /\ run \in [Imports -> Task]
  /\ conf \in [Imports -> [Books -> Confirm]]
  /\ undo \in [Imports -> Undo]
  /\ author \in [Keys -> Author]
  /\ work \in [Works -> Work]
  /\ item \in [Keys -> Item]
  /\ disk \subseteq Keys
  /\ intent \in [Keys -> Intent]
  /\ lost \subseteq Imports /\ held \in BOOLEAN
  /\ acts \in 0..MaxActs /\ faults \in 0..MaxFaults

Act == acts < MaxActs /\ acts' = acts + 1 /\ UNCHANGED faults
Fault == faults < MaxFaults /\ faults' = faults + 1 /\ UNCHANGED acts
NoFault == UNCHANGED <<acts, faults>>

-----------------------------------------------------------------------------
(* The tables.                                                             *)

\* idx_imports_running
RunningOf(u) == {i \in Imports : imp[i].status = "running" /\ imp[i].user = u}

LiveWorks(k) == {w \in Works : work[w].state = "live" /\ work[w].key = k}
Unused == {w \in Works : work[w].state = "unused"}

\* create_or_adopt_author: the author's row, new unless there is one.
Gated(k, tag) ==
  IF author[k].live THEN author
  ELSE [author EXCEPT ![k] =
          [row |-> @.row + 1, live |-> TRUE, touched |-> FALSE, tag |-> tag,
           since |-> {i \in Imports : imp[i].status # "none"}]]

\* EMPTY_UNTOUCHED_AUTHOR
Empty(k) == author[k].live /\ ~author[k].touched /\ LiveWorks(k) = {}

WithoutAuthors(K) == [k \in Keys |-> IF k \in K THEN [author[k] EXCEPT !.live = FALSE] ELSE author[k]]

\* The works go and take their library_items and intents with them; files stay.
WithoutWorks(W) == [w \in Works |-> IF w \in W THEN [work[w] EXCEPT !.state = "gone"] ELSE work[w]]
Cascade(W) ==
  /\ work' = WithoutWorks(W)
  /\ item' = [k \in Keys |-> IF item[k].work \in W THEN [NoItem EXCEPT !.row = item[k].row] ELSE item[k]]
  /\ intent' = [k \in Keys |-> IF intent[k].work \in W THEN NoIntent ELSE intent[k]]

\* create_library_item for the work and the import: the path is recorded, refused if
\* it is another work's or the work is gone.
Recordable(k, w) == work[w].state = "live" /\ item[k].work \in {None, w}
Recorded(k, w, tag) ==
  IF item[k].work = None THEN [row |-> item[k].row + 1, work |-> w, tag |-> tag] ELSE item[k]

\* The identity road: the work of the book, a new one, or neither (a question for
\* the user, or the author is gone).
Settles(k, row, w) ==
  \/ w = None
  \/ /\ author[k].live /\ author[k].row = row
     /\ IF LiveWorks(k) # {} THEN w \in LiveWorks(k)
        ELSE w \in Unused /\ \A v \in Unused : w <= v

Created(k, w, i) ==
  IF w \in Unused THEN [work EXCEPT ![w] = [state |-> "live", key |-> k, tag |-> None, by |-> i]]
  ELSE work

-----------------------------------------------------------------------------
(* Starting a Readarr import.                                              *)

Unclaimed == {i \in Imports : imp[i].status = "none" /\ \A u \in Users : starting[u] # i}
Fresh(i) == i \in Unclaimed /\ \A j \in Unclaimed : i <= j

\* Mutant: the flag is set without looking at it.
StartClaimBlind(u, i) ==
  /\ starting[u] = None /\ Fresh(i)
  /\ Act
  /\ slot' = [running |-> TRUE, imp |-> i]
  /\ starting' = [starting EXCEPT ![u] = i]
  /\ UNCHANGED <<imp, run, conf, undo, library, ends>>

\* try_claim_readarr_slot
StartClaim(u, i) ==
  /\ starting[u] = None /\ Fresh(i) /\ ~slot.running
  /\ Act
  /\ slot' = [running |-> TRUE, imp |-> i]
  /\ starting' = [starting EXCEPT ![u] = i]
  /\ UNCHANGED <<imp, run, conf, undo, library, ends>>

\* create_import, and the task; the slot is given back if the row is refused.
StartCreate(u) ==
  LET i == starting[u] IN
  /\ i # None
  /\ starting' = [starting EXCEPT ![u] = None]
  /\ \/ /\ RunningOf(u) = {} /\ NoFault
        /\ imp' = [imp EXCEPT ![i] = [status |-> "running", source |-> "readarr", user |-> u]]
        /\ run' = [run EXCEPT ![i].pc = "fetch"]
        /\ UNCHANGED slot
     \/ /\ IF RunningOf(u) # {} THEN NoFault ELSE Fault
        /\ slot' = [slot EXCEPT !.running = FALSE]
        /\ UNCHANGED <<imp, run>>
  /\ UNCHANGED <<conf, undo, library, ends>>

\* The client goes away; the row may have been written.
StartDropped(u) ==
  LET i == starting[u] IN
  /\ i # None /\ Fault
  /\ starting' = [starting EXCEPT ![u] = None]
  /\ held' = TRUE
  /\ \/ /\ RunningOf(u) = {}
        /\ imp' = [imp EXCEPT ![i] = [status |-> "running", source |-> "readarr", user |-> u]]
        /\ lost' = lost \cup {i}
     \/ UNCHANGED <<imp, lost>>
  /\ UNCHANGED <<slot, run, conf, undo, library>>

-----------------------------------------------------------------------------
(* The task of a Readarr import.                                           *)

RunGoto(i, pc, todo) == run' = [run EXCEPT ![i].pc = pc, ![i].todo = todo]
Of(i, b) == <<imp[i].user, b>>

\* Readarr's library, the root folders and the works are read.
RunFetch(i) ==
  /\ run[i].pc = "fetch"
  /\ \/ \E B \in SUBSET Books : RunGoto(i, "list", B)
     \/ RunGoto(i, "failing", {})
  /\ NoFault /\ UNCHANGED <<imp, slot, starting, conf, undo, library, ends>>

\* process_authors_batch reads the user's authors once.
RunList(i) ==
  /\ run[i].pc = "list"
  /\ \/ NoFault /\ run' = [run EXCEPT ![i].pc = "authors", ![i].author =
          [b \in Books |-> IF author[Of(i, b)].live THEN author[Of(i, b)].row ELSE 0]]
     \/ Fault /\ RunGoto(i, "failing", {})
  /\ UNCHANGED <<imp, slot, starting, conf, undo, library, ends>>

RunAuthor(i, b) ==
  LET k == Of(i, b) IN
  /\ run[i].pc = "authors" /\ b \in run[i].todo \ {c \in Books : run[i].author[c] # 0}
  /\ \/ /\ NoFault
        /\ author' = Gated(k, i)
        /\ run' = [run EXCEPT ![i].author[b] = author'[k].row]
     \/ Fault /\ run' = [run EXCEPT ![i].todo = @ \ {b}] /\ UNCHANGED author
  /\ UNCHANGED <<imp, slot, starting, conf, undo, work, item, disk, intent, ends>>

RunAuthorsDone(i) ==
  /\ run[i].pc = "authors" /\ \A b \in run[i].todo : run[i].author[b] # 0
  /\ RunGoto(i, "works", run[i].todo)
  /\ NoFault /\ UNCHANGED <<imp, slot, starting, conf, undo, library, ends>>

\* process_works, through the identity road: the work is not tagged with the import.
RunWork(i, b) ==
  LET k == Of(i, b) IN
  /\ run[i].pc = "works" /\ b \in run[i].todo
  /\ \E w \in Works \cup {None} :
       /\ Settles(k, run[i].author[b], w)
       /\ work' = Created(k, w, i)
       /\ run' = [run EXCEPT ![i].todo = @ \ {b}, ![i].work[b] = w]
  /\ NoFault /\ UNCHANGED <<imp, slot, starting, conf, undo, author, item, disk, intent, ends>>

RunWorksDone(i) ==
  /\ run[i].pc = "works" /\ run[i].todo = {}
  /\ RunGoto(i, "rollback", {})
  /\ NoFault /\ UNCHANGED <<imp, slot, starting, conf, undo, library, ends>>

\* Authors that got no work are taken back.
RunRollback(i) ==
  /\ run[i].pc = "rollback"
  /\ \/ /\ NoFault
        /\ author' = WithoutAuthors({k \in Keys : Empty(k) /\ author[k].tag = i})
        /\ RunGoto(i, "files", {b \in Books : run[i].work[b] # None})
     \/ Fault /\ RunGoto(i, "failing", {}) /\ UNCHANGED author
  /\ UNCHANGED <<imp, slot, starting, conf, undo, work, item, disk, intent, ends>>

\* process_files: import_file as far as the rename, after its intent.  A file that
\* nobody records is adopted, without an intent; one that is recorded, whose path
\* is taken, or that Readarr describes wrongly, is skipped.
RunPlace(i, b) ==
  LET k == Of(i, b) w == run[i].work[b] IN
  /\ run[i].pc = "files" /\ b \in run[i].todo
  /\ \/ RunGoto(i, "files", run[i].todo \ {b}) /\ UNCHANGED <<disk, intent>>
     \/ /\ item[k].work = None \/ (item[k].work = w /\ k \notin disk)
        /\ IF k \in disk THEN UNCHANGED intent
           ELSE /\ work[w].state = "live" /\ intent[k] = NoIntent
                /\ intent' = [intent EXCEPT ![k] = [work |-> w, tag |-> i]]
        /\ disk' = disk \cup {k}
        /\ run' = [run EXCEPT ![i].pc = "record", ![i].todo = @ \ {b}, ![i].at = b]
  /\ NoFault /\ UNCHANGED <<imp, slot, starting, conf, undo, author, work, item, ends>>

\* The row, then the intent goes; it stays if the row cannot be written.
RunRecord(i) ==
  LET k == Of(i, run[i].at) w == run[i].work[run[i].at] IN
  /\ run[i].pc = "record"
  /\ \/ /\ Recordable(k, w) /\ NoFault
        /\ item' = [item EXCEPT ![k] = Recorded(k, w, i)]
        /\ intent' = IF intent[k].tag = i THEN [intent EXCEPT ![k] = NoIntent] ELSE intent
     \/ /\ IF Recordable(k, w) THEN Fault ELSE NoFault
        /\ UNCHANGED <<item, intent>>
  /\ run' = [run EXCEPT ![i].pc = "files", ![i].at = None]
  /\ UNCHANGED <<imp, slot, starting, conf, undo, author, work, disk, ends>>

RunFilesDone(i) ==
  /\ run[i].pc = "files" /\ run[i].todo = {}
  /\ RunGoto(i, "finish", {})
  /\ NoFault /\ UNCHANGED <<imp, slot, starting, conf, undo, library, ends>>

\* set_import_completed
RunFinish(i) ==
  /\ run[i].pc = "finish"
  /\ \/ NoFault /\ imp' = [imp EXCEPT ![i].status = "completed"] /\ RunGoto(i, "release", {})
     \/ Fault /\ RunGoto(i, "failing", {}) /\ UNCHANGED imp
  /\ UNCHANGED <<slot, starting, conf, undo, library, ends>>

\* Mutant: an import that fails is only logged.
RunFailLogged(i) ==
  /\ run[i].pc = "failing"
  /\ RunGoto(i, "release", {})
  /\ NoFault /\ UNCHANGED <<imp, lost, slot, starting, conf, undo, library, held>>

RunFail(i) ==
  /\ run[i].pc = "failing"
  /\ \/ NoFault /\ imp' = [imp EXCEPT ![i].status = "failed"] /\ UNCHANGED lost
     \/ Fault /\ lost' = lost \cup {i} /\ UNCHANGED imp
  /\ RunGoto(i, "release", {})
  /\ UNCHANGED <<slot, starting, conf, undo, library, held>>

\* Mutant: only a task that has not failed gives the slot back.
RunReleaseCompleted(i) ==
  /\ run[i].pc = "release"
  /\ slot' = [slot EXCEPT !.running = imp[i].status # "completed"]
  /\ run' = [run EXCEPT ![i] = IdleRun]
  /\ NoFault /\ UNCHANGED <<imp, starting, conf, undo, library, ends>>

\* The slot guard's own task.
RunRelease(i) ==
  /\ run[i].pc = "release"
  /\ slot' = [slot EXCEPT !.running = FALSE]
  /\ run' = [run EXCEPT ![i] = IdleRun]
  /\ NoFault /\ UNCHANGED <<imp, starting, conf, undo, library, ends>>

RunPanics(i) ==
  /\ run[i].pc \notin {"idle", "release"} /\ Fault
  /\ RunGoto(i, "release", {})
  /\ lost' = lost \cup {i}
  /\ UNCHANGED <<imp, slot, starting, conf, undo, library, held>>

-----------------------------------------------------------------------------
(* A list import.                                                          *)

Confirming(i) == \E b \in Books : conf[i][b].pc # "idle"
Batch(B) == [b \in Books |-> IF b \in B THEN [IdleConf[b] EXCEPT !.pc = "author"] ELSE IdleConf[b]]

\* The first confirm makes the row, the later ones name it: a running import of the
\* user, of either source.
ConfirmNew(u, i, B) ==
  /\ Fresh(i) /\ RunningOf(u) = {} /\ Act
  /\ imp' = [imp EXCEPT ![i] = [status |-> "running", source |-> "list", user |-> u]]
  /\ conf' = [conf EXCEPT ![i] = Batch(B)]
  /\ UNCHANGED <<slot, starting, run, undo, library, ends>>

ConfirmMore(i, B) ==
  /\ imp[i].status = "running" /\ ~Confirming(i) /\ Act
  /\ conf' = [conf EXCEPT ![i] = Batch(B)]
  /\ UNCHANGED <<imp, slot, starting, run, undo, library, ends>>

\* settle_candidate_v2: the author's gate, then the road.
ConfirmAuthor(i, b) ==
  /\ conf[i][b].pc = "author"
  /\ \/ /\ NoFault
        /\ author' = Gated(Of(i, b), None)
        /\ conf' = [conf EXCEPT ![i][b] = [@ EXCEPT !.pc = "settle", !.author = author'[Of(i, b)].row]]
     \/ Fault /\ conf' = [conf EXCEPT ![i][b] = IdleConf[b]] /\ UNCHANGED author
  /\ UNCHANGED <<imp, slot, starting, run, undo, work, item, disk, intent, ends>>

\* Mutant: a work that was there already is tagged as well.
ConfirmSettleAny(i, b) ==
  LET k == Of(i, b) IN
  /\ conf[i][b].pc = "settle"
  /\ \E w \in Works \cup {None} :
       /\ Settles(k, conf[i][b].author, w)
       /\ work' = Created(k, w, i)
       /\ conf' = [conf EXCEPT ![i][b] =
            IF w # None THEN [@ EXCEPT !.pc = "tag", !.work = w] ELSE IdleConf[b]]
  /\ NoFault /\ UNCHANGED <<imp, slot, starting, run, undo, author, item, disk, intent, ends>>

ConfirmSettle(i, b) ==
  LET k == Of(i, b) IN
  /\ conf[i][b].pc = "settle"
  /\ \E w \in Works \cup {None} :
       /\ Settles(k, conf[i][b].author, w)
       /\ work' = Created(k, w, i)
       /\ conf' = [conf EXCEPT ![i][b] =
            IF w \in Unused THEN [@ EXCEPT !.pc = "tag", !.work = w] ELSE IdleConf[b]]
  /\ NoFault /\ UNCHANGED <<imp, slot, starting, run, undo, author, item, disk, intent, ends>>

\* complete_add, then tag_work_with_import.
ConfirmTag(i, b) ==
  /\ conf[i][b].pc = "tag"
  /\ \/ NoFault /\ work' = [work EXCEPT ![conf[i][b].work].tag = i]
     \/ Fault /\ UNCHANGED work
  /\ conf' = [conf EXCEPT ![i][b] = IdleConf[b]]
  /\ UNCHANGED <<imp, slot, starting, run, undo, author, item, disk, intent, ends>>

ConfirmDropped(i) ==
  /\ Confirming(i) /\ Fault
  /\ conf' = [conf EXCEPT ![i] = IdleConf]
  /\ UNCHANGED <<imp, slot, starting, run, undo, library, ends>>

\* complete_list_import: any running row of the user, that of a Readarr import too.
Complete(i) ==
  /\ imp[i].status = "running" /\ Act
  /\ imp' = [imp EXCEPT ![i].status = "completed"]
  /\ UNCHANGED <<slot, requests, library, ends>>

-----------------------------------------------------------------------------
(* Undoing.                                                                *)

Tagged(i) == {w \in Works : work[w].state = "live" /\ work[w].tag = i}

\* ListService::undo reads the works and their authors, of an import of either
\* source, also of one that is running.
ListUndo(i) ==
  /\ imp[i].status \notin {"none", "undone"}
  /\ undo[i].pc = "idle" /\ Act
  /\ undo' = [undo EXCEPT ![i] =
       [IdleUndo EXCEPT !.pc = "works", !.works = Tagged(i),
          !.authors = {<<work[w].key, author[work[w].key].row>> : w \in Tagged(i)}]]
  /\ UNCHANGED <<imp, slot, starting, run, conf, library, ends>>

\* WorkService::delete, one work after the other; files stay on disk.
UndoWork(i, w) ==
  /\ undo[i].pc = "works" /\ w \in undo[i].works
  /\ undo' = [undo EXCEPT ![i].works = @ \ {w}]
  /\ \/ NoFault /\ Cascade({w})
     \/ Fault /\ UNCHANGED <<work, item, intent>>
  /\ UNCHANGED <<imp, slot, starting, run, conf, author, disk, ends>>

\* delete_empty_authors_added_since_import
UndoListAuthors(i) ==
  /\ undo[i].pc = "works" /\ undo[i].works = {}
  /\ \/ NoFault /\ author' = WithoutAuthors({k \in Keys :
          Empty(k) /\ i \in author[k].since /\ <<k, author[k].row>> \in undo[i].authors})
     \/ Fault /\ UNCHANGED author
  /\ undo' = [undo EXCEPT ![i].pc = "mark"]
  /\ UNCHANGED <<imp, slot, starting, run, conf, work, item, disk, intent, ends>>

\* undo_import reads the import and its files; its history lists imports of either source.
ReadarrUndo(i) ==
  /\ imp[i].status \notin {"none", "running"}
  /\ undo[i].pc = "idle" /\ Act
  /\ undo' = [undo EXCEPT ![i] = [IdleUndo EXCEPT
       !.pc = "files", !.items = {<<k, item[k].row>> : k \in {x \in Keys : item[x].tag = i}}]]
  /\ UNCHANGED <<imp, slot, starting, run, conf, library, ends>>

UndoFiles(i) ==
  /\ undo[i].pc = "files"
  /\ \/ NoFault /\ disk' = disk \ {x[1] : x \in undo[i].items}
     \/ Fault /\ \E K \in SUBSET {x[1] : x \in undo[i].items} : disk' = disk \ K
  /\ undo' = [undo EXCEPT ![i].pc = "rows"]
  /\ UNCHANGED <<imp, slot, starting, run, conf, author, work, item, intent, ends>>

\* delete_library_item_by_id
UndoRow(i) ==
  /\ undo[i].pc = "rows"
  /\ \E x \in undo[i].items :
       /\ undo' = [undo EXCEPT ![i].items = @ \ {x}]
       /\ \/ /\ NoFault
             /\ item' = IF item[x[1]].row = x[2]
                        THEN [item EXCEPT ![x[1]] = [NoItem EXCEPT !.row = x[2]]] ELSE item
          \/ Fault /\ UNCHANGED item
  /\ UNCHANGED <<imp, slot, starting, run, conf, author, work, disk, intent, ends>>

\* delete_orphan_works_by_import
UndoOrphans(i) ==
  /\ undo[i].pc = "rows" /\ undo[i].items = {}
  /\ \/ NoFault /\ Cascade({w \in Tagged(i) : item[work[w].key].work # w})
     \/ Fault /\ UNCHANGED <<work, item, intent>>
  /\ undo' = [undo EXCEPT ![i].pc = "authors"]
  /\ UNCHANGED <<imp, slot, starting, run, conf, author, disk, ends>>

\* delete_orphan_authors_by_import
UndoAuthors(i) ==
  /\ undo[i].pc = "authors"
  /\ \/ NoFault /\ author' = WithoutAuthors({k \in Keys : Empty(k) /\ author[k].tag = i})
     \/ Fault /\ UNCHANGED author
  /\ undo' = [undo EXCEPT ![i].pc = "mark"]
  /\ UNCHANGED <<imp, slot, starting, run, conf, work, item, disk, intent, ends>>

UndoMark(i) ==
  /\ undo[i].pc = "mark"
  /\ \/ NoFault /\ imp' = [imp EXCEPT ![i].status = "undone"]
     \/ Fault /\ UNCHANGED imp
  /\ undo' = [undo EXCEPT ![i] = IdleUndo]
  /\ UNCHANGED <<slot, starting, run, conf, library, ends>>

UndoDropped(i) ==
  /\ undo[i].pc # "idle" /\ Fault
  /\ undo' = [undo EXCEPT ![i] = IdleUndo]
  /\ UNCHANGED <<imp, slot, starting, run, conf, library, ends>>

-----------------------------------------------------------------------------
(* The user and the process.                                               *)

\* A file of the user's own, by any other door.
OwnFile(w) ==
  LET k == work[w].key IN
  /\ work[w].state = "live" /\ item[k].work = None /\ k \notin disk /\ intent[k] = NoIntent /\ Act
  /\ item' = [item EXCEPT ![k] = [row |-> @.row + 1, work |-> w, tag |-> None]]
  /\ disk' = disk \cup {k}
  /\ UNCHANGED <<imp, slot, requests, author, work, intent, ends>>

\* The user monitors an author or picks a name or a link for them.
TouchAuthor(k) ==
  /\ author[k].live /\ ~author[k].touched /\ Act
  /\ author' = [author EXCEPT ![k].touched = TRUE]
  /\ UNCHANGED <<imp, slot, requests, work, item, disk, intent, ends>>

\* reconcile_one_intent
Reconciled(k) == intent[k] # NoIntent /\ k \in disk /\ Recordable(k, intent[k].work)

\* The process dies and starts again.  recover_interrupted_state finishes the files
\* that were on their way and has nothing for the imports they belong to.
Restart ==
  /\ Fault
  /\ slot' = [running |-> FALSE, imp |-> None]
  /\ starting' = [u \in Users |-> None]
  /\ run' = [i \in Imports |-> IdleRun]
  /\ conf' = [i \in Imports |-> IdleConf]
  /\ undo' = [i \in Imports |-> IdleUndo]
  /\ lost' = lost \cup {i \in Imports : imp[i].status = "running" /\ imp[i].source = "readarr"}
  /\ held' = FALSE
  /\ item' = [k \in Keys |->
       IF Reconciled(k) THEN Recorded(k, intent[k].work, intent[k].tag) ELSE item[k]]
  /\ intent' = [k \in Keys |-> IF Reconciled(k) THEN NoIntent ELSE intent[k]]
  /\ UNCHANGED <<imp, author, work, disk>>

-----------------------------------------------------------------------------

Init ==
  /\ imp = [i \in Imports |-> NoRow]
  /\ slot = [running |-> FALSE, imp |-> None]
  /\ starting = [u \in Users |-> None]
  /\ run = [i \in Imports |-> IdleRun]
  /\ conf = [i \in Imports |-> IdleConf]
  /\ undo = [i \in Imports |-> IdleUndo]
  /\ author = [k \in Keys |-> NoAuthor]
  /\ work = [w \in Works |-> [state |-> "unused", key |-> None, tag |-> None, by |-> None]]
  /\ item = [k \in Keys |-> NoItem]
  /\ disk = {} /\ intent = [k \in Keys |-> NoIntent]
  /\ lost = {} /\ held = FALSE
  /\ acts = 0 /\ faults = 0

RunStep(i) ==
  \/ RunFetch(i) \/ RunList(i)
  \/ \E b \in Books : RunAuthor(i, b) \/ RunWork(i, b) \/ RunPlace(i, b)
  \/ RunAuthorsDone(i) \/ RunWorksDone(i) \/ RunRollback(i)
  \/ RunRecord(i) \/ RunFilesDone(i)
  \/ RunFinish(i) \/ RunFail(i) \/ RunRelease(i)

ConfirmStep(i) ==
  \/ \E u \in Users, B \in SUBSET Books : ConfirmNew(u, i, B)
  \/ \E B \in SUBSET Books : ConfirmMore(i, B)
  \/ \E b \in Books : ConfirmAuthor(i, b) \/ ConfirmSettle(i, b) \/ ConfirmTag(i, b)
  \/ ConfirmDropped(i)
  \/ Complete(i)

UndoStep(i) ==
  \/ ListUndo(i)
  \/ \E w \in Works : UndoWork(i, w)
  \/ UndoListAuthors(i)
  \/ ReadarrUndo(i)
  \/ UndoFiles(i) \/ UndoRow(i) \/ UndoOrphans(i) \/ UndoAuthors(i)
  \/ UndoMark(i) \/ UndoDropped(i)

Next ==
  \/ \E u \in Users, i \in Imports : StartClaim(u, i)
  \/ \E u \in Users : StartCreate(u) \/ StartDropped(u)
  \/ \E i \in Imports : RunStep(i) \/ RunPanics(i) \/ ConfirmStep(i) \/ UndoStep(i)
  \/ \E w \in Works : OwnFile(w)
  \/ \E k \in Keys : TouchAuthor(k)
  \/ Restart

\* A request and a spawned task that are not cut off go on.
Fairness ==
  /\ \A u \in Users : WF_vars(StartCreate(u))
  /\ \A i \in Imports : WF_vars(RunStep(i))

Spec == Init /\ [][Next]_vars /\ Fairness

-----------------------------------------------------------------------------
(* What imports promise.                                                   *)

Working(i) == run[i].pc \notin {"idle", "release"}

\* readarr_import_workflow.rs start() and its slot guard: at most one Readarr import
\* is at work in the process, whoever started it, and it has the slot until its
\* task is gone, however starts are refused or dropped, tasks fail or panic and
\* rows are completed or undone from outside.
RunnerAlone ==
  \A i \in Imports :
    run[i].pc # "idle" =>
      /\ slot = [running |-> TRUE, imp |-> i]
      /\ \A j \in Imports \ {i} : run[j].pc = "idle"
      /\ \A u \in Users : starting[u] = None

\* readarr_import_workflow.rs:1155, "Cannot undo a running import": while a Readarr
\* import adds to the library nobody undoes it.  Does not hold: the list endpoints
\* complete and undo the import of any source (see the README).
NotUndoneAtWork == \A i \in Imports : Working(i) => undo[i].pc = "idle"

\* A Readarr import that is 'running' in the table has a task that will end it,
\* unless the task or the request was cut off.  The user's other imports are
\* refused for as long as it lasts.
RunningHasOwner ==
  \A i \in Imports :
    imp[i].status = "running" /\ imp[i].source = "readarr" => i \in lost \/ Working(i)

\* What the steps of imports and undos rely on: every import in use has its user,
\* a work that is there has its book, and a task at its files has their works.
Formed ==
  /\ \A i \in Imports :
       /\ imp[i].status = "none" => undo[i].pc = "idle" /\ run[i].pc = "idle" /\ ~Confirming(i)
       /\ imp[i].status # "none" => imp[i].user \in Users
       /\ run[i].pc = "files" => \A b \in run[i].todo : run[i].work[b] \in Works
       /\ run[i].pc = "record" => run[i].at \in Books /\ run[i].work[run[i].at] \in Works
       /\ run[i].pc = "record" => \A b \in run[i].todo : run[i].work[b] \in Works
  /\ \A w \in Works : work[w].state = "live" => work[w].key \in Keys

\* Who has the slot, from the claim on.
Slotted ==
  /\ \A u \in Users : starting[u] # None =>
       /\ slot = [running |-> TRUE, imp |-> starting[u]]
       /\ imp[starting[u]].status = "none"
       /\ \A i \in Imports : run[i].pc = "idle"
       /\ \A v \in Users \ {u} : starting[v] = None
  /\ \A i \in Imports : run[i].pc # "idle" => imp[i].source = "readarr"

IInv == TypeOK /\ Formed /\ Slotted /\ RunnerAlone /\ RunningHasOwner

\* Whose work is whose: a confirm tags, and an undo lists, works of its import only.
Tags ==
  /\ \A w \in Works : work[w].state = "unused" => work[w].by = None
  /\ \A w \in Works : work[w].tag # None => work[w].by = work[w].tag
  /\ \A i \in Imports, b \in Books :
       conf[i][b].pc = "tag" => conf[i][b].work \in Works /\ work[conf[i][b].work].by = i
  /\ \A i \in Imports, w \in Works : w \in undo[i].works => work[w].by = i

\* The slot of the process is freed again, whether the import completes, fails,
\* is refused or panics; only a start() that is dropped keeps it.
SlotFreed == slot.running ~> (~slot.running \/ held)

\* list_service.rs confirm() and undo(), undo_import: a work that goes was created by
\* the import that is being undone, although two imports confirm the same book at
\* once, the tag is written after the work, and an undo deletes from a list that it
\* read before other requests went on.
UndoTakesOwn ==
  [][\A w \in Works : work[w].state = "live" /\ work'[w].state = "gone" =>
       \E i \in Imports : work[w].by = i /\ undo[i].pc \in {"works", "rows"}]_vars

\* What the undo dialog of the Readarr page says: the works created by the import
\* go too, except those that have a file by now (the only import so far made them
\* all).  Does not hold: the identity road writes no import_id (see the README).
UndoTakesWorks ==
  [][\A i \in Imports :
       /\ undo[i].pc = "mark" /\ imp'[i].status = "undone" /\ faults' = 0
       /\ imp[i].source = "readarr" /\ \A j \in Imports \ {i} : imp[j].status = "none"
       => \A w \in Works : work[w].state = "live" => item[work[w].key].work = w]_vars
=============================================================================
