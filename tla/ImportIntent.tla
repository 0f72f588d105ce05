----------------------------- MODULE ImportIntent -----------------------------
(***************************************************************************)
(* The crash-consistent import of one file (livrarr-library,               *)
(* import_workflow.rs): import_file_locked(), startup's                    *)
(* recover_import_intents(), and the two tables they write, import_intents *)
(* and library_items, seen at one target path of one user.                 *)
(*                                                                         *)
(* An import holds the lock of its (user, work) throughout; imports of     *)
(* different works meet only at the path.  What the kernel and SQLite hold *)
(* in memory (file, intent, row) survives the process, and survives the    *)
(* power only once it is flushed (disk, saved).                            *)
(***************************************************************************)
EXTENDS Naturals, FiniteSets

CONSTANTS
  Imports,     \* calls to import_file
  Works,       \* the works whose files build_target_path() sends to this path
  Size,        \* the size of a work's source file
  Modes,       \* the materializations in use
  None,        \* no file, no intent, no row
  MaxFaults,   \* bound on failed I/O and database calls
  MaxCrashes   \* bound on process deaths and power losses

ASSUME ImportAssumption ==
  /\ Size \in [Works -> Nat \ {0}]
  /\ Modes \subseteq {"Copy", "AdoptInPlace"}
  /\ MaxFaults \in Nat /\ MaxCrashes \in Nat

VARIABLES
  pc,        \* the next step of each import
  work,      \* its work
  mode,      \* its materialization
  res,       \* what it returned
  stg,       \* its staging file: "none", "open" or "synced"
  file,      \* the target as the running system sees it
  disk,      \* the target as a power loss would leave it
  intent,    \* the import_intents row of this path
  row,       \* the library_items row of this path
  saved,     \* <<intent, row>> as a power loss would leave them
  rpc,       \* the server: "down", a step of recovery, or "up"
  clean,     \* no call of the current recovery pass has failed
  cut,       \* the power has been lost at least once
  blind,     \* a failed stat has passed for a missing file
  faults, crashes

importVars == <<pc, work, mode, res>>
diskVars == <<stg, file, disk>>
dbVars == <<intent, row, saved>>
sysVars == <<rpc, clean, cut, blind, faults, crashes>>
vars == <<pc, work, mode, res, stg, file, disk, intent, row, saved, rpc, clean, cut,
          blind, faults, crashes>>

\* of: whose bytes; shared: also linked elsewhere; safe: the data is fsynced;
\* placed: an import put it there.
File == [of : Works, shared : BOOLEAN, safe : BOOLEAN, placed : BOOLEAN]
Intent == [by : Imports, work : Works, size : Nat, state : {"staging", "renamed"}]
\* by: who wrote the row first; not a column, the properties use it.
Row == [work : Works, by : {"Copy", "AdoptInPlace", "recovery"}]
ASSUME NoneAssumption == None \notin File \cup Intent \cup Row

Steps == {"idle", "exists", "mine", "skip", "claimed", "size", "separate", "adopt",
          "claim", "stage", "intend", "write", "rename", "late", "tail", "fsync", "mark", "item",
          "clear", "done"}
Results == {"none", "imported", "adopted", "skipped", "failed"}
RecSteps == {"down", "list", "reconcile", "finalize", "drop", "sweep", "up"}

TypeOK ==
  /\ pc \in [Imports -> Steps]
  /\ work \in [Imports -> Works]
  /\ mode \in [Imports -> Modes]
  /\ res \in [Imports -> Results]
  /\ stg \in [Imports -> {"none", "open", "synced"}]
  /\ file \in File \cup {None} /\ disk \in File \cup {None}
  /\ intent \in Intent \cup {None}
  /\ row \in Row \cup {None}
  /\ saved \in (Intent \cup {None}) \X (Row \cup {None})
  /\ rpc \in RecSteps
  /\ clean \in BOOLEAN /\ cut \in BOOLEAN /\ blind \in BOOLEAN
  /\ faults \in Nat /\ crashes \in Nat

\* Running, with the lock of its work.
Active(t) == pc[t] \notin {"idle", "late", "tail", "done"}

\* The library may hold nothing here, a file nobody recorded, or one recorded by
\* an import of the time when imports were hard links.
Init ==
  /\ pc = [t \in Imports |-> "idle"]
  /\ work \in [Imports -> Works]
  /\ mode \in [Imports -> Modes]
  /\ res = [t \in Imports |-> "none"]
  /\ stg = [t \in Imports |-> "none"]
  /\ \E w \in Works :
       file \in {None, [of |-> w, shared |-> TRUE, safe |-> TRUE, placed |-> FALSE]}
  /\ disk = file
  /\ intent = None
  /\ row \in {None} \cup (IF file = None THEN {} ELSE {[work |-> file.of, by |-> "Copy"]})
  /\ saved = <<None, row>>
  /\ rpc = "up"
  /\ clean = TRUE /\ cut = FALSE /\ blind = FALSE
  /\ faults = 0 /\ crashes = 0

-----------------------------------------------------------------------------
(* Ways a step ends.                                                       *)

Goto(t, step) == pc' = [pc EXCEPT ![t] = step] /\ UNCHANGED res
Return(t, r) == pc' = [pc EXCEPT ![t] = "done"] /\ res' = [res EXCEPT ![t] = r]
At(t, step) == rpc = "up" /\ pc[t] = step

Fault == faults < MaxFaults /\ faults' = faults + 1
NoFault == UNCHANGED faults

\* A call of the step failed and the import gives up, leaving all as it is.
FailsAt(t) ==
  /\ rpc = "up"
  /\ \/ pc[t] \in {"exists", "mine", "skip", "claimed", "separate", "adopt", "claim", "stage", "fsync", "item"}
     \/ pc[t] = "size" /\ mode[t] = "Copy"
  /\ Fault
  /\ Return(t, "failed")
  /\ UNCHANGED <<work, mode, diskVars, dbVars, rpc, clean, cut, blind, crashes>>

\* UPDATE and DELETE by the id of the import's own intent.
Referenced(t) == intent # None /\ intent.by = t
Marked(t) == IF Referenced(t) THEN [intent EXCEPT !.state = "renamed"] ELSE intent
Deleted(t) == IF Referenced(t) THEN None ELSE intent

\* create_library_item(): insert, update a row of the same work, or refuse; then
\* the row is read back, and a failure of that leaves it written.
MayRecord(w) == row # None => row.work = w
Recorded(w, by) == IF row = None THEN [work |-> w, by |-> by] ELSE row

-----------------------------------------------------------------------------
(* import_file_locked(): the target exists.                                *)

Begin(t) ==
  /\ At(t, "idle")
  /\ \A u \in Imports : Active(u) => work[u] # work[t]
  /\ Goto(t, "exists")
  /\ UNCHANGED <<work, mode, diskVars, dbVars, sysVars>>

\* A stat that fails counts as no file, here and in recovery.
Sees == file # None /\ NoFault /\ UNCHANGED blind
Misses == \/ file = None /\ NoFault /\ UNCHANGED blind
          \/ file # None /\ Fault /\ blind' = TRUE

Exists(t) ==
  /\ At(t, "exists")
  /\ \/ Sees /\ Goto(t, "mine")
     \/ Misses /\ mode[t] # "AdoptInPlace" /\ Goto(t, "claim")
     \/ Misses /\ mode[t] = "AdoptInPlace" /\ Return(t, "failed")
  /\ UNCHANGED <<work, mode, diskVars, dbVars, rpc, clean, cut, crashes>>

\* list_library_items_by_work(): a row of this work at this path?
Mine(t) ==
  /\ At(t, "mine")
  /\ \/ /\ row # None /\ row.work = work[t]
        /\ IF mode[t] = "Copy" THEN Goto(t, "skip") ELSE Return(t, "skipped")
     \/ row = None /\ Goto(t, "claimed")
     \/ row # None /\ row.work # work[t] /\ Goto(t, "claimed")
  /\ UNCHANGED <<work, mode, diskVars, dbVars, sysVars>>

\* Mutant: no directory fsync when the target is independent already.
IndependentUnflushed ==
  /\ file # None
  /\ file' = [file EXCEPT !.shared = FALSE, !.safe = file.shared \/ file.safe]
  /\ disk' = IF file.shared THEN file' ELSE disk

\* ensure_independent_target(): a copy of the target's own bytes renamed over it,
\* if it is linked elsewhere, and a directory fsync in every case.
Independent ==
  /\ file # None
  /\ file' = [file EXCEPT !.shared = FALSE, !.safe = file.shared \/ file.safe]
  /\ disk' = file'

\* Mutant: a recorded target is reported without being separated.
SkipTwoNames(t) ==
  /\ At(t, "skip")
  /\ Return(t, "skipped")
  /\ UNCHANGED <<work, mode, diskVars, dbVars, sysVars>>

SkipSeparate(t) ==
  /\ At(t, "skip")
  /\ Independent
  /\ Return(t, "skipped")
  /\ UNCHANGED <<work, mode, stg, dbVars, sysVars>>

\* find_library_item_by_path(): another work's row is a PathCollision.
Claimed(t) ==
  /\ At(t, "claimed")
  /\ IF MayRecord(work[t]) THEN Goto(t, "size") ELSE Return(t, "failed")
  /\ UNCHANGED <<work, mode, diskVars, dbVars, sysVars>>

\* A copy adopts only a file of its source's size.
SizeMatches(t) ==
  /\ At(t, "size")
  /\ \/ mode[t] = "AdoptInPlace" /\ Goto(t, "adopt")
     \/ mode[t] = "Copy" /\ file # None /\ Size[file.of] = Size[work[t]] /\ Goto(t, "separate")
  /\ UNCHANGED <<work, mode, diskVars, dbVars, sysVars>>

SizeDiffers(t) ==
  /\ At(t, "size")
  /\ mode[t] = "Copy" /\ (file # None => Size[file.of] # Size[work[t]])
  /\ Return(t, "failed")
  /\ UNCHANGED <<work, mode, diskVars, dbVars, sysVars>>

AdoptSeparate(t) ==
  /\ At(t, "separate")
  /\ Independent
  /\ Goto(t, "adopt")
  /\ UNCHANGED <<work, mode, stg, dbVars, sysVars>>

\* The separation's rename took effect and its directory fsync failed.
SeparateUnflushed(t) ==
  /\ rpc = "up" /\ pc[t] \in {"skip", "separate", "tail"} /\ file # None
  /\ Fault
  /\ file' = [file EXCEPT !.shared = FALSE, !.safe = file.shared \/ file.safe]
  /\ Return(t, "failed")
  /\ UNCHANGED <<work, mode, stg, disk, dbVars, rpc, clean, cut, blind, crashes>>

Adopt(t) ==
  /\ At(t, "adopt")
  /\ \/ MayRecord(work[t]) /\ row' = Recorded(work[t], mode[t]) /\ NoFault /\ Return(t, "adopted")
     \/ MayRecord(work[t]) /\ row' = Recorded(work[t], mode[t]) /\ Fault /\ Return(t, "failed")
     \/ ~MayRecord(work[t]) /\ UNCHANGED row /\ NoFault /\ Return(t, "failed")
  /\ UNCHANGED <<work, mode, diskVars, intent, saved, rpc, clean, cut, blind, crashes>>

-----------------------------------------------------------------------------
(* import_file_locked(): the target is absent.                             *)

Claim(t) ==
  /\ At(t, "claim")
  /\ IF MayRecord(work[t]) THEN Goto(t, "stage") ELSE Return(t, "failed")
  /\ UNCHANGED <<work, mode, diskVars, dbVars, sysVars>>

\* create_dir_all, the stat of the source, and the staging reservation.
Stage(t) ==
  /\ At(t, "stage")
  /\ stg' = [stg EXCEPT ![t] = "open"]
  /\ Goto(t, "intend")
  /\ UNCHANGED <<work, mode, file, disk, dbVars, sysVars>>

\* Mutant: the INSERT replaces the path's row in place of failing.
IntendReplaces(t) ==
  /\ At(t, "intend")
  /\ \/ /\ intent' = [by |-> t, work |-> work[t], size |-> Size[work[t]], state |-> "staging"]
        /\ NoFault /\ Goto(t, "write") /\ UNCHANGED stg
     \/ /\ Fault /\ UNCHANGED intent
        /\ stg' = [stg EXCEPT ![t] = "none"]
        /\ Return(t, "failed")
  /\ UNCHANGED <<work, mode, file, disk, row, saved, rpc, clean, cut, blind, crashes>>

\* create_import_intent(): UNIQUE on the path, then the row is read back.
\* expected_size is 0 when the source could not be stat'ed.
Inserted(t, size) ==
  /\ intent = None
  /\ intent' = [by |-> t, work |-> work[t], size |-> size, state |-> "staging"]

Intend(t) ==
  /\ At(t, "intend")
  /\ \/ /\ \E size \in {Size[work[t]], 0} :
             Inserted(t, size) /\ IF size = 0 THEN Fault ELSE NoFault
        /\ Goto(t, "write") /\ UNCHANGED stg
     \/ /\ \/ intent # None /\ UNCHANGED intent /\ NoFault
           \/ UNCHANGED intent /\ Fault
           \/ Inserted(t, Size[work[t]]) /\ Fault
        /\ stg' = [stg EXCEPT ![t] = "none"]
        /\ Return(t, "failed")
  /\ UNCHANGED <<work, mode, file, disk, row, saved, rpc, clean, cut, blind, crashes>>

\* Mutant: the staged data is not fsynced.
WriteUnsynced(t) ==
  /\ At(t, "write")
  /\ Goto(t, "rename")
  /\ UNCHANGED <<work, mode, diskVars, dbVars, sysVars>>

Write(t) ==
  /\ At(t, "write")
  /\ stg' = [stg EXCEPT ![t] = "synced"]
  /\ Goto(t, "rename")
  /\ UNCHANGED <<work, mode, file, disk, dbVars, sysVars>>

Rename(t) ==
  /\ At(t, "rename")
  /\ file' = [of |-> work[t], shared |-> FALSE, safe |-> stg[t] = "synced", placed |-> TRUE]
  /\ stg' = [stg EXCEPT ![t] = "none"]
  /\ Goto(t, "fsync")
  /\ UNCHANGED <<work, mode, disk, dbVars, sysVars>>

\* The write or the rename failed: the staging file and then the intent are
\* removed, the intent only if the DELETE succeeds.
RollBack(t) ==
  /\ rpc = "up" /\ pc[t] \in {"write", "rename"}
  /\ Fault
  /\ stg' = [stg EXCEPT ![t] = "none"]
  /\ \/ intent' = Deleted(t)
     \/ faults + 1 < MaxFaults /\ UNCHANGED intent
  /\ Return(t, "failed")
  /\ UNCHANGED <<work, mode, file, disk, row, saved, rpc, clean, cut, blind, crashes>>

\* Mutant: the import goes on after a directory fsync that failed.
FsyncIgnored(t) ==
  /\ At(t, "fsync")
  /\ disk' \in {disk, file}
  /\ Goto(t, "mark")
  /\ UNCHANGED <<work, mode, stg, file, dbVars, sysVars>>

\* The file system is taken to make the directories that create_dir_all made above
\* the target's durable with it, as a journal does: only the last is fsynced.
FsyncDir(t) ==
  /\ At(t, "fsync")
  /\ disk' = file
  /\ Goto(t, "mark")
  /\ UNCHANGED <<work, mode, stg, file, dbVars, sysVars>>

\* mark_import_intent_renamed(), best effort.
Mark(t) ==
  /\ At(t, "mark")
  /\ \/ NoFault /\ intent' = Marked(t)
     \/ Fault /\ UNCHANGED intent
  /\ Goto(t, "item")
  /\ UNCHANGED <<work, mode, diskVars, row, saved, rpc, clean, cut, blind, crashes>>

Item(t) ==
  /\ At(t, "item")
  /\ \/ MayRecord(work[t]) /\ row' = Recorded(work[t], mode[t]) /\ NoFault /\ Goto(t, "clear")
     \/ MayRecord(work[t]) /\ row' = Recorded(work[t], mode[t]) /\ Fault /\ Return(t, "failed")
     \/ ~MayRecord(work[t]) /\ UNCHANGED row /\ NoFault /\ Return(t, "failed")
  /\ UNCHANGED <<work, mode, diskVars, intent, saved, rpc, clean, cut, blind, crashes>>

\* delete_import_intent(), best effort.
Clear(t) ==
  /\ At(t, "clear")
  /\ \/ NoFault /\ intent' = Deleted(t)
     \/ Fault /\ UNCHANGED intent
  /\ Return(t, "imported")
  /\ UNCHANGED <<work, mode, diskVars, row, saved, rpc, clean, cut, blind, crashes>>

\* The request's future is dropped at an await.  The staging reservation deletes
\* itself, unless the copy is under way: a blocking task runs to its end.  So do a
\* rename and a separation, whenever their thread gets to it, the work's lock long
\* released.  Nothing else is undone.
Abandon(t) ==
  /\ rpc = "up" /\ Active(t)
  /\ \/ Return(t, "failed")
     \/ /\ \/ pc[t] = "rename" /\ pc' = [pc EXCEPT ![t] = "late"]
           \/ pc[t] \in {"skip", "separate"} /\ pc' = [pc EXCEPT ![t] = "tail"]
        /\ res' = [res EXCEPT ![t] = "failed"]
  /\ \/ stg[t] # "open" /\ UNCHANGED stg
     \/ stg[t] = "open" /\ stg' = [stg EXCEPT ![t] = "none"]
     \/ pc[t] = "write" /\ stg' = [stg EXCEPT ![t] = "synced"]
  /\ UNCHANGED <<work, mode, file, disk, dbVars, sysVars>>

LateRename(t) ==
  /\ At(t, "late")
  /\ file' = [of |-> work[t], shared |-> FALSE, safe |-> stg[t] = "synced", placed |-> TRUE]
  /\ stg' = [stg EXCEPT ![t] = "none"]
  /\ Goto(t, "done")
  /\ UNCHANGED <<work, mode, disk, dbVars, sysVars>>

LateSeparate(t) ==
  /\ At(t, "tail")
  /\ Independent
  /\ Goto(t, "done")
  /\ UNCHANGED <<work, mode, stg, dbVars, sysVars>>

-----------------------------------------------------------------------------
(* recover_import_intents(), before the server takes any import.           *)

Restart ==
  /\ rpc = "down"
  /\ rpc' = "list" /\ clean' = TRUE
  /\ UNCHANGED <<importVars, diskVars, dbVars, cut, blind, faults, crashes>>

RecList ==
  /\ rpc = "list"
  /\ \/ NoFault /\ UNCHANGED clean /\ rpc' = IF intent = None THEN "sweep" ELSE "reconcile"
     \/ Fault /\ clean' = FALSE /\ rpc' = "up"
  /\ UNCHANGED <<importVars, diskVars, dbVars, cut, blind, crashes>>

\* reconcile_one_intent(), from the state and what is on disk.  A missing target
\* rolls a "staging" intent back; one of the expected size is finalized (a size
\* that cannot be read passes for the expected one); anything else is anomalous
\* and stays, for ever if nothing changes.
RolledBack == Misses /\ intent.state = "staging"
Finalizable ==
  \/ Sees /\ Size[file.of] = intent.size
  \/ file # None /\ Size[file.of] # intent.size /\ Fault /\ UNCHANGED blind
Anomalous ==
  \/ file = None /\ intent.state = "renamed"
  \/ file # None /\ Size[file.of] # intent.size

RecDecide ==
  /\ rpc = "reconcile"
  /\ \/ RolledBack /\ rpc' = "drop" /\ stg' = [stg EXCEPT ![intent.by] = "none"]
     \/ Finalizable /\ rpc' = "finalize" /\ UNCHANGED stg
     \/ Misses /\ intent.state = "renamed" /\ rpc' = "sweep" /\ UNCHANGED stg
     \/ Sees /\ Size[file.of] # intent.size /\ rpc' = "sweep" /\ UNCHANGED stg
  /\ clean' = (clean /\ faults' = faults)
  /\ UNCHANGED <<importVars, file, disk, dbVars, cut, crashes>>

RecFinalize ==
  /\ rpc = "finalize"
  /\ \/ /\ MayRecord(intent.work) /\ row' = Recorded(intent.work, "recovery")
        /\ \/ NoFault /\ UNCHANGED clean /\ rpc' = "drop"
           \/ Fault /\ clean' = FALSE /\ rpc' = "sweep"
     \/ ~MayRecord(intent.work) /\ UNCHANGED <<row, clean, faults>> /\ rpc' = "sweep"
  /\ UNCHANGED <<importVars, diskVars, intent, saved, cut, blind, crashes>>

\* Mutant: recovery finishes without deleting what it has settled.
RecDropNothing ==
  /\ rpc = "drop" /\ rpc' = "sweep"
  /\ UNCHANGED <<importVars, diskVars, dbVars, clean, cut, blind, faults, crashes>>

RecDrop ==
  /\ rpc = "drop"
  /\ intent' = None
  /\ rpc' = "sweep"
  /\ UNCHANGED <<importVars, diskVars, row, saved, clean, cut, blind, faults, crashes>>

\* The root folder is unreadable, the row cannot be written or the intent not
\* deleted: it stays for a later pass.
RecFails ==
  /\ rpc \in {"reconcile", "finalize", "drop"}
  /\ Fault /\ clean' = FALSE
  /\ rpc' = "sweep"
  /\ UNCHANGED <<importVars, diskVars, dbVars, cut, blind, crashes>>

\* Staging files no remaining intent refers to go when they are old enough.
Sweep ==
  /\ rpc = "sweep"
  /\ \E old \in SUBSET {t \in Imports : stg[t] # "none" /\ ~Referenced(t)} :
       stg' = [t \in Imports |-> IF t \in old THEN "none" ELSE stg[t]]
  /\ rpc' = "up"
  /\ UNCHANGED <<importVars, file, disk, dbVars, clean, cut, blind, faults, crashes>>

-----------------------------------------------------------------------------
(* The machine.                                                            *)

Stopped ==
  /\ pc' = [t \in Imports |-> IF pc[t] = "idle" THEN "idle" ELSE "done"]
  /\ res' = [t \in Imports |-> IF Active(t) THEN "failed" ELSE res[t]]
  /\ rpc' = "down" /\ crashes' = crashes + 1

\* The process ends, with a signal or not; no destructor runs.
Crash ==
  /\ rpc # "down" /\ crashes < MaxCrashes
  /\ Stopped
  /\ UNCHANGED <<work, mode, diskVars, dbVars, clean, cut, blind, faults>>

\* The machine ends: what was not flushed is gone.
PowerLoss ==
  /\ crashes < MaxCrashes
  /\ Stopped
  /\ cut' = TRUE
  /\ file' = disk
  /\ intent' = saved[1] /\ row' = saved[2]
  /\ \E lost \in SUBSET Imports :
       stg' = [t \in Imports |-> IF t \in lost THEN "none" ELSE stg[t]]
  /\ UNCHANGED <<work, mode, disk, saved, clean, blind, faults>>

\* The kernel writes the directory back, and SQLite checkpoints its WAL
\* (synchronous = NORMAL), whenever they like.
Writeback ==
  /\ disk # file /\ disk' = file
  /\ UNCHANGED <<importVars, stg, file, dbVars, sysVars>>
Checkpoint ==
  /\ saved # <<intent, row>> /\ saved' = <<intent, row>>
  /\ UNCHANGED <<importVars, diskVars, intent, row, sysVars>>

Import(t) ==
  \/ Begin(t) \/ Exists(t) \/ Mine(t) \/ SkipSeparate(t) \/ Claimed(t)
  \/ SizeMatches(t) \/ SizeDiffers(t) \/ AdoptSeparate(t) \/ SeparateUnflushed(t) \/ Adopt(t)
  \/ Claim(t) \/ Stage(t) \/ Intend(t) \/ Write(t) \/ Rename(t) \/ RollBack(t)
  \/ FsyncDir(t) \/ Mark(t) \/ Item(t) \/ Clear(t) \/ FailsAt(t)
  \/ Abandon(t) \/ LateRename(t) \/ LateSeparate(t)

Recovery == Restart \/ RecList \/ RecDecide \/ RecFinalize \/ RecDrop \/ RecFails \/ Sweep

Next ==
  \/ \E t \in Imports : Import(t)
  \/ Recovery
  \/ Crash \/ PowerLoss \/ Writeback \/ Checkpoint

Spec == Init /\ [][Next]_vars

-----------------------------------------------------------------------------
(* The inductive invariant of the proofs.                                  *)

Owning == {"write", "rename", "late", "fsync", "mark", "item", "clear"}
Placing == {"claim", "stage", "intend", "write", "rename"}
Placed == {"fsync", "mark", "item", "clear"}

\* Imports run only while the server is up, one per work, and the one that has
\* passed create_import_intent() owns the path's intent until it deletes it.
Serial ==
  /\ rpc # "up" => \A t \in Imports : pc[t] \in {"idle", "done"}
  /\ \A t, u \in Imports : Active(t) /\ Active(u) /\ work[t] = work[u] => t = u
  /\ \A t \in Imports : pc[t] \in Owning =>
       intent # None /\ intent.by = t /\ intent.work = work[t]

\* Nothing reaches the target before its data is on disk.
Synced ==
  /\ file # None => file.safe
  /\ disk # None => disk.safe
  /\ \A t \in Imports : pc[t] \in {"rename", "late"} => stg[t] = "synced"

\* A row of a copying import comes after a directory fsync.
Flushed ==
  /\ disk # None => file # None
  /\ row # None /\ row.by = "Copy" => disk # None
  /\ saved[2] # None /\ saved[2].by = "Copy" => disk # None
  /\ \A t \in Imports : pc[t] \in {"mark", "item", "clear"} => disk # None
  /\ \A t \in Imports : pc[t] = "adopt" /\ mode[t] = "Copy" => disk # None

\* The import behind the intent has ended; only a restart removes the intent.
Orphaned == intent # None /\ pc[intent.by] = "done"

\* An import that has yet to place its file is the first of its work, or is about
\* to meet the intent of one that ended.
Fresh ==
  \A t \in Imports : pc[t] \in Placing /\ ~blind =>
    file = None \/ file.of # work[t] \/ (Orphaned /\ intent.by # t)

\* An import that has placed its file finds it there, and recovery drops what it
\* has settled.
Settled ==
  /\ \A t \in Imports : pc[t] \in Placed => file # None /\ file.of = work[t]
  /\ \A t \in Imports : pc[t] \in {"clear", "skip"} => row # None /\ row.work = work[t]
  /\ rpc \in {"reconcile", "finalize", "drop"} => intent # None
  /\ rpc = "drop" /\ ~blind => file = None \/ (row # None /\ row.work = intent.work)

Alone ==
  \A t \in Imports :
    pc[t] \in Placed \/ (pc[t] = "adopt" /\ mode[t] = "Copy") => file # None /\ ~file.shared

Undecided ==
  rpc = "sweep" /\ clean /\ intent # None =>
    Anomalous \/ (row # None /\ row.work # intent.work)

-----------------------------------------------------------------------------
(* Properties *)

\* import_workflow.rs staging: the data is fsynced before the rename, so a target
\* that survives a power loss is never torn.
NeverTorn == disk # None => disk.safe

\* 074_import_intents.sql: a crash, a failed call or a dropped request at any point
\* leaves a file an import has placed to its work's row or to its work's intent;
\* except when SQLite lost a commit to a power loss or a stat failed.
Accounted ==
  ~cut /\ ~blind /\ file # None /\ file.placed =>
    \/ row # None /\ row.work = file.of
    \/ intent # None /\ intent.work = file.of

\* import_workflow.rs, the directory fsyncs of the import and of
\* ensure_independent_target(): the row that a copying import wrote, or found and
\* adopted the file for, has a file that survives a power loss.
CopyRowDurable == row # None /\ row.by = "Copy" => disk # None

\* import_workflow.rs ImportFileOutcome: a copying import that reports success has
\* left a row of its own work, and a target that shares its bytes with nobody.
SuccessIsOwned ==
  [][ \A t \in Imports :
        res[t] = "none" /\ res'[t] \in {"imported", "adopted", "skipped"} /\ mode[t] = "Copy" =>
          /\ row' # None /\ row'.work = work[t]
          /\ file' # None /\ ~file'.shared ]_vars

\* recover_import_intents(): a startup pass without failures leaves an intent only
\* when it is anomalous or another work has the path's row.
RecoverySettles ==
  [][ rpc = "sweep" /\ rpc' = "up" /\ clean /\ intent # None =>
        Anomalous \/ (row # None /\ row.work # intent.work) ]_vars

\* import_workflow.rs, before staging: "the row committed first stays the authority
\* for the path": the recorded file keeps the bytes of the row's work.
RowKeepsItsFile == row # None /\ file # None => file.of = row.work

\* import_workflow.rs reconcile_one_intent(): a target that exists was renamed
\* "durably", so every row has a file that survives a power loss.
RowDurable == row # None => disk # None
=============================================================================
