------------------------- MODULE ImportIntent_proofs -------------------------
(* The safety of ImportIntent, for any number of imports, works and faults. *)
EXTENDS ImportIntent, TLAPS

USE ImportAssumption, NoneAssumption

-----------------------------------------------------------------------------
(* Types *)

\* Whatever a recovery pass or a crash does to the state, it stays well typed.
LEMMA SystemTypes ==
  ASSUME TypeOK, rpc \in {"reconcile", "finalize", "drop"} => intent # None,
         Recovery \/ Crash \/ PowerLoss \/ Writeback \/ Checkpoint \/ UNCHANGED vars
  PROVE  TypeOK'
<1> USE DEF TypeOK, Fault, NoFault, importVars, diskVars, dbVars, sysVars
<1>1. CASE Restart BY <1>1 DEF Restart, RecSteps
<1>2. CASE RecList
  <2>1. clean' \in BOOLEAN BY <1>2, Zenon DEF RecList
  <2> QED BY <1>2, <2>1 DEF RecList, RecSteps
<1>3. CASE RecDecide
  <2>1. clean' \in BOOLEAN BY <1>3 DEF RecDecide
  <2>2. blind' \in BOOLEAN
    BY <1>3, Zenon DEF RecDecide, RolledBack, Finalizable, Sees, Misses
  <2>4. faults' \in Nat
    BY <1>3 DEF RecDecide, RolledBack, Finalizable, Sees, Misses
  <2>3. stg' \in [Imports -> {"none", "open", "synced"}] /\ rpc' \in RecSteps
    BY <1>3 DEF RecDecide, RecSteps
  <2> QED BY <1>3, <2>1, <2>2, <2>3, <2>4 DEF RecDecide
<1>4. CASE RecFinalize
  <2>1. clean' \in BOOLEAN BY <1>4, Zenon DEF RecFinalize
  <2>2. row' \in Row \cup {None}
    BY <1>4 DEF RecFinalize, MayRecord, Recorded, Row, Intent
  <2> QED BY <1>4, <2>1, <2>2 DEF RecFinalize, RecSteps
<1>5. CASE RecDrop BY <1>5 DEF RecDrop, RecSteps
<1>6. CASE RecFails
  <2>1. clean' \in BOOLEAN BY <1>6, Zenon DEF RecFails
  <2> QED BY <1>6, <2>1 DEF RecFails, RecSteps
<1>7. CASE Sweep BY <1>7 DEF Sweep, RecSteps
<1>8. CASE Crash BY <1>8 DEF Crash, Stopped, Active, Steps, Results, RecSteps
<1>9. CASE PowerLoss BY <1>9 DEF PowerLoss, Stopped, Active, Steps, Results, RecSteps
<1>10. CASE Writeback BY <1>10 DEF Writeback
<1>11. CASE Checkpoint BY <1>11 DEF Checkpoint
<1>12. CASE UNCHANGED vars BY <1>12 DEF vars
<1> QED BY <1>1, <1>2, <1>3, <1>4, <1>5, <1>6, <1>7, <1>8, <1>9, <1>10, <1>11, <1>12
        DEF Recovery

\* create_library_item() leaves a row of the work it is called for.
LEMMA RowRecorded ==
  ASSUME TypeOK, NEW t \in Imports, MayRecord(work[t])
  PROVE  LET r == Recorded(work[t], mode[t])
         IN  r \in Row /\ r # None /\ r.work = work[t]
<1>1. mode[t] \in {"Copy", "AdoptInPlace"} BY DEF TypeOK
<1>2. work[t] \in Works BY DEF TypeOK
<1>3. [work |-> work[t], by |-> mode[t]] \in Row BY <1>1, <1>2 DEF Row
<1> QED BY <1>3 DEF Recorded, MayRecord, TypeOK

\* ensure_independent_target() changes nothing of a file but its other links.
LEMMA Separated ==
  ASSUME file \in File,
         file' = [file EXCEPT !.shared = FALSE, !.safe = file.shared \/ file.safe]
  PROVE  /\ file' \in File /\ file' # None
         /\ file'.of = file.of /\ ~file'.shared
  BY DEF File

\* The rename puts a file of the import's own work at the target.
LEMMA Materialized ==
  ASSUME TypeOK, NEW t \in Imports, NEW safe \in BOOLEAN,
         file' = [of |-> work[t], shared |-> FALSE, safe |-> safe, placed |-> TRUE]
  PROVE  /\ file' \in File /\ file' # None
         /\ file'.of = work[t] /\ ~file'.shared
<1>1. work[t] \in Works BY DEF TypeOK
<1>2. file' \in File BY <1>1, Zenon DEF File
<1>3. file'.of = work[t] /\ ~file'.shared OBVIOUS
<1> QED BY <1>2, <1>3

\* No step of an import breaks the types.
LEMMA ImportTypes ==
  ASSUME TypeOK, Serial, NEW t \in Imports, Import(t)
  PROVE  TypeOK'
<1> USE DEF TypeOK, Fault, NoFault, Goto, Return, At, Steps, Results,
            importVars, diskVars, dbVars, sysVars
<1>1. CASE Begin(t) \/ Mine(t) \/ Claimed(t) \/ Claim(t)
  BY <1>1 DEF Begin, Mine, Claimed, Claim
<1>2. CASE Exists(t)
  <2>1. blind' \in BOOLEAN BY <1>2, Zenon DEF Exists, Sees, Misses
  <2> QED BY <1>2, <2>1 DEF Exists, Sees, Misses
<1>3. CASE SizeMatches(t) \/ SizeDiffers(t) BY <1>3 DEF SizeMatches, SizeDiffers
<1>4. CASE SkipSeparate(t) BY <1>4 DEF SkipSeparate, Independent, File
<1>5. CASE AdoptSeparate(t) BY <1>5 DEF AdoptSeparate, Independent, File
<1>6. CASE SeparateUnflushed(t)
  <2>1. file' \in File BY <1>6 DEF SeparateUnflushed, File
  <2> QED BY <1>6, <2>1 DEF SeparateUnflushed
<1>7. CASE Adopt(t) BY <1>7, RowRecorded DEF Adopt
<1>8. CASE Stage(t) BY <1>8 DEF Stage
<1>9. CASE Intend(t) BY <1>9 DEF Intend, Inserted, Intent
<1>10. CASE Write(t) BY <1>10 DEF Write
<1>11. CASE Rename(t) BY <1>11 DEF Rename, File
<1>12. CASE RollBack(t) BY <1>12 DEF RollBack, Deleted, Referenced
<1>13. CASE FsyncDir(t) BY <1>13 DEF FsyncDir
<1>14. CASE Mark(t)
  <2>1. intent \in Intent BY <1>14 DEF Mark, Serial, Owning
  <2>2. intent' \in Intent BY <1>14, <2>1 DEF Mark, Marked, Intent
  <2> QED BY <1>14, <2>2 DEF Mark
<1>15. CASE Item(t) BY <1>15, RowRecorded DEF Item
<1>16. CASE Clear(t) BY <1>16 DEF Clear, Deleted, Referenced
<1>17. CASE FailsAt(t) BY <1>17 DEF FailsAt
<1>18. CASE Abandon(t) BY <1>18 DEF Abandon
<1>19. CASE LateRename(t) BY <1>19, Materialized DEF LateRename
<1>20. CASE LateSeparate(t) BY <1>20 DEF LateSeparate, Independent, File
<1> QED BY <1>1, <1>2, <1>3, <1>4, <1>5, <1>6, <1>7, <1>8, <1>9, <1>10, <1>11, <1>12,
           <1>13, <1>14, <1>15, <1>16, <1>17, <1>18, <1>19, <1>20 DEF Import

-----------------------------------------------------------------------------
(* The parts of the inductive invariant *)

\* No step of an import disturbs who owns the path's intent, or lets two imports of
\* one work run at once.
LEMMA ImportSerial ==
  ASSUME TypeOK, Serial, NEW t \in Imports, Import(t)
  PROVE  Serial'
<1> USE DEF TypeOK, Serial, Owning, Goto, Return, At, Active, Fault, NoFault, importVars,
        diskVars, dbVars, sysVars
<1>1. CASE Begin(t) BY <1>1 DEF Begin
<1>2. CASE Exists(t) BY <1>2 DEF Exists, Sees, Misses
<1>3. CASE Mine(t) BY <1>3 DEF Mine
<1>4. CASE SkipSeparate(t) BY <1>4 DEF SkipSeparate, Independent
<1>5. CASE Claimed(t) BY <1>5 DEF Claimed, MayRecord
<1>6. CASE SizeMatches(t) BY <1>6 DEF SizeMatches
<1>7. CASE SizeDiffers(t) BY <1>7 DEF SizeDiffers
<1>8. CASE AdoptSeparate(t) BY <1>8 DEF AdoptSeparate, Independent
<1>9. CASE SeparateUnflushed(t) BY <1>9 DEF SeparateUnflushed
<1>10. CASE Adopt(t) BY <1>10 DEF Adopt, Recorded, MayRecord
<1>11. CASE Claim(t) BY <1>11 DEF Claim, MayRecord
<1>12. CASE Stage(t) BY <1>12 DEF Stage
<1>13. CASE Intend(t) BY <1>13 DEF Intend, Inserted, Intent
<1>14. CASE Write(t) BY <1>14 DEF Write
<1>15. CASE Rename(t) BY <1>15 DEF Rename
<1>16. CASE RollBack(t) BY <1>16 DEF RollBack, Deleted, Referenced
<1>17. CASE FsyncDir(t) BY <1>17 DEF FsyncDir
<1>18. CASE Mark(t) BY <1>18 DEF Mark, Marked, Referenced, Intent
<1>19. CASE Item(t) BY <1>19 DEF Item, Recorded, MayRecord
<1>20. CASE Clear(t) BY <1>20 DEF Clear, Deleted, Referenced
<1>21. CASE FailsAt(t) BY <1>21 DEF FailsAt
<1>22. CASE Abandon(t) BY <1>22 DEF Abandon
<1>23. CASE LateRename(t) BY <1>23 DEF LateRename
<1>24. CASE LateSeparate(t) BY <1>24 DEF LateSeparate, Independent
<1> QED BY <1>1, <1>2, <1>3, <1>4, <1>5, <1>6, <1>7, <1>8, <1>9, <1>10, <1>11, <1>12, <1>13,
        <1>14, <1>15, <1>16, <1>17, <1>18, <1>19, <1>20, <1>21, <1>22, <1>23, <1>24
        DEF Import

\* Recovery and the machine stop every import before they touch an intent.
LEMMA SystemSerial ==
  ASSUME TypeOK, Serial,
         Recovery \/ Crash \/ PowerLoss \/ Writeback \/ Checkpoint \/ UNCHANGED vars
  PROVE  Serial'
<1> USE DEF TypeOK, Serial, Owning, Active, Fault, NoFault, importVars, diskVars, dbVars,
        sysVars
<1>1. CASE Restart BY <1>1 DEF Restart
<1>2. CASE RecList BY <1>2 DEF RecList
<1>3. CASE RecDecide BY <1>3 DEF RecDecide, RolledBack, Finalizable, Sees, Misses
<1>4. CASE RecFinalize BY <1>4 DEF RecFinalize, MayRecord, Recorded
<1>5. CASE RecDrop BY <1>5 DEF RecDrop
<1>6. CASE RecFails BY <1>6 DEF RecFails
<1>7. CASE Sweep BY <1>7 DEF Sweep
<1>8. CASE Crash BY <1>8 DEF Crash, Stopped
<1>9. CASE PowerLoss BY <1>9 DEF PowerLoss, Stopped
<1>10. CASE Writeback BY <1>10 DEF Writeback
<1>11. CASE Checkpoint BY <1>11 DEF Checkpoint
<1>12. CASE UNCHANGED vars BY <1>12 DEF vars
<1> QED BY <1>1, <1>2, <1>3, <1>4, <1>5, <1>6, <1>7, <1>8, <1>9, <1>10, <1>11, <1>12 DEF
        Recovery

\* An import renames only what it has fsynced.
LEMMA ImportSynced ==
  ASSUME TypeOK, Serial, Synced, NEW t \in Imports, Import(t)
  PROVE  Synced'
<1> USE DEF TypeOK, Serial, Synced, File, Goto, Return, At, Active, Fault, NoFault,
        importVars, diskVars, dbVars, sysVars
<1>1. CASE Begin(t) BY <1>1 DEF Begin
<1>2. CASE Exists(t) BY <1>2 DEF Exists, Sees, Misses
<1>3. CASE Mine(t) BY <1>3 DEF Mine
<1>4. CASE SkipSeparate(t) BY <1>4 DEF SkipSeparate, Independent
<1>5. CASE Claimed(t) BY <1>5 DEF Claimed, MayRecord
<1>6. CASE SizeMatches(t) BY <1>6 DEF SizeMatches
<1>7. CASE SizeDiffers(t) BY <1>7 DEF SizeDiffers
<1>8. CASE AdoptSeparate(t) BY <1>8 DEF AdoptSeparate, Independent
<1>9. CASE SeparateUnflushed(t) BY <1>9 DEF SeparateUnflushed
<1>10. CASE Adopt(t) BY <1>10 DEF Adopt, Recorded, MayRecord
<1>11. CASE Claim(t) BY <1>11 DEF Claim, MayRecord
<1>12. CASE Stage(t) BY <1>12 DEF Stage
<1>13. CASE Intend(t) BY <1>13 DEF Intend, Inserted, Intent
<1>14. CASE Write(t) BY <1>14 DEF Write
<1>15. CASE Rename(t) BY <1>15 DEF Rename
<1>16. CASE RollBack(t) BY <1>16 DEF RollBack, Deleted, Referenced
<1>17. CASE FsyncDir(t) BY <1>17 DEF FsyncDir
<1>18. CASE Mark(t) BY <1>18 DEF Mark, Marked, Referenced, Intent
<1>19. CASE Item(t) BY <1>19 DEF Item, Recorded, MayRecord
<1>20. CASE Clear(t) BY <1>20 DEF Clear, Deleted, Referenced
<1>21. CASE FailsAt(t) BY <1>21 DEF FailsAt
<1>22. CASE Abandon(t) BY <1>22 DEF Abandon
<1>23. CASE LateRename(t) BY <1>23 DEF LateRename
<1>24. CASE LateSeparate(t) BY <1>24 DEF LateSeparate, Independent
<1> QED BY <1>1, <1>2, <1>3, <1>4, <1>5, <1>6, <1>7, <1>8, <1>9, <1>10, <1>11, <1>12, <1>13,
        <1>14, <1>15, <1>16, <1>17, <1>18, <1>19, <1>20, <1>21, <1>22, <1>23, <1>24
        DEF Import

\* Recovery and the machine bring no unsynced data to the target.
LEMMA SystemSynced ==
  ASSUME TypeOK, Serial, Synced,
         Recovery \/ Crash \/ PowerLoss \/ Writeback \/ Checkpoint \/ UNCHANGED vars
  PROVE  Synced'
<1> USE DEF TypeOK, Serial, Synced, File, Active, Fault, NoFault, importVars, diskVars,
        dbVars, sysVars
<1>1. CASE Restart BY <1>1 DEF Restart
<1>2. CASE RecList BY <1>2 DEF RecList
<1>3. CASE RecDecide BY <1>3 DEF RecDecide, RolledBack, Finalizable, Sees, Misses
<1>4. CASE RecFinalize BY <1>4 DEF RecFinalize, MayRecord, Recorded
<1>5. CASE RecDrop BY <1>5 DEF RecDrop
<1>6. CASE RecFails BY <1>6 DEF RecFails
<1>7. CASE Sweep BY <1>7 DEF Sweep
<1>8. CASE Crash BY <1>8 DEF Crash, Stopped
<1>9. CASE PowerLoss BY <1>9 DEF PowerLoss, Stopped
<1>10. CASE Writeback BY <1>10 DEF Writeback
<1>11. CASE Checkpoint BY <1>11 DEF Checkpoint
<1>12. CASE UNCHANGED vars BY <1>12 DEF vars
<1> QED BY <1>1, <1>2, <1>3, <1>4, <1>5, <1>6, <1>7, <1>8, <1>9, <1>10, <1>11, <1>12 DEF
        Recovery

\* An import records a copy only after a directory fsync.
LEMMA ImportFlushed ==
  ASSUME TypeOK, Serial, Settled, Flushed, NEW t \in Imports, Import(t)
  PROVE  Flushed'
<1> USE DEF TypeOK, Serial, Settled, Placed, Flushed, File, Row, Goto, Return, At, Active,
        Fault, NoFault, importVars, diskVars, dbVars, sysVars
<1>1. CASE Begin(t) BY <1>1 DEF Begin
<1>2. CASE Exists(t) BY <1>2 DEF Exists, Sees, Misses
<1>3. CASE Mine(t) BY <1>3 DEF Mine
<1>4. CASE SkipSeparate(t)
  <2>1. file' # None /\ file'.of = file.of /\ ~file'.shared
    BY <1>4, Separated DEF SkipSeparate, Independent
  <2> QED BY <1>4, <2>1 DEF SkipSeparate, Independent
<1>5. CASE Claimed(t) BY <1>5 DEF Claimed, MayRecord
<1>6. CASE SizeMatches(t) BY <1>6 DEF SizeMatches
<1>7. CASE SizeDiffers(t) BY <1>7 DEF SizeDiffers
<1>8. CASE AdoptSeparate(t)
  <2>1. file' # None /\ file'.of = file.of /\ ~file'.shared
    BY <1>8, Separated DEF AdoptSeparate, Independent
  <2> QED BY <1>8, <2>1 DEF AdoptSeparate, Independent
<1>9. CASE SeparateUnflushed(t)
  <2>1. file' # None /\ file'.of = file.of /\ ~file'.shared
    BY <1>9, Separated DEF SeparateUnflushed
  <2> QED BY <1>9, <2>1 DEF SeparateUnflushed
<1>10. CASE Adopt(t) BY <1>10 DEF Adopt, Recorded, MayRecord
<1>11. CASE Claim(t) BY <1>11 DEF Claim, MayRecord
<1>12. CASE Stage(t) BY <1>12 DEF Stage
<1>13. CASE Intend(t) BY <1>13 DEF Intend, Inserted, Intent
<1>14. CASE Write(t) BY <1>14 DEF Write
<1>15. CASE Rename(t)
  <2>1. file' # None /\ file'.of = work[t] /\ ~file'.shared BY <1>15, Materialized DEF Rename
  <2> QED BY <1>15, <2>1 DEF Rename
<1>16. CASE RollBack(t) BY <1>16 DEF RollBack, Deleted, Referenced
<1>17. CASE FsyncDir(t) BY <1>17 DEF FsyncDir
<1>18. CASE Mark(t) BY <1>18 DEF Mark, Marked, Referenced, Intent
<1>19. CASE Item(t) BY <1>19 DEF Item, Recorded, MayRecord
<1>20. CASE Clear(t) BY <1>20 DEF Clear, Deleted, Referenced
<1>21. CASE FailsAt(t) BY <1>21 DEF FailsAt
<1>22. CASE Abandon(t) BY <1>22 DEF Abandon
<1>23. CASE LateRename(t)
  <2>1. file' # None /\ file'.of = work[t] /\ ~file'.shared BY <1>23, Materialized DEF LateRename
  <2> QED BY <1>23, <2>1 DEF LateRename
<1>24. CASE LateSeparate(t)
  <2>1. file' # None /\ file'.of = file.of /\ ~file'.shared
    BY <1>24, Separated DEF LateSeparate, Independent
  <2> QED BY <1>24, <2>1 DEF LateSeparate, Independent
<1> QED BY <1>1, <1>2, <1>3, <1>4, <1>5, <1>6, <1>7, <1>8, <1>9, <1>10, <1>11, <1>12, <1>13,
        <1>14, <1>15, <1>16, <1>17, <1>18, <1>19, <1>20, <1>21, <1>22, <1>23, <1>24
        DEF Import

\* Recovery and the machine take no flushed file from a copy's row.
LEMMA SystemFlushed ==
  ASSUME TypeOK, Serial, Settled, Flushed,
         Recovery \/ Crash \/ PowerLoss \/ Writeback \/ Checkpoint \/ UNCHANGED vars
  PROVE  Flushed'
<1> USE DEF TypeOK, Serial, Settled, Placed, Flushed, File, Row, Active, Fault, NoFault,
        importVars, diskVars, dbVars, sysVars
<1>1. CASE Restart BY <1>1 DEF Restart
<1>2. CASE RecList BY <1>2 DEF RecList
<1>3. CASE RecDecide BY <1>3 DEF RecDecide, RolledBack, Finalizable, Sees, Misses
<1>4. CASE RecFinalize BY <1>4 DEF RecFinalize, MayRecord, Recorded
<1>5. CASE RecDrop BY <1>5 DEF RecDrop
<1>6. CASE RecFails BY <1>6 DEF RecFails
<1>7. CASE Sweep BY <1>7 DEF Sweep
<1>8. CASE Crash BY <1>8 DEF Crash, Stopped
<1>9. CASE PowerLoss BY <1>9 DEF PowerLoss, Stopped
<1>10. CASE Writeback BY <1>10 DEF Writeback
<1>11. CASE Checkpoint BY <1>11 DEF Checkpoint
<1>12. CASE UNCHANGED vars BY <1>12 DEF vars
<1> QED BY <1>1, <1>2, <1>3, <1>4, <1>5, <1>6, <1>7, <1>8, <1>9, <1>10, <1>11, <1>12 DEF
        Recovery

\* An import about to place a file finds none of its work at the target, or is stopped
\* by the intent of the one that placed it.
LEMMA ImportFresh ==
  ASSUME TypeOK, Serial, Fresh, NEW t \in Imports, Import(t)
  PROVE  Fresh'
<1> USE DEF TypeOK, Serial, Fresh, Orphaned, Owning, Placing, File, Row, Intent, Goto,
        Return, At, Active, Fault, NoFault, importVars, diskVars, dbVars, sysVars
<1>1. CASE Begin(t) BY <1>1 DEF Begin
<1>2. CASE Exists(t) BY <1>2 DEF Exists, Sees, Misses
<1>3. CASE Mine(t) BY <1>3 DEF Mine
<1>4. CASE SkipSeparate(t)
  <2>1. file' # None /\ file'.of = file.of /\ ~file'.shared
    BY <1>4, Separated DEF SkipSeparate, Independent
  <2> QED BY <1>4, <2>1 DEF SkipSeparate, Independent
<1>5. CASE Claimed(t) BY <1>5 DEF Claimed, MayRecord
<1>6. CASE SizeMatches(t) BY <1>6 DEF SizeMatches
<1>7. CASE SizeDiffers(t) BY <1>7 DEF SizeDiffers
<1>8. CASE AdoptSeparate(t)
  <2>1. file' # None /\ file'.of = file.of /\ ~file'.shared
    BY <1>8, Separated DEF AdoptSeparate, Independent
  <2> QED BY <1>8, <2>1 DEF AdoptSeparate, Independent
<1>9. CASE SeparateUnflushed(t)
  <2>1. file' # None /\ file'.of = file.of /\ ~file'.shared
    BY <1>9, Separated DEF SeparateUnflushed
  <2> QED BY <1>9, <2>1 DEF SeparateUnflushed
<1>10. CASE Adopt(t) BY <1>10 DEF Adopt, Recorded, MayRecord
<1>11. CASE Claim(t) BY <1>11 DEF Claim, MayRecord
<1>12. CASE Stage(t) BY <1>12 DEF Stage
<1>13. CASE Intend(t) BY <1>13 DEF Intend, Inserted, Intent
<1>14. CASE Write(t) BY <1>14 DEF Write
<1>15. CASE Rename(t)
  <2>1. file' # None /\ file'.of = work[t] /\ ~file'.shared BY <1>15, Materialized DEF Rename
  <2> QED BY <1>15, <2>1 DEF Rename
<1>16. CASE RollBack(t) BY <1>16 DEF RollBack, Deleted, Referenced
<1>17. CASE FsyncDir(t) BY <1>17 DEF FsyncDir
<1>18. CASE Mark(t) BY <1>18 DEF Mark, Marked, Referenced, Intent
<1>19. CASE Item(t)
  <2>1. CASE MayRecord(work[t]) BY <1>19, <2>1, RowRecorded DEF Item, MayRecord, Recorded
  <2>2. CASE ~MayRecord(work[t]) BY <1>19, <2>2 DEF Item
  <2> QED BY <2>1, <2>2
<1>20. CASE Clear(t) BY <1>20 DEF Clear, Deleted, Referenced
<1>21. CASE FailsAt(t) BY <1>21 DEF FailsAt
<1>22. CASE Abandon(t) BY <1>22 DEF Abandon
<1>23. CASE LateRename(t)
  <2>1. file' # None /\ file'.of = work[t] /\ ~file'.shared BY <1>23, Materialized DEF LateRename
  <2> QED BY <1>23, <2>1 DEF LateRename
<1>24. CASE LateSeparate(t)
  <2>1. file' # None /\ file'.of = file.of /\ ~file'.shared
    BY <1>24, Separated DEF LateSeparate, Independent
  <2> QED BY <1>24, <2>1 DEF LateSeparate, Independent
<1> QED BY <1>1, <1>2, <1>3, <1>4, <1>5, <1>6, <1>7, <1>8, <1>9, <1>10, <1>11, <1>12, <1>13,
        <1>14, <1>15, <1>16, <1>17, <1>18, <1>19, <1>20, <1>21, <1>22, <1>23, <1>24
        DEF Import

\* No import is under way when recovery or the machine acts, or the target stays.
LEMMA SystemFresh ==
  ASSUME TypeOK, Serial, Fresh,
         Recovery \/ Crash \/ PowerLoss \/ Writeback \/ Checkpoint \/ UNCHANGED vars
  PROVE  Fresh'
<1> USE DEF TypeOK, Serial, Fresh, Orphaned, Owning, Placing, File, Row, Intent, Active,
        Fault, NoFault, importVars, diskVars, dbVars, sysVars
<1>1. CASE Restart BY <1>1 DEF Restart
<1>2. CASE RecList BY <1>2 DEF RecList
<1>3. CASE RecDecide BY <1>3 DEF RecDecide, RolledBack, Finalizable, Sees, Misses
<1>4. CASE RecFinalize BY <1>4 DEF RecFinalize, MayRecord, Recorded
<1>5. CASE RecDrop BY <1>5 DEF RecDrop
<1>6. CASE RecFails BY <1>6 DEF RecFails
<1>7. CASE Sweep BY <1>7 DEF Sweep
<1>8. CASE Crash BY <1>8 DEF Crash, Stopped
<1>9. CASE PowerLoss BY <1>9 DEF PowerLoss, Stopped
<1>10. CASE Writeback BY <1>10 DEF Writeback
<1>11. CASE Checkpoint BY <1>11 DEF Checkpoint
<1>12. CASE UNCHANGED vars BY <1>12 DEF vars
<1> QED BY <1>1, <1>2, <1>3, <1>4, <1>5, <1>6, <1>7, <1>8, <1>9, <1>10, <1>11, <1>12 DEF
        Recovery

\* An import keeps what it has placed until it is recorded.
LEMMA ImportSettled ==
  ASSUME TypeOK, Serial, Settled, NEW t \in Imports, Import(t)
  PROVE  Settled'
<1> USE DEF TypeOK, Serial, Settled, Owning, Placing, Placed, File, Row, Intent, Goto,
        Return, At, Active, Fault, NoFault, importVars, diskVars, dbVars, sysVars
<1>1. CASE Begin(t) BY <1>1 DEF Begin
<1>2. CASE Exists(t) BY <1>2 DEF Exists, Sees, Misses
<1>3. CASE Mine(t) BY <1>3 DEF Mine
<1>4. CASE SkipSeparate(t)
  <2>1. file' # None /\ file'.of = file.of /\ ~file'.shared
    BY <1>4, Separated DEF SkipSeparate, Independent
  <2> QED BY <1>4, <2>1 DEF SkipSeparate, Independent
<1>5. CASE Claimed(t) BY <1>5 DEF Claimed, MayRecord
<1>6. CASE SizeMatches(t) BY <1>6 DEF SizeMatches
<1>7. CASE SizeDiffers(t) BY <1>7 DEF SizeDiffers
<1>8. CASE AdoptSeparate(t)
  <2>1. file' # None /\ file'.of = file.of /\ ~file'.shared
    BY <1>8, Separated DEF AdoptSeparate, Independent
  <2> QED BY <1>8, <2>1 DEF AdoptSeparate, Independent
<1>9. CASE SeparateUnflushed(t)
  <2>1. file' # None /\ file'.of = file.of /\ ~file'.shared
    BY <1>9, Separated DEF SeparateUnflushed
  <2> QED BY <1>9, <2>1 DEF SeparateUnflushed
<1>10. CASE Adopt(t) BY <1>10 DEF Adopt, Recorded, MayRecord
<1>11. CASE Claim(t) BY <1>11 DEF Claim, MayRecord
<1>12. CASE Stage(t) BY <1>12 DEF Stage
<1>13. CASE Intend(t) BY <1>13 DEF Intend, Inserted, Intent
<1>14. CASE Write(t) BY <1>14 DEF Write
<1>15. CASE Rename(t)
  <2>1. file' # None /\ file'.of = work[t] /\ ~file'.shared BY <1>15, Materialized DEF Rename
  <2> QED BY <1>15, <2>1 DEF Rename
<1>16. CASE RollBack(t) BY <1>16 DEF RollBack, Deleted, Referenced
<1>17. CASE FsyncDir(t) BY <1>17 DEF FsyncDir
<1>18. CASE Mark(t) BY <1>18 DEF Mark, Marked, Referenced, Intent
<1>19. CASE Item(t)
  <2>1. CASE MayRecord(work[t]) BY <1>19, <2>1, RowRecorded DEF Item, MayRecord, Recorded
  <2>2. CASE ~MayRecord(work[t]) BY <1>19, <2>2 DEF Item
  <2> QED BY <2>1, <2>2
<1>20. CASE Clear(t) BY <1>20 DEF Clear, Deleted, Referenced
<1>21. CASE FailsAt(t) BY <1>21 DEF FailsAt
<1>22. CASE Abandon(t) BY <1>22 DEF Abandon
<1>23. CASE LateRename(t)
  <2>1. file' # None /\ file'.of = work[t] /\ ~file'.shared BY <1>23, Materialized DEF LateRename
  <2> QED BY <1>23, <2>1 DEF LateRename
<1>24. CASE LateSeparate(t)
  <2>1. file' # None /\ file'.of = file.of /\ ~file'.shared
    BY <1>24, Separated DEF LateSeparate, Independent
  <2> QED BY <1>24, <2>1 DEF LateSeparate, Independent
<1> QED BY <1>1, <1>2, <1>3, <1>4, <1>5, <1>6, <1>7, <1>8, <1>9, <1>10, <1>11, <1>12, <1>13,
        <1>14, <1>15, <1>16, <1>17, <1>18, <1>19, <1>20, <1>21, <1>22, <1>23, <1>24
        DEF Import

\* Recovery drops an intent only once its file is recorded or absent.
LEMMA SystemSettled ==
  ASSUME TypeOK, Serial, Settled,
         Recovery \/ Crash \/ PowerLoss \/ Writeback \/ Checkpoint \/ UNCHANGED vars
  PROVE  Settled'
<1> USE DEF TypeOK, Serial, Settled, Owning, Placing, Placed, File, Row, Intent, Active,
        Fault, NoFault, importVars, diskVars, dbVars, sysVars
<1>1. CASE Restart BY <1>1 DEF Restart
<1>2. CASE RecList BY <1>2 DEF RecList
<1>3. CASE RecDecide BY <1>3 DEF RecDecide, RolledBack, Finalizable, Sees, Misses
<1>4. CASE RecFinalize BY <1>4 DEF RecFinalize, MayRecord, Recorded
<1>5. CASE RecDrop BY <1>5 DEF RecDrop
<1>6. CASE RecFails BY <1>6 DEF RecFails
<1>7. CASE Sweep BY <1>7 DEF Sweep
<1>8. CASE Crash BY <1>8 DEF Crash, Stopped
<1>9. CASE PowerLoss BY <1>9 DEF PowerLoss, Stopped
<1>10. CASE Writeback BY <1>10 DEF Writeback
<1>11. CASE Checkpoint BY <1>11 DEF Checkpoint
<1>12. CASE UNCHANGED vars BY <1>12 DEF vars
<1> QED BY <1>1, <1>2, <1>3, <1>4, <1>5, <1>6, <1>7, <1>8, <1>9, <1>10, <1>11, <1>12 DEF
        Recovery

\* An import makes its target independent before it records it.
LEMMA ImportAlone ==
  ASSUME TypeOK, Serial, Settled, Alone, NEW t \in Imports, Import(t)
  PROVE  Alone'
<1> USE DEF TypeOK, Serial, Settled, Alone, Owning, Placing, Placed, File, Goto, Return, At,
        Active, Fault, NoFault, importVars, diskVars, dbVars, sysVars
<1>1. CASE Begin(t) BY <1>1 DEF Begin
<1>2. CASE Exists(t) BY <1>2 DEF Exists, Sees, Misses
<1>3. CASE Mine(t) BY <1>3 DEF Mine
<1>4. CASE SkipSeparate(t)
  <2>1. file' # None /\ file'.of = file.of /\ ~file'.shared
    BY <1>4, Separated DEF SkipSeparate, Independent
  <2> QED BY <1>4, <2>1 DEF SkipSeparate, Independent
<1>5. CASE Claimed(t) BY <1>5 DEF Claimed, MayRecord
<1>6. CASE SizeMatches(t) BY <1>6 DEF SizeMatches
<1>7. CASE SizeDiffers(t) BY <1>7 DEF SizeDiffers
<1>8. CASE AdoptSeparate(t)
  <2>1. file' # None /\ file'.of = file.of /\ ~file'.shared
    BY <1>8, Separated DEF AdoptSeparate, Independent
  <2> QED BY <1>8, <2>1 DEF AdoptSeparate, Independent
<1>9. CASE SeparateUnflushed(t)
  <2>1. file' # None /\ file'.of = file.of /\ ~file'.shared
    BY <1>9, Separated DEF SeparateUnflushed
  <2> QED BY <1>9, <2>1 DEF SeparateUnflushed
<1>10. CASE Adopt(t) BY <1>10 DEF Adopt, Recorded, MayRecord
<1>11. CASE Claim(t) BY <1>11 DEF Claim, MayRecord
<1>12. CASE Stage(t) BY <1>12 DEF Stage
<1>13. CASE Intend(t) BY <1>13 DEF Intend, Inserted, Intent
<1>14. CASE Write(t) BY <1>14 DEF Write
<1>15. CASE Rename(t)
  <2>1. file' # None /\ file'.of = work[t] /\ ~file'.shared BY <1>15, Materialized DEF Rename
  <2> QED BY <1>15, <2>1 DEF Rename
<1>16. CASE RollBack(t) BY <1>16 DEF RollBack, Deleted, Referenced
<1>17. CASE FsyncDir(t) BY <1>17 DEF FsyncDir
<1>18. CASE Mark(t) BY <1>18 DEF Mark, Marked, Referenced, Intent
<1>19. CASE Item(t) BY <1>19 DEF Item, Recorded, MayRecord
<1>20. CASE Clear(t) BY <1>20 DEF Clear, Deleted, Referenced
<1>21. CASE FailsAt(t) BY <1>21 DEF FailsAt
<1>22. CASE Abandon(t) BY <1>22 DEF Abandon
<1>23. CASE LateRename(t)
  <2>1. file' # None /\ file'.of = work[t] /\ ~file'.shared BY <1>23, Materialized DEF LateRename
  <2> QED BY <1>23, <2>1 DEF LateRename
<1>24. CASE LateSeparate(t)
  <2>1. file' # None /\ file'.of = file.of /\ ~file'.shared
    BY <1>24, Separated DEF LateSeparate, Independent
  <2> QED BY <1>24, <2>1 DEF LateSeparate, Independent
<1> QED BY <1>1, <1>2, <1>3, <1>4, <1>5, <1>6, <1>7, <1>8, <1>9, <1>10, <1>11, <1>12, <1>13,
        <1>14, <1>15, <1>16, <1>17, <1>18, <1>19, <1>20, <1>21, <1>22, <1>23, <1>24
        DEF Import

\* Recovery and the machine link the target nowhere else.
LEMMA SystemAlone ==
  ASSUME TypeOK, Serial, Settled, Alone,
         Recovery \/ Crash \/ PowerLoss \/ Writeback \/ Checkpoint \/ UNCHANGED vars
  PROVE  Alone'
<1> USE DEF TypeOK, Serial, Settled, Alone, Owning, Placing, Placed, File, Active, Fault,
        NoFault, importVars, diskVars, dbVars, sysVars
<1>1. CASE Restart BY <1>1 DEF Restart
<1>2. CASE RecList BY <1>2 DEF RecList
<1>3. CASE RecDecide BY <1>3 DEF RecDecide, RolledBack, Finalizable, Sees, Misses
<1>4. CASE RecFinalize BY <1>4 DEF RecFinalize, MayRecord, Recorded
<1>5. CASE RecDrop BY <1>5 DEF RecDrop
<1>6. CASE RecFails BY <1>6 DEF RecFails
<1>7. CASE Sweep BY <1>7 DEF Sweep
<1>8. CASE Crash BY <1>8 DEF Crash, Stopped
<1>9. CASE PowerLoss BY <1>9 DEF PowerLoss, Stopped
<1>10. CASE Writeback BY <1>10 DEF Writeback
<1>11. CASE Checkpoint BY <1>11 DEF Checkpoint
<1>12. CASE UNCHANGED vars BY <1>12 DEF vars
<1> QED BY <1>1, <1>2, <1>3, <1>4, <1>5, <1>6, <1>7, <1>8, <1>9, <1>10, <1>11, <1>12 DEF
        Recovery

\* Imports wait for recovery to end.
LEMMA ImportUndecided ==
  ASSUME TypeOK, Serial, Settled, Undecided, NEW t \in Imports, Import(t)
  PROVE  Undecided'
<1> USE DEF TypeOK, Serial, Settled, Undecided, Anomalous, File, Row, Intent, Goto, Return,
        At, Active, Fault, NoFault, importVars, diskVars, dbVars, sysVars
<1>1. CASE Begin(t) BY <1>1 DEF Begin
<1>2. CASE Exists(t) BY <1>2 DEF Exists, Sees, Misses
<1>3. CASE Mine(t) BY <1>3 DEF Mine
<1>4. CASE SkipSeparate(t) BY <1>4 DEF SkipSeparate, Independent
<1>5. CASE Claimed(t) BY <1>5 DEF Claimed, MayRecord
<1>6. CASE SizeMatches(t) BY <1>6 DEF SizeMatches
<1>7. CASE SizeDiffers(t) BY <1>7 DEF SizeDiffers
<1>8. CASE AdoptSeparate(t) BY <1>8 DEF AdoptSeparate, Independent
<1>9. CASE SeparateUnflushed(t) BY <1>9 DEF SeparateUnflushed
<1>10. CASE Adopt(t) BY <1>10 DEF Adopt, Recorded, MayRecord
<1>11. CASE Claim(t) BY <1>11 DEF Claim, MayRecord
<1>12. CASE Stage(t) BY <1>12 DEF Stage
<1>13. CASE Intend(t) BY <1>13 DEF Intend, Inserted, Intent
<1>14. CASE Write(t) BY <1>14 DEF Write
<1>15. CASE Rename(t) BY <1>15 DEF Rename
<1>16. CASE RollBack(t) BY <1>16 DEF RollBack, Deleted, Referenced
<1>17. CASE FsyncDir(t) BY <1>17 DEF FsyncDir
<1>18. CASE Mark(t) BY <1>18 DEF Mark, Marked, Referenced, Intent
<1>19. CASE Item(t) BY <1>19 DEF Item, Recorded, MayRecord
<1>20. CASE Clear(t) BY <1>20 DEF Clear, Deleted, Referenced
<1>21. CASE FailsAt(t) BY <1>21 DEF FailsAt
<1>22. CASE Abandon(t) BY <1>22 DEF Abandon
<1>23. CASE LateRename(t) BY <1>23 DEF LateRename
<1>24. CASE LateSeparate(t) BY <1>24 DEF LateSeparate, Independent
<1> QED BY <1>1, <1>2, <1>3, <1>4, <1>5, <1>6, <1>7, <1>8, <1>9, <1>10, <1>11, <1>12, <1>13,
        <1>14, <1>15, <1>16, <1>17, <1>18, <1>19, <1>20, <1>21, <1>22, <1>23, <1>24
        DEF Import

\* A pass without failures ends with the intent gone, or kept for a reason.
LEMMA SystemUndecided ==
  ASSUME TypeOK, Serial, Settled, Undecided,
         Recovery \/ Crash \/ PowerLoss \/ Writeback \/ Checkpoint \/ UNCHANGED vars
  PROVE  Undecided'
<1> USE DEF TypeOK, Serial, Settled, Undecided, Anomalous, File, Row, Intent, Active, Fault,
        NoFault, importVars, diskVars, dbVars, sysVars
<1>1. CASE Restart BY <1>1 DEF Restart
<1>2. CASE RecList BY <1>2 DEF RecList
<1>3. CASE RecDecide
  <2> SUFFICES ASSUME rpc' = "sweep", clean', intent' # None
               PROVE  Anomalous'
    BY Zenon DEF Undecided
  <2>1. faults' = faults BY <1>3 DEF RecDecide
  <2>2. ~Fault BY <2>1
  <2>3. \/ file = None /\ intent.state = "renamed"
        \/ file # None /\ Size[file.of] # intent.size
    BY <1>3, <2>2 DEF RecDecide, Sees, Misses
  <2> QED BY <1>3, <2>3 DEF RecDecide
<1>4. CASE RecFinalize BY <1>4 DEF RecFinalize, MayRecord, Recorded
<1>5. CASE RecDrop BY <1>5 DEF RecDrop
<1>6. CASE RecFails BY <1>6 DEF RecFails
<1>7. CASE Sweep BY <1>7 DEF Sweep
<1>8. CASE Crash BY <1>8 DEF Crash, Stopped
<1>9. CASE PowerLoss BY <1>9 DEF PowerLoss, Stopped
<1>10. CASE Writeback BY <1>10 DEF Writeback
<1>11. CASE Checkpoint BY <1>11 DEF Checkpoint
<1>12. CASE UNCHANGED vars BY <1>12 DEF vars
<1> QED BY <1>1, <1>2, <1>3, <1>4, <1>5, <1>6, <1>7, <1>8, <1>9, <1>10, <1>11, <1>12 DEF
        Recovery

\* An import leaves what it has placed to its row or its intent.
LEMMA ImportAccounted ==
  ASSUME TypeOK, Serial, Fresh, Settled, Accounted, NEW t \in Imports, Import(t)
  PROVE  Accounted'
<1> USE DEF TypeOK, Serial, Fresh, Settled, Accounted, Owning, Placing, Placed, File, Row, Intent,
        Goto, Return, At, Active, Fault, NoFault, importVars, diskVars, dbVars, sysVars
<1>1. CASE Begin(t) BY <1>1 DEF Begin
<1>2. CASE Exists(t) BY <1>2 DEF Exists, Sees, Misses
<1>3. CASE Mine(t) BY <1>3 DEF Mine
<1>4. CASE SkipSeparate(t) BY <1>4 DEF SkipSeparate, Independent
<1>5. CASE Claimed(t) BY <1>5 DEF Claimed, MayRecord
<1>6. CASE SizeMatches(t) BY <1>6 DEF SizeMatches
<1>7. CASE SizeDiffers(t) BY <1>7 DEF SizeDiffers
<1>8. CASE AdoptSeparate(t) BY <1>8 DEF AdoptSeparate, Independent
<1>9. CASE SeparateUnflushed(t) BY <1>9 DEF SeparateUnflushed
<1>10. CASE Adopt(t) BY <1>10 DEF Adopt, Recorded, MayRecord
<1>11. CASE Claim(t) BY <1>11 DEF Claim, MayRecord
<1>12. CASE Stage(t) BY <1>12 DEF Stage
<1>13. CASE Intend(t) BY <1>13 DEF Intend, Inserted, Intent
<1>14. CASE Write(t) BY <1>14 DEF Write
<1>15. CASE Rename(t) BY <1>15 DEF Rename
<1>16. CASE RollBack(t) BY <1>16 DEF RollBack, Deleted, Referenced
<1>17. CASE FsyncDir(t) BY <1>17 DEF FsyncDir
<1>18. CASE Mark(t) BY <1>18 DEF Mark, Marked, Referenced, Intent
<1>19. CASE Item(t) BY <1>19 DEF Item, Recorded, MayRecord
<1>20. CASE Clear(t) BY <1>20 DEF Clear, Deleted, Referenced
<1>21. CASE FailsAt(t) BY <1>21 DEF FailsAt
<1>22. CASE Abandon(t) BY <1>22 DEF Abandon
<1>23. CASE LateRename(t)
  <2>1. file' # None /\ file'.of = work[t] /\ ~file'.shared BY <1>23, Materialized DEF LateRename
  <2> QED BY <1>23, <2>1 DEF LateRename
<1>24. CASE LateSeparate(t) BY <1>24 DEF LateSeparate, Independent
<1> QED BY <1>1, <1>2, <1>3, <1>4, <1>5, <1>6, <1>7, <1>8, <1>9, <1>10, <1>11, <1>12, <1>13,
        <1>14, <1>15, <1>16, <1>17, <1>18, <1>19, <1>20, <1>21, <1>22, <1>23, <1>24
        DEF Import

\* Recovery deletes an intent only when a row or an absent file makes it idle.
LEMMA SystemAccounted ==
  ASSUME TypeOK, Serial, Fresh, Settled, Accounted,
         Recovery \/ Crash \/ PowerLoss \/ Writeback \/ Checkpoint \/ UNCHANGED vars
  PROVE  Accounted'
<1> USE DEF TypeOK, Serial, Fresh, Settled, Accounted, Owning, Placing, Placed, File, Row, Intent,
        Active, Fault, NoFault, importVars, diskVars, dbVars, sysVars
<1>1. CASE Restart BY <1>1 DEF Restart
<1>2. CASE RecList BY <1>2 DEF RecList
<1>3. CASE RecDecide BY <1>3 DEF RecDecide, RolledBack, Finalizable, Sees, Misses
<1>4. CASE RecFinalize BY <1>4 DEF RecFinalize, MayRecord, Recorded
<1>5. CASE RecDrop BY <1>5 DEF RecDrop
<1>6. CASE RecFails BY <1>6 DEF RecFails
<1>7. CASE Sweep BY <1>7 DEF Sweep
<1>8. CASE Crash BY <1>8 DEF Crash, Stopped
<1>9. CASE PowerLoss BY <1>9 DEF PowerLoss, Stopped
<1>10. CASE Writeback BY <1>10 DEF Writeback
<1>11. CASE Checkpoint BY <1>11 DEF Checkpoint
<1>12. CASE UNCHANGED vars BY <1>12 DEF vars
<1> QED BY <1>1, <1>2, <1>3, <1>4, <1>5, <1>6, <1>7, <1>8, <1>9, <1>10, <1>11, <1>12 DEF
        Recovery

-----------------------------------------------------------------------------
(* The theorems *)

IInv ==
  /\ TypeOK /\ Serial /\ Synced /\ Flushed /\ Fresh /\ Settled /\ Alone /\ Undecided
  /\ Accounted

\* The initial states satisfy the invariant.
LEMMA InitInv == Init => IInv
<1> SUFFICES ASSUME Init PROVE IInv
  OBVIOUS
<1>1. PICK w \in Works :
        file \in {None, [of |-> w, shared |-> TRUE, safe |-> TRUE, placed |-> FALSE]}
  BY DEF Init
<1> DEFINE orphan == [of |-> w, shared |-> TRUE, safe |-> TRUE, placed |-> FALSE]
<1>2. file \in File \cup {None}
  <2>1. orphan \in File BY DEF File
  <2> QED BY <1>1, <2>1
<1>3. file # None => file.safe /\ ~file.placed BY <1>1
<1>4. row \in Row \cup {None}
  BY <1>2 DEF Init, Row, File
<1>5. TypeOK
  BY <1>2, <1>4 DEF Init, TypeOK, Steps, Results, RecSteps
<1>6. Serial /\ Synced BY <1>3 DEF Init, Serial, Synced, Active, Owning
<1>7. Flushed BY <1>2 DEF Init, Flushed
<1>8. Fresh /\ Settled /\ Alone /\ Undecided
  BY DEF Init, Fresh, Settled, Alone, Undecided, Placing, Placed
<1>9. Accounted BY <1>3 DEF Accounted
<1> QED BY <1>5, <1>6, <1>7, <1>8, <1>9 DEF IInv

\* Every step keeps the invariant.
LEMMA NextInv == IInv /\ [Next]_vars => IInv'
<1> SUFFICES ASSUME IInv, [Next]_vars PROVE IInv'
  OBVIOUS
<1>1. ASSUME NEW t \in Imports, Import(t) PROVE IInv'
  BY <1>1, ImportTypes, ImportSerial, ImportSynced, ImportFlushed, ImportFresh, ImportSettled,
     ImportAlone, ImportUndecided, ImportAccounted DEF IInv
<1>2. ASSUME Recovery \/ Crash \/ PowerLoss \/ Writeback \/ Checkpoint \/ UNCHANGED vars
      PROVE  IInv'
  <2>1. rpc \in {"reconcile", "finalize", "drop"} => intent # None BY DEF IInv, Settled
  <2> QED
    BY <1>2, <2>1, SystemTypes, SystemSerial, SystemSynced, SystemFlushed, SystemFresh,
       SystemSettled, SystemAlone, SystemUndecided, SystemAccounted DEF IInv
<1> QED BY <1>1, <1>2 DEF Next

\* The invariant holds in every reachable state.
LEMMA Invariant == Spec => []IInv
  BY InitInv, NextInv, PTL DEF Spec

\* import_workflow.rs: the state of imports, recovery and both tables is well typed.
THEOREM TypeCorrect == Spec => []TypeOK
<1>1. IInv => TypeOK BY DEF IInv
<1> QED BY <1>1, Invariant, PTL

\* import_workflow.rs staging: a target that survives a power loss is never torn.
THEOREM TargetsAreWhole == Spec => []NeverTorn
<1>1. IInv => NeverTorn BY DEF IInv, Synced, NeverTorn
<1> QED BY <1>1, Invariant, PTL

\* 074_import_intents.sql: a crash, a failed call or a dropped request leaves what an
\* import has placed to its work's row or to its work's intent.
THEOREM FilesAreAccounted == Spec => []Accounted
<1>1. IInv => Accounted BY DEF IInv
<1> QED BY <1>1, Invariant, PTL

\* import_workflow.rs, the directory fsyncs: the row of a copying import has a file
\* that survives a power loss.
THEOREM CopiedRowsAreDurable == Spec => []CopyRowDurable
<1>1. IInv => CopyRowDurable BY DEF IInv, Flushed, CopyRowDurable
<1> QED BY <1>1, Invariant, PTL

\* import_workflow.rs ImportFileOutcome: a copying import that reports success has a
\* row of its own work and a target that shares its bytes with nobody.
THEOREM SuccessOwnsItsFile == Spec => SuccessIsOwned
<1> DEFINE Owned == \A t \in Imports :
        res[t] = "none" /\ res'[t] \in {"imported", "adopted", "skipped"} 
        /\ mode[t] = "Copy" =>
          /\ row' # None /\ row'.work = work[t]
          /\ file' # None /\ ~file'.shared
<1>1. IInv /\ [Next]_vars => [Owned]_vars
  <2> SUFFICES ASSUME IInv, Next PROVE Owned
    OBVIOUS
  <2> USE DEF IInv, TypeOK
  <2>1. ASSUME NEW t \in Imports, Import(t) PROVE Owned
    <3> USE DEF Return, Goto, At, Results
    <3>1. CASE SkipSeparate(t)
      <4>1. file' # None /\ ~file'.shared BY <3>1, Separated DEF SkipSeparate, Independent
      <4> QED BY <3>1, <4>1 DEF SkipSeparate, Settled, dbVars
    <3>2. CASE Adopt(t)
      BY <3>2 DEF Adopt, Alone, Recorded, MayRecord, diskVars, Row
    <3>3. CASE Clear(t)
      BY <3>3 DEF Clear, Alone, Settled, Placed, diskVars
    <3>4. CASE Mine(t) BY <3>4 DEF Mine
    <3>5. CASE Begin(t) \/ Exists(t) \/ Claimed(t) \/ SizeMatches(t) \/ SizeDiffers(t)
               \/ AdoptSeparate(t) \/ SeparateUnflushed(t) \/ Claim(t) \/ Stage(t)
      BY <3>5 DEF Begin, Exists, Claimed, SizeMatches, SizeDiffers, AdoptSeparate,
                  SeparateUnflushed, Claim, Stage
    <3>6. CASE Intend(t) \/ Write(t) \/ Rename(t) \/ RollBack(t) \/ FsyncDir(t) \/ Mark(t)
               \/ Item(t) \/ FailsAt(t) \/ Abandon(t) \/ LateRename(t) \/ LateSeparate(t)
      BY <3>6 DEF Intend, Inserted, Write, Rename, RollBack, FsyncDir, Mark, Item, FailsAt, Abandon,
                  LateRename, LateSeparate
    <3> QED BY <2>1, <3>1, <3>2, <3>3, <3>4, <3>5, <3>6 DEF Import
  <2>2. ASSUME Recovery \/ Writeback \/ Checkpoint PROVE Owned
    BY <2>2 DEF Recovery, Restart, RecList, RecDecide, RecFinalize, RecDrop, RecFails,
                Sweep, Writeback, Checkpoint, importVars
  <2>3. ASSUME Crash \/ PowerLoss PROVE Owned
    BY <2>3 DEF Crash, PowerLoss, Stopped
  <2> QED BY <2>1, <2>2, <2>3 DEF Next
<1> QED BY <1>1, Invariant, PTL DEF Spec, SuccessIsOwned

\* recover_import_intents(): a startup pass without failures leaves an intent only
\* when it is anomalous or another work has the path's row.
THEOREM RecoverySettlesIntents == Spec => RecoverySettles
<1> DEFINE Left == rpc = "sweep" /\ rpc' = "up" /\ clean /\ intent # None =>
                     Anomalous \/ (row # None /\ row.work # intent.work)
<1>1. IInv => Left BY DEF IInv, Undecided
<1> QED BY <1>1, Invariant, PTL DEF Spec, RecoverySettles
=============================================================================
