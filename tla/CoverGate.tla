------------------------------ MODULE CoverGate ------------------------------
(***************************************************************************)
(* The cover save gate (livrarr-metadata, cover_write_gate.rs) and its     *)
(* startup recovery (cover_write_gate_recovery.rs), seen at one cover slot *)
(* of one work: the works row, the served file and the two candidate files *)
(* (.candidate.tmp, .candidate.meta.json).                                 *)
(*                                                                         *)
(* Offers hold the slot lock from the read of the row to the last delete;  *)
(* so does recovery.  Three writers of the same state do not take it: the  *)
(* add path's first download (finish_created_work_fast), the startup       *)
(* provenance backfill and the deletion of the work; and the blocking call *)
(* of a request that was dropped, which outlives the request's lock.  A    *)
(* crash loses the tasks and the lock; files and row stay as they are.     *)
(***************************************************************************)
EXTENDS CoverRank

CONSTANTS
  Tasks,        \* the callers that offer a cover
  Covers,       \* the images on offer
  HostSource,   \* url -> the provider its host belongs to, or "none"
  Audio, Foreign,  \* the slot's kind, the work's language: they choose the rank list
  NoTask, Recovery,  \* holders of the lock that are no task
  NoFile, Torn, Gone, Idle,  \* no file; a file cut short; a deleted row; no offer
  MaxCrashes, MaxFaults  \* bounds: process deaths, failed calls

RankModel == for_media(Audio, Foreign)

\* img is what the bytes show; a row keeps everything but that.
Cover == [img : {c.img : c \in Covers}, url : DOMAIN HostSource \cup {"none"},
          source : Provider \cup OtherSource, w : Nat, h : Nat]
Row == [url : DOMAIN HostSource \cup {"none"}, source : Provider \cup OtherSource, w : Nat, h : Nat,
        manual : BOOLEAN]
RowOf(c, manual) == [url |-> c.url, source |-> c.source, w |-> c.w, h |-> c.h,
                     manual |-> manual]

PC == {"fetch", "tmp2", "meta", "meta2", "decide", "commit", "rename",
       "cleanup", "discard", "discard2"}
Offers == [pc : PC, cand : Covers, manual : BOOLEAN, seen : Row]

\* CandidateMeta.source is not optional: a cover on offer names its source.
ASSUME CoverAssumption ==
  /\ Covers # {}
  /\ \A c \in Covers : c \in Cover /\ c.source # "none"
  /\ \A c \in Covers : c.url \in DOMAIN HostSource
  /\ HostSource \in [DOMAIN HostSource -> Provider \cup {"none"}]
  /\ Audio \in BOOLEAN /\ Foreign \in BOOLEAN
  /\ MaxCrashes \in Nat /\ MaxFaults \in Nat
ASSUME SentinelAssumption ==
  /\ Tasks \cap {NoTask, Recovery} = {} /\ NoTask # Recovery
  /\ NoFile # Torn /\ {NoFile, Torn} \cap Cover = {} /\ {NoFile, Torn} \cap Row = {}
  /\ Gone \notin Row /\ Idle \notin Offers

VARIABLES
  row,      \* the cover columns of the works row, or Gone
  final,    \* the served file
  tmp,      \* {id}.candidate.tmp
  meta,     \* {id}.candidate.meta.json
  lock,     \* holder of the slot lock
  offer,    \* each task's offer: its next step, its image, whether it is the
            \* user's own choice, and the row as read under the lock
  stray,    \* the offer of a dropped request whose last call still runs, or Idle
  boot,     \* the startup passes: a step of recovery, "backfill", "stamp", "up"
  first,    \* the cover the add path is to download, and whether the user chose it
  add,      \* that download: "no", "file", "row"
  drop,     \* the deletion of the work: "no", "final", "tmp", "done"
  stamp,    \* what a startup pass has read: recovery the sidecar, the backfill the row
  lapse,    \* the first interleaving the protocol does not cover, or "none"
  crashes, faults

fileVars == <<final, tmp, meta>>
otherVars == <<first, add, drop, stamp, stray>>
bounds == <<crashes, faults>>
vars == <<row, final, tmp, meta, lock, offer, stray, boot, first, add, drop,
          stamp, lapse, crashes, faults>>

Boot == {"scan", "junk", "junk2", "finish", "finish2", "toss", "toss2", "heal",
         "heal2", "backfill", "stamp", "up"}

TypeOK ==
  /\ row \in Row \cup {Gone}
  /\ final \in Covers \cup {NoFile, Torn}
  /\ tmp \in Covers \cup {NoFile, Torn}
  /\ meta \in Row \cup {NoFile, Torn}
  /\ lock \in Tasks \cup {NoTask, Recovery}
  /\ offer \in [Tasks -> Offers \cup {Idle}] /\ stray \in Offers \cup {Idle}
  /\ boot \in Boot
  /\ first \in [cover : Covers, manual : BOOLEAN]
  /\ add \in {"no", "file", "row"}
  /\ drop \in {"no", "final", "tmp", "done"}
  /\ stamp \in Row
  /\ lapse \in {"none", "overtaken", "toss", "skip", "add", "stamp", "dropped"}
  /\ crashes \in 0..MaxCrashes /\ faults \in 0..MaxFaults

EmptyRow == [url |-> "none", source |-> "none", w |-> 0, h |-> 0, manual |-> FALSE]

NoFirst == [cover |-> CHOOSE c \in Covers : TRUE, manual |-> FALSE]

\* The row of a work created with the address of a cover, chosen by the user or not.
CreatedRow == [EmptyRow EXCEPT !.url = first.cover.url, !.manual = first.manual]

\* A work with nothing, with a settled automatic cover, or just created and
\* about to have its cover downloaded by the add path.
Init ==
  /\ \/ /\ \/ row = EmptyRow /\ final = NoFile
           \/ \E c \in Covers : row = RowOf(c, FALSE) /\ final = c
        /\ first = NoFirst /\ add = "no"
     \/ /\ first \in [cover : Covers, manual : BOOLEAN]
        /\ first.cover.url # "none"
        /\ row = CreatedRow /\ final = NoFile /\ add = "file"
  /\ tmp = NoFile /\ meta = NoFile
  /\ lock = NoTask
  /\ offer = [t \in Tasks |-> Idle] /\ stray = Idle
  /\ boot = "up" /\ drop = "no" /\ stamp = EmptyRow
  /\ lapse = "none" /\ crashes = 0 /\ faults = 0

Lapse(happens, what) == lapse' = IF happens /\ lapse = "none" THEN what ELSE lapse

Fault == faults < MaxFaults /\ faults' = faults + 1

-----------------------------------------------------------------------------
(* One offer, from the lock to the lock.                                    *)

At(t, step) == offer[t] # Idle /\ offer[t].pc = step
Goto(t, to) == offer' = [offer EXCEPT ![t].pc = to] /\ lock' = lock

\* The guard is dropped; what the candidate files hold stays behind.
Leave(t) == offer' = [offer EXCEPT ![t] = Idle] /\ lock' = NoTask

\* Mutant: the user's choice is protected like any other cover.
NothingBlocks == FALSE

manual_selection_blocks_candidate == row.manual /\ (final # NoFile \/ meta # NoFile)

AlreadyCurrent(c) == row.url = c.url /\ final # NoFile

\* Mutant: an offer that does not wait for the slot lock.
EnterUnlocked(t, c, m) ==
  /\ offer[t] = Idle /\ row # Gone
  /\ lock' = t
  /\ offer' = [offer EXCEPT ![t] = [pc |-> "fetch", cand |-> c, manual |-> m, seen |-> row]]
  /\ UNCHANGED <<row, fileVars, boot, otherVars, lapse, bounds>>

Enter(t, c, m) ==
  /\ lock = NoTask /\ offer[t] = Idle /\ row # Gone
  /\ lock' = t
  /\ offer' = [offer EXCEPT ![t] = [pc |-> "fetch", cand |-> c, manual |-> m, seen |-> row]]
  /\ UNCHANGED <<row, fileVars, boot, otherVars, lapse, bounds>>

\* run_cover_write_gate: an automatic candidate that nothing turns away.
run_cover_write_gate(t, c) ==
  /\ row # Gone /\ c.source # "user_upload"
  /\ ~manual_selection_blocks_candidate
  /\ ~AlreadyCurrent(c)
  /\ Enter(t, c, FALSE)

\* run_user_cover_write: the user's choice skips both guards.
run_user_cover_write(t, c) == Enter(t, c, TRUE)

\* The download fails or its bytes are refused.
FetchFails(t) ==
  /\ At(t, "fetch") /\ Leave(t)
  /\ UNCHANGED <<row, fileVars, boot, otherVars, lapse, bounds>>

\* The row is committed and its bytes still wait in the candidate file: the
\* state a crash or a failed rename leaves for recovery.
Pending == /\ row # Gone /\ meta = row
           /\ tmp \in Covers /\ RowOf(tmp, row.manual) = row

\* write_candidate_files: create truncates, write and fsync complete the file;
\* the bytes first, then the sidecar.
WriteTmp(t) ==
  /\ \/ /\ At(t, "fetch") /\ tmp' = Torn /\ Goto(t, "tmp2")
        /\ Lapse(meta = row, "overtaken")
     \/ At(t, "tmp2") /\ tmp' = offer[t].cand /\ Goto(t, "meta") /\ UNCHANGED lapse
  /\ UNCHANGED <<row, final, meta, boot, otherVars, bounds>>

WriteMeta(t) ==
  /\ \/ At(t, "meta") /\ meta' = Torn /\ Goto(t, "meta2")
     \/ /\ At(t, "meta2") /\ meta' = RowOf(offer[t].cand, offer[t].manual)
        /\ Goto(t, "decide")
  /\ UNCHANGED <<row, final, tmp, boot, otherVars, lapse, bounds>>

WriteFails(t) ==
  /\ \E step \in {"tmp2", "meta", "meta2"} : At(t, step)
  /\ Fault /\ Goto(t, "discard")
  /\ UNCHANGED <<row, fileVars, boot, otherVars, lapse, crashes>>

\* The comparator judges against the row read under the lock.
Decide(t) ==
  /\ At(t, "decide")
  /\ IF offer[t].manual \/ should_upgrade_same_tier(offer[t].seen, offer[t].cand, RankModel)
     THEN Goto(t, "commit") ELSE Goto(t, "discard")
  /\ UNCHANGED <<row, fileVars, boot, otherVars, lapse, bounds>>

\* Mutant: the bytes first, the sidecar second.
DiscardBytesFirst(t) ==
  /\ \/ At(t, "discard") /\ tmp' = NoFile /\ meta' = meta /\ Goto(t, "discard2")
     \/ At(t, "discard2") /\ meta' = NoFile /\ tmp' = tmp /\ Leave(t)
  /\ UNCHANGED <<row, final, boot, otherVars, lapse, bounds>>

\* discard_candidate_files: the sidecar first.
Discard(t) ==
  /\ \/ At(t, "discard") /\ meta' = NoFile /\ tmp' = tmp /\ Goto(t, "discard2")
     \/ At(t, "discard2") /\ tmp' = NoFile /\ meta' = meta /\ Leave(t)
  /\ UNCHANGED <<row, final, boot, otherVars, lapse, bounds>>

Commit(t) ==
  /\ At(t, "commit") /\ row # Gone
  /\ row' = RowOf(offer[t].cand, offer[t].manual)
  /\ Goto(t, "rename")
  /\ UNCHANGED <<fileVars, boot, otherVars, lapse, bounds>>

\* The update fails, or finds no row: both candidate files are left.
CommitFails(t) ==
  /\ At(t, "commit")
  /\ \/ row = Gone /\ faults' = faults
     \/ row # Gone /\ Fault
  /\ Leave(t)
  /\ UNCHANGED <<row, fileVars, boot, otherVars, lapse, crashes>>

Rename(t) ==
  /\ At(t, "rename") /\ tmp # NoFile
  /\ final' = tmp /\ tmp' = NoFile
  /\ Goto(t, "cleanup")
  /\ UNCHANGED <<row, meta, boot, otherVars, lapse, bounds>>

\* A failed rename, or one whose tmp the deletion of the work has removed:
\* the row is committed, the files are left for recovery.
RenameFails(t) ==
  /\ At(t, "rename")
  /\ \/ tmp = NoFile /\ UNCHANGED faults
     \/ tmp # NoFile /\ Fault
  /\ Leave(t)
  /\ UNCHANGED <<row, fileVars, boot, otherVars, lapse, crashes>>

Cleanup(t) ==
  /\ At(t, "cleanup") /\ meta' = NoFile /\ Leave(t)
  /\ UNCHANGED <<row, final, tmp, boot, otherVars, lapse, bounds>>

\* The client of a request goes away and the gate's future is dropped, with its lock.
\* Either the call it waited for has ended (a download: FetchFails), or it runs on: a
\* blocking write, rename or delete, or the statement in the database's worker.
Dropped(t) ==
  /\ offer[t] # Idle /\ Fault /\ Leave(t)
  /\ \/ /\ offer[t].pc \in {"decide", "rename", "discard2", "cleanup"}
        /\ UNCHANGED <<stray, lapse>>
     \/ /\ offer[t].pc # "decide" /\ stray = Idle
        /\ stray' = [offer[t] EXCEPT !.seen = EmptyRow] /\ Lapse(TRUE, "dropped")
  /\ UNCHANGED <<row, fileVars, boot, first, add, drop, stamp, crashes>>

Strays(step, to) ==
  /\ stray # Idle /\ stray.pc = step
  /\ stray' = IF to = "end" THEN Idle ELSE [stray EXCEPT !.pc = to]

\* The call of a dropped request ends, the one of write_candidate_files in its four
\* steps; it may fail at each.
StrayStep ==
  /\ \/ Strays("fetch", "tmp2") /\ tmp' = Torn /\ UNCHANGED <<row, final, meta>>
     \/ Strays("tmp2", "meta") /\ tmp' = stray.cand /\ UNCHANGED <<row, final, meta>>
     \/ Strays("meta", "meta2") /\ meta' = Torn /\ UNCHANGED <<row, final, tmp>>
     \/ /\ Strays("meta2", "end") /\ meta' = RowOf(stray.cand, stray.manual)
        /\ UNCHANGED <<row, final, tmp>>
     \/ /\ Strays("commit", "end") /\ UNCHANGED fileVars
        /\ row' = IF row = Gone THEN Gone ELSE RowOf(stray.cand, stray.manual)
     \/ /\ Strays("rename", "end") /\ tmp # NoFile /\ final' = tmp /\ tmp' = NoFile
        /\ UNCHANGED <<row, meta>>
     \/ Strays("discard2", "end") /\ tmp' = NoFile /\ UNCHANGED <<row, final, meta>>
     \/ /\ Strays("discard", "end") \/ Strays("cleanup", "end")
        /\ meta' = NoFile /\ UNCHANGED <<row, final, tmp>>
     \/ stray # Idle /\ stray' = Idle /\ UNCHANGED <<row, fileVars>>
  /\ UNCHANGED <<lock, offer, boot, first, add, drop, stamp, lapse, bounds>>

-----------------------------------------------------------------------------
(* recover_pending_cover_writes, over the one sidecar this slot can have.   *)

Step(to) == boot' = to /\ UNCHANGED <<lock, offer, stamp>>
Release(to) == boot' = to /\ lock' = NoTask /\ stamp' = EmptyRow /\ offer' = offer

\* Mutant: a candidate with bytes is thrown away without asking the row.
VerdictTosses ==
  IF meta = Torn \/ row = Gone THEN "junk" ELSE IF tmp # NoFile THEN "toss" ELSE "heal"

\* The verdict on a sidecar, taken under the slot lock.
Verdict ==
  CASE meta = Torn \/ row = Gone          -> "junk"
    [] meta # Torn /\ row # Gone /\ tmp # NoFile /\ meta = row -> "finish"
    [] meta # Torn /\ row # Gone /\ tmp # NoFile /\ meta # row -> "toss"
    [] meta # Torn /\ row # Gone /\ tmp = NoFile -> "heal"

recover_one ==
  /\ boot = "scan" /\ lock = NoTask
  /\ IF meta = NoFile THEN boot' = "backfill" /\ lock' = lock
                      ELSE boot' = Verdict /\ lock' = Recovery
  /\ stamp' = IF meta \notin {NoFile, Torn} /\ Verdict = "heal" THEN meta ELSE EmptyRow
  /\ UNCHANGED <<row, fileVars, offer, first, add, drop, stray, lapse, bounds>>

\* The row cannot be read: the candidate is left for the next startup.
RecoverSkips ==
  /\ boot \in {"finish", "toss", "heal"} /\ Fault
  /\ Release("backfill")
  /\ Lapse(TRUE, "skip")
  /\ UNCHANGED <<row, fileVars, first, add, drop, stray, crashes>>

\* A sidecar that does not parse, or whose work is gone: sidecar, then bytes.
RecoverJunk ==
  /\ \/ boot = "junk" /\ meta' = NoFile /\ tmp' = tmp /\ Step("junk2")
     \/ boot = "junk2" /\ tmp' = NoFile /\ meta' = meta /\ Release("backfill")
  /\ UNCHANGED <<row, final, first, add, drop, stray, lapse, bounds>>

\* Row and sidecar agree, the bytes are still aside: complete the rename.
RecoverFinish ==
  /\ \/ /\ boot = "finish" /\ tmp # NoFile /\ final' = tmp /\ tmp' = NoFile
        /\ meta' = meta /\ Step("finish2")
     \/ /\ boot = "finish" /\ tmp = NoFile
        /\ UNCHANGED fileVars /\ Release("backfill")
     \/ /\ boot = "finish2" /\ meta' = NoFile /\ UNCHANGED <<final, tmp>>
        /\ Release("backfill")
  /\ UNCHANGED <<row, first, add, drop, stray, lapse, bounds>>

\* Row and sidecar disagree: an undecided candidate.  The bytes go first.
RecoverToss ==
  /\ \/ boot = "toss" /\ tmp' = NoFile /\ meta' = meta /\ Step("toss2")
     \/ boot = "toss2" /\ meta' = NoFile /\ tmp' = tmp /\ Release("backfill")
  /\ UNCHANGED <<row, final, first, add, drop, stray, lapse, bounds>>

\* The bytes are gone: the rename is taken to have happened, the row follows
\* the sidecar; an update that fails is not retried.
RecoverHeal ==
  /\ \/ /\ boot = "heal" /\ Step("heal2")
        /\ \/ row # Gone /\ row' = stamp /\ faults' = faults
           \/ row # Gone /\ row # stamp /\ Fault /\ row' = row
           \/ row = Gone /\ UNCHANGED <<row, faults>>
        /\ meta' = meta
     \/ /\ boot = "heal2" /\ meta' = NoFile /\ Release("backfill")
        /\ UNCHANGED <<row, faults>>
  /\ UNCHANGED <<final, tmp, first, add, drop, stray, lapse, crashes>>

-----------------------------------------------------------------------------
(* The writers that do not take the slot lock, and the crash.               *)

\* Only the branch of the ebook slot spares a cover the user chose.
Stampable(r) == /\ Audio \/ ~r.manual
                /\ r.source \in {"none", "add"}
                /\ r.url \in DOMAIN HostSource /\ HostSource[r.url] # "none"

\* run_cover_provenance_backfill reads the row, and writes it back with the
\* source its address's host stands for.
BackfillRead ==
  /\ boot = "backfill"
  /\ IF row # Gone /\ Stampable(row) THEN boot' = "stamp" /\ stamp' = row
                                    ELSE boot' = "up" /\ stamp' = EmptyRow
  /\ UNCHANGED <<row, fileVars, lock, offer, stray, first, add, drop, lapse, bounds>>

BackfillWrite ==
  /\ boot = "stamp" /\ boot' = "up" /\ stamp' = EmptyRow
  /\ row' = IF row = Gone THEN Gone
            ELSE [stamp EXCEPT !.source = HostSource[stamp.url]]
  /\ Lapse(row # stamp \/ lock # NoTask \/ meta # NoFile, "stamp")
  /\ UNCHANGED <<fileVars, lock, offer, stray, first, add, drop, bounds>>

\* Somebody else has written the slot, or is about to.
Disturbed == lock # NoTask \/ row # CreatedRow

\* finish_created_work_fast: the download lands in place, or fails ...
AddFile ==
  /\ add = "file" /\ add' = "row"
  /\ \/ final' = first.cover
     \/ final' = final
  /\ Lapse(Disturbed, "add")
  /\ UNCHANGED <<row, tmp, meta, lock, offer, stray, boot, first, drop, stamp, bounds>>

\* ... and the row is written with the dimensions of whatever file is there.
AddRow ==
  /\ add = "row" /\ add' = "no" /\ first' = NoFirst
  /\ row' = IF row = Gone THEN Gone
            ELSE LET got == final \in Covers
                 IN  [url |-> first.cover.url, source |-> "add",
                      w |-> IF got THEN final.w ELSE 0,
                      h |-> IF got THEN final.h ELSE 0,
                      manual |-> first.manual /\ got]
  /\ Lapse(Disturbed, "add")
  /\ UNCHANGED <<fileVars, lock, offer, stray, boot, drop, stamp, bounds>>

\* WorkService::delete: the row, then delete_cover_files, which knows the bytes
\* of a candidate and not its sidecar.
DeleteWork ==
  /\ \/ drop = "no" /\ drop' = "final" /\ row' = Gone /\ UNCHANGED <<final, tmp>>
     \/ drop = "final" /\ drop' = "tmp" /\ final' = NoFile /\ UNCHANGED <<row, tmp>>
     \/ drop = "tmp" /\ drop' = "done" /\ tmp' = NoFile /\ UNCHANGED <<row, final>>
  /\ UNCHANGED <<meta, lock, offer, stray, boot, first, add, stamp, lapse, bounds>>

\* The process dies and starts again: the startup passes run beside the server.
Crash ==
  /\ crashes < MaxCrashes /\ crashes' = crashes + 1
  /\ offer' = [t \in Tasks |-> Idle] /\ stray' = Idle
  /\ lock' = NoTask /\ boot' = "scan"
  /\ add' = "no" /\ first' = NoFirst
  /\ drop' = IF drop = "no" THEN "no" ELSE "done"
  /\ stamp' = EmptyRow
  /\ Lapse(boot = "toss2", "toss")
  /\ UNCHANGED <<row, fileVars, faults>>

-----------------------------------------------------------------------------
Offer(t) ==
  \/ \E c \in Covers : run_cover_write_gate(t, c) \/ run_user_cover_write(t, c)
  \/ FetchFails(t) \/ WriteTmp(t) \/ WriteMeta(t) \/ WriteFails(t)
  \/ Decide(t) \/ Discard(t) \/ Commit(t) \/ CommitFails(t)
  \/ Rename(t) \/ RenameFails(t) \/ Cleanup(t) \/ Dropped(t)

Recover == recover_one \/ RecoverSkips \/ RecoverJunk \/ RecoverFinish
           \/ RecoverToss \/ RecoverHeal

Next ==
  \/ \E t \in Tasks : Offer(t)
  \/ StrayStep
  \/ Recover \/ BackfillRead \/ BackfillWrite
  \/ AddFile \/ AddRow \/ DeleteWork \/ Crash

Spec == Init /\ [][Next]_vars

-----------------------------------------------------------------------------
\* What the row says of the file: 0x0 says nothing of its size.
Described(r, f) ==
  \/ f = NoFile /\ r.w = 0
  \/ /\ f \in Covers /\ r.url = f.url
     /\ r.w = 0 \/ (r.w = f.w /\ r.h = f.h)

\* "The row always describes the file actually on disk (the binding
\* invariant)": at every step of every writer, the row describes the served
\* file, or it is committed and its bytes wait for the rename or for recovery -
\* as long as none of the interleavings in lapse has happened.
RowDescribesDisk ==
  lapse = "none" /\ row # Gone => Described(row, final) \/ Pending

\* An automatic change of an automatic cover is an upgrade by the comparator,
\* judged against the row it replaces, not the row some caller once read.
UpgradesOnly ==
  [][ row # Gone /\ row' # Gone /\ row' # row /\ ~row.manual /\ ~row'.manual
      /\ lapse' = "none"
      => should_upgrade_same_tier(row, row', RankModel) \/ row.url = row'.url ]_vars

\* run_cover_write_gate and recovery, which take the slot lock: a cover the user
\* chose, with its file in place or waiting for recovery, is not replaced by an
\* automatic one, although its file, its sidecar and its row change in different
\* steps.  Only in behaviours without a lapse: among those it leaves out, the
\* backfill ("stamp") and the first download of a new work ("add") do replace the
\* user's choice (BackfillSpares, below, and the README).
ManualKept ==
  [][ row # Gone /\ row' # Gone /\ row.manual /\ ~row'.manual /\ lapse' = "none"
      => final = NoFile /\ ~Pending ]_vars

\* cover_provenance_backfill.rs:5, "manually selected ebook rows are never touched".
\* Does not hold: the backfill writes back the row as it has read it.
BackfillSpares ==
  [][ boot = "stamp" /\ boot' = "up" /\ row # Gone /\ row.manual => row' = row ]_vars

\* "Tmp gone, meta present" is taken as proof that the accepted candidate was
\* renamed, so recovery may follow the sidecar: a row it heals describes the
\* served file.
HealedRowDescribesFile ==
  [][ boot = "heal" /\ row' \notin {row, Gone} => Described(row', final') ]_vars

\* The startup pass leaves nothing pending behind: a committed cover is served,
\* an undecided one has left no trace in the row, whatever the crash cut off.
RecoverySettles ==
  [][ lock = Recovery /\ lock' = NoTask /\ boot' = "backfill" /\ lapse' = "none"
      => \/ row' = Gone
         \/ meta' = NoFile /\ Described(row', final') ]_vars

-----------------------------------------------------------------------------
(* The rest of the inductive invariant of the proofs.                       *)

\* The slot lock is held by the one offer under way or by recovery's verdict.
Verdicts == {"junk", "junk2", "finish", "finish2", "toss", "toss2", "heal", "heal2"}
LockHeld ==
  /\ \A t \in Tasks : offer[t] # Idle <=> lock = t
  /\ boot \in Verdicts <=> lock = Recovery

\* A deletion takes the files only after the row, and the add path's download
\* runs only in the process that created the work.
RowFirst == drop # "no" => row = Gone
AddIsFirst == add # "no" => boot = "up"
StampedHost == boot = "stamp" => stamp.url \in DOMAIN HostSource
                                 /\ HostSource[stamp.url] # "none"
StrayLapsed == stray # Idle => lapse # "none"

\* A sidecar is written from a candidate, so it names a source.
SidecarSourced == meta \in Row => meta.source # "none"

Covered == lapse = "none" /\ row # Gone

\* tmp holds the bytes that r, of the row or of the sidecar, is about.
BytesOf(r) == tmp \in Covers /\ RowOf(tmp, r.manual) = r

\* A sidecar that agrees with the row stands beside the row's own bytes or
\* none; one that disagrees, beside bytes, unless recovery is tossing it.
SidecarTold ==
  Covered =>
    /\ meta = row /\ tmp # NoFile => BytesOf(row)
    /\ meta \notin {NoFile, Torn, row} => tmp # NoFile \/ boot = "toss2"

\* What the files and the row are at each step of the offer that has the lock.
OfferAt(o) ==
  /\ o.pc \notin {"rename", "cleanup"} => o.seen = row
  /\ o.pc \notin {"rename", "cleanup"} /\ row.manual /\ ~o.manual => final = NoFile
  /\ o.pc \notin {"fetch", "rename"} => Described(row, final)
  /\ o.pc \in {"tmp2", "meta"} => meta # row /\ tmp # NoFile
  /\ o.pc \in {"meta", "meta2", "decide", "commit", "rename"} => tmp = o.cand
  /\ o.pc = "meta2" => meta = Torn
  /\ o.pc \in {"decide", "commit", "rename"} => meta = RowOf(o.cand, o.manual)
  /\ o.pc = "commit" => o.manual \/ should_upgrade_same_tier(o.seen, o.cand, RankModel)
  /\ o.pc = "rename" => row = meta
  /\ o.pc = "discard" => tmp # NoFile
  /\ o.pc = "discard2" => meta = NoFile
  /\ o.pc = "cleanup" => row = meta /\ tmp = NoFile
OfferKept == Covered => \A t \in Tasks : lock = t => OfferAt(offer[t])

\* And at each step of recovery's verdict.
RecoveryKept ==
  Covered =>
    /\ boot = "junk" => meta = Torn
    /\ boot = "junk2" => meta = NoFile
    /\ boot = "finish" => meta = row /\ tmp # NoFile
    /\ boot \in {"finish2", "heal", "heal2"} => meta = row /\ tmp = NoFile
    /\ boot = "heal" => stamp = row
    /\ boot = "toss" => meta \notin {row, NoFile}
    /\ boot = "toss2" => meta # row

\* Until the add path has written the row, a created work's file is the one it
\* downloaded, if any; and no offer was cut off between its bytes and its sidecar.
AddKept ==
  Covered /\ add # "no" =>
    /\ row = CreatedRow => final = NoFile \/ (add = "row" /\ final = first.cover)
    /\ lock = NoTask \/ (\E t \in Tasks : lock = t /\ offer[t].pc = "fetch") =>
         (meta \in Row /\ tmp # NoFile => BytesOf(meta))

IInv ==
  /\ TypeOK /\ LockHeld /\ RowFirst /\ AddIsFirst /\ StampedHost /\ StrayLapsed
  /\ SidecarSourced
  /\ RowDescribesDisk /\ SidecarTold /\ OfferKept /\ RecoveryKept /\ AddKept
=============================================================================
