------------------------- MODULE ImportBatch_proofs -------------------------
(***************************************************************************)
(* Proofs about ImportBatch, for any users, books, imports and works and   *)
(* any bounds: who has the slot of the process, what a row that says       *)
(* 'running' means, and whose works an undo takes.  IInv is the inductive  *)
(* invariant of the first two; each action keeps its types, the facts its  *)
(* own steps rely on (Formed) and the slot's owner (Slotted).  The last    *)
(* one needs Tags: who created a work that is tagged or listed.            *)
(***************************************************************************)
EXTENDS ImportBatch, TLAPS

\* The row of an import in use names a user.
LEMMA OfKey ==
  ASSUME TypeOK, Formed, NEW i \in Imports, NEW b \in Books, imp[i].status # "none"
  PROVE  Of(i, b) \in Keys
BY DEF Formed, Of, Keys

\* create_or_adopt_author leaves a well-formed table, with the author's row in it.
LEMMA GatedType ==
  ASSUME TypeOK, NEW k \in Keys, NEW tag \in Imports \cup {None}
  PROVE  Gated(k, tag) \in [Keys -> Author] /\ Gated(k, tag)[k].row \in Nat
<1>1. author \in [Keys -> Author] /\ author[k] \in Author
  BY DEF TypeOK
<1>2. {i \in Imports : imp[i].status # "none"} \in SUBSET Imports
  OBVIOUS
<1>3. [row |-> author[k].row + 1, live |-> TRUE, touched |-> FALSE, tag |-> tag,
       since |-> {i \in Imports : imp[i].status # "none"}] \in Author
  BY <1>1, <1>2 DEF Author
<1> QED BY <1>1, <1>3 DEF Gated, Author

LEMMA WithoutAuthorsType ==
  ASSUME TypeOK, NEW K PROVE WithoutAuthors(K) \in [Keys -> Author]
<1>1. \A k \in Keys : author[k] \in Author /\ [author[k] EXCEPT !.live = FALSE] \in Author
  BY DEF TypeOK, Author
<1> QED BY <1>1 DEF WithoutAuthors

\* The road's insert keeps every live work at its book.
LEMMA CreatedType ==
  ASSUME TypeOK, Formed, NEW k \in Keys, NEW w, NEW i \in Imports
  PROVE  /\ Created(k, w, i) \in [Works -> Work]
         /\ \A v \in Works : Created(k, w, i)[v].state = "live" => Created(k, w, i)[v].key \in Keys
<1>1. [state |-> "live", key |-> k, tag |-> None, by |-> i] \in Work
  BY DEF Work
<1> QED BY <1>1 DEF Created, TypeOK, Formed, Unused

\* Deleting works, with what refers to them.
LEMMA CascadeType ==
  ASSUME TypeOK, Formed, NEW W, Cascade(W)
  PROVE  /\ work' \in [Works -> Work] /\ item' \in [Keys -> Item] /\ intent' \in [Keys -> Intent]
         /\ \A w \in Works : work'[w].state = "live" => work'[w].key \in Keys
<1>1. \A w \in Works : work[w] \in Work /\ [work[w] EXCEPT !.state = "gone"] \in Work
                       /\ [work[w] EXCEPT !.state = "gone"].state = "gone"
  BY DEF TypeOK, Work
<1>2. work' \in [Works -> Work] /\ \A w \in Works : work'[w].state = "live" => work'[w] = work[w]
  BY <1>1 DEF Cascade, WithoutWorks
<1>3. \A k \in Keys : item[k] \in Item /\ [NoItem EXCEPT !.row = item[k].row] \in Item
  BY DEF TypeOK, Item, NoItem
<1>4. NoIntent \in Intent
  BY DEF NoIntent, Intent
<1> QED BY <1>2, <1>3, <1>4 DEF Cascade, TypeOK, Formed

LEMMA RecordedType ==
  ASSUME TypeOK, NEW k \in Keys, NEW w \in Works, NEW tag \in Imports \cup {None}
  PROVE  Recorded(k, w, tag) \in Item
<1>1. item[k] \in Item
  BY DEF TypeOK
<1> QED BY <1>1 DEF Recorded, Item

LEMMA BudgetType ==
  ASSUME TypeOK, Act \/ Fault \/ NoFault
  PROVE  acts' \in 0..MaxActs /\ faults' \in 0..MaxFaults
BY BoundAssumption DEF TypeOK, Act, Fault, NoFault

\* A step that leaves the rows of the imports, the slot and the tasks' places alone
\* disturbs nobody's claim.
LEMMA ControlKept ==
  ASSUME IInv, UNCHANGED <<imp, slot, starting, lost>>,
         \A i \in Imports : run'[i].pc = run[i].pc
  PROVE  Slotted' /\ RunnerAlone' /\ RunningHasOwner'
BY DEF IInv, Slotted, RunnerAlone, RunningHasOwner, Working

\* A task that goes on.
LEMMA TaskGoesOn ==
  ASSUME IInv, UNCHANGED <<imp, slot, starting, undo, lost>>,
         NEW i \in Imports, Working(i), Working(i)',
         \A j \in Imports \ {i} : run'[j].pc = run[j].pc
  PROVE  Slotted' /\ RunnerAlone' /\ RunningHasOwner'
<1> USE DEF IInv, Working
<1>1. Slotted'
  BY DEF Slotted
<1>2. RunnerAlone'
  BY DEF RunnerAlone
<1>3. RunningHasOwner'
  BY DEF RunningHasOwner
<1> QED BY <1>1, <1>2, <1>3

\* A task that gives the import up: its row is no longer 'running', or it is lost.
LEMMA TaskEnds ==
  ASSUME IInv, UNCHANGED <<slot, starting, undo>>, lost \subseteq lost',
         NEW i \in Imports, Working(i), run'[i].pc = "release",
         imp'[i].source = imp[i].source, i \in lost' \/ imp'[i].status # "running",
         \A j \in Imports \ {i} : run'[j].pc = run[j].pc /\ imp'[j] = imp[j]
  PROVE  Slotted' /\ RunnerAlone' /\ RunningHasOwner'
<1> USE DEF IInv, Working
<1>0. run[i].pc # "idle"
  OBVIOUS
<1>1. Slotted'
  <2>1. \A u \in Users : starting[u] = None
    BY <1>0 DEF RunnerAlone
  <2>2. \A j \in Imports : run'[j].pc # "idle" => run[j].pc # "idle" /\ imp'[j].source = imp[j].source
    BY <1>0
  <2> QED BY <2>1, <2>2 DEF Slotted
<1>2. RunnerAlone'
  BY <1>0 DEF RunnerAlone
<1>3. RunningHasOwner'
  BY <1>0 DEF RunningHasOwner
<1> QED BY <1>1, <1>2, <1>3

LEMMA GotoTask ==
  ASSUME TypeOK, NEW i \in Imports, NEW todo \in SUBSET Books,
         NEW pc \in {"list", "authors", "works", "rollback", "files", "finish", "failing", "release"},
         RunGoto(i, pc, todo)
  PROVE  /\ run' \in [Imports -> Task]
         /\ run'[i].pc = pc /\ run'[i].todo = todo /\ run'[i].work = run[i].work
         /\ \A j \in Imports \ {i} : run'[j] = run[j]
<1>1. run[i] \in Task /\ run \in [Imports -> Task]
  BY DEF TypeOK
<1>2. [run[i] EXCEPT !.pc = pc, !.todo = todo] \in Task
  BY <1>1 DEF Task
<1>3. run' = [run EXCEPT ![i] = [run[i] EXCEPT !.pc = pc, !.todo = todo]]
  BY <1>1 DEF RunGoto, Task
<1> QED BY <1>1, <1>2, <1>3 DEF Task

LEMMA InitHolds == Init => IInv
<1> SUFFICES ASSUME Init PROVE IInv
  OBVIOUS
<1>1. TypeOK
  <2>1. IdleRun \in Task /\ IdleUndo \in Undo /\ NoRow \in Row /\ NoAuthor \in Author
        /\ NoItem \in Item /\ NoIntent \in Intent /\ IdleConf \in [Books -> Confirm]
    BY DEF IdleRun, Task, IdleUndo, Undo, NoRow, Row, NoAuthor, Author, NoItem, Item, NoIntent,
           Intent, IdleConf, Confirm
  <2>2. [state |-> "unused", key |-> None, tag |-> None, by |-> None] \in Work
    BY DEF Work
  <2>3. /\ slot \in [running : BOOLEAN, imp : Imports \cup {None}]
        /\ acts \in 0..MaxActs /\ faults \in 0..MaxFaults
    BY BoundAssumption DEF Init
  <2>6. /\ starting \in [Users -> Imports \cup {None}]
        /\ disk \subseteq Keys /\ lost \subseteq Imports
    BY DEF Init
  <2>7. held \in BOOLEAN
    BY DEF Init
  <2>4. /\ imp \in [Imports -> Row] /\ run \in [Imports -> Task] /\ undo \in [Imports -> Undo]
        /\ conf \in [Imports -> [Books -> Confirm]]
    BY <2>1 DEF Init
  <2>5. /\ author \in [Keys -> Author] /\ work \in [Works -> Work] /\ item \in [Keys -> Item]
        /\ intent \in [Keys -> Intent]
    BY <2>1, <2>2 DEF Init
  <2> QED BY <2>3, <2>4, <2>5, <2>6, <2>7 DEF TypeOK
<1>2. Formed
  BY DEF Init, Formed, IdleUndo, IdleRun, NoRow, Confirming, IdleConf
<1>3. Slotted /\ RunnerAlone /\ RunningHasOwner
  BY DEF Init, Slotted, RunnerAlone, RunningHasOwner, Working, IdleRun, NoRow
<1> QED BY <1>1, <1>2, <1>3 DEF IInv

\* A step of a task leaves the facts the others rely on.
LEMMA FormedKept ==
  ASSUME IInv, UNCHANGED <<imp, conf, undo>>, NEW i \in Imports, Working(i),
         \A j \in Imports \ {i} : run'[j] = run[j],
         run'[i].pc \in {"files", "record"} =>
           \A b \in run'[i].todo : run'[i].work[b] \in Works,
         run'[i].pc = "record" => run'[i].at \in Books /\ run'[i].work[run'[i].at] \in Works,
         \A w \in Works : work'[w].state = "live" => work'[w].key \in Keys
  PROVE  Formed'
<1>1. imp[i].status # "none"
  BY DEF IInv, Formed, Working
<1> QED BY <1>1 DEF IInv, Formed, Confirming

LEMMA WorksKept ==
  ASSUME IInv, UNCHANGED work
  PROVE  \A w \in Works : work'[w].state = "live" => work'[w].key \in Keys
BY DEF IInv, Formed

\* The task's own book.
LEMMA TaskKey ==
  ASSUME IInv, NEW i \in Imports, Working(i), NEW b \in Books
  PROVE  Of(i, b) \in Keys
<1>1. imp[i].status # "none"
  BY DEF IInv, Formed, Working
<1> QED BY <1>1, OfKey DEF IInv

\* The steps that only take the task from one phase to the next.
LEMMA PhasesKeep ==
  ASSUME IInv, NEW i \in Imports,
         RunFetch(i) \/ RunAuthorsDone(i) \/ RunWorksDone(i) \/ RunFilesDone(i)
  PROVE  IInv'
<1> USE DEF IInv
<1>1. Working(i) /\ UNCHANGED <<imp, slot, starting, conf, undo, library, ends, acts, faults>>
  BY DEF RunFetch, RunAuthorsDone, RunWorksDone, RunFilesDone, Working, NoFault
<1>2. PICK pc \in {"list", "works", "rollback", "finish", "failing"}, todo \in SUBSET Books : RunGoto(i, pc, todo)
  <2>1. run[i].todo \in SUBSET Books
    BY DEF TypeOK, Task
  <2> QED BY <2>1 DEF RunFetch, RunAuthorsDone, RunWorksDone, RunFilesDone
<1>3. /\ run' \in [Imports -> Task] /\ run'[i].pc = pc
      /\ \A j \in Imports \ {i} : run'[j] = run[j]
  BY <1>2, GotoTask
<1>4. TypeOK'
  BY <1>1, <1>3 DEF TypeOK, library, ends
<1>5. Formed'
  BY <1>1, <1>3, FormedKept, WorksKept DEF library
<1>6. Slotted' /\ RunnerAlone' /\ RunningHasOwner'
  BY <1>1, <1>3, TaskGoesOn DEF Working, ends
<1> QED BY <1>4, <1>5, <1>6

LEMMA RunListKeeps ==
  ASSUME IInv, NEW i \in Imports, RunList(i)
  PROVE  IInv'
<1> USE DEF IInv
<1> DEFINE seen == [b \in Books |-> IF author[Of(i, b)].live THEN author[Of(i, b)].row ELSE 0]
<1>1. Working(i) /\ UNCHANGED <<imp, slot, starting, conf, undo, library, ends>>
  BY DEF RunList, Working
<1>2. seen \in [Books -> Nat]
  BY <1>1, TaskKey DEF TypeOK, Author
<1>3. /\ run' \in [Imports -> Task] /\ run'[i].pc \in {"authors", "failing"}
      /\ \A j \in Imports \ {i} : run'[j] = run[j]
  <2>1. run[i] \in Task /\ run \in [Imports -> Task]
    BY DEF TypeOK
  <2>2. CASE run' = [run EXCEPT ![i].pc = "authors", ![i].author = seen]
    <3>1. [run[i] EXCEPT !.pc = "authors", !.author = seen] \in Task
      BY <2>1, <1>2 DEF Task
    <3>2. run' = [run EXCEPT ![i] = [run[i] EXCEPT !.pc = "authors", !.author = seen]]
      BY <2>1, <2>2 DEF Task
    <3> QED BY <2>1, <3>1, <3>2 DEF Task
  <2>3. CASE RunGoto(i, "failing", {})
    BY <2>3, GotoTask
  <2> QED BY <2>2, <2>3 DEF RunList
<1>4. TypeOK'
  BY <1>1, <1>3, BudgetType DEF TypeOK, library, ends, RunList
<1>5. Formed'
  BY <1>1, <1>3, FormedKept, WorksKept DEF library
<1>6. Slotted' /\ RunnerAlone' /\ RunningHasOwner'
  BY <1>1, <1>3, TaskGoesOn DEF Working, ends
<1> QED BY <1>4, <1>5, <1>6

LEMMA RunAuthorKeeps ==
  ASSUME IInv, NEW i \in Imports, NEW b \in Books, RunAuthor(i, b)
  PROVE  IInv'
<1> USE DEF IInv
<1>1. Working(i) /\ UNCHANGED <<imp, slot, starting, conf, undo, work, item, disk, intent, ends>>
  BY DEF RunAuthor, Working
<1>2. author' \in [Keys -> Author] /\ (author' = Gated(Of(i, b), i) => author'[Of(i, b)].row \in Nat)
  BY <1>1, TaskKey, GatedType DEF RunAuthor, TypeOK
<1>3. /\ run' \in [Imports -> Task] /\ run'[i].pc = "authors"
      /\ \A j \in Imports \ {i} : run'[j] = run[j]
  <2>1. run[i] \in Task /\ run \in [Imports -> Task] /\ run[i].pc = "authors"
    BY DEF TypeOK, RunAuthor
  <2>2. CASE author' = Gated(Of(i, b), i) /\ run' = [run EXCEPT ![i].author[b] = author'[Of(i, b)].row]
    <3> DEFINE r == [run[i] EXCEPT !.author = [run[i].author EXCEPT ![b] = author'[Of(i, b)].row]]
    <3>1. r \in Task /\ r.pc = "authors"
      BY <2>1, <2>2, <1>2 DEF Task
    <3>2. run' = [run EXCEPT ![i] = r]
      BY <2>1, <2>2 DEF Task
    <3> QED BY <2>1, <3>1, <3>2
  <2>3. CASE run' = [run EXCEPT ![i].todo = @ \ {b}]
    <3> DEFINE r == [run[i] EXCEPT !.todo = run[i].todo \ {b}]
    <3>1. r \in Task /\ r.pc = "authors"
      BY <2>1 DEF Task
    <3>2. run' = [run EXCEPT ![i] = r]
      BY <2>1, <2>3 DEF Task
    <3> QED BY <2>1, <3>1, <3>2
  <2> QED BY <2>2, <2>3 DEF RunAuthor
<1>4. TypeOK'
  BY <1>1, <1>2, <1>3, BudgetType DEF TypeOK, ends, RunAuthor
<1>5. Formed'
  BY <1>1, <1>3, FormedKept, WorksKept
<1>6. Slotted' /\ RunnerAlone' /\ RunningHasOwner'
  BY <1>1, <1>3, TaskGoesOn DEF Working, ends
<1> QED BY <1>4, <1>5, <1>6

LEMMA RunWorkKeeps ==
  ASSUME IInv, NEW i \in Imports, NEW b \in Books, RunWork(i, b)
  PROVE  IInv'
<1> USE DEF IInv
<1>1. /\ Working(i) /\ run[i].pc = "works"
      /\ UNCHANGED <<imp, slot, starting, conf, undo, author, item, disk, intent, ends, acts, faults>>
  BY DEF RunWork, Working, NoFault
<1>2. PICK w \in Works \cup {None} :
        /\ work' = Created(Of(i, b), w, i)
        /\ run' = [run EXCEPT ![i].todo = @ \ {b}, ![i].work[b] = w]
  BY DEF RunWork
<1>3. /\ work' \in [Works -> Work]
      /\ \A v \in Works : work'[v].state = "live" => work'[v].key \in Keys
  BY <1>1, <1>2, TaskKey, CreatedType
<1>4. /\ run' \in [Imports -> Task] /\ run'[i].pc = "works"
      /\ \A j \in Imports \ {i} : run'[j] = run[j]
  <2> DEFINE r == [run[i] EXCEPT !.todo = run[i].todo \ {b}, !.work = [run[i].work EXCEPT ![b] = w]]
  <2>1. run[i] \in Task /\ run \in [Imports -> Task]
    BY DEF TypeOK
  <2>2. r \in Task /\ r.pc = "works"
    BY <1>1, <2>1 DEF Task
  <2>3. run' = [run EXCEPT ![i] = r]
    BY <1>2, <2>1 DEF Task
  <2> QED BY <2>1, <2>2, <2>3
<1>5. TypeOK'
  BY <1>1, <1>3, <1>4 DEF TypeOK, ends
<1>6. Formed'
  BY <1>1, <1>3, <1>4, FormedKept
<1>7. Slotted' /\ RunnerAlone' /\ RunningHasOwner'
  BY <1>1, <1>4, TaskGoesOn DEF Working, ends
<1> QED BY <1>5, <1>6, <1>7

LEMMA RunRollbackKeeps ==
  ASSUME IInv, NEW i \in Imports, RunRollback(i)
  PROVE  IInv'
<1> USE DEF IInv
<1>1. Working(i) /\ UNCHANGED <<imp, slot, starting, conf, undo, work, item, disk, intent, ends>>
  BY DEF RunRollback, Working
<1>2. author' \in [Keys -> Author]
  BY WithoutAuthorsType DEF RunRollback, TypeOK
<1>3. PICK pc \in {"files", "failing"}, todo \in SUBSET Books :
        /\ RunGoto(i, pc, todo)
        /\ pc = "files" => \A b \in todo : run[i].work[b] # None
  BY DEF RunRollback
<1>4. /\ run' \in [Imports -> Task] /\ run'[i].pc = pc /\ run'[i].todo = todo
      /\ run'[i].work = run[i].work /\ \A j \in Imports \ {i} : run'[j] = run[j]
  BY <1>3, GotoTask
<1>5. TypeOK'
  BY <1>1, <1>2, <1>4, BudgetType DEF TypeOK, ends, RunRollback
<1>6. pc = "files" => \A b \in todo : run'[i].work[b] \in Works
  BY <1>3, <1>4 DEF TypeOK, Task
<1>7. Formed'
  BY <1>1, <1>4, <1>6, FormedKept, WorksKept
<1>8. Slotted' /\ RunnerAlone' /\ RunningHasOwner'
  BY <1>1, <1>4, TaskGoesOn DEF Working, ends
<1> QED BY <1>5, <1>7, <1>8

LEMMA RunPlaceKeeps ==
  ASSUME IInv, NEW i \in Imports, NEW b \in Books, RunPlace(i, b)
  PROVE  IInv'
<1> USE DEF IInv
<1> DEFINE k == Of(i, b)
           w == run[i].work[b]
<1>1. /\ Working(i) /\ run[i].pc = "files" /\ b \in run[i].todo
      /\ UNCHANGED <<imp, slot, starting, conf, undo, author, work, item, ends, acts, faults>>
  BY DEF RunPlace, Working, NoFault
<1>2. k \in Keys /\ w \in Works /\ \A c \in run[i].todo : run[i].work[c] \in Works
  BY <1>1, TaskKey DEF Formed
<1>3. run[i] \in Task /\ run \in [Imports -> Task]
  BY DEF TypeOK
<1>4. disk' \subseteq Keys /\ intent' \in [Keys -> Intent]
  <2>1. [work |-> w, tag |-> i] \in Intent
    BY <1>2 DEF Intent
  <2>2. disk' = disk \/ disk' = disk \cup {k}
    BY DEF RunPlace
  <2>3. intent' = intent \/ intent' = [intent EXCEPT ![k] = [work |-> w, tag |-> i]]
    BY DEF RunPlace
  <2> QED BY <1>2, <2>1, <2>2, <2>3 DEF TypeOK
<1>5. /\ run' \in [Imports -> Task] /\ \A j \in Imports \ {i} : run'[j] = run[j]
      /\ run'[i].pc \in {"files", "record"} /\ run'[i].work = run[i].work
      /\ run'[i].todo \subseteq run[i].todo
      /\ run'[i].pc = "record" => run'[i].at = b
  <2>1. CASE RunGoto(i, "files", run[i].todo \ {b})
    <3>1. run[i].todo \ {b} \in SUBSET Books
      BY <1>3 DEF Task
    <3> QED BY <2>1, <3>1, GotoTask
  <2>2. CASE run' = [run EXCEPT ![i].pc = "record", ![i].todo = @ \ {b}, ![i].at = b]
    <3> DEFINE r == [run[i] EXCEPT !.pc = "record", !.todo = run[i].todo \ {b}, !.at = b]
    <3>1. r \in Task /\ r.pc = "record" /\ r.work = run[i].work /\ r.at = b /\ r.todo \subseteq run[i].todo
      BY <1>3 DEF Task
    <3>2. run' = [run EXCEPT ![i] = r]
      BY <1>3, <2>2 DEF Task
    <3> QED BY <1>3, <3>1, <3>2
  <2> QED BY <2>1, <2>2 DEF RunPlace
<1>6. TypeOK'
  BY <1>1, <1>4, <1>5 DEF TypeOK, ends
<1>7. Formed'
  BY <1>1, <1>2, <1>5, FormedKept, WorksKept
<1>8. Slotted' /\ RunnerAlone' /\ RunningHasOwner'
  BY <1>1, <1>5, TaskGoesOn DEF Working, ends
<1> QED BY <1>6, <1>7, <1>8

LEMMA RunRecordKeeps ==
  ASSUME IInv, NEW i \in Imports, RunRecord(i)
  PROVE  IInv'
<1> USE DEF IInv
<1> DEFINE k == Of(i, run[i].at)
           w == run[i].work[run[i].at]
<1>1. /\ Working(i) /\ run[i].pc = "record"
      /\ UNCHANGED <<imp, slot, starting, conf, undo, author, work, disk, ends>>
  BY DEF RunRecord, Working
<1>2. k \in Keys /\ w \in Works /\ \A c \in run[i].todo : run[i].work[c] \in Works
  BY <1>1, TaskKey DEF Formed
<1>3. item' \in [Keys -> Item] /\ intent' \in [Keys -> Intent]
  <2>1. Recorded(k, w, i) \in Item
    BY <1>2, RecordedType
  <2>2. NoIntent \in Intent
    BY DEF NoIntent, Intent
  <2>3. item \in [Keys -> Item] /\ intent \in [Keys -> Intent]
    BY DEF TypeOK
  <2>4. /\ item' = [item EXCEPT ![k] = Recorded(k, w, i)] \/ item' = item
        /\ intent' = [intent EXCEPT ![k] = NoIntent] \/ intent' = intent
    BY DEF RunRecord
  <2> QED BY ONLY <1>2, <2>1, <2>2, <2>3, <2>4
<1>4. /\ run' \in [Imports -> Task] /\ \A j \in Imports \ {i} : run'[j] = run[j]
      /\ run'[i].pc = "files" /\ run'[i].work = run[i].work /\ run'[i].todo = run[i].todo
  <2> DEFINE r == [run[i] EXCEPT !.pc = "files", !.at = None]
  <2>1. run[i] \in Task /\ run \in [Imports -> Task]
    BY DEF TypeOK
  <2>2. r \in Task /\ r.pc = "files" /\ r.work = run[i].work /\ r.todo = run[i].todo
    BY <2>1 DEF Task
  <2>3. run' = [run EXCEPT ![i] = r]
    BY <2>1 DEF RunRecord, Task
  <2> QED BY <2>1, <2>2, <2>3
<1>5. TypeOK'
  BY <1>1, <1>3, <1>4, BudgetType DEF TypeOK, ends, RunRecord
<1>6. Formed'
  BY <1>1, <1>2, <1>4, FormedKept, WorksKept
<1>7. Slotted' /\ RunnerAlone' /\ RunningHasOwner'
  BY <1>1, <1>4, TaskGoesOn DEF Working, ends
<1> QED BY <1>5, <1>6, <1>7

\* Completing, failing or panicking: the last write of a task, if it is made.
LEMMA RunEndKeeps ==
  ASSUME IInv, NEW i \in Imports, RunFinish(i) \/ RunFail(i) \/ RunPanics(i)
  PROVE  IInv'
<1> USE DEF IInv
<1>1. Working(i) /\ UNCHANGED <<slot, starting, conf, undo, library>> /\ (Act \/ Fault \/ NoFault)
  BY DEF RunFinish, RunFail, RunPanics, Working, ends
<1>2. CASE RunFinish(i) /\ RunGoto(i, "failing", {})
  <2>1. UNCHANGED <<imp, lost, held>>
    BY <1>2, GotoTask DEF RunFinish, ends
  <2>2. /\ run' \in [Imports -> Task] /\ run'[i].pc = "failing"
        /\ \A j \in Imports \ {i} : run'[j] = run[j]
    BY <1>2, GotoTask
  <2>3. TypeOK'
    BY <1>1, <2>1, <2>2, BudgetType DEF TypeOK, library
  <2>4. Formed'
    BY <1>1, <2>1, <2>2, FormedKept, WorksKept DEF library
  <2>5. Slotted' /\ RunnerAlone' /\ RunningHasOwner'
    BY <1>1, <2>1, <2>2, TaskGoesOn DEF Working
  <2> QED BY <2>3, <2>4, <2>5
<1>3. CASE RunGoto(i, "release", {})
  <2>1. /\ imp' \in [Imports -> Row] /\ \A j \in Imports \ {i} : imp'[j] = imp[j]
        /\ imp'[i].source = imp[i].source /\ imp'[i].user = imp[i].user /\ imp'[i].status # "none"
        /\ lost \subseteq lost' /\ lost' \subseteq Imports /\ held' \in BOOLEAN
        /\ i \in lost' \/ imp'[i].status # "running"
    <3>1. imp[i] \in Row /\ imp \in [Imports -> Row] /\ imp[i].status # "none"
      BY <1>1 DEF TypeOK, Formed, Working
    <3>2. \A s \in {"completed", "failed"} :
            /\ [imp[i] EXCEPT !.status = s] \in Row /\ [imp[i] EXCEPT !.status = s].status = s
            /\ [imp[i] EXCEPT !.status = s].source = imp[i].source
            /\ [imp[i] EXCEPT !.status = s].user = imp[i].user
      BY <3>1 DEF Row
    <3>3. held' = held
      BY <1>3 DEF RunFinish, RunFail, RunPanics, ends
    <3>4. held' \in BOOLEAN
      BY <3>3 DEF TypeOK
    <3>5. lost \subseteq lost' /\ lost' \subseteq Imports
      BY DEF RunFinish, RunFail, RunPanics, ends, TypeOK
    <3>6. \/ imp' = imp /\ i \in lost'
          \/ \E s \in {"completed", "failed"} : imp' = [imp EXCEPT ![i] = [imp[i] EXCEPT !.status = s]]
      <4>1. CASE RunPanics(i)
        BY <4>1 DEF RunPanics
      <4>2. CASE RunFail(i)
        BY <4>2, <3>1 DEF RunFail
      <4>3. CASE RunFinish(i)
        <5>1. ~RunGoto(i, "failing", {})
          BY <1>3, GotoTask
        <5> QED BY <4>3, <5>1, <3>1 DEF RunFinish
      <4> QED BY <4>1, <4>2, <4>3
    <3> QED BY <3>1, <3>2, <3>4, <3>5, <3>6
  <2>2. /\ run' \in [Imports -> Task] /\ run'[i].pc = "release"
        /\ \A j \in Imports \ {i} : run'[j] = run[j]
    BY <1>3, GotoTask
  <2>3. TypeOK'
    BY <1>1, <2>1, <2>2, BudgetType DEF TypeOK, library
  <2>4. Formed'
    <3>1. imp[i].user \in Users
      BY <1>1 DEF Formed, Working
    <3> QED BY <1>1, <2>1, <2>2, <3>1 DEF Formed, Confirming, library
  <2>5. Slotted' /\ RunnerAlone' /\ RunningHasOwner'
    BY <1>1, <2>1, <2>2, TaskEnds
  <2> QED BY <2>3, <2>4, <2>5
<1> QED BY <1>2, <1>3 DEF RunFinish, RunFail, RunPanics

LEMMA RunReleaseKeeps ==
  ASSUME IInv, NEW i \in Imports, RunRelease(i)
  PROVE  IInv'
<1> USE DEF IInv
<1>1. /\ run[i].pc = "release"
      /\ UNCHANGED <<imp, starting, conf, undo, library, ends, acts, faults>>
  BY DEF RunRelease, NoFault
<1>2. /\ \A j \in Imports \ {i} : run[j].pc = "idle"
      /\ \A u \in Users : starting[u] = None
  BY <1>1 DEF RunnerAlone
<1>3. IdleRun \in Task /\ IdleRun.pc = "idle"
  BY DEF IdleRun, Task
<1>4. /\ run' \in [Imports -> Task] /\ run'[i] = IdleRun
      /\ \A j \in Imports : run'[j].pc = "idle"
      /\ \A j \in Imports \ {i} : run'[j] = run[j]
  BY <1>2, <1>3 DEF RunRelease, TypeOK
<1>5. slot' \in [running : BOOLEAN, imp : Imports \cup {None}]
  BY DEF RunRelease, TypeOK
<1>6. TypeOK'
  BY <1>1, <1>4, <1>5 DEF TypeOK, library, ends
<1>7. Formed'
  BY <1>1, <1>3, <1>4 DEF Formed, Confirming, library
<1>8. Slotted' /\ RunnerAlone'
  BY <1>1, <1>2, <1>4 DEF Slotted, RunnerAlone, Working
<1>9. RunningHasOwner'
  BY <1>1, <1>2, <1>4 DEF RunningHasOwner, Working, ends
<1> QED BY <1>6, <1>7, <1>8, <1>9

LEMMA StartClaimKeeps ==
  ASSUME IInv, NEW u \in Users, NEW i \in Imports, StartClaim(u, i)
  PROVE  IInv'
<1> USE DEF IInv
<1>1. /\ imp[i].status = "none" /\ slot' = [running |-> TRUE, imp |-> i]
      /\ UNCHANGED <<imp, run, conf, undo, library, ends>>
  BY DEF StartClaim, Fresh, Unclaimed
<1>2. (\A j \in Imports : run[j].pc = "idle") /\ (\A v \in Users : starting[v] = None)
  BY DEF StartClaim, TypeOK, RunnerAlone, Slotted
<1>3. /\ starting' \in [Users -> Imports \cup {None}] /\ starting'[u] = i
      /\ \A v \in Users \ {u} : starting'[v] = None
  BY <1>2 DEF StartClaim, TypeOK
<1>4. TypeOK'
  BY <1>1, <1>3, BudgetType DEF TypeOK, library, ends, StartClaim
<1>5. Formed'
  BY <1>1 DEF Formed, Confirming, library
<1>6. Slotted'
  BY <1>1, <1>2, <1>3 DEF Slotted
<1>7. RunnerAlone' /\ RunningHasOwner'
  BY <1>1, <1>2 DEF RunnerAlone, RunningHasOwner, Working, ends
<1> QED BY <1>4, <1>5, <1>6, <1>7

\* The end of start(): the row and the task, the slot given back, or the request
\* dropped with the slot.
LEMMA StartEndKeeps ==
  ASSUME IInv, NEW u \in Users, StartCreate(u) \/ StartDropped(u)
  PROVE  IInv'
<1> USE DEF IInv
<1> DEFINE m == starting[u]
           row == [status |-> "running", source |-> "readarr", user |-> u]
<1>1. /\ m \in Imports /\ starting' = [starting EXCEPT ![u] = None]
      /\ UNCHANGED <<conf, undo, library>> /\ (Act \/ Fault \/ NoFault)
  BY DEF StartCreate, StartDropped, TypeOK
<1>2. /\ imp[m].status = "none" /\ undo[m].pc = "idle" /\ ~Confirming(m)
      /\ slot = [running |-> TRUE, imp |-> m]
      /\ \A j \in Imports : run[j].pc = "idle"
  BY <1>1, NoneAssumption DEF Slotted, Formed
<1>3. starting' \in [Users -> Imports \cup {None}] /\ \A v \in Users : starting'[v] = None
  BY <1>1, NoneAssumption DEF Slotted, TypeOK
<1>4. row \in Row /\ row.status = "running" /\ row.source = "readarr" /\ row.user = u
  BY DEF Row
<1>5. CASE imp' = [imp EXCEPT ![m] = row] /\ run' = [run EXCEPT ![m].pc = "fetch"] /\ UNCHANGED <<slot, ends>>
  <2>1. /\ imp' \in [Imports -> Row] /\ imp'[m] = row /\ \A j \in Imports \ {m} : imp'[j] = imp[j]
    BY <1>1, <1>4, <1>5 DEF TypeOK
  <2>2. /\ run' \in [Imports -> Task] /\ run'[m].pc = "fetch"
        /\ \A j \in Imports \ {m} : run'[j] = run[j]
    <3>1. run[m] \in Task /\ run \in [Imports -> Task]
      BY <1>1 DEF TypeOK
    <3>2. [run[m] EXCEPT !.pc = "fetch"] \in Task /\ [run[m] EXCEPT !.pc = "fetch"].pc = "fetch"
      BY <3>1 DEF Task
    <3>3. run' = [run EXCEPT ![m] = [run[m] EXCEPT !.pc = "fetch"]]
      BY <1>5, <3>1 DEF Task
    <3> QED BY <1>1, <3>1, <3>2, <3>3
  <2>3. TypeOK'
    BY <1>1, <1>3, <1>5, <2>1, <2>2, BudgetType DEF TypeOK, library, ends
  <2>4. Formed'
    BY <1>1, <1>4, <2>1, <2>2 DEF Formed, Confirming, library
  <2>5. Slotted'
    BY <1>1, <1>2, <1>3, <1>4, <2>1, <2>2 DEF Slotted
  <2>6. RunnerAlone'
    BY <1>1, <1>2, <1>3, <1>4, <1>5, <2>1, <2>2 DEF RunnerAlone, Working
  <2>7. RunningHasOwner'
    BY <1>1, <1>2, <1>4, <1>5, <2>1, <2>2 DEF RunningHasOwner, Working, ends
  <2> QED BY <2>3, <2>4, <2>5, <2>6, <2>7
<1>6. CASE slot' = [slot EXCEPT !.running = FALSE] /\ UNCHANGED <<imp, run, ends>>
  <2>1. slot' \in [running : BOOLEAN, imp : Imports \cup {None}]
    BY <1>6 DEF TypeOK
  <2>2. TypeOK'
    BY <1>1, <1>3, <1>6, <2>1, BudgetType DEF TypeOK, library, ends
  <2>3. Formed'
    BY <1>1, <1>6 DEF Formed, Confirming, library
  <2>4. Slotted' /\ RunnerAlone'
    BY <1>2, <1>3, <1>6 DEF Slotted, RunnerAlone, Working
  <2>5. RunningHasOwner'
    BY <1>6 DEF RunningHasOwner, Working, ends
  <2> QED BY <2>2, <2>3, <2>4, <2>5
<1>7. CASE imp' = [imp EXCEPT ![m] = row] /\ lost' = lost \cup {m} /\ held' = TRUE /\ UNCHANGED <<slot, run>>
  <2>1. /\ imp' \in [Imports -> Row] /\ imp'[m] = row /\ \A j \in Imports \ {m} : imp'[j] = imp[j]
    BY <1>1, <1>4, <1>7 DEF TypeOK
  <2>2. lost' \subseteq Imports /\ held' \in BOOLEAN
    BY <1>1, <1>7 DEF TypeOK
  <2>3. TypeOK'
    BY <1>1, <1>3, <1>7, <2>1, <2>2, BudgetType DEF TypeOK, library
  <2>4. Formed'
    BY <1>1, <1>4, <1>7, <2>1 DEF Formed, Confirming, library
  <2>5. Slotted' /\ RunnerAlone'
    BY <1>2, <1>3, <1>7 DEF Slotted, RunnerAlone, Working
  <2>6. RunningHasOwner'
    BY <1>1, <1>2, <1>7, <2>1 DEF RunningHasOwner, Working
  <2> QED BY <2>3, <2>4, <2>5, <2>6
<1>8. CASE held' = TRUE /\ UNCHANGED <<imp, lost, slot, run>>
  <2>1. held' \in BOOLEAN
    BY <1>8
  <2>2. TypeOK'
    BY <1>1, <1>3, <1>8, <2>1, BudgetType DEF TypeOK, library
  <2>3. Formed'
    BY <1>1, <1>8 DEF Formed, Confirming, library
  <2>4. Slotted' /\ RunnerAlone' /\ RunningHasOwner'
    BY <1>2, <1>3, <1>8 DEF Slotted, RunnerAlone, RunningHasOwner, Working
  <2> QED BY <2>2, <2>3, <2>4
<1> QED BY <1>5, <1>6, <1>7, <1>8 DEF StartCreate, StartDropped

\* A step of a confirm request.
LEMMA ConfirmGoesOn ==
  ASSUME IInv, NEW i \in Imports, imp[i].status # "none",
         UNCHANGED <<imp, slot, starting, run, lost>>,
         \A j \in Imports : undo'[j].pc = undo[j].pc,
         \A j \in Imports \ {i} : conf'[j] = conf[j],
         \A w \in Works : work'[w].state = "live" => work'[w].key \in Keys
  PROVE  Formed' /\ Slotted' /\ RunnerAlone' /\ RunningHasOwner'
<1>1. Formed'
  BY DEF IInv, Formed, Confirming
<1> QED BY <1>1, ControlKept

\* A record of the request is replaced.
LEMMA PutConfirm ==
  ASSUME TypeOK, NEW i \in Imports, NEW b \in Books, NEW c \in Confirm,
         conf' = [conf EXCEPT ![i][b] = c]
  PROVE  conf' \in [Imports -> [Books -> Confirm]] /\ \A j \in Imports \ {i} : conf'[j] = conf[j]
<1>1. conf \in [Imports -> [Books -> Confirm]] /\ conf[i] \in [Books -> Confirm]
  BY DEF TypeOK
<1>2. [conf[i] EXCEPT ![b] = c] \in [Books -> Confirm]
  BY <1>1
<1>3. conf' = [conf EXCEPT ![i] = [conf[i] EXCEPT ![b] = c]]
  BY <1>1
<1> QED BY <1>1, <1>2, <1>3

LEMMA IdleConfirm == IdleConf \in [Books -> Confirm] /\ \A b \in Books : IdleConf[b] \in Confirm
BY DEF IdleConf, Confirm

LEMMA BatchType == ASSUME NEW C PROVE Batch(C) \in [Books -> Confirm]
BY DEF Batch, IdleConf, Confirm

LEMMA ConfirmNewKeeps ==
  ASSUME IInv, NEW u \in Users, NEW i \in Imports, NEW C \in SUBSET Books, ConfirmNew(u, i, C)
  PROVE  IInv'
<1> USE DEF IInv
<1> DEFINE row == [status |-> "running", source |-> "list", user |-> u]
<1>1. /\ imp[i].status = "none" /\ \A v \in Users : starting[v] # i
      /\ imp' = [imp EXCEPT ![i] = row] /\ conf' = [conf EXCEPT ![i] = Batch(C)]
      /\ UNCHANGED <<slot, starting, run, undo, library, ends>> /\ Act
  BY DEF ConfirmNew, Fresh, Unclaimed
<1>2. row \in Row /\ row.status = "running" /\ row.source = "list" /\ row.user = u
  BY DEF Row
<1>3. imp' \in [Imports -> Row] /\ imp'[i] = row /\ \A j \in Imports \ {i} : imp'[j] = imp[j]
  BY <1>1, <1>2 DEF TypeOK
<1>4. conf' \in [Imports -> [Books -> Confirm]] /\ \A j \in Imports \ {i} : conf'[j] = conf[j]
  BY <1>1, BatchType DEF TypeOK
<1>5. run[i].pc = "idle" /\ undo[i].pc = "idle"
  BY <1>1 DEF Formed
<1>6. TypeOK'
  BY <1>1, <1>3, <1>4, BudgetType DEF TypeOK, library, ends
<1>7. Formed'
  BY <1>1, <1>2, <1>3, <1>4, <1>5 DEF Formed, Confirming, library
<1>8. Slotted'
  BY <1>1, <1>3, <1>5 DEF Slotted, TypeOK
<1>9. RunnerAlone' /\ RunningHasOwner'
  BY <1>1, <1>2, <1>3, <1>5 DEF RunnerAlone, RunningHasOwner, Working, ends
<1> QED BY <1>6, <1>7, <1>8, <1>9

LEMMA ConfirmMoreKeeps ==
  ASSUME IInv, NEW i \in Imports, NEW C \in SUBSET Books, ConfirmMore(i, C)
  PROVE  IInv'
<1> USE DEF IInv
<1>1. /\ imp[i].status # "none" /\ UNCHANGED <<imp, slot, starting, run, undo, library, ends>> /\ Act
      /\ conf' = [conf EXCEPT ![i] = Batch(C)]
  BY DEF ConfirmMore
<1>2. conf' \in [Imports -> [Books -> Confirm]] /\ \A j \in Imports \ {i} : conf'[j] = conf[j]
  BY <1>1, BatchType DEF TypeOK
<1>3. TypeOK'
  BY <1>1, <1>2, BudgetType DEF TypeOK, library, ends
<1>4. Formed' /\ Slotted' /\ RunnerAlone' /\ RunningHasOwner'
  BY <1>1, <1>2, ConfirmGoesOn, WorksKept DEF library, ends
<1> QED BY <1>3, <1>4

\* The request's own import is in use, and so has a user.
LEMMA ConfirmKey ==
  ASSUME IInv, NEW i \in Imports, NEW b \in Books, conf[i][b].pc # "idle"
  PROVE  imp[i].status # "none" /\ Of(i, b) \in Keys
<1>1. imp[i].status # "none"
  BY DEF IInv, Formed, Confirming
<1> QED BY <1>1, OfKey DEF IInv

LEMMA ConfirmAuthorKeeps ==
  ASSUME IInv, NEW i \in Imports, NEW b \in Books, ConfirmAuthor(i, b)
  PROVE  IInv'
<1> USE DEF IInv
<1> DEFINE k == Of(i, b)
<1>1. /\ imp[i].status # "none" /\ k \in Keys
      /\ UNCHANGED <<imp, slot, starting, run, undo, work, item, disk, intent, ends>>
  BY ConfirmKey DEF ConfirmAuthor
<1>2. author' \in [Keys -> Author] /\ (author' = Gated(k, None) => author'[k].row \in Nat)
  BY <1>1, GatedType DEF ConfirmAuthor, TypeOK
<1>3. conf' \in [Imports -> [Books -> Confirm]] /\ \A j \in Imports \ {i} : conf'[j] = conf[j]
  <2>1. conf[i][b] \in Confirm
    BY DEF TypeOK
  <2>2. CASE author' = Gated(k, None)
             /\ conf' = [conf EXCEPT ![i][b] = [@ EXCEPT !.pc = "settle", !.author = author'[k].row]]
    <3> DEFINE c == [conf[i][b] EXCEPT !.pc = "settle", !.author = author'[k].row]
    <3>1. c \in Confirm
      BY <1>2, <2>1, <2>2 DEF Confirm
    <3>2. conf' = [conf EXCEPT ![i][b] = c]
      BY <2>2 DEF TypeOK
    <3> QED BY <3>1, <3>2, PutConfirm
  <2>3. CASE conf' = [conf EXCEPT ![i][b] = IdleConf[b]]
    BY <2>3, PutConfirm, IdleConfirm
  <2> QED BY <2>2, <2>3 DEF ConfirmAuthor
<1>4. TypeOK'
  BY <1>1, <1>2, <1>3, BudgetType DEF TypeOK, ends, ConfirmAuthor
<1>5. Formed' /\ Slotted' /\ RunnerAlone' /\ RunningHasOwner'
  BY <1>1, <1>3, ConfirmGoesOn, WorksKept DEF ends
<1> QED BY <1>4, <1>5

LEMMA ConfirmSettleKeeps ==
  ASSUME IInv, NEW i \in Imports, NEW b \in Books, ConfirmSettle(i, b)
  PROVE  IInv'
<1> USE DEF IInv
<1>1. /\ imp[i].status # "none" /\ Of(i, b) \in Keys
      /\ UNCHANGED <<imp, slot, starting, run, undo, author, item, disk, intent, ends, acts, faults>>
  BY ConfirmKey DEF ConfirmSettle, NoFault
<1>2. PICK w \in Works \cup {None} :
        /\ work' = Created(Of(i, b), w, i)
        /\ conf' = [conf EXCEPT ![i][b] =
             IF w \in Unused THEN [@ EXCEPT !.pc = "tag", !.work = w] ELSE IdleConf[b]]
  BY DEF ConfirmSettle
<1>3. /\ work' \in [Works -> Work]
      /\ \A v \in Works : work'[v].state = "live" => work'[v].key \in Keys
  BY <1>1, <1>2, CreatedType
<1>4. conf' \in [Imports -> [Books -> Confirm]] /\ \A j \in Imports \ {i} : conf'[j] = conf[j]
  <2> DEFINE c == IF w \in Unused THEN [conf[i][b] EXCEPT !.pc = "tag", !.work = w] ELSE IdleConf[b]
  <2>1. conf[i][b] \in Confirm
    BY DEF TypeOK
  <2>2. c \in Confirm
    BY <2>1, IdleConfirm DEF Confirm
  <2>3. conf' = [conf EXCEPT ![i][b] = c]
    BY <1>2 DEF TypeOK
  <2> QED BY <2>2, <2>3, PutConfirm
<1>5. TypeOK'
  BY <1>1, <1>3, <1>4 DEF TypeOK, ends
<1>6. Formed' /\ Slotted' /\ RunnerAlone' /\ RunningHasOwner'
  BY <1>1, <1>3, <1>4, ConfirmGoesOn DEF ends
<1> QED BY <1>5, <1>6

LEMMA ConfirmTagKeeps ==
  ASSUME IInv, NEW i \in Imports, NEW b \in Books, ConfirmTag(i, b)
  PROVE  IInv'
<1> USE DEF IInv
<1>1. /\ imp[i].status # "none" /\ conf' = [conf EXCEPT ![i][b] = IdleConf[b]]
      /\ UNCHANGED <<imp, slot, starting, run, undo, author, item, disk, intent, ends>>
  BY ConfirmKey DEF ConfirmTag
<1>2. /\ work' \in [Works -> Work]
      /\ \A v \in Works : work'[v].state = "live" => work'[v].key \in Keys
  <2>1. CASE work' = work
    BY <2>1 DEF TypeOK, Formed
  <2>2. CASE work' = [work EXCEPT ![conf[i][b].work].tag = i]
    <3> DEFINE x == conf[i][b].work
    <3>1. \A v \in Works : work[v] \in Work /\ [work[v] EXCEPT !.tag = i] \in Work
             /\ [work[v] EXCEPT !.tag = i].state = work[v].state /\ [work[v] EXCEPT !.tag = i].key = work[v].key
      BY DEF TypeOK, Work
    <3>2. \A v \in Works : work'[v] = IF v = x THEN [work[v] EXCEPT !.tag = i] ELSE work[v]
      BY <2>2 DEF TypeOK
    <3>3. work' \in [Works -> Work]
      BY <2>2, <3>1, <3>2 DEF TypeOK
    <3>4. \A v \in Works : work'[v].state = work[v].state /\ work'[v].key = work[v].key
      BY ONLY <3>1, <3>2
    <3>5. \A v \in Works : work[v].state = "live" => work[v].key \in Keys
      BY DEF Formed
    <3>6. \A v \in Works : work'[v].state = "live" => work'[v].key \in Keys
      BY ONLY <3>4, <3>5
    <3> QED BY ONLY <3>3, <3>6
  <2> QED BY <2>1, <2>2 DEF ConfirmTag
<1>3. conf' \in [Imports -> [Books -> Confirm]] /\ \A j \in Imports \ {i} : conf'[j] = conf[j]
  BY <1>1, PutConfirm, IdleConfirm
<1>4. TypeOK'
  BY <1>1, <1>2, <1>3, BudgetType DEF TypeOK, ends, ConfirmTag
<1>5. Formed' /\ Slotted' /\ RunnerAlone' /\ RunningHasOwner'
  BY <1>1, <1>2, <1>3, ConfirmGoesOn DEF ends
<1> QED BY <1>4, <1>5

LEMMA ConfirmDroppedKeeps ==
  ASSUME IInv, NEW i \in Imports, ConfirmDropped(i)
  PROVE  IInv'
<1> USE DEF IInv
<1>1. /\ imp[i].status # "none" /\ conf' = [conf EXCEPT ![i] = IdleConf] /\ Fault
      /\ UNCHANGED <<imp, slot, starting, run, undo, library, ends>>
  BY DEF ConfirmDropped, Formed
<1>2. conf' \in [Imports -> [Books -> Confirm]] /\ \A j \in Imports \ {i} : conf'[j] = conf[j]
  BY <1>1, IdleConfirm DEF TypeOK
<1>3. TypeOK'
  BY <1>1, <1>2, BudgetType DEF TypeOK, library, ends
<1>4. Formed' /\ Slotted' /\ RunnerAlone' /\ RunningHasOwner'
  BY <1>1, <1>2, ConfirmGoesOn, WorksKept DEF library, ends
<1> QED BY <1>3, <1>4

\* A row that is completed or undone from outside, whether or not a task is at work.
LEMMA RowEnds ==
  ASSUME IInv, NEW i \in Imports, imp[i].status # "none",
         NEW s \in {"completed", "undone"}, imp' = [imp EXCEPT ![i].status = s],
         UNCHANGED <<slot, starting, run, conf, work, lost>>,
         \A j \in Imports : undo[j].pc = "idle" => undo'[j].pc = "idle"
  PROVE  imp' \in [Imports -> Row] /\ Formed' /\ Slotted' /\ RunnerAlone' /\ RunningHasOwner'
<1> USE DEF IInv
<1>1. imp \in [Imports -> Row] /\ imp[i] \in Row
  BY DEF TypeOK
<1>2. /\ [imp[i] EXCEPT !.status = s] \in Row /\ [imp[i] EXCEPT !.status = s].status = s
      /\ [imp[i] EXCEPT !.status = s].user = imp[i].user /\ [imp[i] EXCEPT !.status = s].source = imp[i].source
  BY <1>1 DEF Row
<1>3. imp' = [imp EXCEPT ![i] = [imp[i] EXCEPT !.status = s]]
  BY <1>1 DEF Row
<1>4. /\ imp' \in [Imports -> Row] /\ imp'[i].status = s /\ imp'[i].user = imp[i].user
      /\ imp'[i].source = imp[i].source /\ \A j \in Imports \ {i} : imp'[j] = imp[j]
  BY <1>1, <1>2, <1>3
<1>5. Formed'
  BY <1>4 DEF Formed, Confirming
<1>6. Slotted'
  BY <1>4 DEF Slotted, TypeOK
<1>7. RunnerAlone' /\ RunningHasOwner'
  BY <1>4 DEF RunnerAlone, RunningHasOwner, Working
<1> QED BY <1>4, <1>5, <1>6, <1>7

LEMMA CompleteKeeps ==
  ASSUME IInv, NEW i \in Imports, Complete(i)
  PROVE  IInv'
<1> USE DEF IInv
<1>1. /\ imp[i].status = "running" /\ Act
      /\ imp' = [imp EXCEPT ![i].status = "completed"]
      /\ UNCHANGED <<slot, starting, run, conf, undo, library, ends>>
  BY DEF Complete, requests
<1>2. imp' \in [Imports -> Row] /\ Formed' /\ Slotted' /\ RunnerAlone' /\ RunningHasOwner'
  BY <1>1, RowEnds DEF library, ends
<1>3. TypeOK'
  BY <1>1, <1>2, BudgetType DEF TypeOK, library, ends
<1> QED BY <1>2, <1>3

\* A step of an undo.
LEMMA UndoGoesOn ==
  ASSUME IInv, NEW i \in Imports, imp[i].status # "none",
         UNCHANGED <<imp, slot, starting, run, conf, lost>>,
         \A j \in Imports \ {i} : undo'[j] = undo[j],
         \A w \in Works : work'[w].state = "live" => work'[w].key \in Keys
  PROVE  Formed' /\ Slotted' /\ RunnerAlone' /\ RunningHasOwner'
<1>1. Formed'
  BY DEF IInv, Formed, Confirming
<1> QED BY <1>1, ControlKept

\* An undo that is under way has an import.
LEMMA UndoHasImport ==
  ASSUME IInv, NEW i \in Imports, undo[i].pc # "idle"
  PROVE  imp[i].status # "none"
BY DEF IInv, Formed

\* The request's record is replaced.
LEMMA PutUndo ==
  ASSUME TypeOK, NEW i \in Imports, NEW r \in Undo, undo' = [undo EXCEPT ![i] = r]
  PROVE  undo' \in [Imports -> Undo] /\ undo'[i] = r /\ \A j \in Imports \ {i} : undo'[j] = undo[j]
BY DEF TypeOK

LEMMA UndoGoto ==
  ASSUME TypeOK, NEW i \in Imports, NEW pc \in {"rows", "authors", "mark"},
         undo' = [undo EXCEPT ![i].pc = pc]
  PROVE  undo' \in [Imports -> Undo] /\ \A j \in Imports \ {i} : undo'[j] = undo[j]
<1>1. undo \in [Imports -> Undo] /\ undo[i] \in Undo
  BY DEF TypeOK
<1>2. [undo[i] EXCEPT !.pc = pc] \in Undo
  BY <1>1 DEF Undo
<1>3. undo' = [undo EXCEPT ![i] = [undo[i] EXCEPT !.pc = pc]]
  BY <1>1 DEF Undo
<1> QED BY <1>2, <1>3, PutUndo

LEMMA UndoIdle == IdleUndo \in Undo
BY DEF IdleUndo, Undo

\* The list endpoint's undo, of any import, also while its task is at work.
LEMMA ListUndoKeeps ==
  ASSUME IInv, NEW i \in Imports, ListUndo(i)
  PROVE  IInv'
<1> USE DEF IInv
<1> DEFINE A == {<<work[w].key, author[work[w].key].row>> : w \in Tagged(i)}
           r == [IdleUndo EXCEPT !.pc = "works", !.works = Tagged(i), !.authors = A]
<1>1. /\ imp[i].status # "none" /\ Act
      /\ undo' = [undo EXCEPT ![i] = r]
      /\ UNCHANGED <<imp, slot, starting, run, conf, library, ends>>
  BY DEF ListUndo
<1>2. r \in Undo
  <2>1. Tagged(i) \subseteq Works
    BY DEF Tagged
  <2>2. \A w \in Tagged(i) : work[w].key \in Keys /\ author[work[w].key].row \in Nat
    BY DEF Tagged, Formed, TypeOK, Author
  <2>3. A \in SUBSET (Keys \X Nat)
    BY <2>2
  <2> HIDE DEF A
  <2> QED BY <2>1, <2>3 DEF IdleUndo, Undo
<1>3. undo' \in [Imports -> Undo] /\ \A j \in Imports \ {i} : undo'[j] = undo[j]
  BY <1>1, <1>2, PutUndo
<1>4. TypeOK'
  BY <1>1, <1>3, BudgetType DEF TypeOK, library, ends
<1>5. Formed' /\ Slotted' /\ RunnerAlone' /\ RunningHasOwner'
  BY <1>1, <1>3, UndoGoesOn, WorksKept DEF library, ends
<1> QED BY <1>4, <1>5

LEMMA ReadarrUndoKeeps ==
  ASSUME IInv, NEW i \in Imports, ReadarrUndo(i)
  PROVE  IInv'
<1> USE DEF IInv
<1> DEFINE X == {<<k, item[k].row>> : k \in {x \in Keys : item[x].tag = i}}
           r == [IdleUndo EXCEPT !.pc = "files", !.items = X]
<1>1. /\ imp[i].status # "none" /\ Act
      /\ undo' = [undo EXCEPT ![i] = r]
      /\ UNCHANGED <<imp, slot, starting, run, conf, library, ends>>
  BY DEF ReadarrUndo
<1>2. r \in Undo
  <2>1. \A k \in Keys : item[k].row \in Nat
    BY DEF TypeOK, Item
  <2>2. X \in SUBSET (Keys \X Nat)
    BY <2>1
  <2> HIDE DEF X
  <2> QED BY <2>2 DEF IdleUndo, Undo
<1>3. undo' \in [Imports -> Undo] /\ \A j \in Imports \ {i} : undo'[j] = undo[j]
  BY <1>1, <1>2, PutUndo
<1>4. TypeOK'
  BY <1>1, <1>3, BudgetType DEF TypeOK, library, ends
<1>5. Formed' /\ Slotted' /\ RunnerAlone' /\ RunningHasOwner'
  BY <1>1, <1>3, UndoGoesOn, WorksKept DEF library, ends
<1> QED BY <1>4, <1>5

LEMMA UndoWorkKeeps ==
  ASSUME IInv, NEW i \in Imports, NEW w \in Works, UndoWork(i, w)
  PROVE  IInv'
<1> USE DEF IInv
<1>1. /\ undo[i].pc # "idle" /\ UNCHANGED <<imp, slot, starting, run, conf, author, disk, ends>>
      /\ Fault \/ NoFault
  BY DEF UndoWork
<1>2. imp[i].status # "none"
  BY <1>1, UndoHasImport
<1>3. /\ work' \in [Works -> Work] /\ item' \in [Keys -> Item] /\ intent' \in [Keys -> Intent]
      /\ \A v \in Works : work'[v].state = "live" => work'[v].key \in Keys
  <2>1. CASE Cascade({w})
    BY <2>1, CascadeType
  <2>2. CASE UNCHANGED <<work, item, intent>>
    BY <2>2 DEF TypeOK, Formed
  <2> QED BY <2>1, <2>2 DEF UndoWork
<1>4. undo' \in [Imports -> Undo] /\ \A j \in Imports \ {i} : undo'[j] = undo[j]
  <2> DEFINE r == [undo[i] EXCEPT !.works = undo[i].works \ {w}]
  <2>1. undo \in [Imports -> Undo] /\ undo[i] \in Undo
    BY DEF TypeOK
  <2>2. r \in Undo
    BY <2>1 DEF Undo
  <2>3. undo' = [undo EXCEPT ![i] = r]
    BY <2>1 DEF UndoWork, Undo
  <2> HIDE DEF r
  <2> QED BY <2>2, <2>3, PutUndo
<1>5. TypeOK'
  BY <1>1, <1>3, <1>4, BudgetType DEF TypeOK, ends
<1>6. Formed' /\ Slotted' /\ RunnerAlone' /\ RunningHasOwner'
  BY <1>1, <1>2, <1>3, <1>4, UndoGoesOn DEF ends
<1> QED BY <1>5, <1>6

\* The two undos' deletions of authors.
LEMMA UndoAuthorsKeep ==
  ASSUME IInv, NEW i \in Imports, UndoListAuthors(i) \/ UndoAuthors(i)
  PROVE  IInv'
<1> USE DEF IInv
<1>1. /\ undo[i].pc # "idle" /\ undo' = [undo EXCEPT ![i].pc = "mark"]
      /\ UNCHANGED <<imp, slot, starting, run, conf, work, item, disk, intent, ends>>
      /\ Fault \/ NoFault
  BY DEF UndoListAuthors, UndoAuthors
<1>2. imp[i].status # "none"
  BY <1>1, UndoHasImport
<1>3. author' \in [Keys -> Author]
  BY WithoutAuthorsType DEF UndoListAuthors, UndoAuthors, TypeOK
<1>4. undo' \in [Imports -> Undo] /\ \A j \in Imports \ {i} : undo'[j] = undo[j]
  BY <1>1, UndoGoto
<1>5. TypeOK'
  BY <1>1, <1>3, <1>4, BudgetType DEF TypeOK, ends
<1>6. Formed' /\ Slotted' /\ RunnerAlone' /\ RunningHasOwner'
  BY <1>1, <1>2, <1>4, UndoGoesOn, WorksKept DEF ends
<1> QED BY <1>5, <1>6

LEMMA UndoFilesKeeps ==
  ASSUME IInv, NEW i \in Imports, UndoFiles(i)
  PROVE  IInv'
<1> USE DEF IInv
<1>1. /\ undo[i].pc # "idle" /\ undo' = [undo EXCEPT ![i].pc = "rows"]
      /\ UNCHANGED <<imp, slot, starting, run, conf, author, work, item, intent, ends>>
      /\ Fault \/ NoFault
  BY DEF UndoFiles
<1>2. imp[i].status # "none"
  BY <1>1, UndoHasImport
<1>3. disk' \subseteq Keys
  BY DEF UndoFiles, TypeOK
<1>4. undo' \in [Imports -> Undo] /\ \A j \in Imports \ {i} : undo'[j] = undo[j]
  BY <1>1, UndoGoto
<1>5. TypeOK'
  BY <1>1, <1>3, <1>4, BudgetType DEF TypeOK, ends
<1>6. Formed' /\ Slotted' /\ RunnerAlone' /\ RunningHasOwner'
  BY <1>1, <1>2, <1>4, UndoGoesOn, WorksKept DEF ends
<1> QED BY <1>5, <1>6

LEMMA UndoRowKeeps ==
  ASSUME IInv, NEW i \in Imports, UndoRow(i)
  PROVE  IInv'
<1> USE DEF IInv
<1>1. /\ undo[i].pc = "rows"
      /\ UNCHANGED <<imp, slot, starting, run, conf, author, work, disk, intent, ends>>
      /\ Fault \/ NoFault
  BY DEF UndoRow
<1>2. imp[i].status # "none"
  BY <1>1, UndoHasImport
<1>3. undo \in [Imports -> Undo] /\ undo[i] \in Undo /\ undo[i].items \in SUBSET (Keys \X Nat)
  BY DEF TypeOK, Undo
<1>4. PICK x \in undo[i].items :
        /\ \/ item' = item
           \/ item' = [item EXCEPT ![x[1]] = [NoItem EXCEPT !.row = x[2]]]
        /\ undo' = [undo EXCEPT ![i].items = @ \ {x}]
  BY DEF UndoRow
<1>5. item' \in [Keys -> Item]
  <2>1. x[1] \in Keys /\ x[2] \in Nat
    BY <1>3
  <2>2. [NoItem EXCEPT !.row = x[2]] \in Item
    BY <2>1 DEF NoItem, Item
  <2> QED BY <1>4, <2>1, <2>2 DEF TypeOK
<1>6. undo' \in [Imports -> Undo] /\ \A j \in Imports \ {i} : undo'[j] = undo[j]
  <2> DEFINE r == [undo[i] EXCEPT !.items = undo[i].items \ {x}]
  <2>2. r \in Undo
    BY <1>3 DEF Undo
  <2>3. undo' = [undo EXCEPT ![i] = r]
    BY <1>3, <1>4 DEF Undo
  <2> HIDE DEF r
  <2> QED BY <2>2, <2>3, PutUndo
<1>7. TypeOK'
  BY <1>1, <1>5, <1>6, BudgetType DEF TypeOK, ends
<1>8. Formed' /\ Slotted' /\ RunnerAlone' /\ RunningHasOwner'
  BY <1>1, <1>2, <1>6, UndoGoesOn, WorksKept DEF ends
<1> QED BY <1>7, <1>8

LEMMA UndoOrphansKeeps ==
  ASSUME IInv, NEW i \in Imports, UndoOrphans(i)
  PROVE  IInv'
<1> USE DEF IInv
<1>1. /\ undo[i].pc # "idle" /\ undo' = [undo EXCEPT ![i].pc = "authors"]
      /\ UNCHANGED <<imp, slot, starting, run, conf, author, disk, ends>>
      /\ Fault \/ NoFault
  BY DEF UndoOrphans
<1>2. imp[i].status # "none"
  BY <1>1, UndoHasImport
<1>3. /\ work' \in [Works -> Work] /\ item' \in [Keys -> Item] /\ intent' \in [Keys -> Intent]
      /\ \A v \in Works : work'[v].state = "live" => work'[v].key \in Keys
  <2> DEFINE W == {w \in Tagged(i) : item[work[w].key].work # w}
  <2>1. CASE Cascade(W)
    <3> HIDE DEF W
    <3> QED BY <2>1, CascadeType
  <2>2. CASE UNCHANGED <<work, item, intent>>
    BY <2>2 DEF TypeOK, Formed
  <2> QED BY <2>1, <2>2 DEF UndoOrphans
<1>4. undo' \in [Imports -> Undo] /\ \A j \in Imports \ {i} : undo'[j] = undo[j]
  BY <1>1, UndoGoto
<1>5. TypeOK'
  BY <1>1, <1>3, <1>4, BudgetType DEF TypeOK, ends
<1>6. Formed' /\ Slotted' /\ RunnerAlone' /\ RunningHasOwner'
  BY <1>1, <1>2, <1>3, <1>4, UndoGoesOn DEF ends
<1> QED BY <1>5, <1>6

\* An undo ends, with or without its mark.
LEMMA UndoEndKeeps ==
  ASSUME IInv, NEW i \in Imports, UndoMark(i) \/ UndoDropped(i)
  PROVE  IInv'
<1> USE DEF IInv
<1>1. /\ undo[i].pc # "idle" /\ undo' = [undo EXCEPT ![i] = IdleUndo]
      /\ UNCHANGED <<slot, starting, run, conf, library, ends>>
      /\ Fault \/ NoFault
      /\ imp' = imp \/ imp' = [imp EXCEPT ![i].status = "undone"]
  BY DEF UndoMark, UndoDropped
<1>2. imp[i].status # "none"
  BY <1>1, UndoHasImport
<1>3. /\ undo' \in [Imports -> Undo] /\ undo'[i] = IdleUndo
      /\ \A j \in Imports \ {i} : undo'[j] = undo[j]
  BY <1>1, UndoIdle, PutUndo
<1>4. \A j \in Imports : undo[j].pc = "idle" => undo'[j].pc = "idle"
  BY <1>1, <1>3
<1>5. imp' \in [Imports -> Row] /\ Formed' /\ Slotted' /\ RunnerAlone' /\ RunningHasOwner'
  <2>1. CASE imp' = imp
    <3>1. Formed' /\ Slotted' /\ RunnerAlone' /\ RunningHasOwner'
      BY <1>1, <1>2, <1>3, <2>1, UndoGoesOn, WorksKept DEF library, ends
    <3> QED BY <2>1, <3>1 DEF TypeOK
  <2>2. CASE imp' = [imp EXCEPT ![i].status = "undone"]
    BY <1>1, <1>2, <1>4, <2>2, RowEnds DEF library, ends
  <2> QED BY <1>1, <2>1, <2>2
<1>6. TypeOK'
  BY <1>1, <1>3, <1>5, BudgetType DEF TypeOK, library, ends
<1> QED BY <1>5, <1>6

\* The user's own changes touch no import.
LEMMA UserKeeps ==
  ASSUME IInv, (\E w \in Works : OwnFile(w)) \/ (\E k \in Keys : TouchAuthor(k))
  PROVE  IInv'
<1> USE DEF IInv
<1>1. UNCHANGED <<imp, slot, starting, run, conf, undo, work, intent, ends>> /\ Act
  BY DEF OwnFile, TouchAuthor, requests
<1>2. author' \in [Keys -> Author] /\ item' \in [Keys -> Item] /\ disk' \subseteq Keys
  <2>1. CASE \E w \in Works : OwnFile(w)
    <3>1. PICK w \in Works : OwnFile(w)
      BY <2>1
    <3>2. work[w].key \in Keys
      BY <3>1 DEF OwnFile, Formed
    <3>3. [row |-> item[work[w].key].row + 1, work |-> w, tag |-> None] \in Item
      BY <3>2 DEF TypeOK, Item
    <3> QED BY <3>1, <3>2, <3>3 DEF OwnFile, TypeOK
  <2>2. CASE \E k \in Keys : TouchAuthor(k)
    <3>1. PICK k \in Keys : TouchAuthor(k)
      BY <2>2
    <3>2. author \in [Keys -> Author] /\ author[k] \in Author
      BY DEF TypeOK
    <3>3. [author[k] EXCEPT !.touched = TRUE] \in Author
      BY <3>2 DEF Author
    <3>4. author' = [author EXCEPT ![k] = [author[k] EXCEPT !.touched = TRUE]]
      BY <3>1, <3>2 DEF TouchAuthor, Author
    <3> QED BY <3>1, <3>2, <3>3, <3>4 DEF TouchAuthor, TypeOK
  <2> QED BY <2>1, <2>2
<1>3. TypeOK'
  BY <1>1, <1>2, BudgetType DEF TypeOK, ends
<1>4. Formed'
  BY <1>1 DEF Formed, Confirming
<1>5. Slotted' /\ RunnerAlone' /\ RunningHasOwner'
  BY <1>1, ControlKept DEF ends
<1> QED BY <1>3, <1>4, <1>5

\* A restart leaves no task, no request and no slot; what it leaves 'running' is lost.
LEMMA RestartKeeps ==
  ASSUME IInv, Restart
  PROVE  IInv'
<1> USE DEF IInv
<1>1. /\ Fault /\ UNCHANGED <<imp, author, work, disk>>
      /\ slot' = [running |-> FALSE, imp |-> None]
      /\ starting' = [u \in Users |-> None]
      /\ run' = [i \in Imports |-> IdleRun]
      /\ conf' = [i \in Imports |-> IdleConf]
      /\ undo' = [i \in Imports |-> IdleUndo]
      /\ lost' = lost \cup {i \in Imports : imp[i].status = "running" /\ imp[i].source = "readarr"}
  BY DEF Restart
<1>2. /\ slot' \in [running : BOOLEAN, imp : Imports \cup {None}]
      /\ starting' \in [Users -> Imports \cup {None}] /\ lost' \subseteq Imports
  BY <1>1 DEF TypeOK
<1>3. /\ run' \in [Imports -> Task] /\ conf' \in [Imports -> [Books -> Confirm]]
      /\ undo' \in [Imports -> Undo]
  <2>1. IdleRun \in Task
    BY DEF IdleRun, Task
  <2> QED BY <1>1, <2>1, UndoIdle, IdleConfirm
<1>4. item' \in [Keys -> Item] /\ intent' \in [Keys -> Intent]
  <2>1. \A k \in Keys : intent[k] \in Intent /\ item[k] \in Item
    BY DEF TypeOK
  <2>2. NoIntent \in Intent
    BY DEF NoIntent, Intent
  <2>3. \A k \in Keys : Reconciled(k) => Recorded(k, intent[k].work, intent[k].tag) \in Item
    <3> SUFFICES ASSUME NEW k \in Keys, Reconciled(k)
                 PROVE  Recorded(k, intent[k].work, intent[k].tag) \in Item
      OBVIOUS
    <3>1. intent[k].work \in Works \cup {None} /\ intent[k].tag \in Imports \cup {None}
      BY <2>1 DEF Intent
    <3> QED BY <2>1, <3>1 DEF Recorded, Item
  <2> QED BY <2>1, <2>2, <2>3 DEF Restart
<1>5. held' \in BOOLEAN
  BY DEF Restart
<1>6. TypeOK'
  BY <1>1, <1>2, <1>3, <1>4, <1>5, BudgetType DEF TypeOK
<1>7. \A i \in Imports : run'[i].pc = "idle" /\ undo'[i].pc = "idle" /\ ~Confirming(i)'
  BY <1>1 DEF IdleRun, IdleUndo, IdleConf, Confirming
<1>8. Formed'
  BY <1>1, <1>7 DEF Formed
<1>9. Slotted' /\ RunnerAlone' /\ RunningHasOwner'
  BY <1>1, <1>7 DEF Slotted, RunnerAlone, RunningHasOwner, Working
<1> QED BY <1>6, <1>8, <1>9

\* Every step keeps the invariant.
LEMMA NextHolds == IInv /\ [Next]_vars => IInv'
<1> SUFFICES ASSUME IInv, [Next]_vars PROVE IInv'
  OBVIOUS
<1>1. CASE \E u \in Users, i \in Imports : StartClaim(u, i)
  BY <1>1, StartClaimKeeps
<1>2. CASE \E u \in Users : StartCreate(u) \/ StartDropped(u)
  BY <1>2, StartEndKeeps
<1>3. CASE \E i \in Imports : RunStep(i) \/ RunPanics(i)
  <2>1. PICK i \in Imports : RunStep(i) \/ RunPanics(i)
    BY <1>3
  <2>2. CASE RunFetch(i) \/ RunAuthorsDone(i) \/ RunWorksDone(i) \/ RunFilesDone(i)
    BY <2>2, PhasesKeep
  <2>3. CASE RunList(i) \/ RunRollback(i) \/ RunRecord(i) \/ RunRelease(i)
    BY <2>3, RunListKeeps, RunRollbackKeeps, RunRecordKeeps, RunReleaseKeeps
  <2>4. CASE \E b \in Books : RunAuthor(i, b) \/ RunWork(i, b) \/ RunPlace(i, b)
    BY <2>4, RunAuthorKeeps, RunWorkKeeps, RunPlaceKeeps
  <2>5. CASE RunFinish(i) \/ RunFail(i) \/ RunPanics(i)
    BY <2>5, RunEndKeeps
  <2> QED BY <2>1, <2>2, <2>3, <2>4, <2>5 DEF RunStep
<1>4. CASE \E i \in Imports : ConfirmStep(i)
  <2>1. PICK i \in Imports : ConfirmStep(i)
    BY <1>4
  <2>2. CASE \/ \E u \in Users, B \in SUBSET Books : ConfirmNew(u, i, B)
             \/ \E B \in SUBSET Books : ConfirmMore(i, B)
    BY <2>2, ConfirmNewKeeps, ConfirmMoreKeeps
  <2>3. CASE \E b \in Books : ConfirmAuthor(i, b) \/ ConfirmSettle(i, b) \/ ConfirmTag(i, b)
    BY <2>3, ConfirmAuthorKeeps, ConfirmSettleKeeps, ConfirmTagKeeps
  <2>4. CASE ConfirmDropped(i) \/ Complete(i)
    BY <2>4, ConfirmDroppedKeeps, CompleteKeeps
  <2> QED BY <2>1, <2>2, <2>3, <2>4 DEF ConfirmStep
<1>5. CASE \E i \in Imports : UndoStep(i)
  <2>1. PICK i \in Imports : UndoStep(i)
    BY <1>5
  <2>2. CASE ListUndo(i) \/ ReadarrUndo(i) \/ \E w \in Works : UndoWork(i, w)
    BY <2>2, ListUndoKeeps, ReadarrUndoKeeps, UndoWorkKeeps
  <2>3. CASE UndoListAuthors(i) \/ UndoAuthors(i)
    BY <2>3, UndoAuthorsKeep
  <2>4. CASE UndoFiles(i) \/ UndoRow(i) \/ UndoOrphans(i)
    BY <2>4, UndoFilesKeeps, UndoRowKeeps, UndoOrphansKeeps
  <2>5. CASE UndoMark(i) \/ UndoDropped(i)
    BY <2>5, UndoEndKeeps
  <2> QED BY <2>1, <2>2, <2>3, <2>4, <2>5 DEF UndoStep
<1>6. CASE (\E w \in Works : OwnFile(w)) \/ (\E k \in Keys : TouchAuthor(k))
  BY <1>6, UserKeeps
<1>7. CASE Restart
  BY <1>7, RestartKeeps
<1>8. CASE UNCHANGED vars
  <2>1. UNCHANGED <<imp, slot, starting, run, conf, undo, author, work, item, disk, intent, lost,
                    held, acts, faults>>
    BY <1>8 DEF vars
  <2>2. TypeOK' /\ Formed'
    BY <2>1 DEF IInv, TypeOK, Formed, Confirming
  <2>3. Slotted' /\ RunnerAlone' /\ RunningHasOwner'
    BY <2>1, ControlKept
  <2> QED BY <2>2, <2>3 DEF IInv
<1> QED BY <1>1, <1>2, <1>3, <1>4, <1>5, <1>6, <1>7, <1>8 DEF Next

\* The inductive invariant holds in every state.
THEOREM InvariantHolds == Spec => []IInv
BY InitHolds, NextHolds, PTL DEF Spec

\* Every table, task and request keeps its shape.
THEOREM TypesHold == Spec => []TypeOK
<1>1. IInv => TypeOK
  BY DEF IInv
<1> QED BY <1>1, InvariantHolds, PTL

\* try_claim_readarr_slot and the guard that gives the slot back: at most one Readarr
\* import works in the process and it has the slot as long as it does, whatever the
\* list endpoints do to its row meanwhile.
THEOREM RunnerIsAlone == Spec => []RunnerAlone
<1>1. IInv => RunnerAlone
  BY DEF IInv
<1> QED BY <1>1, InvariantHolds, PTL

\* A Readarr import that the table calls 'running' has a task that will end it, or it
\* was cut off: by a panic, a restart, a dropped start() or a failed status write.
THEOREM RunningIsOwned == Spec => []RunningHasOwner
<1>1. IInv => RunningHasOwner
  BY DEF IInv
<1> QED BY <1>1, InvariantHolds, PTL

-----------------------------------------------------------------------------
(* Whose works an undo takes.                                              *)

\* A step that tags nothing, creates nothing and lists nothing.
LEMMA TagsStay ==
  ASSUME Tags,
         \A w \in Works : /\ work'[w].tag = work[w].tag /\ work'[w].by = work[w].by
                          /\ work'[w].state = "unused" => work[w].state = "unused",
         \A i \in Imports, b \in Books : conf'[i][b].pc = "tag" => conf'[i][b] = conf[i][b],
         \A i \in Imports : undo'[i].works \subseteq undo[i].works
  PROVE  Tags'
BY DEF Tags

LEMMA CascadeTags ==
  ASSUME TypeOK, NEW W, Cascade(W)
  PROVE  \A w \in Works : /\ work'[w].tag = work[w].tag /\ work'[w].by = work[w].by
                          /\ work'[w].state = "unused" => work[w].state = "unused"
<1>1. \A w \in Works : /\ [work[w] EXCEPT !.state = "gone"].tag = work[w].tag
                       /\ [work[w] EXCEPT !.state = "gone"].by = work[w].by
                       /\ [work[w] EXCEPT !.state = "gone"].state = "gone"
  BY DEF TypeOK, Work
<1> QED BY <1>1 DEF Cascade, WithoutWorks

\* The road's insert takes a row that nobody has tagged, listed or is about to tag.
LEMMA CreatedTags ==
  ASSUME TypeOK, Tags, NEW k, NEW w, NEW i \in Imports
  PROVE  \A v \in Works :
           IF v = w /\ w \in Unused
           THEN Created(k, w, i)[v].tag = None /\ Created(k, w, i)[v].by = i
                /\ Created(k, w, i)[v].state = "live" /\ work[v].by = None
           ELSE Created(k, w, i)[v] = work[v]
<1>1. \A v \in Unused : v \in Works /\ work[v].by = None
  BY DEF Unused, Tags
<1> QED BY <1>1 DEF Created, TypeOK

LEMMA InitTags == Init => Tags
BY NoneAssumption DEF Init, Tags, IdleConf, IdleUndo

\* The steps that create a work.
LEMMA RunWorkTags ==
  ASSUME IInv, Tags, NEW i \in Imports, NEW b \in Books, RunWork(i, b)
  PROVE  Tags'
<1>1. PICK w : work' = Created(Of(i, b), w, i)
  BY DEF RunWork
<1>2. UNCHANGED <<conf, undo>>
  BY DEF RunWork
<1>3. \A v \in Works : IF v = w /\ w \in Unused
                      THEN work'[v].tag = None /\ work'[v].by = i /\ work'[v].state = "live"
                           /\ work[v].by = None
                      ELSE work'[v] = work[v]
  BY <1>1, CreatedTags DEF IInv
<1> QED BY ONLY <1>2, <1>3, Tags, NoneAssumption DEF Tags

LEMMA ConfirmSettleTags ==
  ASSUME IInv, Tags, NEW i \in Imports, NEW b \in Books, ConfirmSettle(i, b)
  PROVE  Tags'
<1> USE DEF IInv
<1>1. PICK w \in Works \cup {None} :
        /\ work' = Created(Of(i, b), w, i)
        /\ conf' = [conf EXCEPT ![i][b] =
             IF w \in Unused THEN [@ EXCEPT !.pc = "tag", !.work = w] ELSE IdleConf[b]]
  BY DEF ConfirmSettle
<1>2. UNCHANGED undo
  BY DEF ConfirmSettle
<1>3. \A v \in Works : IF v = w /\ w \in Unused
                      THEN work'[v].tag = None /\ work'[v].by = i /\ work'[v].state = "live"
                           /\ work[v].by = None
                      ELSE work'[v] = work[v]
  BY <1>1, CreatedTags
<1>4. \A j \in Imports, c \in Books :
        conf'[j][c].pc = "tag" =>
          conf'[j][c] = conf[j][c] \/ (j = i /\ c = b /\ conf'[j][c].work = w /\ w \in Unused)
  <2> DEFINE x == IF w \in Unused THEN [conf[i][b] EXCEPT !.pc = "tag", !.work = w] ELSE IdleConf[b]
  <2>1. conf[i][b] \in Confirm /\ conf \in [Imports -> [Books -> Confirm]]
    BY DEF TypeOK
  <2>2. x.pc = "tag" => x.work = w /\ w \in Unused
    BY <2>1 DEF Confirm, IdleConf
  <2>3. conf' = [conf EXCEPT ![i][b] = x]
    BY <1>1
  <2> HIDE DEF x
  <2> QED BY <2>1, <2>2, <2>3
<1>5. w \in Unused => w \in Works
  BY DEF Unused
<1> QED BY ONLY <1>2, <1>3, <1>4, <1>5, Tags, NoneAssumption DEF Tags

LEMMA ConfirmTagTags ==
  ASSUME IInv, Tags, NEW i \in Imports, NEW b \in Books, ConfirmTag(i, b)
  PROVE  Tags' /\ \A v \in Works : work'[v].state = work[v].state
<1> USE DEF IInv
<1> DEFINE x == conf[i][b].work
<1>1. x \in Works /\ work[x].by = i
  BY DEF ConfirmTag, Tags
<1>2. UNCHANGED undo /\ conf' = [conf EXCEPT ![i][b] = IdleConf[b]]
  BY DEF ConfirmTag
<1>3. \A j \in Imports, c \in Books : conf'[j][c].pc = "tag" => conf'[j][c] = conf[j][c]
  BY <1>2 DEF TypeOK, IdleConf
<1>4. \A v \in Works : /\ work'[v].by = work[v].by /\ work'[v].state = work[v].state
                       /\ work'[v].tag = work[v].tag \/ (v = x /\ work'[v].tag = i)
  <2>1. CASE UNCHANGED work
    BY <2>1
  <2>2. CASE work' = [work EXCEPT ![x].tag = i]
    <3>1. work \in [Works -> Work] /\ work[x] \in Work
      BY <1>1 DEF TypeOK
    <3>2. /\ [work[x] EXCEPT !.tag = i].by = work[x].by /\ [work[x] EXCEPT !.tag = i].tag = i
          /\ [work[x] EXCEPT !.tag = i].state = work[x].state
      BY <3>1 DEF Work
    <3>3. work' = [work EXCEPT ![x] = [work[x] EXCEPT !.tag = i]]
      BY <2>2, <3>1 DEF Work
    <3> HIDE DEF x
    <3> QED BY <1>1, <3>1, <3>2, <3>3
  <2> QED BY <2>1, <2>2 DEF ConfirmTag
<1> HIDE DEF x
<1>5. Tags'
  BY ONLY <1>1, <1>2, <1>3, <1>4, Tags DEF Tags
<1> QED BY <1>4, <1>5

\* ListService::undo lists what is tagged with its own import.
LEMMA ListUndoTags ==
  ASSUME IInv, Tags, NEW i \in Imports, ListUndo(i)
  PROVE  Tags'
<1> USE DEF IInv
<1> DEFINE A == {<<work[w].key, author[work[w].key].row>> : w \in Tagged(i)}
           r == [IdleUndo EXCEPT !.pc = "works", !.works = Tagged(i), !.authors = A]
<1>1. UNCHANGED <<work, conf>> /\ undo' = [undo EXCEPT ![i] = r]
  BY DEF ListUndo, library
<1>2. r.works = Tagged(i)
  BY DEF IdleUndo
<1> HIDE DEF r
<1>3. \A j \in Imports : undo'[j].works = undo[j].works \/ (j = i /\ undo'[j].works = Tagged(i))
  BY <1>1, <1>2 DEF TypeOK
<1>4. \A w \in Tagged(i) : work[w].by = i
  BY NoneAssumption DEF Tagged, Tags
<1> QED BY ONLY <1>1, <1>3, <1>4, Tags DEF Tags

\* The steps that delete works.
LEMMA UndoTags ==
  ASSUME IInv, Tags, NEW i \in Imports, (\E w \in Works : UndoWork(i, w)) \/ UndoOrphans(i)
  PROVE  Tags'
<1> USE DEF IInv
<1>1. UNCHANGED conf
  BY DEF UndoWork, UndoOrphans
<1>2. \A w \in Works : /\ work'[w].tag = work[w].tag /\ work'[w].by = work[w].by
                       /\ work'[w].state = "unused" => work[w].state = "unused"
  BY CascadeTags DEF UndoWork, UndoOrphans
<1>3. \A j \in Imports : undo'[j].works \subseteq undo[j].works
  <2>1. undo \in [Imports -> Undo] /\ undo[i] \in Undo
    BY DEF TypeOK
  <2>2. CASE \E w \in Works : UndoWork(i, w)
    <3>1. PICK w \in Works : undo' = [undo EXCEPT ![i].works = @ \ {w}]
      BY <2>2 DEF UndoWork
    <3> QED BY <2>1, <3>1 DEF Undo
  <2>3. CASE UndoOrphans(i)
    BY <2>1, <2>3 DEF UndoOrphans, Undo
  <2> QED BY <2>2, <2>3
<1> QED BY <1>1, <1>2, <1>3, TagsStay

\* The other steps of requests leave the works alone and put nothing on a list.
LEMMA ConfirmOtherTags ==
  ASSUME IInv, Tags, NEW i \in Imports,
         \/ \E u \in Users, B \in SUBSET Books : ConfirmNew(u, i, B)
         \/ \E B \in SUBSET Books : ConfirmMore(i, B)
         \/ \E b \in Books : ConfirmAuthor(i, b)
         \/ ConfirmDropped(i)
  PROVE  Tags'
<1> USE DEF IInv
<1>1. UNCHANGED <<work, undo>>
  BY DEF ConfirmNew, ConfirmMore, ConfirmAuthor, ConfirmDropped, library
<1>2. conf \in [Imports -> [Books -> Confirm]]
  BY DEF TypeOK
<1>3. \A j \in Imports, c \in Books : conf'[j][c].pc = "tag" => conf'[j][c] = conf[j][c]
  <2>1. CASE \E B \in SUBSET Books : conf' = [conf EXCEPT ![i] = Batch(B)]
    BY <1>2, <2>1 DEF Batch, IdleConf
  <2>2. CASE conf' = [conf EXCEPT ![i] = IdleConf]
    BY <1>2, <2>2 DEF IdleConf
  <2>3. CASE \E b \in Books : ConfirmAuthor(i, b)
    <3>1. PICK b \in Books : ConfirmAuthor(i, b)
      BY <2>3
    <3>2. CASE conf' = [conf EXCEPT ![i][b] = IdleConf[b]]
      BY <1>2, <3>2 DEF IdleConf
    <3>3. CASE conf' = [conf EXCEPT ![i][b] = [@ EXCEPT !.pc = "settle", !.author = author'[Of(i, b)].row]]
      <4> DEFINE x == [conf[i][b] EXCEPT !.pc = "settle", !.author = author'[Of(i, b)].row]
      <4>1. x.pc = "settle"
        BY <1>2 DEF Confirm
      <4>2. conf' = [conf EXCEPT ![i][b] = x]
        BY <3>3
      <4> HIDE DEF x
      <4> QED BY <1>2, <4>1, <4>2
    <3> QED BY <3>1, <3>2, <3>3 DEF ConfirmAuthor
  <2> QED BY <2>1, <2>2, <2>3 DEF ConfirmNew, ConfirmMore, ConfirmDropped
<1> QED BY <1>1, <1>3, TagsStay

LEMMA UndoOtherTags ==
  ASSUME IInv, Tags, NEW i \in Imports,
         UndoListAuthors(i) \/ ReadarrUndo(i) \/ UndoFiles(i) \/ UndoRow(i) \/ UndoAuthors(i)
           \/ UndoMark(i) \/ UndoDropped(i)
  PROVE  Tags'
<1> USE DEF IInv
<1>1. UNCHANGED <<work, conf>>
  BY DEF UndoListAuthors, ReadarrUndo, UndoFiles, UndoRow, UndoAuthors, UndoMark, UndoDropped, library
<1>2. undo \in [Imports -> Undo] /\ undo[i] \in Undo
  BY DEF TypeOK
<1>3. \A j \in Imports : undo'[j].works \subseteq undo[j].works
  <2>1. CASE \E pc \in {"rows", "mark"} : undo' = [undo EXCEPT ![i].pc = pc]
    BY <1>2, <2>1 DEF Undo
  <2>2. CASE undo' = [undo EXCEPT ![i] = IdleUndo]
    BY <1>2, <2>2 DEF IdleUndo
  <2>3. CASE UndoRow(i)
    <3>1. PICK x : undo' = [undo EXCEPT ![i].items = @ \ {x}]
      BY <2>3 DEF UndoRow
    <3> QED BY <1>2, <3>1 DEF Undo
  <2>4. CASE ReadarrUndo(i)
    <3> DEFINE X == {<<k, item[k].row>> : k \in {y \in Keys : item[y].tag = i}}
               r == [IdleUndo EXCEPT !.pc = "files", !.items = X]
    <3>1. undo' = [undo EXCEPT ![i] = r]
      BY <2>4 DEF ReadarrUndo
    <3>2. r.works = {}
      BY DEF IdleUndo
    <3> HIDE DEF r
    <3> QED BY <1>2, <3>1, <3>2
  <2> QED BY <2>1, <2>2, <2>3, <2>4
        DEF UndoListAuthors, UndoFiles, UndoAuthors, UndoMark, UndoDropped
<1> QED BY <1>1, <1>3, TagsStay

\* The steps that are not a request's, and a stutter.
LEMMA RestTags ==
  ASSUME IInv, Tags,
         \/ \E u \in Users, i \in Imports : StartClaim(u, i)
         \/ \E u \in Users : StartCreate(u) \/ StartDropped(u)
         \/ \E i \in Imports : RunPanics(i) \/ RunFetch(i) \/ RunList(i) \/ RunAuthorsDone(i)
              \/ RunWorksDone(i) \/ RunRollback(i) \/ RunRecord(i) \/ RunFilesDone(i)
              \/ RunFinish(i) \/ RunFail(i) \/ RunRelease(i) \/ Complete(i)
         \/ \E i \in Imports, b \in Books : RunAuthor(i, b) \/ RunPlace(i, b)
         \/ \E w \in Works : OwnFile(w)
         \/ \E k \in Keys : TouchAuthor(k)
         \/ UNCHANGED vars
  PROVE  Tags' /\ UNCHANGED work
<1>1. UNCHANGED <<work, conf, undo>>
  BY DEF StartClaim, StartCreate, StartDropped, RunPanics, RunFetch, RunList, RunAuthorsDone,
         RunWorksDone, RunRollback, RunRecord, RunFilesDone, RunFinish, RunFail, RunRelease,
         Complete, RunAuthor, RunPlace, OwnFile, TouchAuthor, vars, library, requests
<1>2. Tags'
  BY <1>1, TagsStay
<1> QED BY <1>1, <1>2

LEMMA RestartTags ==
  ASSUME Tags, Restart
  PROVE  Tags'
<1>1. /\ UNCHANGED work /\ conf' = [i \in Imports |-> IdleConf] /\ undo' = [i \in Imports |-> IdleUndo]
  BY DEF Restart
<1> QED BY <1>1 DEF Tags, IdleConf, IdleUndo

\* Every step keeps the tags, and a work that goes is the undone import's own.
LEMMA TagsStep ==
  ASSUME IInv, Tags, [Next]_vars
  PROVE  /\ Tags'
         /\ \A w \in Works : work[w].state = "live" /\ work'[w].state = "gone" =>
              \E i \in Imports : work[w].by = i /\ undo[i].pc \in {"works", "rows"}
<1> DEFINE Own == \A w \in Works : work[w].state = "live" /\ work'[w].state = "gone" =>
                    \E i \in Imports : work[w].by = i /\ undo[i].pc \in {"works", "rows"}
<1>1. CASE Restart
  <2>1. UNCHANGED work
    BY <1>1 DEF Restart
  <2> QED BY <1>1, <2>1, RestartTags
<1>2. CASE \E i \in Imports, b \in Books : RunWork(i, b) \/ ConfirmSettle(i, b)
  <2>1. PICK i \in Imports, b \in Books : RunWork(i, b) \/ ConfirmSettle(i, b)
    BY <1>2
  <2>2. Tags'
    BY <2>1, RunWorkTags, ConfirmSettleTags
  <2>3. PICK w : work' = Created(Of(i, b), w, i)
    BY <2>1 DEF RunWork, ConfirmSettle
  <2>4. \A v \in Works : work'[v].state = "live" \/ work'[v] = work[v]
    BY <2>3, CreatedTags DEF IInv
  <2> QED BY <2>2, <2>4
<1>3. CASE \E i \in Imports, b \in Books : ConfirmTag(i, b)
  <2>1. PICK i \in Imports, b \in Books : ConfirmTag(i, b)
    BY <1>3
  <2>2. Tags' /\ \A v \in Works : work'[v].state = work[v].state
    BY <2>1, ConfirmTagTags
  <2> QED BY <2>2
<1>4. CASE \E i \in Imports : ListUndo(i)
  BY <1>4, ListUndoTags DEF ListUndo, library
<1>5. CASE \E i \in Imports, w \in Works : UndoWork(i, w)
  <2>1. PICK i \in Imports, w \in Works : UndoWork(i, w)
    BY <1>5
  <2>2. Tags'
    BY <2>1, UndoTags
  <2>3. undo[i].pc = "works" /\ work[w].by = i
    BY <2>1 DEF UndoWork, Tags
  <2>4. \A v \in Works : v # w => work'[v] = work[v]
    BY <2>1 DEF UndoWork, Cascade, WithoutWorks
  <2> QED BY <2>2, <2>3, <2>4
<1>6. CASE \E i \in Imports : UndoOrphans(i)
  <2>1. PICK i \in Imports : UndoOrphans(i)
    BY <1>6
  <2>2. Tags'
    BY <2>1, UndoTags
  <2>3. undo[i].pc = "rows" /\ \A w \in Tagged(i) : work[w].by = i
    BY <2>1, NoneAssumption DEF UndoOrphans, Tagged, Tags
  <2>4. \A v \in Works : v \notin Tagged(i) => work'[v] = work[v]
    BY <2>1 DEF UndoOrphans, Cascade, WithoutWorks
  <2> QED BY <2>2, <2>3, <2>4
<1>7. CASE \E i \in Imports :
             \/ \E u \in Users, B \in SUBSET Books : ConfirmNew(u, i, B)
             \/ \E B \in SUBSET Books : ConfirmMore(i, B)
             \/ \E b \in Books : ConfirmAuthor(i, b)
             \/ ConfirmDropped(i)
  BY <1>7, ConfirmOtherTags DEF ConfirmNew, ConfirmMore, ConfirmAuthor, ConfirmDropped, library
<1>8. CASE \E i \in Imports :
             UndoListAuthors(i) \/ ReadarrUndo(i) \/ UndoFiles(i) \/ UndoRow(i) \/ UndoAuthors(i)
               \/ UndoMark(i) \/ UndoDropped(i)
  <2>1. UNCHANGED work
    BY <1>8 DEF UndoListAuthors, ReadarrUndo, UndoFiles, UndoRow, UndoAuthors, UndoMark, UndoDropped, library
  <2> QED BY <1>8, <2>1, UndoOtherTags
<1> QED BY <1>1, <1>2, <1>3, <1>4, <1>5, <1>6, <1>7, <1>8, RestTags
      DEF Next, RunStep, ConfirmStep, UndoStep

\* list_service.rs undo() and undo_import: whatever is confirmed, tagged, adopted or
\* created while an undo goes on from the list it has read, it takes only works that
\* its own import created.
THEOREM UndoTakesOwnWorks == Spec => UndoTakesOwn
<1> DEFINE Own == \A w \in Works : work[w].state = "live" /\ work'[w].state = "gone" =>
                    \E i \in Imports : work[w].by = i /\ undo[i].pc \in {"works", "rows"}
<1>1. IInv /\ Tags /\ [Next]_vars => Tags' /\ [Own]_vars
  BY TagsStep
<1>2. UndoTakesOwn <=> [][Own]_vars
  BY DEF UndoTakesOwn
<1> HIDE DEF Own
<1> QED BY <1>1, <1>2, InitTags, InvariantHolds, PTL DEF Spec
=============================================================================
