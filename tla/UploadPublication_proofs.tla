------------------------ MODULE UploadPublication_proofs ------------------------
(***************************************************************************)
(* Proofs about UploadPublication, for every feed, every set of            *)
(* reservations and processes, and every bound.  UploadInv is the          *)
(* inductive invariant: the types; how the rows, the handlers and the      *)
(* recoveries concern each other (Shape); one active reservation of a      *)
(* target (OneHolder); who may have the import lock (LockInv); that no     *)
(* audio is in two places (Apart, Awaited); where the audio is that a      *)
(* publication is about to replace (HeldInv), and that there is none to    *)
(* replace where there is no row (FreshInv); and what an import moves      *)
(* (PlannedInv).  Each part is proved to survive a step with the help of   *)
(* those before it.  ScanInv, about what the plan of an import has seen,   *)
(* rests on all of them.                                                   *)
(***************************************************************************)
EXTENDS UploadPublication, TLAPS

\* The handler is at work, and nobody recovers its row.
Working == {"reserved", "prepared", "begun", "backedUp", "moved", "bumped",
            "undoMove", "undoBackup", "unlink"}
\* It is between its ownership check and the end of its transaction, or undoes that.
Inside == {"backedUp", "moved", "bumped", "undoMove", "undoBackup"}

InRecovery(p, r) == rec[p].on = r \/ r \in rec[p].todo

\* A row before its publication has begun, claimed or not.
Early(r) == row[r].state \in {"reserved", "prepared"} \/ row[r].was \in {"reserved", "prepared"}

\* What a row is about.
RowInv(r) ==
  /\ row[r].state = "unused" => /\ row[r].was = "none" /\ at[r] = "none"
                                /\ part[r] = NoFile /\ backup[r] = NoFile
  /\ row[r].state # "unused" =>
       /\ row[r].owner \in Procs
       /\ row[r].op = "staging" => row[r].target \in Staged
       /\ row[r].op # "staging" => row[r].target \in Episodes
       /\ row[r].op = "import" => row[r].source \in Staged
  /\ row[r].was # "none" => row[r].state = "publishing"
  /\ row[r].state = "reserved" \/ row[r].was = "reserved" \/ row[r].temp \/ ~Active(r)
  /\ row[r].state = "publishing" /\ row[r].was \in {"none", "publishing"} => row[r].backup
  /\ Early(r) => backup[r] = NoFile
  /\ row[r].state = "failed" => backup[r] = NoFile

\* Where its handler is.
HandlerInv(r) ==
  /\ at[r] # "none" => row[r].owner \in live
  /\ at[r] \in Working => row[r].was = "none" /\ Active(r)
  /\ at[r] = "reserved" => row[r].state = "reserved"
  /\ at[r] = "prepared" => row[r].state = "prepared"
  /\ at[r] \in Inside \cup {"begun"} => row[r].state = "publishing"
  /\ at[r] = "committed" => row[r].state = "published"
  /\ at[r] \in {"begun", "unlink"} => backup[r] = NoFile

\* A recovery works on claimed rows of its own process, whose handlers do nothing.
RecoveryInv(p) ==
  /\ p \notin live => rec[p] = NoRecovery /\ req[p] = NoRequest
  /\ rec[p].on = NoId <=> rec[p].step = "none"
  /\ \A r \in Ids : InRecovery(p, r) =>
       /\ row[r].owner = p /\ at[r] \notin Working \cup {"committed"}
       /\ row[r].was # "none" \/ (rec[p].on = r /\ rec[p].step = "clean")
  /\ \A r \in rec[p].todo : row[r].was # "none" /\ rec[p].on # r
  /\ \A r \in Ids : rec[p].on = r =>
       /\ rec[p].step = "restore" => row[r].was = "publishing"
       /\ rec[p].step = "mark" => row[r].was # "none" /\ backup[r] = NoFile
       /\ rec[p].step = "clean" => row[r].state = "failed" /\ row[r].was = "none"

\* What a reservation leaves lying is named in its row.
Named(r) ==
  /\ part[r] # NoFile => row[r].temp
  /\ backup[r] # NoFile => row[r].backup /\ row[r].state \in {"publishing", "published"}

\* The rows, the handlers and the recoveries, as they concern each other.
Shape ==
  /\ \A r \in Ids : RowInv(r) /\ HandlerInv(r) /\ Named(r)
  /\ \A p \in Procs : RecoveryInv(p)

\* One active reservation of a target.
OneHolder == \A r, q \in Ids : Active(r) /\ Active(q) /\ row[r].target = row[q].target => r = q

\* A plan commits one file per episode, which it has seen.
PlanOK(plan) ==
  /\ \A s \in plan.entries : plan.seen[s] # NoFile
  /\ \A s, x \in plan.entries : EntryOf[s] = EntryOf[x] => s = x

\* The import lock.
LockInv ==
  /\ lock \in Procs => lock \in live
  /\ lock \in Ids => row[lock].op = "staging" /\ at[lock] \in Inside \cup {"begun", "unlink", "committed"}
  /\ \A r \in Ids : row[r].op = "staging" /\ at[r] \in Inside \cup {"begun"} => lock = r
  /\ \A p \in Procs : PlanOK(req[p].plan)
  /\ \A p \in Procs : req[p].phase = "import" => lock = p /\ job = NoJob
  /\ lock \notin Procs => job = NoJob
  /\ \A r \in job.ids : row[r].op = "import" /\ row[r].owner = lock /\ row[r].state # "unused"
  /\ \A r, q \in job.ids : row[r].source = row[q].source => r = q
  /\ \A r \in Ids : row[r].op = "import" /\ at[r] \notin {"none", "done"} => r \in job.ids
  /\ \A r \in Ids : row[r].op = "import" /\ row[r].state # "unused" => row[r].audio # NoFile

\* Where audio lies: what a place of each kind holds.
Kinds == {"final", "part", "backup"}
Keys(k) == IF k = "final" THEN Targets ELSE Ids
Holds(k, x) == IF k = "final" THEN final[x] ELSE IF k = "part" THEN part[x] ELSE backup[x]

\* No audio is in two places, and the audio of an upload that has not arrived in none.
Apart ==
  \A k, l \in Kinds : \A x \in Keys(k), y \in Keys(l) :
    (k # l \/ x # y) /\ Holds(k, x) = Holds(l, y) => Holds(k, x) = NoFile
Awaited ==
  \A r \in Ids : row[r].state \in {"unused", "reserved"} =>
    \A k \in Kinds : \A x \in Keys(k) : Holds(k, x) # r

\* The audio that an active reservation of an episode is going to replace: in place, or
\* set aside.
Intact(r) == final[row[r].target] = episode[row[r].target] /\ backup[r] = NoFile
Aside(r) == backup[r] = episode[row[r].target]

HeldInv(r) ==
  Active(r) /\ row[r].target \in Episodes /\ episode[row[r].target] # NoFile =>
    /\ row[r].op = "import"
    /\ row[r].target \notin strayed =>
         /\ row[r].temp => episode[row[r].target] # row[r].audio
         /\ Early(r) \/ at[r] \in {"begun", "unlink"} => Intact(r)
         /\ at[r] \in Inside => Aside(r)
         /\ Intact(r) \/ Aside(r)
         /\ \A p \in Procs : rec[p].on = r /\ rec[p].step = "mark" => Intact(r)

RowHasAudio ==
  \A e \in Episodes \ strayed : episode[e] # NoFile /\ ~Held(e) => final[e] = episode[e]

\* Where an active reservation of an episode without a row has no file in place, and
\* there is nothing to set aside.
Excused == strayed \cup stranded
Vacant == {"begun", "backedUp", "undoBackup", "unlink"}

FreshInv(r) ==
  Active(r) /\ row[r].target \in Episodes \ Excused /\ episode[row[r].target] = NoFile =>
    /\ backup[r] = NoFile
    /\ Early(r) \/ at[r] \in Vacant => final[row[r].target] = NoFile
    /\ row[r].op # "import" => part[r] = NoFile \/ final[row[r].target] = NoFile
    /\ \A p \in Procs : rec[p].on = r /\ rec[p].step \in {"restore", "mark"} =>
                        final[row[r].target] = NoFile

NoRowNoAudio ==
  \A e \in Episodes \ Excused : episode[e] = NoFile /\ ~Held(e) => final[e] = NoFile

\* The file an import is about to move, or has moved, is the one its scan saw.
PlannedInv(r) ==
  row[r].op = "import" /\ row[r].source \notin strayed =>
    /\ at[r] \in {"prepared", "begun", "backedUp"} => final[row[r].source] = row[r].audio
    /\ at[r] = "moved" => final[row[r].target] = row[r].audio

UploadInv ==
  /\ UploadTypeOK
  /\ Shape
  /\ OneHolder
  /\ LockInv
  /\ Apart /\ Awaited
  /\ \A r \in Ids : HeldInv(r)
  /\ RowHasAudio
  /\ \A r \in Ids : FreshInv(r)
  /\ NoRowNoAudio
  /\ \A r \in Ids : PlannedInv(r)
-----------------------------------------------------------------------------
(* What the steps of a handler do *)

\* The step leaves r's row, handler and files alone.
Same(r) == row'[r] = row[r] /\ at'[r] = at[r] /\ part'[r] = part[r] /\ backup'[r] = backup[r]

\* The upload has come in.
LEMMA PrepareEffect ==
  ASSUME UploadTypeOK, NEW r \in Ids, Prepare(r)
  PROVE  /\ row'[r].state = "prepared" /\ row'[r].op = row[r].op /\ row'[r].target = row[r].target
         /\ row'[r].source = row[r].source /\ row'[r].owner = row[r].owner
         /\ row'[r].was = row[r].was
         /\ row'[r].temp = TRUE /\ row'[r].backup = row[r].backup /\ row'[r].audio = row[r].audio
         /\ at'[r] = "prepared"
         /\ part'[r] = r
         /\ backup'[r] = backup[r]
         /\ \A q \in Ids \ {r} : Same(q)
         /\ rec' = rec /\ req' = req /\ live' = live /\ job' = job
BY DEF Prepare, Handler, Goto, Same, files, UploadTypeOK, Reservations

\* The staged file is the one of the plan.
LEMMA PrepareEntryEffect ==
  ASSUME UploadTypeOK, NEW r \in Ids, PrepareEntry(r)
  PROVE  /\ row'[r].state = "prepared" /\ row'[r].op = row[r].op /\ row'[r].target = row[r].target
         /\ row'[r].source = row[r].source /\ row'[r].owner = row[r].owner
         /\ row'[r].was = row[r].was
         /\ row'[r].temp = TRUE /\ row'[r].backup = row[r].backup /\ row'[r].audio = row[r].audio
         /\ at'[r] = "prepared"
         /\ part'[r] = part[r]
         /\ backup'[r] = backup[r]
         /\ \A q \in Ids \ {r} : Same(q)
         /\ rec' = rec /\ req' = req /\ live' = live /\ job' = job
BY DEF PrepareEntry, Handler, Goto, Same, files, UploadTypeOK, Reservations

\* The name of the backup is recorded.
LEMMA BeginPublicationEffect ==
  ASSUME UploadTypeOK, NEW r \in Ids, BeginPublication(r)
  PROVE  /\ row'[r].state = "publishing" /\ row'[r].op = row[r].op /\ row'[r].target = row[r].target
         /\ row'[r].source = row[r].source /\ row'[r].owner = row[r].owner
         /\ row'[r].was = row[r].was
         /\ row'[r].temp = row[r].temp /\ row'[r].backup = TRUE /\ row'[r].audio = row[r].audio
         /\ at'[r] = "begun"
         /\ part'[r] = part[r]
         /\ backup'[r] = backup[r]
         /\ \A q \in Ids \ {r} : Same(q)
         /\ rec' = rec /\ req' = req /\ live' = live /\ job' = job
BY DEF BeginPublication, Handler, Goto, Same, files, UploadTypeOK, Reservations

\* The old file is set aside.
LEMMA BackUpEffect ==
  ASSUME UploadTypeOK, NEW r \in Ids, BackUp(r)
  PROVE  /\ row' = row
         /\ at'[r] = "backedUp"
         /\ part'[r] = part[r]
         /\ backup'[r] = final[row[r].target]
         /\ \A q \in Ids \ {r} : Same(q)
         /\ rec' = rec /\ req' = req /\ live' = live /\ job' = job
BY DEF BackUp, Handler, Goto, Same, files, UploadTypeOK, Reservations

\* The new file is in.
LEMMA MoveInEffect ==
  ASSUME UploadTypeOK, NEW r \in Ids, MoveIn(r)
  PROVE  /\ row' = row
         /\ at'[r] = "moved"
         /\ part'[r] = (IF row[r].op = "import" THEN part[r] ELSE NoFile)
         /\ backup'[r] = backup[r]
         /\ \A q \in Ids \ {r} : Same(q)
         /\ rec' = rec /\ req' = req /\ live' = live /\ job' = job
BY DEF MoveIn, Handler, Goto, Same, files, UploadTypeOK, Reservations

\* The generation is another.
LEMMA BumpEffect ==
  ASSUME UploadTypeOK, NEW r \in Ids, Bump(r)
  PROVE  /\ row' = row
         /\ at'[r] = "bumped"
         /\ part'[r] = part[r]
         /\ backup'[r] = backup[r]
         /\ \A q \in Ids \ {r} : Same(q)
         /\ rec' = rec /\ req' = req /\ live' = live /\ job' = job
BY DEF Bump, Handler, Goto, Same, files, UploadTypeOK, Reservations

\* The row is published.
LEMMA CommitEffect ==
  ASSUME UploadTypeOK, NEW r \in Ids, Commit(r)
  PROVE  /\ row'[r].state = "published" /\ row'[r].op = row[r].op /\ row'[r].target = row[r].target
         /\ row'[r].source = row[r].source /\ row'[r].owner = row[r].owner
         /\ row'[r].was = row[r].was
         /\ row'[r].temp = row[r].temp /\ row'[r].backup = row[r].backup
         /\ row'[r].audio = row[r].audio
         /\ at'[r] = "committed"
         /\ part'[r] = part[r]
         /\ backup'[r] = backup[r]
         /\ \A q \in Ids \ {r} : Same(q)
         /\ rec' = rec /\ req' = req /\ live' = live /\ job' = job
BY DEF Commit, Handler, Goto, Same, files, UploadTypeOK, Reservations

\* The backup goes.
LEMMA DropBackupEffect ==
  ASSUME UploadTypeOK, NEW r \in Ids, DropBackup(r)
  PROVE  /\ row'[r].state = row[r].state /\ row'[r].op = row[r].op /\ row'[r].target = row[r].target
         /\ row'[r].source = row[r].source /\ row'[r].owner = row[r].owner
         /\ row'[r].was = row[r].was
         /\ row'[r].temp = row[r].temp /\ row'[r].audio = row[r].audio
         /\ row'[r].backup = (row[r].backup /\ row[r].op = "import")
         /\ at'[r] = "done"
         /\ part'[r] = part[r]
         /\ backup'[r] = NoFile
         /\ \A q \in Ids \ {r} : Same(q)
         /\ rec' = rec /\ req' = req /\ live' = live /\ job' = job
BY DEF DropBackup, Handler, Goto, Same, files, UploadTypeOK, Reservations

\* An exception.
LEMMA HandlerFailsEffect ==
  ASSUME UploadTypeOK, NEW r \in Ids, HandlerFails(r)
  PROVE  /\ row' = row
         /\ at[r] \in {"reserved", "prepared", "begun", "backedUp", "moved", "bumped"}
            /\ at'[r] = CASE at[r] \in {"moved", "bumped"} -> "undoMove"
                          [] at[r] = "backedUp" -> "undoBackup"
                          [] OTHER -> "unlink"
         /\ part'[r] = part[r]
         /\ backup'[r] = backup[r]
         /\ \A q \in Ids \ {r} : Same(q)
         /\ rec' = rec /\ req' = req /\ live' = live /\ job' = job
BY DEF HandlerFails, Handler, Goto, Same, files, UploadTypeOK, Reservations

\* The new file is moved back.
LEMMA UndoMoveEffect ==
  ASSUME UploadTypeOK, NEW r \in Ids, UndoMove(r)
  PROVE  /\ row' = row
         /\ at'[r] = "undoBackup"
         /\ part'[r] = (IF row[r].op = "import" THEN part[r] ELSE final[row[r].target])
         /\ backup'[r] = backup[r]
         /\ \A q \in Ids \ {r} : Same(q)
         /\ rec' = rec /\ req' = req /\ live' = live /\ job' = job
BY DEF UndoMove, Handler, Goto, Same, files, UploadTypeOK, Reservations

\* The old file is back.
LEMMA UndoBackupEffect ==
  ASSUME UploadTypeOK, NEW r \in Ids, UndoBackup(r)
  PROVE  /\ row' = row
         /\ at'[r] = "unlink"
         /\ part'[r] = part[r]
         /\ backup'[r] = NoFile
         /\ \A q \in Ids \ {r} : Same(q)
         /\ rec' = rec /\ req' = req /\ live' = live /\ job' = job
BY DEF UndoBackup, Handler, Goto, Same, files, UploadTypeOK, Reservations

\* The temporary file is gone.
LEMMA UnlinkEffect ==
  ASSUME UploadTypeOK, NEW r \in Ids, Unlink(r)
  PROVE  /\ row' = row
         /\ at'[r] = "fail"
         /\ part'[r] = NoFile
         /\ backup'[r] = backup[r]
         /\ \A q \in Ids \ {r} : Same(q)
         /\ rec' = rec /\ req' = req /\ live' = live /\ job' = job
BY DEF Unlink, Handler, Goto, Same, files, UploadTypeOK, Reservations

\* The recovery of r by p goes on, or ends.
LEMMA NextStepEffect ==
  ASSUME UploadTypeOK, NEW p \in Procs, NEW r \in Ids, NEW step, NextStep(p, r, step)
  PROVE  /\ rec'[p].on = r /\ rec'[p].step = step /\ rec'[p].todo = rec[p].todo \ {r}
         /\ rec'[p].why = rec[p].why
         /\ \A x \in Procs \ {p} : rec'[x] = rec[x]
BY DEF NextStep, UploadTypeOK, Recoveries

\* The recovery of r by p ends, and whoever waited for it in r's handler goes on.
LEMMA EndRowEffect ==
  ASSUME UploadTypeOK, NEW p \in Procs, NEW r \in Ids, EndRow(p, r)
  PROVE  /\ rec'[p].on = NoId /\ rec'[p].step = "none" /\ rec'[p].todo = rec[p].todo \ {r}
         /\ rec'[p].why = rec[p].why
         /\ \A x \in Procs \ {p} : rec'[x] = rec[x]
         /\ at'[r] = IF at[r] = "failing" THEN "done" ELSE at[r]
         /\ \A q \in Ids \ {r} : at'[q] = at[q]
BY DEF EndRow, UploadTypeOK, Recoveries

\* A claim makes the row one of p, publishing, and remembers what it was.
LEMMA ClaimEffect ==
  ASSUME UploadTypeOK, NEW p \in Procs, NEW rs \in SUBSET Ids, row' = ClaimedBy(p, rs)
  PROVE  /\ \A r \in rs : /\ row'[r].state = "publishing" /\ row'[r].owner = p
                          /\ row'[r].was = IF row[r].was # "none" THEN row[r].was ELSE row[r].state
                          /\ row'[r].op = row[r].op /\ row'[r].target = row[r].target
                          /\ row'[r].source = row[r].source /\ row'[r].temp = row[r].temp
                          /\ row'[r].backup = row[r].backup /\ row'[r].audio = row[r].audio
         /\ \A r \in Ids \ rs : row'[r] = row[r]
<1>1. ASSUME NEW r \in rs, NEW w, w = IF row[r].was # "none" THEN row[r].was ELSE row[r].state
      PROVE  row'[r] = [row[r] EXCEPT !.state = "publishing", !.owner = p, !.was = w]
  BY <1>1 DEF ClaimedBy
<1>2. \A r \in Ids \ rs : row'[r] = row[r]
  BY DEF ClaimedBy
<1>3. ASSUME NEW r \in rs
      PROVE  /\ row'[r].state = "publishing" /\ row'[r].owner = p
             /\ row'[r].was = IF row[r].was # "none" THEN row[r].was ELSE row[r].state
             /\ row'[r].op = row[r].op /\ row'[r].target = row[r].target
             /\ row'[r].source = row[r].source /\ row'[r].temp = row[r].temp
             /\ row'[r].backup = row[r].backup /\ row'[r].audio = row[r].audio
  <2> DEFINE w == IF row[r].was # "none" THEN row[r].was ELSE row[r].state
  <2>1. row'[r] = [row[r] EXCEPT !.state = "publishing", !.owner = p, !.was = w]
    BY <1>1
  <2>2. row[r] \in Reservations
    BY DEF UploadTypeOK
  <2> HIDE DEF w
  <2>3. row'[r].was = w
    BY <2>1, <2>2 DEF Reservations
  <2> QED BY <2>1, <2>2, <2>3 DEF Reservations, w
<1> QED BY <1>2, <1>3

\* A reap claims what it may, and begins the recovery of it.
LEMMA ReapEffect ==
  ASSUME UploadTypeOK, NEW p \in Procs, Reap(p)
  PROVE  /\ rec[p] = NoRecovery
         /\ \A x \in Procs \ {p} : rec'[x] = rec[x]
         /\ \/ rec'[p] = NoRecovery /\ Claimable(p) = {}
            \/ /\ rec'[p].why = "reap" /\ rec'[p].todo = Claimable(p)
               /\ rec'[p].on = NoId /\ rec'[p].step = "none"
         /\ row' = ClaimedBy(p, Claimable(p))
BY DEF Reap, UploadTypeOK, NoRecovery

\* What the recovery of a row finds.
LEMMA RecoveringFacts ==
  ASSUME UploadTypeOK, Shape, NEW p \in Procs, NEW r \in Ids, NEW step, Recovering(p, r, step)
  PROVE  /\ row[r].owner = p /\ at[r] \notin Working \cup {"committed"} /\ p \in live
         /\ row[r].state \in {"publishing", "failed"}
         /\ step # "clean" => row[r].was # "none" /\ row[r].state = "publishing"
         /\ step = "discard" => row[r].was = "prepared" /\ backup[r] = NoFile
         /\ step \in {"unpublish", "restore"} => row[r].was = "publishing"
         /\ step = "mark" => backup[r] = NoFile
         /\ step = "clean" => row[r].state = "failed" /\ row[r].was = "none"
         /\ step = "restore" => rec[p].on = r
<1>1. RecoveryInv(p) /\ RowInv(r) /\ NoId \notin Ids
  BY UploadAssumption DEF Shape, UploadAssumption
<1>2. row[r].was \in {"reserved", "prepared", "publishing", "none"}
  BY DEF UploadTypeOK, Reservations, ActiveUpload
<1>3. InRecovery(p, r)
  BY DEF Recovering, InRecovery
<1>4. CASE rec[p].on = r /\ rec[p].step = step
  <2>1. step \in {"none", "restore", "mark", "clean"}
    BY <1>4 DEF UploadTypeOK, Recoveries
  <2>2. step # "none"
    BY <1>1, <1>4 DEF RecoveryInv
  <2> QED BY <1>1, <1>2, <1>3, <1>4, <2>1, <2>2 DEF RecoveryInv, RowInv, Recovering
<1>5. CASE rec[p].on = NoId /\ r \in rec[p].todo /\ step = FirstStep(r)
  <2>1. row[r].was # "none" /\ rec[p].on # r
    BY <1>1, <1>5 DEF RecoveryInv
  <2> QED BY <1>1, <1>2, <1>3, <1>5, <2>1 DEF RecoveryInv, RowInv, Recovering, FirstStep, Early
<1> QED BY <1>4, <1>5 DEF Recovering

-----------------------------------------------------------------------------
(* Rows, handlers and recoveries *)

\* A step of the handler of r, which nobody recovers, need only be right for r.
LEMMA WorkFrame ==
  ASSUME UploadTypeOK, Shape, NEW r \in Ids, at[r] \in Working \cup {"committed"},
         \A q \in Ids \ {r} : Same(q), rec' = rec, req' = req, live' = live,
         RowInv(r)', HandlerInv(r)', Named(r)'
  PROVE  Shape'
<1>1. \A p \in Procs : ~InRecovery(p, r)
  BY DEF Shape, RecoveryInv
<1>2. ASSUME NEW q \in Ids \ {r} PROVE RowInv(q)' /\ HandlerInv(q)' /\ Named(q)'
  BY <1>2 DEF Shape, Same, RowInv, HandlerInv, Named, Active, Early
<1>3. ASSUME NEW p \in Procs PROVE RecoveryInv(p)'
  <2>1. RecoveryInv(p) /\ rec[p].todo \subseteq Ids
    BY DEF Shape, UploadTypeOK, Recoveries
  <2>2. \A q \in Ids : InRecovery(p, q) => row'[q] = row[q] /\ at'[q] = at[q] /\ backup'[q] = backup[q]
    BY <1>1 DEF Same
  <2>3. \A q \in Ids : InRecovery(p, q)' <=> InRecovery(p, q)
    BY DEF InRecovery
  <2>4. \A q \in Ids : rec[p].on = q \/ q \in rec[p].todo => InRecovery(p, q)
    BY DEF InRecovery
  <2> QED BY <2>1, <2>2, <2>3, <2>4 DEF RecoveryInv
<1> QED BY <1>2, <1>3 DEF Shape

\* The steps of a handler.
LEMMA HandlerShape ==
  ASSUME UploadTypeOK, Shape, NEW r \in Ids, HandlerStep(r) \/ HandlerFails(r), ~Fail(r)
  PROVE  Shape'
<1>1. RowInv(r) /\ HandlerInv(r) /\ Named(r) /\ at[r] \in Phases
      /\ row[r].was \in ActiveUpload \cup {"none"}
  BY DEF Shape, UploadTypeOK, Reservations
<1>w. at[r] \in Working \cup {"committed"} => row[r].state # "unused"
  BY <1>1 DEF HandlerInv, Active, ActiveUpload
<1>2. CASE Prepare(r)
  <2>1. at[r] = "reserved" /\ row[r].op # "import" /\ row[r].owner \in live
    BY <1>2 DEF Prepare, Handler
  <2>2. at[r] \in Working \cup {"committed"} /\ row[r].was = "none" /\ row[r].state = "reserved"
        /\ backup[r] = NoFile
    BY <1>1, <2>1 DEF RowInv, HandlerInv, Early, Working, Inside
  <2>3. RowInv(r)'
    BY <1>1, <1>2, <2>1, <2>2, PrepareEffect DEF RowInv, Active, ActiveUpload, Early
  <2>4. HandlerInv(r)'
    <3>1. at'[r] = "prepared" /\ row'[r].state = "prepared" /\ row'[r].was = "none"
          /\ backup'[r] = NoFile
      BY <1>2, <2>2, PrepareEffect
    <3>2. row'[r].owner = row[r].owner /\ live' = live
      BY <1>2, PrepareEffect
    <3>3. row'[r].owner \in live'
      BY <2>1, <3>2
    <3> QED BY <3>1, <3>3 DEF HandlerInv, Active, ActiveUpload, Working, Inside
  <2>5. Named(r)'
    BY <1>1, <1>2, <2>1, <2>2, PrepareEffect DEF Named
  <2> QED BY <1>2, <2>1, <2>2, <2>3, <2>4, <2>5, PrepareEffect, WorkFrame
<1>3. CASE PrepareEntry(r)
  <2>1. at[r] = "reserved" /\ row[r].owner \in live
    BY <1>3 DEF PrepareEntry, Handler
  <2>2. at[r] \in Working \cup {"committed"} /\ row[r].was = "none" /\ row[r].state = "reserved"
        /\ backup[r] = NoFile
    BY <1>1, <2>1 DEF RowInv, HandlerInv, Early, Working, Inside
  <2>3. RowInv(r)'
    BY <1>1, <1>3, <2>1, <2>2, PrepareEntryEffect DEF RowInv, Active, ActiveUpload, Early
  <2>4. HandlerInv(r)'
    <3>1. at'[r] = "prepared" /\ row'[r].state = "prepared" /\ row'[r].was = "none"
          /\ backup'[r] = NoFile
      BY <1>3, <2>2, PrepareEntryEffect
    <3>2. row'[r].owner = row[r].owner /\ live' = live
      BY <1>3, PrepareEntryEffect
    <3>3. row'[r].owner \in live'
      BY <2>1, <3>2
    <3> QED BY <3>1, <3>3 DEF HandlerInv, Active, ActiveUpload, Working, Inside
  <2>5. Named(r)'
    BY <1>1, <1>3, <2>1, <2>2, PrepareEntryEffect DEF Named
  <2> QED BY <1>3, <2>1, <2>2, <2>3, <2>4, <2>5, PrepareEntryEffect, WorkFrame
<1>4. CASE BeginPublication(r)
  <2>1. at[r] = "prepared" /\ row[r].owner \in live
    BY <1>4 DEF BeginPublication, Handler
  <2>2. at[r] \in Working \cup {"committed"} /\ row[r].was = "none" /\ row[r].state = "prepared"
        /\ backup[r] = NoFile
    BY <1>1, <2>1 DEF RowInv, HandlerInv, Early, Working, Inside
  <2>3. RowInv(r)'
    BY <1>1, <1>4, <2>1, <2>2, BeginPublicationEffect DEF RowInv, Active, ActiveUpload, Early
  <2>4. HandlerInv(r)'
    <3>1. at'[r] = "begun" /\ row'[r].state = "publishing" /\ row'[r].was = "none"
          /\ backup'[r] = NoFile
      BY <1>4, <2>2, BeginPublicationEffect
    <3>2. row'[r].owner = row[r].owner /\ live' = live
      BY <1>4, BeginPublicationEffect
    <3>3. row'[r].owner \in live'
      BY <2>1, <3>2
    <3> QED BY <3>1, <3>3 DEF HandlerInv, Active, ActiveUpload, Working, Inside
  <2>5. Named(r)'
    BY <1>1, <1>4, <2>1, <2>2, BeginPublicationEffect DEF Named
  <2> QED BY <1>4, <2>1, <2>2, <2>3, <2>4, <2>5, BeginPublicationEffect, WorkFrame
<1>5. CASE BackUp(r)
  <2>1. at[r] = "begun" /\ row[r].owner \in live
    BY <1>5 DEF BackUp, Handler
  <2>2. RowInv(r)' /\ Named(r)' /\ HandlerInv(r)' /\ at[r] \in Working \cup {"committed"}
    BY <1>1, <1>5, <2>1, BackUpEffect
       DEF RowInv, HandlerInv, Named, Active, ActiveUpload, Early, Working, Inside
  <2> QED BY <1>5, <2>1, <2>2, BackUpEffect, WorkFrame
<1>6. CASE MoveIn(r)
  <2>1. at[r] = "backedUp" /\ row[r].owner \in live
    BY <1>6 DEF MoveIn, Handler
  <2>2. RowInv(r)' /\ Named(r)' /\ HandlerInv(r)' /\ at[r] \in Working \cup {"committed"}
    BY <1>1, <1>6, <2>1, MoveInEffect
       DEF RowInv, HandlerInv, Named, Active, ActiveUpload, Early, Working, Inside
  <2> QED BY <1>6, <2>1, <2>2, MoveInEffect, WorkFrame
<1>7. CASE Bump(r)
  <2>1. at[r] = "moved" /\ row[r].owner \in live
    BY <1>7 DEF Bump, Handler
  <2>2. RowInv(r)' /\ Named(r)' /\ HandlerInv(r)' /\ at[r] \in Working \cup {"committed"}
    BY <1>1, <1>7, <2>1, BumpEffect
       DEF RowInv, HandlerInv, Named, Active, ActiveUpload, Early, Working, Inside
  <2> QED BY <1>7, <2>1, <2>2, BumpEffect, WorkFrame
<1>8. CASE Commit(r)
  <2>1. at[r] \in {"moved", "bumped"} /\ row[r].owner \in live
    BY <1>8 DEF Commit, Handler
  <2>2. RowInv(r)' /\ Named(r)' /\ HandlerInv(r)' /\ at[r] \in Working \cup {"committed"}
    BY <1>1, <1>8, <2>1, CommitEffect
       DEF RowInv, HandlerInv, Named, Active, ActiveUpload, Early, Working, Inside
  <2> QED BY <1>8, <2>1, <2>2, CommitEffect, WorkFrame
<1>9. CASE DropBackup(r)
  <2>1. at[r] = "committed" /\ row[r].owner \in live
    BY <1>9 DEF DropBackup, Handler
  <2>2. RowInv(r)' /\ Named(r)' /\ HandlerInv(r)' /\ at[r] \in Working \cup {"committed"}
    BY <1>1, <1>9, <2>1, DropBackupEffect
       DEF RowInv, HandlerInv, Named, Active, ActiveUpload, Early, Working, Inside
  <2> QED BY <1>9, <2>1, <2>2, DropBackupEffect, WorkFrame
<1>10. CASE HandlerFails(r)
  <2>1. at[r] \in {"reserved", "prepared", "begun", "backedUp", "moved", "bumped"}
        /\ row[r].owner \in live
    BY <1>10 DEF HandlerFails, Handler
  <2>2. RowInv(r)' /\ Named(r)' /\ HandlerInv(r)' /\ at[r] \in Working \cup {"committed"}
    BY <1>1, <1>10, <2>1, HandlerFailsEffect
       DEF RowInv, HandlerInv, Named, Active, ActiveUpload, Early, Working, Inside
  <2> QED BY <1>10, <2>1, <2>2, HandlerFailsEffect, WorkFrame
<1>11. CASE UndoMove(r)
  <2>1. at[r] = "undoMove" /\ row[r].owner \in live
    BY <1>11 DEF UndoMove, Handler
  <2>2. RowInv(r)' /\ Named(r)' /\ HandlerInv(r)' /\ at[r] \in Working \cup {"committed"}
    BY <1>1, <1>11, <2>1, UndoMoveEffect
       DEF RowInv, HandlerInv, Named, Active, ActiveUpload, Early, Working, Inside
  <2> QED BY <1>11, <2>1, <2>2, UndoMoveEffect, WorkFrame
<1>12. CASE UndoBackup(r)
  <2>1. at[r] = "undoBackup" /\ row[r].owner \in live
    BY <1>12 DEF UndoBackup, Handler
  <2>2. RowInv(r)' /\ Named(r)' /\ HandlerInv(r)' /\ at[r] \in Working \cup {"committed"}
    BY <1>1, <1>12, <2>1, UndoBackupEffect
       DEF RowInv, HandlerInv, Named, Active, ActiveUpload, Early, Working, Inside
  <2> QED BY <1>12, <2>1, <2>2, UndoBackupEffect, WorkFrame
<1>13. CASE Unlink(r)
  <2>1. at[r] = "unlink" /\ row[r].owner \in live
    BY <1>13 DEF Unlink, Handler
  <2>2. RowInv(r)' /\ Named(r)' /\ HandlerInv(r)' /\ at[r] \in Working \cup {"committed"}
    BY <1>1, <1>13, <2>1, UnlinkEffect
       DEF RowInv, HandlerInv, Named, Active, ActiveUpload, Early, Working, Inside
  <2> QED BY <1>13, <2>1, <2>2, UnlinkEffect, WorkFrame
<1> QED BY <1>2, <1>3, <1>4, <1>5, <1>6, <1>7, <1>8, <1>9, <1>10, <1>11, <1>12, <1>13
        DEF HandlerStep

\* A step of the recovery of r by p need only be right for r, and for where it goes on.
LEMMA RecoveryFrame ==
  ASSUME UploadTypeOK, Shape, NEW p \in Procs, NEW r \in Ids, NEW step, Recovering(p, r, step),
         \A q \in Ids \ {r} : Same(q), \A x \in Procs \ {p} : rec'[x] = rec[x],
         req' = req, live' = live, row'[r].owner = p, at'[r] \notin Working \cup {"committed"},
         RowInv(r)', HandlerInv(r)', Named(r)', rec'[p].todo = rec[p].todo \ {r},
         \/ rec'[p].on = NoId /\ rec'[p].step = "none"
         \/ /\ rec'[p].on = r
            /\ \/ rec'[p].step = "restore" /\ row'[r].was = "publishing"
               \/ rec'[p].step = "mark" /\ row'[r].was # "none" /\ backup'[r] = NoFile
               \/ rec'[p].step = "clean" /\ row'[r].state = "failed" /\ row'[r].was = "none"
  PROVE  Shape'
<1>1. row[r].owner = p /\ p \in live /\ NoId \notin Ids
  BY RecoveringFacts, UploadAssumption DEF UploadAssumption
<1>2. ASSUME NEW q \in Ids \ {r} PROVE RowInv(q)' /\ HandlerInv(q)' /\ Named(q)'
  BY <1>2 DEF Shape, Same, RowInv, HandlerInv, Named, Active, Early
<1>3. ASSUME NEW x \in Procs \ {p} PROVE RecoveryInv(x)'
  <2>1. RecoveryInv(x) /\ ~InRecovery(x, r)
    BY <1>1 DEF Shape, RecoveryInv
  <2>2. \A q \in Ids : InRecovery(x, q) => row'[q] = row[q] /\ at'[q] = at[q] /\ backup'[q] = backup[q]
    BY <2>1 DEF Same
  <2>3. rec'[x] = rec[x] /\ rec[x].todo \subseteq Ids
    BY DEF UploadTypeOK, Recoveries
  <2>4. \A q \in Ids : /\ InRecovery(x, q)' <=> InRecovery(x, q)
                       /\ rec[x].on = q \/ q \in rec[x].todo => InRecovery(x, q)
    BY <2>3 DEF InRecovery
  <2> QED BY <2>1, <2>2, <2>3, <2>4 DEF RecoveryInv
<1>4. RecoveryInv(p)'
  <2>1. RecoveryInv(p) /\ rec[p].todo \subseteq Ids /\ rec[p].on \in {r, NoId}
    BY DEF Shape, Recovering, UploadTypeOK, Recoveries
  <2>2. \A q \in rec'[p].todo : /\ q \in Ids /\ q # r /\ row'[q] = row[q] /\ at'[q] = at[q]
                                /\ row[q].was # "none" /\ rec'[p].on # q
                                /\ row[q].owner = p /\ at[q] \notin Working \cup {"committed"}
    BY <1>1, <2>1 DEF RecoveryInv, Same, InRecovery
  <2>3. \A q \in Ids : InRecovery(p, q)' => (q = r /\ rec'[p].on = r) \/ q \in rec'[p].todo
    BY <1>1 DEF InRecovery
  <2>4. p \in live' /\ (rec'[p].on = NoId <=> rec'[p].step = "none")
    BY <1>1
  <2>5. \A q \in Ids : InRecovery(p, q)' =>
          /\ row'[q].owner = p /\ at'[q] \notin Working \cup {"committed"}
          /\ row'[q].was # "none" \/ (rec'[p].on = q /\ rec'[p].step = "clean")
    BY <1>1, <2>2, <2>3
  <2>6. \A q \in Ids : rec'[p].on = q =>
          /\ rec'[p].step = "restore" => row'[q].was = "publishing"
          /\ rec'[p].step = "mark" => row'[q].was # "none" /\ backup'[q] = NoFile
          /\ rec'[p].step = "clean" => row'[q].state = "failed" /\ row'[q].was = "none"
    BY <1>1
  <2>7. \A q \in rec'[p].todo : row'[q].was # "none" /\ rec'[p].on # q
    BY <2>2
  <2> QED BY <2>4, <2>5, <2>6, <2>7 DEF RecoveryInv
<1> QED BY <1>2, <1>3, <1>4 DEF Shape

\* The steps of a recovery that leave its row as it is.
LEMMA FilesRecoveredShape ==
  ASSUME UploadTypeOK, Shape, NEW p \in Procs, NEW r \in Ids,
         Discard(p, r) \/ Unpublish(p, r) \/ Restore(p, r) \/ RowFails(p, r)
  PROVE  Shape'
<1>1. RowInv(r) /\ HandlerInv(r) /\ Named(r)
  BY DEF Shape
<1>2. CASE Discard(p, r)
  <2>1. Recovering(p, r, "discard") /\ NextStep(p, r, "mark") /\ row' = row /\ at' = at
        /\ backup' = backup /\ req' = req /\ live' = live
        /\ (part'[r] = NoFile \/ part'[r] = part[r]) /\ \A q \in Ids \ {r} : part'[q] = part[q]
    BY <1>2 DEF Discard, UploadTypeOK
  <2>2. /\ row[r].owner = p /\ at[r] \notin Working \cup {"committed"}
        /\ row[r].was # "none" /\ backup[r] = NoFile
    BY <2>1, RecoveringFacts
  <2>3. RowInv(r)' /\ HandlerInv(r)' /\ Named(r)'
    BY <1>1, <2>1, <2>2 DEF RowInv, HandlerInv, Named, Active, Early
  <2> QED BY <2>1, <2>2, <2>3, NextStepEffect, RecoveryFrame DEF Same
<1>3. CASE Unpublish(p, r)
  <2>1. Recovering(p, r, "unpublish") /\ NextStep(p, r, "restore") /\ row' = row /\ at' = at
        /\ backup' = backup /\ req' = req /\ live' = live /\ \A q \in Ids \ {r} : part'[q] = part[q]
    BY <1>3 DEF Unpublish, UploadTypeOK
  <2>2. /\ row[r].owner = p /\ at[r] \notin Working \cup {"committed"}
        /\ row[r].was = "publishing" /\ row[r].state = "publishing"
    BY <2>1, RecoveringFacts
  <2>3. RowInv(r)' /\ HandlerInv(r)' /\ Named(r)'
    BY <1>1, <2>1, <2>2 DEF RowInv, HandlerInv, Named, Active, ActiveUpload, Early
  <2> QED BY <2>1, <2>2, <2>3, NextStepEffect, RecoveryFrame DEF Same
<1>4. CASE Restore(p, r)
  <2>1. Recovering(p, r, "restore") /\ NextStep(p, r, "mark") /\ row' = row /\ at' = at
        /\ part' = part /\ req' = req /\ live' = live
        /\ backup'[r] = NoFile /\ \A q \in Ids \ {r} : backup'[q] = backup[q]
    BY <1>4 DEF Restore, UploadTypeOK
  <2>2. /\ row[r].owner = p /\ at[r] \notin Working \cup {"committed"}
        /\ row[r].was = "publishing" /\ row[r].state = "publishing"
    BY <2>1, RecoveringFacts
  <2>3. RowInv(r)' /\ HandlerInv(r)' /\ Named(r)'
    BY <1>1, <2>1, <2>2 DEF RowInv, HandlerInv, Named, Active, Early
  <2> QED BY <2>1, <2>2, <2>3, NextStepEffect, RecoveryFrame DEF Same
<1>5. CASE RowFails(p, r)
  <2>1. PICK step \in {"discard", "unpublish", "restore", "clean"} : Recovering(p, r, step)
    BY <1>5 DEF RowFails
  <2>2. EndRow(p, r) /\ row' = row /\ part' = part /\ backup' = backup /\ req' = req /\ live' = live
    BY <1>5 DEF RowFails, files
  <2>3. row[r].owner = p /\ at[r] \notin Working \cup {"committed"} /\ p \in live
    BY <2>1, RecoveringFacts
  <2>4. at'[r] \notin Working \cup {"committed"} /\ (at'[r] = at[r] \/ at'[r] = "done")
    BY <2>2, <2>3, EndRowEffect DEF Working, Inside
  <2>5. row[r].state # "unused" \/ at[r] = "none"
    BY <1>1 DEF RowInv
  <2>6. at'[r] = at[r] \/ (row[r].state # "unused" /\ at'[r] = "done")
    BY <2>2, <2>5, EndRowEffect
  <2>7. RowInv(r)' /\ HandlerInv(r)' /\ Named(r)'
    BY <1>1, <2>2, <2>3, <2>4, <2>6 DEF RowInv, HandlerInv, Named, Active, Early, Working, Inside
  <2> QED BY <2>1, <2>2, <2>3, <2>4, <2>7, EndRowEffect, RecoveryFrame DEF Same
<1> QED BY <1>2, <1>3, <1>4, <1>5

\* The steps that end the recovery of a row.
LEMMA RowRecoveredShape ==
  ASSUME UploadTypeOK, Shape, NEW p \in Procs, NEW r \in Ids, MarkFailed(p, r) \/ CleanTemp(p, r)
  PROVE  Shape'
<1>1. RowInv(r) /\ HandlerInv(r) /\ Named(r) /\ row[r] \in Reservations
  BY DEF Shape, UploadTypeOK
<1>2. CASE MarkFailed(p, r)
  <2>1. Recovering(p, r, "mark") /\ part' = part /\ backup' = backup /\ req' = req /\ live' = live
    BY <1>2 DEF MarkFailed, files
  <2>2. /\ row[r].owner = p /\ at[r] \notin Working \cup {"committed"} /\ p \in live
        /\ row[r].state = "publishing" /\ backup[r] = NoFile
    BY <2>1, RecoveringFacts
  <2>3. /\ row'[r].state = "failed" /\ row'[r].was = "none" /\ row'[r].owner = row[r].owner
        /\ row'[r].op = row[r].op /\ row'[r].target = row[r].target
        /\ row'[r].source = row[r].source
        /\ row'[r].temp = row[r].temp
        /\ \A q \in Ids \ {r} : row'[q] = row[q]
    BY <1>1, <1>2 DEF MarkFailed, UploadTypeOK, Reservations
  <2>4. (NextStep(p, r, "clean") /\ at' = at) \/ EndRow(p, r)
    BY <1>2 DEF MarkFailed
  <2>5. /\ at'[r] \notin Working \cup {"committed"} /\ at'[r] \in {at[r], "done"}
        /\ \A q \in Ids \ {r} : at'[q] = at[q]
    BY <2>2, <2>4, EndRowEffect DEF Working, Inside
  <2>6. RowInv(r)'
    BY <1>1, <2>1, <2>2, <2>3 DEF RowInv, Active, ActiveUpload, Early
  <2>7. HandlerInv(r)'
    BY <2>1, <2>2, <2>3, <2>5 DEF HandlerInv, Working, Inside
  <2>8. Named(r)'
    BY <1>1, <2>1, <2>2, <2>3 DEF Named
  <2>9. rec'[p].todo = rec[p].todo \ {r} /\ \A x \in Procs \ {p} : rec'[x] = rec[x]
    BY <2>4, NextStepEffect, EndRowEffect
  <2>10. \/ rec'[p].on = NoId /\ rec'[p].step = "none"
         \/ rec'[p].on = r /\ rec'[p].step = "clean"
    BY <2>4, NextStepEffect, EndRowEffect
  <2> QED BY <2>1, <2>2, <2>3, <2>5, <2>6, <2>7, <2>8, <2>9, <2>10, RecoveryFrame DEF Same
<1>3. CASE CleanTemp(p, r)
  <2>1. Recovering(p, r, "clean") /\ backup' = backup /\ req' = req /\ live' = live /\ EndRow(p, r)
        /\ part'[r] = NoFile /\ \A q \in Ids \ {r} : part'[q] = part[q]
    BY <1>3 DEF CleanTemp, UploadTypeOK
  <2>2. /\ row[r].owner = p /\ at[r] \notin Working \cup {"committed"} /\ p \in live
        /\ row[r].state = "failed" /\ row[r].was = "none"
    BY <2>1, RecoveringFacts
  <2>3. /\ row'[r].state = "failed" /\ row'[r].was = "none" /\ row'[r].owner = row[r].owner
        /\ row'[r].op = row[r].op /\ row'[r].target = row[r].target
        /\ row'[r].source = row[r].source
        /\ row'[r].backup = row[r].backup
        /\ \A q \in Ids \ {r} : row'[q] = row[q]
    BY <1>1, <1>3, <2>2 DEF CleanTemp, UploadTypeOK, Reservations
  <2>4. backup[r] = NoFile
    BY <1>1, <2>2 DEF RowInv
  <2>5. /\ at'[r] \notin Working \cup {"committed"} /\ at'[r] \in {at[r], "done"}
        /\ \A q \in Ids \ {r} : at'[q] = at[q]
    BY <2>1, <2>2, EndRowEffect DEF Working, Inside
  <2>6. RowInv(r)'
    BY <1>1, <2>1, <2>2, <2>3, <2>4 DEF RowInv, Active, ActiveUpload, Early
  <2>7. HandlerInv(r)'
    BY <2>1, <2>2, <2>3, <2>5 DEF HandlerInv, Working, Inside
  <2>8. Named(r)'
    BY <2>1, <2>4 DEF Named
  <2> QED BY <2>1, <2>2, <2>3, <2>5, <2>6, <2>7, <2>8, EndRowEffect, RecoveryFrame DEF Same
<1> QED BY <1>2, <1>3

\* A process that claims rows, whose handlers do nothing, begins their recovery.
LEMMA ClaimShape ==
  ASSUME UploadTypeOK, Shape, NEW p \in live, NEW rs \in SUBSET Ids, row' = ClaimedBy(p, rs),
         rec[p] = NoRecovery, part' = part, backup' = backup, live' = live,
         \A r \in rs : /\ Active(r) /\ at[r] \notin Working \cup {"committed"}
                       /\ at'[r] \notin Working \cup {"committed"}
                       /\ \A x \in Procs : ~InRecovery(x, r),
         \A q \in Ids \ rs : at'[q] = at[q],
         \A x \in Procs \ {p} : rec'[x] = rec[x], \A x \in Procs \ live : req'[x] = req[x],
         \/ rec'[p] = NoRecovery
         \/ rec'[p].todo = rs /\ rec'[p].on = NoId /\ rec'[p].step = "none"
  PROVE  Shape'
<1>1. p \in Procs /\ NoId \notin Ids /\ (\A r \in Ids : row[r] \in Reservations) /\ \A r \in Ids : RowInv(r)
  BY UploadAssumption DEF UploadTypeOK, UploadAssumption, Shape
<1>2. ASSUME NEW r \in rs
      PROVE  /\ row'[r].state = "publishing" /\ row'[r].owner = p /\ row'[r].was # "none"
             /\ row'[r].was \in ActiveUpload
             /\ row'[r].was = IF row[r].was # "none" THEN row[r].was ELSE row[r].state
             /\ row'[r].op = row[r].op /\ row'[r].target = row[r].target
             /\ row'[r].source = row[r].source /\ row'[r].temp = row[r].temp
             /\ row'[r].backup = row[r].backup
  <2>1. row[r].was \in ActiveUpload \cup {"none"} /\ row[r].state \in ActiveUpload
    BY <1>1 DEF Reservations, Active
  <2> QED BY <1>1, <1>2, <2>1, ClaimEffect DEF ActiveUpload
<1>3. ASSUME NEW r \in rs PROVE RowInv(r)' /\ HandlerInv(r)' /\ Named(r)'
  <2>1. RowInv(r) /\ Named(r) /\ r \in Ids /\ row[r].state \in ActiveUpload
    BY DEF Shape, Active
  <2>w. row'[r].was \in ActiveUpload /\ row'[r].state = "publishing" /\ row'[r].owner \in Procs
    BY <1>1, <1>2
  <2>f. /\ row'[r].op = row[r].op /\ row'[r].target = row[r].target
        /\ row'[r].source = row[r].source /\ row'[r].temp = row[r].temp
        /\ row'[r].backup = row[r].backup
    BY <1>2
  <2>a. /\ row'[r].was = "reserved" \/ row'[r].temp
        /\ row'[r].was = "publishing" => row'[r].backup
        /\ row'[r].was \in {"reserved", "prepared"} => backup'[r] = NoFile
    <3>1. CASE row[r].was # "none"
      <4>1. row'[r].was = row[r].was
        BY <1>2, <3>1
      <4> QED BY <2>1, <2>f, <3>1, <4>1 DEF RowInv, Active, ActiveUpload, Early
    <3>2. CASE row[r].was = "none"
      <4>1. row'[r].was = row[r].state
        BY <1>2, <3>2
      <4> QED BY <2>1, <2>f, <3>2, <4>1 DEF RowInv, Active, ActiveUpload, Early
    <3> QED BY <3>1, <3>2
  <2>2. RowInv(r)'
    BY <2>1, <2>w, <2>f, <2>a DEF RowInv, Active, ActiveUpload, Early
  <2>3. HandlerInv(r)'
    BY <1>2, <2>1 DEF HandlerInv, Working, Inside
  <2>4. Named(r)'
    BY <1>2, <2>1 DEF Named
  <2> QED BY <2>2, <2>3, <2>4
<1>4. ASSUME NEW q \in Ids \ rs PROVE RowInv(q)' /\ HandlerInv(q)' /\ Named(q)'
  <2>1. row'[q] = row[q] /\ at'[q] = at[q] /\ part'[q] = part[q] /\ backup'[q] = backup[q]
    BY <1>1, ClaimEffect
  <2> QED BY <2>1 DEF Shape, RowInv, HandlerInv, Named, Active, Early
<1>5. ASSUME NEW x \in Procs \ {p} PROVE RecoveryInv(x)'
  <2>1. RecoveryInv(x) /\ rec'[x] = rec[x] /\ rec[x].todo \subseteq Ids
    BY DEF Shape, UploadTypeOK, Recoveries
  <2>2. \A q \in Ids : InRecovery(x, q) => row'[q] = row[q] /\ at'[q] = at[q] /\ backup'[q] = backup[q]
    BY <1>1, ClaimEffect
  <2>3. \A q \in Ids : /\ InRecovery(x, q)' <=> InRecovery(x, q)
                       /\ rec[x].on = q \/ q \in rec[x].todo => InRecovery(x, q)
    BY <2>1 DEF InRecovery
  <2>4. x \notin live => req'[x] = req[x]
    OBVIOUS
  <2> QED BY <2>1, <2>2, <2>3, <2>4 DEF RecoveryInv
<1>6. RecoveryInv(p)'
  <2>1. CASE rec'[p] = NoRecovery
    BY <1>1, <2>1 DEF RecoveryInv, NoRecovery, InRecovery
  <2>2. CASE rec'[p].todo = rs /\ rec'[p].on = NoId /\ rec'[p].step = "none"
    BY <1>1, <1>2, <2>2 DEF RecoveryInv, InRecovery
  <2> QED BY <2>1, <2>2
<1> QED BY <1>3, <1>4, <1>5, <1>6 DEF Shape

\* What a reap claims has no handler at work, and nobody recovers it.
LEMMA ClaimableIdle ==
  ASSUME UploadTypeOK, Shape, NEW p \in Procs, rec[p] = NoRecovery, NEW r \in Claimable(p)
  PROVE  /\ r \in Ids /\ Active(r) /\ at[r] \notin Working \cup {"committed"}
         /\ \A x \in Procs : ~InRecovery(x, r)
<1>1. r \in Ids /\ Active(r) /\ ((row[r].was # "none" /\ row[r].owner = p) \/ row[r].owner \notin live)
  BY DEF Claimable, OwnerDead
<1>2. HandlerInv(r) /\ RowInv(r) /\ NoId \notin Ids
  BY <1>1, UploadAssumption DEF Shape, UploadAssumption
<1>3. at[r] \notin Working
  BY <1>1, <1>2 DEF HandlerInv, Working, Inside
<1>4. at[r] # "committed"
  BY <1>1, <1>2 DEF HandlerInv, Active, ActiveUpload
<1>5. ASSUME NEW x \in Procs PROVE ~InRecovery(x, r)
  <2>1. RecoveryInv(x) /\ (x = p => ~InRecovery(x, r))
    BY <1>1, <1>2 DEF Shape, InRecovery, NoRecovery
  <2>2. x \notin live => ~InRecovery(x, r)
    BY <1>1, <1>2, <2>1 DEF RecoveryInv, InRecovery, NoRecovery
  <2> QED BY <1>1, <2>1, <2>2 DEF RecoveryInv
<1> QED BY <1>1, <1>3, <1>4, <1>5

\* A request that begins with a reap.
LEMMA ReapShape ==
  ASSUME UploadTypeOK, Shape, NEW p \in live, Reap(p), at' = at, part' = part, backup' = backup,
         live' = live, \A x \in Procs \ live : req'[x] = req[x]
  PROVE  Shape'
<1>1. p \in Procs /\ rec[p] = NoRecovery
  BY ReapEffect DEF UploadTypeOK
<1>2. Claimable(p) \in SUBSET Ids /\ row' = ClaimedBy(p, Claimable(p))
  BY <1>1, ReapEffect DEF Claimable
<1>3. /\ \A x \in Procs \ {p} : rec'[x] = rec[x]
      /\ \/ rec'[p] = NoRecovery
         \/ rec'[p].todo = Claimable(p) /\ rec'[p].on = NoId /\ rec'[p].step = "none"
  BY <1>1, ReapEffect
<1>4. \A r \in Claimable(p) : /\ Active(r) /\ at[r] \notin Working \cup {"committed"}
                              /\ at'[r] \notin Working \cup {"committed"}
                              /\ \A x \in Procs : ~InRecovery(x, r)
  BY <1>1, ClaimableIdle
<1> QED BY <1>1, <1>2, <1>3, <1>4, ClaimShape

\* Steps that let go of handlers, of recoveries and of requests.
LEMMA IdleFrame ==
  ASSUME UploadTypeOK, Shape, row' = row, part' = part, backup' = backup, live' = live,
         \A x \in Procs : rec'[x] = rec[x] \/ rec'[x] = NoRecovery,
         \A x \in Procs \ live : req'[x] = req[x] \/ req'[x] = NoRequest,
         \A r \in Ids : at'[r] = at[r] \/ (at[r] # "none" /\ at'[r] \in {"fail", "done"})
  PROVE  Shape'
<1>1. ASSUME NEW r \in Ids PROVE RowInv(r)' /\ HandlerInv(r)' /\ Named(r)'
  <2>1. RowInv(r) /\ HandlerInv(r) /\ Named(r) /\ row[r] \in Reservations
    BY DEF Shape, UploadTypeOK
  <2>2. at'[r] = at[r] \/ (row[r].state # "unused" /\ at[r] # "none" /\ at'[r] \in {"fail", "done"})
    BY <2>1 DEF RowInv
  <2> QED BY <2>1, <2>2 DEF RowInv, HandlerInv, Named, Active, Early, Working, Inside
<1>2. ASSUME NEW x \in Procs PROVE RecoveryInv(x)'
  <2>1. RecoveryInv(x) /\ rec[x].todo \subseteq Ids /\ NoId \notin Ids
    BY UploadAssumption DEF Shape, UploadTypeOK, Recoveries, UploadAssumption
  <2>2. \A q \in Ids : at[q] \notin Working \cup {"committed"} => at'[q] \notin Working \cup {"committed"}
    BY DEF Working, Inside
  <2>3. x \notin live => req'[x] = NoRequest /\ rec'[x] = NoRecovery
    BY <2>1 DEF RecoveryInv
  <2>4. CASE rec'[x] = NoRecovery
    BY <2>1, <2>3, <2>4 DEF RecoveryInv, NoRecovery, InRecovery
  <2>5. CASE rec'[x] = rec[x]
    <3>1. \A q \in Ids : /\ InRecovery(x, q)' <=> InRecovery(x, q)
                         /\ rec[x].on = q \/ q \in rec[x].todo => InRecovery(x, q)
      BY <2>1, <2>5 DEF InRecovery
    <3> QED BY <2>1, <2>2, <2>3, <2>5, <3>1 DEF RecoveryInv
  <2> QED BY <2>4, <2>5
<1> QED BY <1>1, <1>2 DEF Shape

\* New rows, of a process that is alive.
LEMMA FreshFrame ==
  ASSUME UploadTypeOK, Shape, NEW rs \in SUBSET Unused, part' = part, backup' = backup,
         live' = live, rec' = rec, \A x \in Procs \ live : req'[x] = req[x],
         \A q \in Ids \ rs : row'[q] = row[q] /\ at'[q] = at[q],
         \A r \in rs : /\ row'[r].state = "reserved" /\ row'[r].was = "none"
                       /\ row'[r].owner \in live /\ at'[r] = "reserved"
                       /\ row'[r].op = "staging" => row'[r].target \in Staged
                       /\ row'[r].op # "staging" => row'[r].target \in Episodes
                       /\ row'[r].op = "import" => row'[r].source \in Staged
  PROVE  Shape'
<1>1. \A r \in rs : r \in Ids /\ row[r].state = "unused" /\ row[r].was = "none"
                    /\ part[r] = NoFile /\ backup[r] = NoFile
  BY DEF Unused, Shape, RowInv
<1>2. ASSUME NEW r \in rs PROVE RowInv(r)' /\ HandlerInv(r)' /\ Named(r)'
  <2>1. row'[r].owner \in Procs
    BY <1>1 DEF UploadTypeOK
  <2>2. RowInv(r)'
    BY <1>1, <2>1 DEF RowInv, Active, ActiveUpload, Early
  <2>3. HandlerInv(r)'
    BY <1>1 DEF HandlerInv, Active, ActiveUpload, Working, Inside
  <2>4. Named(r)'
    BY <1>1 DEF Named
  <2> QED BY <2>2, <2>3, <2>4
<1>3. ASSUME NEW q \in Ids \ rs PROVE RowInv(q)' /\ HandlerInv(q)' /\ Named(q)'
  BY DEF Shape, RowInv, HandlerInv, Named, Active, Early
<1>4. ASSUME NEW x \in Procs PROVE RecoveryInv(x)'
  <2>1. RecoveryInv(x) /\ rec[x].todo \subseteq Ids
    BY DEF Shape, UploadTypeOK, Recoveries
  <2>2. \A r \in rs : ~InRecovery(x, r)
    BY <1>1, <2>1 DEF RecoveryInv, InRecovery
  <2>3. \A q \in Ids : InRecovery(x, q) => row'[q] = row[q] /\ at'[q] = at[q] /\ backup'[q] = backup[q]
    BY <2>2
  <2>4. \A q \in Ids : /\ InRecovery(x, q)' <=> InRecovery(x, q)
                       /\ rec[x].on = q \/ q \in rec[x].todo => InRecovery(x, q)
    BY <2>1 DEF InRecovery
  <2>5. x \notin live => req'[x] = req[x]
    OBVIOUS
  <2> QED BY <2>1, <2>3, <2>4, <2>5 DEF RecoveryInv
<1> QED BY <1>2, <1>3, <1>4 DEF Shape

\* fail_upload_reservation.
LEMMA FailShape ==
  ASSUME UploadTypeOK, Shape, NEW r \in Ids, Fail(r)
  PROVE  Shape'
<1> DEFINE p == row[r].owner
<1>1. /\ at[r] = "fail" /\ p \in live /\ rec[p] = NoRecovery /\ p \in Procs
      /\ part' = part /\ backup' = backup /\ live' = live /\ req' = req
  BY DEF Fail, Handler, files, UploadTypeOK
<1>2. CASE Active(r)
  <2>1. /\ row' = ClaimedBy(p, {r}) /\ at' = [at EXCEPT ![r] = "failing"]
        /\ rec' = [rec EXCEPT ![p] = [NoRecovery EXCEPT !.why = "fail", !.todo = {r}]]
    BY <1>2 DEF Fail, Goto
  <2>2. at'[r] = "failing" /\ \A q \in Ids \ {r} : at'[q] = at[q]
    BY <2>1 DEF UploadTypeOK
  <2>3. /\ rec'[p].todo = {r} /\ rec'[p].on = NoId /\ rec'[p].step = "none"
        /\ \A x \in Procs \ {p} : rec'[x] = rec[x]
    BY <1>1, <2>1 DEF UploadTypeOK, NoRecovery
  <2>4. \A x \in Procs : ~InRecovery(x, r)
    BY <1>1, UploadAssumption DEF Shape, RecoveryInv, InRecovery, NoRecovery, UploadAssumption
  <2>5. {r} \in SUBSET Ids /\ at[r] \notin Working \cup {"committed"}
        /\ at'[r] \notin Working \cup {"committed"}
    BY <1>1, <2>2 DEF Working, Inside
  <2>6. \A x \in Procs \ live : req'[x] = req[x]
    BY <1>1
  <2> HIDE DEF p
  <2>7. \A q \in {r} : /\ Active(q) /\ at[q] \notin Working \cup {"committed"}
                       /\ at'[q] \notin Working \cup {"committed"}
                       /\ \A x \in Procs : ~InRecovery(x, q)
    BY <1>2, <2>4, <2>5
  <2> QED BY <1>1, <2>1, <2>2, <2>3, <2>5, <2>6, <2>7, ClaimShape
<1>3. CASE ~Active(r)
  <2>1. row' = row /\ rec' = rec /\ at' = [at EXCEPT ![r] = "done"]
    BY <1>3 DEF Fail, Goto
  <2>2. \A q \in Ids : at'[q] = at[q] \/ (at[q] # "none" /\ at'[q] \in {"fail", "done"})
    BY <1>1, <2>1 DEF UploadTypeOK
  <2> QED BY <1>1, <2>1, <2>2, IdleFrame
<1> QED BY <1>2, <1>3

\* The leftovers that a reap removes are of rows that need them no more.
LEMMA EndReapShape ==
  ASSUME UploadTypeOK, Shape, NEW p \in Procs, EndReap(p)
  PROVE  Shape'
<1>1. /\ at' = at /\ req' = req /\ live' = live /\ p \in live
      /\ rec'[p] = NoRecovery /\ \A x \in Procs \ {p} : rec'[x] = rec[x]
  BY DEF EndReap, UploadTypeOK
<1>2. ASSUME NEW r \in Ids
      PROVE  /\ row'[r].state = row[r].state /\ row'[r].op = row[r].op
             /\ row'[r].target = row[r].target /\ row'[r].source = row[r].source
             /\ row'[r].owner = row[r].owner /\ row'[r].was = row[r].was
             /\ row'[r].temp = (row[r].temp /\ r \notin FailedTemps)
             /\ row'[r].backup = (row[r].backup /\ r \notin KeptBackups)
             /\ part'[r] = IF r \in FailedTemps THEN NoFile ELSE part[r]
             /\ backup'[r] = IF r \in KeptBackups THEN NoFile ELSE backup[r]
  <2>1. row'[r] = [row[r] EXCEPT !.backup = @ /\ r \notin KeptBackups,
                                 !.temp = @ /\ r \notin FailedTemps]
        /\ part'[r] = (IF r \in FailedTemps THEN NoFile ELSE part[r])
        /\ backup'[r] = IF r \in KeptBackups THEN NoFile ELSE backup[r]
    BY DEF EndReap
  <2>2. row[r] \in Reservations
    BY DEF UploadTypeOK
  <2> QED BY <2>1, <2>2 DEF Reservations
<1>3. ASSUME NEW r \in Ids
      PROVE  /\ r \in FailedTemps => row[r].state = "failed"
             /\ r \in KeptBackups => row[r].state = "published"
  BY DEF FailedTemps, KeptBackups
<1>4. ASSUME NEW r \in Ids PROVE RowInv(r)' /\ HandlerInv(r)' /\ Named(r)'
  <2>1. RowInv(r) /\ HandlerInv(r) /\ Named(r) /\ row[r] \in Reservations
    BY DEF Shape, UploadTypeOK
  <2>2. /\ row'[r].state = row[r].state /\ row'[r].op = row[r].op
        /\ row'[r].target = row[r].target /\ row'[r].source = row[r].source
        /\ row'[r].owner = row[r].owner /\ row'[r].was = row[r].was
    BY <1>2
  <2>3. /\ part'[r] \in {part[r], NoFile} /\ backup'[r] \in {backup[r], NoFile}
        /\ row[r].temp => row'[r].temp \/ (row[r].state = "failed" /\ part'[r] = NoFile)
        /\ row[r].backup => row'[r].backup \/ (row[r].state = "published" /\ backup'[r] = NoFile)
    BY <1>2, <1>3
  <2>4. RowInv(r)'
    BY <2>1, <2>2, <2>3, <1>1 DEF RowInv, Active, ActiveUpload, Early
  <2>5. HandlerInv(r)'
    BY <2>1, <2>2, <2>3, <1>1 DEF HandlerInv, Active
  <2>6. Named(r)'
    BY <2>1, <2>2, <2>3 DEF Named
  <2> QED BY <2>4, <2>5, <2>6
<1>5. ASSUME NEW x \in Procs PROVE RecoveryInv(x)'
  <2>1. RecoveryInv(x) /\ rec[x].todo \subseteq Ids /\ NoId \notin Ids
    BY UploadAssumption DEF Shape, UploadTypeOK, Recoveries, UploadAssumption
  <2>2. CASE x = p
    BY <1>1, <2>1, <2>2 DEF RecoveryInv, NoRecovery, InRecovery
  <2>3. CASE x # p
    <3>1. \A q \in Ids : /\ InRecovery(x, q)' <=> InRecovery(x, q)
                         /\ rec[x].on = q \/ q \in rec[x].todo => InRecovery(x, q)
      BY <1>1, <2>1, <2>3 DEF InRecovery
    <3>2. \A q \in Ids : /\ row'[q].state = row[q].state /\ row'[q].owner = row[q].owner
                         /\ row'[q].was = row[q].was /\ (backup[q] = NoFile => backup'[q] = NoFile)
      BY <1>2
    <3>3. rec'[x] = rec[x]
      BY <1>1, <2>3
    <3> QED BY <1>1, <2>1, <3>1, <3>2, <3>3 DEF RecoveryInv
  <2> QED BY <2>2, <2>3
<1> QED BY <1>4, <1>5 DEF Shape

\* A death takes the handlers and the recovery of its process.
LEMMA DieShape ==
  ASSUME UploadTypeOK, Shape, NEW p \in Procs, Die(p)
  PROVE  Shape'
<1>1. /\ row' = row /\ part' = part /\ backup' = backup /\ live' = live \ {p}
      /\ rec'[p] = NoRecovery /\ req'[p] = NoRequest
      /\ \A x \in Procs \ {p} : rec'[x] = rec[x] /\ req'[x] = req[x]
      /\ \A r \in Ids : at'[r] = IF row[r].owner = p THEN "none" ELSE at[r]
  BY DEF Die, files, UploadTypeOK
<1>2. ASSUME NEW r \in Ids PROVE RowInv(r)' /\ HandlerInv(r)' /\ Named(r)'
  <2>1. RowInv(r) /\ HandlerInv(r) /\ Named(r)
    BY DEF Shape
  <2>2. RowInv(r)'
    BY <1>1, <2>1 DEF RowInv, Active, Early
  <2>3. HandlerInv(r)'
    BY <1>1, <2>1 DEF HandlerInv, Active, Working, Inside
  <2>4. Named(r)'
    BY <1>1, <2>1 DEF Named
  <2> QED BY <2>2, <2>3, <2>4
<1>3. ASSUME NEW x \in Procs PROVE RecoveryInv(x)'
  <2>1. RecoveryInv(x) /\ rec[x].todo \subseteq Ids /\ NoId \notin Ids
    BY UploadAssumption DEF Shape, UploadTypeOK, Recoveries, UploadAssumption
  <2>2. CASE x = p
    BY <1>1, <2>1, <2>2 DEF RecoveryInv, NoRecovery, InRecovery
  <2>3. CASE x # p
    <3>1. rec'[x] = rec[x] /\ req'[x] = req[x] /\ (x \notin live' <=> x \notin live)
      BY <1>1, <2>3
    <3>2. \A q \in Ids : /\ InRecovery(x, q)' <=> InRecovery(x, q)
                         /\ rec[x].on = q \/ q \in rec[x].todo => InRecovery(x, q)
      BY <2>1, <3>1 DEF InRecovery
    <3>3. \A q \in Ids : InRecovery(x, q) => at'[q] = at[q]
      BY <1>1, <2>1, <2>3 DEF RecoveryInv
    <3> QED BY <1>1, <2>1, <3>1, <3>2, <3>3 DEF RecoveryInv
  <2> QED BY <2>2, <2>3
<1> QED BY <1>2, <1>3 DEF Shape

\* A reservation of one upload.
LEMMA ReserveUploadShape ==
  ASSUME UploadTypeOK, Shape, NEW p \in Procs, NEW r \in Ids, NEW o \in {"individual", "staging"},
         NEW t \in Targets, ReserveUpload(p, r, o, t),
         o = "staging" => t \in Staged, o = "individual" => t \in Episodes
  PROVE  Shape'
<1>1. /\ p \in live /\ r \in Unused /\ part' = part /\ backup' = backup /\ live' = live
      /\ rec' = rec
      /\ \A x \in Procs \ {p} : req'[x] = req[x]
      /\ row'[r] = NewRow(p, o, t, NoFile, r) /\ at'[r] = "reserved"
      /\ \A q \in Ids \ {r} : row'[q] = row[q] /\ at'[q] = at[q]
  BY DEF ReserveUpload, Reserving, files, UploadTypeOK
<1>2. /\ row'[r].state = "reserved" /\ row'[r].was = "none" /\ row'[r].owner = p
      /\ row'[r].op = o /\ row'[r].target = t
  BY <1>1 DEF NewRow, NoRow
<1>3. {r} \in SUBSET Unused /\ \A x \in Procs \ live : req'[x] = req[x]
  BY <1>1
<1>4. \A q \in {r} : /\ row'[q].state = "reserved" /\ row'[q].was = "none"
                     /\ row'[q].owner \in live /\ at'[q] = "reserved"
                     /\ row'[q].op = "staging" => row'[q].target \in Staged
                     /\ row'[q].op # "staging" => row'[q].target \in Episodes
                     /\ row'[q].op = "import" => row'[q].source \in Staged
  BY <1>1, <1>2
<1> QED BY <1>1, <1>3, <1>4, FreshFrame

\* start_commit gives each entry a reservation of its own.
LEMMA ReserveEntriesEffect ==
  ASSUME UploadTypeOK, NEW p \in Procs, ReserveEntries(p)
  PROVE  LET new == req[p].plan.entries IN
    /\ p \in live /\ req[p].phase = "import" /\ new \subseteq Staged
    /\ \A s \in new : ~Conflict(req[p].plan, s)
    /\ \E id \in [new -> Unused] :
         /\ \A s, x \in new : id[s] = id[x] => s = x
         /\ \A s \in new : /\ row'[id[s]] = NewRow(p, "import", EntryOf[s], s, req[p].plan.seen[s])
                           /\ at'[id[s]] = "reserved"
         /\ \A r \in Ids : (\A s \in new : id[s] # r) => row'[r] = row[r] /\ at'[r] = at[r]
         /\ job'.plan = req[p].plan /\ job'.swept = FALSE
         /\ \A r : r \in job'.ids <=> \E s \in new : id[s] = r
    /\ files' = files /\ rec' = rec /\ live' = live
    /\ req'[p] = NoRequest /\ \A x \in Procs \ {p} : req'[x] = req[x]
<1> DEFINE new == req[p].plan.entries
<1>1. new \subseteq Staged /\ p \in live /\ req[p].phase = "import"
      /\ (\A s \in new : ~Conflict(req[p].plan, s))
      /\ files' = files /\ rec' = rec /\ live' = live
      /\ req'[p] = NoRequest /\ \A x \in Procs \ {p} : req'[x] = req[x]
  BY DEF ReserveEntries, Reserving, UploadTypeOK, Plans
<1>2. PICK id \in Injection(new, Unused) :
       /\ job' = [NoJob EXCEPT !.plan = req[p].plan, !.ids = {id[s] : s \in new}]
       /\ row' = [r \in Ids |->
                    IF \E s \in new : id[s] = r
                    THEN LET s == CHOOSE x \in new : id[x] = r
                         IN NewRow(p, "import", EntryOf[s], s, req[p].plan.seen[s])
                    ELSE row[r]]
       /\ at' = [r \in Ids |-> IF \E s \in new : id[s] = r THEN "reserved" ELSE at[r]]
  BY DEF ReserveEntries
<1>3. id \in [new -> Unused] /\ \A s, x \in new : id[s] = id[x] => s = x
  BY <1>2 DEF Injection, IsInjective
<1>4. ASSUME NEW s \in new
      PROVE  /\ row'[id[s]] = NewRow(p, "import", EntryOf[s], s, req[p].plan.seen[s])
             /\ at'[id[s]] = "reserved"
  <2>1. id[s] \in Ids
    BY <1>3 DEF Unused
  <2> DEFINE c == CHOOSE x \in new : id[x] = id[s]
  <2>2. c \in new /\ id[c] = id[s]
    OBVIOUS
  <2>3. c = s
    BY <1>3, <2>2
  <2> HIDE DEF c
  <2>4. row'[id[s]] = NewRow(p, "import", EntryOf[c], c, req[p].plan.seen[c])
    BY <1>2, <2>1, <2>2 DEF c
  <2>5. at'[id[s]] = "reserved"
    BY <1>2, <2>1
  <2> QED BY <2>3, <2>4, <2>5
<1>5. \A r \in Ids : (\A s \in new : id[s] # r) => row'[r] = row[r] /\ at'[r] = at[r]
  BY <1>2
<1>6. /\ job'.plan = req[p].plan /\ job'.swept = FALSE
      /\ \A r : r \in job'.ids <=> \E s \in new : id[s] = r
  BY <1>2 DEF NoJob
<1> QED BY <1>1, <1>3, <1>4, <1>5, <1>6

\* The reservations of an import keep the shape.
LEMMA ReserveEntriesShape ==
  ASSUME UploadTypeOK, Shape, NEW p \in Procs, ReserveEntries(p)
  PROVE  Shape'
<1> DEFINE new == req[p].plan.entries
<1>1. p \in live /\ new \subseteq Staged /\ files' = files /\ rec' = rec /\ live' = live
      /\ \A x \in Procs \ {p} : req'[x] = req[x]
  BY ReserveEntriesEffect
<1>2. PICK id \in [new -> Unused] :
         /\ \A s \in new : /\ row'[id[s]] = NewRow(p, "import", EntryOf[s], s, req[p].plan.seen[s])
                           /\ at'[id[s]] = "reserved"
         /\ \A r \in Ids : (\A s \in new : id[s] # r) => row'[r] = row[r] /\ at'[r] = at[r]
  BY ReserveEntriesEffect
<1> DEFINE rs == {id[s] : s \in new}
<1> HIDE DEF new
<1>3. rs \in SUBSET Unused /\ part' = part /\ backup' = backup /\ \A x \in Procs \ live : req'[x] = req[x]
  BY <1>1, <1>2 DEF files
<1>4. \A q \in Ids \ rs : row'[q] = row[q] /\ at'[q] = at[q]
  BY <1>2
<1>5. ASSUME NEW r \in rs
      PROVE  /\ row'[r].state = "reserved" /\ row'[r].was = "none"
             /\ row'[r].owner \in live /\ at'[r] = "reserved"
             /\ row'[r].op = "import" /\ row'[r].target \in Episodes /\ row'[r].source \in Staged
  <2>1. PICK s \in new : r = id[s]
    OBVIOUS
  <2>2. s \in Staged /\ EntryOf[s] \in Episodes
    BY <1>1, UploadAssumption DEF UploadAssumption
  <2>3. row'[r] = NewRow(p, "import", EntryOf[s], s, req[p].plan.seen[s]) /\ at'[r] = "reserved"
    BY <1>2, <2>1
  <2> QED BY <1>1, <2>2, <2>3 DEF NewRow, NoRow
<1> HIDE DEF rs
<1>6. \A r \in rs : /\ row'[r].state = "reserved" /\ row'[r].was = "none"
                    /\ row'[r].owner \in live /\ at'[r] = "reserved"
                    /\ row'[r].op = "staging" => row'[r].target \in Staged
                    /\ row'[r].op # "staging" => row'[r].target \in Episodes
                    /\ row'[r].op = "import" => row'[r].source \in Staged
  BY <1>5
<1> QED BY <1>1, <1>3, <1>4, <1>6, FreshFrame

\* Every step keeps the rows, the handlers and the recoveries in order.
LEMMA ShapeStep ==
  ASSUME UploadTypeOK, Shape, UploadNext
  PROVE  Shape'
<1>1. ASSUME NEW r \in Ids, HandlerStep(r) \/ HandlerFails(r) PROVE Shape'
  BY <1>1, HandlerShape, FailShape
<1>2. ASSUME NEW p \in Procs, NEW r \in Ids,
             Discard(p, r) \/ Unpublish(p, r) \/ Restore(p, r) \/ MarkFailed(p, r) \/ CleanTemp(p, r)
               \/ RowFails(p, r)
      PROVE  Shape'
  BY <1>2, FilesRecoveredShape, RowRecoveredShape
<1>3. ASSUME NEW p \in Procs, AskUpload(p) \/ StartCommit(p) PROVE Shape'
  <2>1. Reap(p) /\ p \in live /\ at' = at /\ part' = part /\ backup' = backup /\ live' = live
        /\ \A x \in Procs \ {p} : req'[x] = req[x]
    BY <1>3 DEF AskUpload, StartCommit, files, UploadTypeOK
  <2>2. \A x \in Procs \ live : req'[x] = req[x]
    BY <2>1
  <2> QED BY <2>1, <2>2, ReapShape
<1>4. ASSUME NEW p \in Procs,
             \/ \E overwrite \in BOOLEAN : AskCommit(p, overwrite)
             \/ CommitRefused(p) \/ UploadRefused(p) \/ EntriesRefused(p) \/ EndImport(p)
             \/ EndFail(p) \/ RecoveryRaises(p) \/ \E sweeps \in BOOLEAN : SweepStaging(p, sweeps)
      PROVE  Shape'
  <2>1. row' = row /\ part' = part /\ backup' = backup /\ live' = live /\ p \in live
    BY <1>4 DEF AskCommit, CommitRefused, UploadRefused, EntriesRefused, EndImport, EndFail,
                RecoveryRaises, SweepStaging, Reserving, files
  <2>2. \A x \in Procs : rec'[x] = rec[x] \/ rec'[x] = NoRecovery
    BY <1>4 DEF AskCommit, CommitRefused, UploadRefused, EntriesRefused, EndImport, EndFail,
                RecoveryRaises, SweepStaging, UploadTypeOK
  <2>3. \A x \in Procs \ live : req'[x] = req[x] \/ req'[x] = NoRequest
    BY <1>4, <2>1 DEF AskCommit, CommitRefused, UploadRefused, EntriesRefused, EndImport, EndFail,
                RecoveryRaises, SweepStaging, UploadTypeOK
  <2>4. \A r \in Ids : at'[r] = at[r] \/ (at[r] # "none" /\ at'[r] \in {"fail", "done"})
    <3>1. CASE at' = at
      BY <3>1
    <3>2. CASE RecoveryRaises(p)
      BY <3>2 DEF RecoveryRaises
    <3>3. ASSUME NEW sweeps \in BOOLEAN, SweepStaging(p, sweeps)
          PROVE  \A r \in Ids : at'[r] = at[r] \/ (at[r] # "none" /\ at'[r] \in {"fail", "done"})
      BY <3>3 DEF SweepStaging
    <3> QED BY <1>4, <3>1, <3>2, <3>3
            DEF AskCommit, CommitRefused, UploadRefused, EntriesRefused, EndImport, EndFail
  <2> QED BY <2>1, <2>2, <2>3, <2>4, IdleFrame
<1>5. ASSUME NEW p \in Procs, NEW r \in Ids,
             \/ \E e \in Episodes : ReserveEpisode(p, r, e)
             \/ \E s \in Staged : ReserveStaged(p, r, s)
      PROVE  Shape'
  BY <1>5, ReserveUploadShape DEF ReserveEpisode, ReserveStaged, Targets
<1>6. CASE ClearStaging
  BY <1>6, IdleFrame DEF ClearStaging
<1> QED BY <1>1, <1>2, <1>3, <1>4, <1>5, <1>6, ReserveEntriesShape, EndReapShape, DieShape
        DEF UploadNext, RequestStep, RecoveryStep, Failure

\* The shape holds when the feed is new.
LEMMA ShapeInit ==
  UploadInit => Shape
BY UploadAssumption
   DEF UploadInit, Shape, RowInv, HandlerInv, Named, RecoveryInv, NoRow, NoRecovery, InRecovery,
       Early, Active, ActiveUpload, Working, Inside, UploadAssumption

-----------------------------------------------------------------------------
(* Types *)

\* A row in use is about a target, and an import's about a staged file.
LEMMA RowTargets ==
  ASSUME UploadTypeOK, Shape, NEW r \in Ids, row[r].state # "unused"
  PROVE  /\ row[r].target \in Targets /\ row[r].owner \in Procs
         /\ row[r].op = "import" => row[r].source \in Staged /\ row[r].source \in Targets
         /\ row[r].op = "staging" => row[r].target \in Staged
         /\ row[r].op # "staging" => row[r].target \in Episodes
BY DEF Shape, RowInv, Targets

\* A handler has a row in use.
LEMMA HandlerRow ==
  ASSUME UploadTypeOK, Shape, NEW r \in Ids, at[r] # "none"
  PROVE  row[r].state # "unused" /\ row[r].owner \in live
BY DEF Shape, RowInv, HandlerInv

\* A claim leaves rows rows.
LEMMA ClaimType ==
  ASSUME UploadTypeOK, NEW p \in Procs, NEW rs \in SUBSET Ids, \A r \in rs : Active(r)
  PROVE  ClaimedBy(p, rs) \in [Ids -> Reservations]
<1>1. ASSUME NEW r \in rs, NEW w \in ActiveUpload
      PROVE  [row[r] EXCEPT !.state = "publishing", !.owner = p, !.was = w] \in Reservations
  <2>1. row[r] \in Reservations /\ "publishing" \in ActiveUpload
    BY DEF UploadTypeOK, ActiveUpload
  <2> QED BY <2>1 DEF Reservations
<1>2. ASSUME NEW r \in rs
      PROVE  [row[r] EXCEPT !.state = "publishing", !.owner = p,
                            !.was = IF @ # "none" THEN @ ELSE row[r].state] \in Reservations
  <2>1. row[r].was \in ActiveUpload \cup {"none"} /\ row[r].state \in ActiveUpload
    BY DEF UploadTypeOK, Reservations, Active
  <2>2. (IF row[r].was # "none" THEN row[r].was ELSE row[r].state) \in ActiveUpload
    BY <2>1
  <2> QED BY <1>1, <2>2
<1> QED BY <1>2 DEF ClaimedBy, UploadTypeOK

\* A reap keeps the types of what it touches.
LEMMA ReapType ==
  ASSUME UploadTypeOK, NEW p \in Procs, Reap(p)
  PROVE  row' \in [Ids -> Reservations] /\ rec' \in [Procs -> Recoveries]
<1>1. Claimable(p) \in SUBSET Ids /\ \A r \in Claimable(p) : Active(r)
  BY DEF Claimable
<1>2. row' \in [Ids -> Reservations]
  BY <1>1, ClaimType DEF Reap
<1>3. rec' \in [Procs -> Recoveries]
  BY <1>1 DEF Reap, UploadTypeOK, Recoveries, NoRecovery
<1> QED BY <1>2, <1>3

\* The steps of a handler keep the types.
LEMMA HandlerType ==
  ASSUME UploadTypeOK, Shape, NEW r \in Ids, HandlerStep(r) \/ HandlerFails(r)
  PROVE  UploadTypeOK'
<1>1. at[r] # "none"
  BY DEF HandlerStep, HandlerFails, Handler, Prepare, PrepareEntry, BeginPublication, BackUp, MoveIn,
         Bump, Commit, DropBackup, UndoMove, UndoBackup, Unlink, Fail
<1>2. /\ row[r].target \in Targets /\ row[r].owner \in Procs
      /\ row[r].op = "import" => row[r].source \in Staged /\ row[r].source \in Targets
  BY <1>1, HandlerRow, RowTargets
<1>3. row[r] \in Reservations /\ r \in Content /\ NoFile \in Content
  BY DEF UploadTypeOK, Content
<1>4. CASE Prepare(r)
  BY <1>3, <1>4 DEF Prepare, Goto, UploadTypeOK, Reservations, Phases, ActiveUpload
<1>5. CASE PrepareEntry(r)
  BY <1>3, <1>5 DEF PrepareEntry, Goto, files, UploadTypeOK, Reservations, Phases, ActiveUpload
<1>6. CASE BeginPublication(r)
  BY <1>3, <1>6 DEF BeginPublication, Goto, files, UploadTypeOK, Reservations, Phases, ActiveUpload
<1>7. CASE BackUp(r)
  BY <1>2, <1>3, <1>7 DEF BackUp, Goto, UploadTypeOK, Phases
<1>8. CASE MoveIn(r)
  BY <1>2, <1>3, <1>8 DEF MoveIn, Goto, SourceOf, UploadTypeOK, Phases
<1>9. CASE Bump(r)
  BY <1>3, <1>9 DEF Bump, Goto, files, UploadTypeOK, Phases
<1>10. CASE Commit(r)
  BY <1>2, <1>3, <1>10 DEF Commit, Goto, UploadTypeOK, Reservations, Phases
<1>11. CASE DropBackup(r)
  BY <1>3, <1>11 DEF DropBackup, Goto, UploadTypeOK, Reservations, Phases
<1>12. CASE UndoMove(r)
  BY <1>2, <1>3, <1>12 DEF UndoMove, Goto, UploadTypeOK, Phases
<1>13. CASE UndoBackup(r)
  BY <1>2, <1>3, <1>13 DEF UndoBackup, Goto, UploadTypeOK, Phases
<1>14. CASE Unlink(r)
  BY <1>3, <1>14 DEF Unlink, Goto, UploadTypeOK, Phases
<1>15. CASE Fail(r)
  <2>1. row' \in [Ids -> Reservations]
    BY <1>2, <1>15, ClaimType DEF Fail, UploadTypeOK
  <2>2. rec' \in [Procs -> Recoveries]
    <3>1. [NoRecovery EXCEPT !.why = "fail", !.todo = {r}] \in Recoveries
      BY DEF Recoveries, NoRecovery
    <3>2. \/ rec' = rec
         \/ rec' = [rec EXCEPT ![row[r].owner] = [NoRecovery EXCEPT !.why = "fail", !.todo = {r}]]
      BY <1>15 DEF Fail
    <3> QED BY <3>1, <3>2 DEF UploadTypeOK
  <2> QED BY <1>15, <2>1, <2>2 DEF Fail, Goto, files, UploadTypeOK, Phases
<1>16. CASE HandlerFails(r)
  BY <1>3, <1>16 DEF HandlerFails, Goto, files, UploadTypeOK, Phases
<1> QED BY <1>4, <1>5, <1>6, <1>7, <1>8, <1>9, <1>10, <1>11, <1>12, <1>13, <1>14, <1>15, <1>16
        DEF HandlerStep

\* The steps of a recovery keep the types.
LEMMA RecoveryType ==
  ASSUME UploadTypeOK, Shape, NEW p \in Procs, NEW r \in Ids,
         Discard(p, r) \/ Unpublish(p, r) \/ Restore(p, r) \/ MarkFailed(p, r) \/ CleanTemp(p, r)
           \/ RowFails(p, r)
  PROVE  UploadTypeOK'
<1>1. \A step : Recovering(p, r, step) => row[r].state # "unused"
  BY RecoveringFacts
<1>2. row[r].state # "unused"
  BY <1>1 DEF Discard, Unpublish, Restore, MarkFailed, CleanTemp, RowFails
<1>3. /\ row[r].target \in Targets /\ row[r] \in Reservations /\ NoFile \in Content
      /\ row[r].op = "import" => row[r].source \in Targets
  BY <1>2, RowTargets DEF UploadTypeOK, Content
<1>4. ASSUME NEW step \in {"restore", "mark", "clean"}, NextStep(p, r, step)
      PROVE  rec' \in [Procs -> Recoveries]
  <2> DEFINE next == [rec[p] EXCEPT !.on = r, !.step = step, !.todo = rec[p].todo \ {r}]
  <2>1. next \in Recoveries /\ rec' = [rec EXCEPT ![p] = next]
    BY <1>4 DEF NextStep, UploadTypeOK, Recoveries
  <2> QED BY <2>1 DEF UploadTypeOK
<1>5. ASSUME EndRow(p, r) PROVE rec' \in [Procs -> Recoveries] /\ at' \in [Ids -> Phases]
  <2> DEFINE next == [rec[p] EXCEPT !.on = NoId, !.step = "none", !.todo = rec[p].todo \ {r}]
  <2>1. next \in Recoveries
    BY DEF UploadTypeOK, Recoveries
  <2>2. rec' = [rec EXCEPT ![p] = next]
    BY <1>5 DEF EndRow, UploadTypeOK, Recoveries
  <2>3. at' \in [Ids -> Phases]
    BY <1>5 DEF EndRow, UploadTypeOK, Phases
  <2> QED BY <2>1, <2>2, <2>3 DEF UploadTypeOK
<1>6. CASE Discard(p, r)
  BY <1>3, <1>4, <1>6 DEF Discard, UploadTypeOK
<1>7. CASE Unpublish(p, r)
  BY <1>3, <1>4, <1>7 DEF Unpublish, UploadTypeOK
<1>8. CASE Restore(p, r)
  BY <1>3, <1>4, <1>8 DEF Restore, UploadTypeOK
<1>9. CASE MarkFailed(p, r)
  <2>1. row' \in [Ids -> Reservations]
    BY <1>3, <1>9 DEF MarkFailed, UploadTypeOK, Reservations
  <2> QED BY <1>4, <1>5, <1>9, <2>1 DEF MarkFailed, files, UploadTypeOK
<1>10. CASE CleanTemp(p, r)
  <2>1. row' \in [Ids -> Reservations] /\ part' \in [Ids -> Content]
    BY <1>3, <1>10 DEF CleanTemp, UploadTypeOK, Reservations
  <2> QED BY <1>5, <1>10, <2>1 DEF CleanTemp, UploadTypeOK
<1>11. CASE RowFails(p, r)
  BY <1>5, <1>11 DEF RowFails, files, UploadTypeOK
<1> QED BY <1>6, <1>7, <1>8, <1>9, <1>10, <1>11

\* The steps of a request keep the types.
LEMMA RequestType ==
  ASSUME UploadTypeOK, Shape, NEW p \in Procs,
         \/ AskUpload(p) \/ \E overwrite \in BOOLEAN : AskCommit(p, overwrite)
         \/ StartCommit(p) \/ CommitRefused(p) \/ UploadRefused(p) \/ EntriesRefused(p)
         \/ \E r \in Ids : \/ \E e \in Episodes : ReserveEpisode(p, r, e)
                           \/ \E s \in Staged : ReserveStaged(p, r, s)
  PROVE  UploadTypeOK'
<1>1. NoRequest \in [phase : {"idle", "upload", "asked", "import"}, plan : Plans]
      /\ NoFile \in Content
  BY DEF NoRequest, NoPlan, Plans, Content
<1>2. CASE AskUpload(p)
  BY <1>2, ReapType DEF AskUpload, files, UploadTypeOK
<1>3. ASSUME NEW overwrite \in BOOLEAN, AskCommit(p, overwrite) PROVE UploadTypeOK'
  <2> DEFINE new == [seen |-> [s \in Staged |-> final[s]], gen |-> generation,
                     entries |-> {s \in Staged : /\ final[s] # NoFile /\ SoleFile(s)
                                                 /\ overwrite \/ episode[EntryOf[s]] = NoFile},
                     overwrite |-> overwrite,
                     published |-> {r \in Ids : row[r].state = "published"}]
  <2>1. new \in Plans
    BY DEF Plans, UploadTypeOK, Targets
  <2>2. req' = [req EXCEPT ![p] = [phase |-> "asked", plan |-> new]]
    BY <1>3 DEF AskCommit
  <2> HIDE DEF new
  <2>3. req' \in [Procs -> [phase : {"idle", "upload", "asked", "import"}, plan : Plans]]
    BY <2>1, <2>2 DEF UploadTypeOK
  <2> QED BY <1>3, <2>3 DEF AskCommit, files, UploadTypeOK
<1>4. CASE StartCommit(p)
  BY <1>4, ReapType DEF StartCommit, files, UploadTypeOK
<1>5. CASE CommitRefused(p) \/ UploadRefused(p)
  BY <1>1, <1>5 DEF CommitRefused, UploadRefused, files, UploadTypeOK
<1>6. CASE EntriesRefused(p)
  BY <1>1, <1>6 DEF EntriesRefused, files, UploadTypeOK
<1>7. ASSUME NEW r \in Ids, NEW o \in {"individual", "staging"}, NEW t \in Targets, ReserveUpload(p, r, o, t)
      PROVE  UploadTypeOK'
  <2>1. NewRow(p, o, t, NoFile, r) \in Reservations
    BY DEF NewRow, NoRow, Reservations, ActiveUpload, Ops, Content
  <2> QED BY <1>1, <1>7, <2>1 DEF ReserveUpload, files, UploadTypeOK, Phases
<1> QED BY <1>2, <1>3, <1>4, <1>5, <1>6, <1>7 DEF ReserveEpisode, ReserveStaged, Targets

\* The other steps keep the types.
LEMMA OtherType ==
  ASSUME UploadTypeOK, Shape, NEW p \in Procs,
         \/ EndReap(p) \/ EndFail(p) \/ RecoveryRaises(p) \/ EndImport(p) \/ Die(p) \/ ClearStaging
         \/ \E sweeps \in BOOLEAN : SweepStaging(p, sweeps)
  PROVE  UploadTypeOK'
<1>1. NoRequest \in [phase : {"idle", "upload", "asked", "import"}, plan : Plans]
      /\ NoFile \in Content
      /\ NoRecovery \in Recoveries /\ NoJob \in [plan : Plans, ids : SUBSET Ids, swept : BOOLEAN]
  BY DEF NoRequest, NoPlan, Plans, Content, NoRecovery, Recoveries, NoJob
<1>2. CASE EndReap(p)
  <2>1. ASSUME NEW r \in Ids
        PROVE  [row[r] EXCEPT !.backup = @ /\ r \notin KeptBackups,
                              !.temp = @ /\ r \notin FailedTemps] \in Reservations
    <3>1. ASSUME NEW x \in Reservations, NEW b \in BOOLEAN, NEW t \in BOOLEAN
          PROVE  [x EXCEPT !.backup = b, !.temp = t] \in Reservations
      BY DEF Reservations
    <3>2. row[r] \in Reservations /\ (row[r].backup /\ r \notin KeptBackups) \in BOOLEAN
          /\ (row[r].temp /\ r \notin FailedTemps) \in BOOLEAN
      BY DEF UploadTypeOK
    <3> QED BY <3>1, <3>2
  <2>2. row' \in [Ids -> Reservations]
    BY <1>2, <2>1 DEF EndReap
  <2>3. backup' \in [Ids -> Content] /\ part' \in [Ids -> Content]
    BY <1>1, <1>2 DEF EndReap, UploadTypeOK
  <2> QED BY <1>1, <1>2, <2>2, <2>3 DEF EndReap, UploadTypeOK
<1>3. CASE EndFail(p)
  BY <1>1, <1>3 DEF EndFail, files, UploadTypeOK
<1>4. CASE RecoveryRaises(p)
  BY <1>1, <1>4 DEF RecoveryRaises, files, UploadTypeOK, Phases
<1>5. CASE EndImport(p)
  BY <1>1, <1>5 DEF EndImport, files, UploadTypeOK
<1>6. CASE Die(p)
  BY <1>1, <1>6 DEF Die, files, UploadTypeOK, Phases
<1>7. CASE ClearStaging
  BY <1>1, <1>7 DEF ClearStaging, UploadTypeOK
<1>8. ASSUME NEW sweeps \in BOOLEAN, SweepStaging(p, sweeps) PROVE UploadTypeOK'
  <2>1. job' \in [plan : Plans, ids : SUBSET Ids, swept : BOOLEAN]
    BY <1>8 DEF SweepStaging, UploadTypeOK
  <2>2. final' \in [Targets -> Content] /\ generation' \in Nat
    BY <1>1, <1>8 DEF SweepStaging, UploadTypeOK
  <2>3. at' \in [Ids -> Phases]
    BY <1>8 DEF SweepStaging, UploadTypeOK, Phases
  <2> QED BY <1>8, <2>1, <2>2, <2>3 DEF SweepStaging, UploadTypeOK
<1> QED BY <1>2, <1>3, <1>4, <1>5, <1>6, <1>7, <1>8

\* The reservations of an import keep the types.
LEMMA ReserveEntriesType ==
  ASSUME UploadTypeOK, Shape, NEW p \in Procs, ReserveEntries(p)
  PROVE  UploadTypeOK'
<1> DEFINE new == req[p].plan.entries
<1>1. new \subseteq Staged /\ req[p].plan \in Plans /\ \A s \in new : req[p].plan.seen[s] \in Content
  BY DEF UploadTypeOK, Plans
<1>2. PICK id \in [new -> Unused] :
       /\ job' = [NoJob EXCEPT !.plan = req[p].plan, !.ids = {id[s] : s \in new}]
       /\ row' = [r \in Ids |->
                    IF \E s \in new : id[s] = r
                    THEN LET s == CHOOSE x \in new : id[x] = r
                         IN NewRow(p, "import", EntryOf[s], s, req[p].plan.seen[s])
                    ELSE row[r]]
       /\ at' = [r \in Ids |-> IF \E s \in new : id[s] = r THEN "reserved" ELSE at[r]]
  BY DEF ReserveEntries, Injection
<1>3. job' \in [plan : Plans, ids : SUBSET Ids, swept : BOOLEAN]
  BY <1>1, <1>2 DEF NoJob, Unused
<1>4. ASSUME NEW s \in new
      PROVE  NewRow(p, "import", EntryOf[s], s, req[p].plan.seen[s]) \in Reservations
  <2>1. EntryOf[s] \in Targets /\ s \in Staged /\ req[p].plan.seen[s] \in Content
    BY <1>1, UploadAssumption DEF UploadAssumption, Targets
  <2> QED BY <2>1 DEF NewRow, NoRow, Reservations, ActiveUpload, Ops
<1> HIDE DEF new
<1>5. ASSUME NEW r \in Ids PROVE row'[r] \in Reservations
  <2>1. CASE \E s \in new : id[s] = r
    <3> DEFINE c == CHOOSE x \in new : id[x] = r
    <3>1. c \in new
      BY <2>1
    <3>2. row'[r] = NewRow(p, "import", EntryOf[c], c, req[p].plan.seen[c])
      BY <1>2, <2>1
    <3> QED BY <1>4, <3>1, <3>2
  <2>2. CASE ~ \E s \in new : id[s] = r
    BY <1>2, <2>2 DEF UploadTypeOK
  <2> QED BY <2>1, <2>2
<1>6. row' \in [Ids -> Reservations]
  <2>1. row' = [r \in Ids |-> row'[r]]
    BY <1>2
  <2> QED BY <1>5, <2>1
<1>7. at' \in [Ids -> Phases]
  BY <1>2 DEF UploadTypeOK, Phases
<1>8. NoRequest \in [phase : {"idle", "upload", "asked", "import"}, plan : Plans]
  BY DEF NoRequest, NoPlan, Plans, Content
<1> QED BY <1>3, <1>6, <1>7, <1>8 DEF ReserveEntries, files, UploadTypeOK

\* Every step keeps the types.
LEMMA TypeStep ==
  ASSUME UploadTypeOK, Shape, UploadNext
  PROVE  UploadTypeOK'
<1>1. ASSUME NEW p \in Procs, RequestStep(p) PROVE UploadTypeOK'
  BY <1>1, RequestType, ReserveEntriesType, OtherType DEF RequestStep
<1>2. ASSUME NEW p \in Procs, RecoveryStep(p) PROVE UploadTypeOK'
  BY <1>2, RecoveryType, OtherType DEF RecoveryStep
<1>3. CASE Failure
  BY <1>3, HandlerType, OtherType, RecoveryType DEF Failure
<1>4. CASE ClearStaging
  BY <1>4, OtherType DEF ClearStaging, UploadTypeOK
<1> QED BY <1>1, <1>2, <1>3, <1>4, HandlerType, RequestType DEF UploadNext

\* The types hold when the feed is new.
LEMMA TypeInit ==
  UploadInit => UploadTypeOK
<1> SUFFICES ASSUME UploadInit PROVE UploadTypeOK
  OBVIOUS
<1>1. NoRow \in Reservations /\ NoFile \in Content /\ NoRecovery \in Recoveries
      /\ NoRequest \in [phase : {"idle", "upload", "asked", "import"}, plan : Plans]
      /\ NoJob \in [plan : Plans, ids : SUBSET Ids, swept : BOOLEAN]
  BY DEF NoRequest, NoPlan, Plans, Content, NoRecovery, Recoveries, NoJob, NoRow, Reservations, Ops
<1>2. final \in [Targets -> Content] /\ episode \in [Episodes -> Content]
  BY <1>1 DEF UploadInit, Content, Targets
<1> QED BY <1>1, <1>2 DEF UploadInit, UploadTypeOK, Phases

-----------------------------------------------------------------------------
(* One holder of a target *)

\* A row keeps what it is about, and its owner as long as that one lives; a target that
\* is free stays so.
Kept(r) ==
  \/ row'[r] = row[r]
  \/ /\ row[r].state # "unused" /\ row'[r].state # "unused"
     /\ row'[r].op = row[r].op /\ row'[r].target = row[r].target
     /\ row'[r].source = row[r].source /\ row'[r].audio = row[r].audio
     /\ row[r].owner \in live => row'[r].owner = row[r].owner
     /\ Active(r)' => Active(r)
     /\ row'[r].state # "reserved"

Reserve(p) ==
  \/ \E r \in Ids : \/ \E e \in Episodes : ReserveEpisode(p, r, e)
                    \/ \E s \in Staged : ReserveStaged(p, r, s)
  \/ ReserveEntries(p)

\* A claim keeps its rows.
LEMMA ClaimKept ==
  ASSUME UploadTypeOK, NEW p \in Procs, NEW rs \in SUBSET Ids, row' = ClaimedBy(p, rs),
         \A r \in rs : Active(r) /\ (row[r].owner \in live => row[r].owner = p)
  PROVE  \A r \in Ids : Kept(r)
<1>1. ASSUME NEW r \in rs PROVE Kept(r)
  BY ClaimEffect DEF Kept, Active, ActiveUpload
<1>2. ASSUME NEW r \in Ids \ rs PROVE Kept(r)
  BY ClaimEffect DEF Kept
<1> QED BY <1>1, <1>2

\* The steps of a handler keep every row.
LEMMA HandlerKept ==
  ASSUME UploadTypeOK, Shape, NEW r \in Ids, HandlerStep(r) \/ HandlerFails(r)
  PROVE  \A q \in Ids : Kept(q)
<1>1. at[r] # "none"
  BY DEF HandlerStep, HandlerFails, Handler, Prepare, PrepareEntry, BeginPublication, BackUp, MoveIn,
         Bump, Commit, DropBackup, UndoMove, UndoBackup, Unlink, Fail
<1>2. row[r].state # "unused" /\ HandlerInv(r)
  BY <1>1, HandlerRow DEF Shape
<1>3. CASE Prepare(r) \/ PrepareEntry(r) \/ BeginPublication(r)
  <2>1. at[r] \in Working
    BY <1>3 DEF Prepare, PrepareEntry, BeginPublication, Handler, Working
  <2>2. Active(r)
    BY <1>2, <2>1 DEF HandlerInv
  <2>3. Kept(r)
    BY <1>2, <1>3, <2>2, PrepareEffect, PrepareEntryEffect, BeginPublicationEffect DEF Kept
  <2>4. \A q \in Ids \ {r} : row'[q] = row[q]
    BY <1>3 DEF Prepare, PrepareEntry, BeginPublication, UploadTypeOK
  <2> QED BY <2>3, <2>4 DEF Kept
<1>4. CASE Commit(r)
  <2>1. Kept(r)
    BY <1>2, <1>4, CommitEffect DEF Kept, Active, ActiveUpload
  <2>2. \A q \in Ids \ {r} : row'[q] = row[q]
    BY <1>4, CommitEffect DEF Same
  <2> QED BY <2>1, <2>2 DEF Kept
<1>5. CASE DropBackup(r)
  <2>1. at[r] = "committed"
    BY <1>5 DEF DropBackup, Handler
  <2>2. row[r].state = "published"
    BY <1>2, <2>1 DEF HandlerInv
  <2>3. Kept(r)
    BY <1>2, <1>5, <2>2, DropBackupEffect DEF Kept, Active, ActiveUpload
  <2>4. \A q \in Ids \ {r} : row'[q] = row[q]
    BY <1>5, DropBackupEffect DEF Same
  <2> QED BY <2>3, <2>4 DEF Kept
<1>6. CASE Fail(r)
  <2>1. CASE Active(r)
    <3>1. row' = ClaimedBy(row[r].owner, {r}) /\ row[r].owner \in Procs
      BY <1>2, <1>6, <2>1, RowTargets DEF Fail
    <3> QED BY <2>1, <3>1, ClaimKept
  <2> QED BY <1>6, <2>1 DEF Fail, Kept
<1>7. CASE BackUp(r) \/ MoveIn(r) \/ Bump(r) \/ HandlerFails(r) \/ UndoMove(r) \/ UndoBackup(r) \/ Unlink(r)
  BY <1>7 DEF BackUp, MoveIn, Bump, HandlerFails, UndoMove, UndoBackup, Unlink, Kept
<1> QED BY <1>3, <1>4, <1>5, <1>6, <1>7 DEF HandlerStep

\* So do the steps of a recovery.
LEMMA RecoveryKept ==
  ASSUME UploadTypeOK, Shape, NEW p \in Procs, NEW r \in Ids,
         Discard(p, r) \/ Unpublish(p, r) \/ Restore(p, r) \/ MarkFailed(p, r) \/ CleanTemp(p, r)
           \/ RowFails(p, r)
  PROVE  \A q \in Ids : Kept(q)
<1>1. \A step : Recovering(p, r, step) => row[r].state # "unused"
                                          /\ (step = "clean" => row[r].state = "failed")
  BY RecoveringFacts
<1>2. row[r] \in Reservations
  BY DEF UploadTypeOK
<1>3. CASE MarkFailed(p, r)
  <2>1. /\ row'[r].state = "failed" /\ row'[r].op = row[r].op /\ row'[r].target = row[r].target
        /\ row'[r].source = row[r].source /\ row'[r].audio = row[r].audio
        /\ row'[r].owner = row[r].owner /\ row[r].state # "unused"
        /\ \A q \in Ids \ {r} : row'[q] = row[q]
    BY <1>1, <1>2, <1>3 DEF MarkFailed, UploadTypeOK, Reservations
  <2> QED BY <2>1 DEF Kept, Active, ActiveUpload
<1>4. CASE CleanTemp(p, r)
  <2>1. row[r].state = "failed"
    BY <1>1, <1>4 DEF CleanTemp
  <2>2. /\ row'[r].state = row[r].state /\ row'[r].op = row[r].op /\ row'[r].target = row[r].target
        /\ row'[r].source = row[r].source /\ row'[r].audio = row[r].audio
        /\ row'[r].owner = row[r].owner
        /\ \A q \in Ids \ {r} : row'[q] = row[q]
    BY <1>2, <1>4 DEF CleanTemp, UploadTypeOK, Reservations
  <2> QED BY <2>1, <2>2 DEF Kept, Active, ActiveUpload
<1>5. CASE Discard(p, r) \/ Unpublish(p, r) \/ Restore(p, r) \/ RowFails(p, r)
  BY <1>5 DEF Discard, Unpublish, Restore, RowFails, Kept
<1> QED BY <1>3, <1>4, <1>5

\* So does a reap.
LEMMA ReapKept ==
  ASSUME UploadTypeOK, NEW p \in Procs, Reap(p)
  PROVE  \A r \in Ids : Kept(r)
<1>1. row' = ClaimedBy(p, Claimable(p)) /\ Claimable(p) \in SUBSET Ids
  BY DEF Reap, Claimable
<1>2. \A r \in Claimable(p) : Active(r) /\ (row[r].owner \in live => row[r].owner = p)
  BY DEF Claimable, OwnerDead
<1> QED BY <1>1, <1>2, ClaimKept

\* So do the leftovers that a reap removes.
LEMMA EndReapKept ==
  ASSUME UploadTypeOK, NEW p \in Procs, EndReap(p)
  PROVE  \A r \in Ids : Kept(r)
<1> SUFFICES ASSUME NEW r \in Ids PROVE Kept(r)
  OBVIOUS
<1>1. row'[r] = [row[r] EXCEPT !.backup = @ /\ r \notin KeptBackups,
                               !.temp = @ /\ r \notin FailedTemps]
  BY DEF EndReap
<1>2. row[r] \in Reservations
  BY DEF UploadTypeOK
<1>3. CASE r \in KeptBackups \/ r \in FailedTemps
  <2>1. row[r].state \in {"published", "failed"}
    BY <1>3 DEF KeptBackups, FailedTemps
  <2>2. /\ row'[r].state = row[r].state /\ row'[r].op = row[r].op /\ row'[r].target = row[r].target
        /\ row'[r].source = row[r].source /\ row'[r].audio = row[r].audio
        /\ row'[r].owner = row[r].owner
    BY <1>1, <1>2 DEF Reservations
  <2> QED BY <2>1, <2>2 DEF Kept, Active, ActiveUpload
<1>4. CASE r \notin KeptBackups /\ r \notin FailedTemps
  <2>1. row'[r] = [row[r] EXCEPT !.backup = row[r].backup, !.temp = row[r].temp]
    <3>1. (row[r].backup /\ r \notin KeptBackups) = row[r].backup
          /\ (row[r].temp /\ r \notin FailedTemps) = row[r].temp
      BY <1>2, <1>4 DEF Reservations
    <3> QED BY <1>1, <3>1
  <2>2. row'[r] = row[r]
    BY <1>2, <2>1 DEF Reservations
  <2> QED BY <2>2 DEF Kept
<1> QED BY <1>3, <1>4

\* Only a reservation makes a row anew.
LEMMA RowsKept ==
  ASSUME UploadTypeOK, Shape, UploadNext, \A p \in Procs : ~Reserve(p)
  PROVE  \A r \in Ids : Kept(r)
<1>1. ASSUME NEW p \in Procs, AskUpload(p) \/ StartCommit(p) PROVE \A r \in Ids : Kept(r)
  BY <1>1, ReapKept DEF AskUpload, StartCommit
<1>2. ASSUME NEW p \in Procs, EndReap(p) PROVE \A r \in Ids : Kept(r)
  BY <1>2, EndReapKept
<1>3. ASSUME NEW p \in Procs,
             \/ \E overwrite \in BOOLEAN : AskCommit(p, overwrite)
             \/ CommitRefused(p) \/ UploadRefused(p) \/ EntriesRefused(p) \/ EndImport(p)
             \/ EndFail(p) \/ RecoveryRaises(p) \/ Die(p)
             \/ \E sweeps \in BOOLEAN : SweepStaging(p, sweeps)
      PROVE  \A r \in Ids : Kept(r)
  BY <1>3 DEF AskCommit, CommitRefused, UploadRefused, EntriesRefused, EndImport, EndFail, Die,
              RecoveryRaises, SweepStaging, Kept
<1>4. CASE ClearStaging
  BY <1>4 DEF ClearStaging, Kept
<1> QED BY <1>1, <1>2, <1>3, <1>4, HandlerKept, RecoveryKept
        DEF UploadNext, RequestStep, RecoveryStep, Failure, Reserve

\* A target that is reserved is not free.
LEMMA OneHolderStep ==
  ASSUME UploadTypeOK, Shape, OneHolder, LockInv, UploadNext
  PROVE  OneHolder'
<1>1. CASE \A p \in Procs : ~Reserve(p)
  <2>1. \A r \in Ids : Active(r)' => Active(r) /\ row'[r].target = row[r].target
    BY <1>1, RowsKept DEF Kept, Active
  <2> QED BY <2>1 DEF OneHolder
<1>2. ASSUME NEW p \in Procs, NEW r \in Ids, NEW o, NEW t \in Targets, ReserveUpload(p, r, o, t)
      PROVE  OneHolder'
  <2>1. ~Held(t) /\ row'[r] = NewRow(p, o, t, NoFile, r) /\ \A q \in Ids \ {r} : row'[q] = row[q]
    BY <1>2 DEF ReserveUpload, UploadTypeOK
  <2>2. row'[r].target = t
    BY <2>1 DEF NewRow, NoRow
  <2> QED BY <2>1, <2>2 DEF OneHolder, Held, Active
<1>3. ASSUME NEW p \in Procs, ReserveEntries(p) PROVE OneHolder'
  <2> DEFINE new == req[p].plan.entries
  <2>1. /\ \A s \in new : ~Conflict(req[p].plan, s)
        /\ \A s, x \in new : EntryOf[s] = EntryOf[x] => s = x
    BY <1>3, ReserveEntriesEffect DEF LockInv, PlanOK
  <2>2. PICK id \in [new -> Unused] :
         /\ \A s \in new : /\ row'[id[s]] = NewRow(p, "import", EntryOf[s], s, req[p].plan.seen[s])
                           /\ at'[id[s]] = "reserved"
         /\ \A r \in Ids : (\A s \in new : id[s] # r) => row'[r] = row[r] /\ at'[r] = at[r]
    BY <1>3, ReserveEntriesEffect
  <2> HIDE DEF new
  <2>3. \A s \in new : row'[id[s]].target = EntryOf[s] /\ ~Held(EntryOf[s])
    BY <2>1, <2>2 DEF NewRow, NoRow, Conflict
  <2> QED BY <2>1, <2>2, <2>3 DEF OneHolder, Held, Active
<1> QED BY <1>1, <1>2, <1>3 DEF Reserve, ReserveEpisode, ReserveStaged, Targets

-----------------------------------------------------------------------------
(* The import lock *)

\* Handlers go on where they were allowed to be.
HandlersGoOn ==
  \A r \in Ids :
    /\ at'[r] \notin {"none", "done"} =>
         at[r] \notin {"none", "done"} \/ r \in job.ids \/ row'[r].op # "import"
    /\ at'[r] \in Inside \cup {"begun"} => at[r] \in Inside \cup {"begun"} \/ row'[r].op # "staging"

\* A row of an import in progress belongs to a process that lives.
LEMMA JobRows ==
  ASSUME UploadTypeOK, LockInv, NEW r \in job.ids
  PROVE  r \in Ids /\ lock \in Procs /\ lock \in live /\ row[r].owner = lock /\ row[r].state # "unused"
         /\ row[r].op = "import"
BY DEF UploadTypeOK, LockInv, NoJob

\* A step that leaves the lock as it is.
LEMMA LockFrame ==
  ASSUME UploadTypeOK, Shape, LockInv, lock' = lock, job'.ids = job.ids, HandlersGoOn,
         \A r \in Ids : Kept(r) \/ (row[r].state = "unused" /\ row'[r].op # "import"),
         lock \in Procs => lock \in live',
         job' = job \/ (lock \in Procs /\ \A x \in Procs : req'[x].phase # "import"),
         \A x \in Procs : req'[x] = req[x] \/ (req'[x].phase # "import" /\ PlanOK(req'[x].plan)),
         \A r \in Ids : lock = r => at'[r] \in Inside \cup {"begun", "unlink", "committed"}
  PROVE  LockInv'
<1>1. \A r \in Ids : at[r] # "none" => row[r].state # "unused"
  BY HandlerRow
<1>2. \A r \in job.ids : r \in Ids /\ row[r].owner \in live /\ row[r].owner = lock /\ row[r].state # "unused"
                         /\ row[r].op = "import"
  BY JobRows
<1>3. lock' \in Procs => lock' \in live'
  OBVIOUS
<1>4. lock' \in Ids => row'[lock'].op = "staging" /\ at'[lock'] \in Inside \cup {"begun", "unlink", "committed"}
  <2>1. lock \in Ids => row[lock].op = "staging" /\ at[lock] \in Inside \cup {"begun", "unlink", "committed"}
    BY DEF LockInv
  <2>2. lock \in Ids => row[lock].state # "unused"
    BY <1>1, <2>1 DEF Inside
  <2> QED BY <2>1, <2>2 DEF Kept
<1>5. \A r \in Ids : row'[r].op = "staging" /\ at'[r] \in Inside \cup {"begun"} => lock' = r
  <2> SUFFICES ASSUME NEW r \in Ids, row'[r].op = "staging", at'[r] \in Inside \cup {"begun"}
               PROVE  lock = r
    OBVIOUS
  <2>1. at[r] \in Inside \cup {"begun"}
    BY DEF HandlersGoOn
  <2>2. row[r].op = "staging"
    BY <1>1, <2>1 DEF Kept, Inside
  <2> QED BY <2>1, <2>2 DEF LockInv
<1>6. \A x \in Procs : PlanOK(req'[x].plan)
  BY DEF LockInv
<1>7. \A x \in Procs : req'[x].phase = "import" => lock' = x /\ job' = NoJob
  BY DEF LockInv
<1>8. lock' \notin Procs => job' = NoJob
  BY DEF LockInv
<1>9. \A r \in job'.ids : row'[r].op = "import" /\ row'[r].owner = lock' /\ row'[r].state # "unused"
  BY <1>2 DEF Kept
<1>10. \A r, q \in job'.ids : row'[r].source = row'[q].source => r = q
  <2>1. \A r \in job.ids : row'[r].source = row[r].source
    BY <1>2 DEF Kept
  <2> QED BY <2>1 DEF LockInv
<1>11. \A r \in Ids : row'[r].op = "import" /\ at'[r] \notin {"none", "done"} => r \in job'.ids
  <2> SUFFICES ASSUME NEW r \in Ids, row'[r].op = "import", at'[r] \notin {"none", "done"}, r \notin job.ids
               PROVE  FALSE
    OBVIOUS
  <2>1. at[r] \notin {"none", "done"}
    BY DEF HandlersGoOn
  <2>2. row[r].op = "import"
    BY <1>1, <2>1 DEF Kept
  <2> QED BY <2>1, <2>2 DEF LockInv
<1>12. \A r \in Ids : row'[r].op = "import" /\ row'[r].state # "unused" => row'[r].audio # NoFile
  BY DEF LockInv, Kept
<1> QED BY <1>3, <1>4, <1>5, <1>6, <1>7, <1>8, <1>9, <1>10, <1>11, <1>12 DEF LockInv, PlanOK

\* A step that lets go of the lock.
LEMMA LockReleased ==
  ASSUME UploadTypeOK, Shape, LockInv, lock' = NoId, job' = NoJob, HandlersGoOn,
         \A r \in Ids : Kept(r),
         \A x \in Procs : req'[x].phase # "import" /\ PlanOK(req'[x].plan),
         \A r \in job.ids : at'[r] \in {"none", "done"},
         \A r \in Ids : lock = r => at'[r] \notin Inside \cup {"begun"}
  PROVE  LockInv'
<1>1. \A r \in Ids : at[r] # "none" => row[r].state # "unused"
  BY HandlerRow
<1>2. NoId \notin Ids /\ NoId \notin Procs /\ NoJob.ids = {}
  BY UploadAssumption DEF UploadAssumption, NoJob
<1>5. \A r \in Ids : row'[r].op = "staging" /\ at'[r] \in Inside \cup {"begun"} => lock' = r
  <2> SUFFICES ASSUME NEW r \in Ids, row'[r].op = "staging", at'[r] \in Inside \cup {"begun"}
               PROVE  lock = r
    OBVIOUS
  <2>1. at[r] \in Inside \cup {"begun"}
    BY DEF HandlersGoOn
  <2>2. row[r].op = "staging"
    BY <1>1, <2>1 DEF Kept, Inside
  <2> QED BY <2>1, <2>2 DEF LockInv
<1>11. \A r \in Ids : row'[r].op = "import" /\ at'[r] \notin {"none", "done"} => r \in job'.ids
  <2> SUFFICES ASSUME NEW r \in Ids, row'[r].op = "import", at'[r] \notin {"none", "done"}
               PROVE  FALSE
    OBVIOUS
  <2>1. at[r] \notin {"none", "done"} /\ r \notin job.ids
    BY DEF HandlersGoOn
  <2>2. row[r].op = "import"
    BY <1>1, <2>1 DEF Kept
  <2> QED BY <2>1, <2>2 DEF LockInv
<1>12. \A r \in Ids : row'[r].op = "import" /\ row'[r].state # "unused" => row'[r].audio # NoFile
  BY DEF LockInv, Kept
<1> QED BY <1>2, <1>5, <1>11, <1>12 DEF LockInv, PlanOK

\* The steps of a handler that have nothing to do with the lock.
LEMMA HandlerLockFrame ==
  ASSUME UploadTypeOK, Shape, LockInv, NEW r \in Ids, HandlerStep(r) \/ HandlerFails(r),
         lock' = lock, DropBackup(r) \/ Unlink(r) => lock # r
  PROVE  LockInv'
<1>1. job' = job /\ req' = req /\ live' = live /\ \A q \in Ids \ {r} : at'[q] = at[q]
  BY DEF HandlerStep, HandlerFails, Prepare, PrepareEntry, BeginPublication, BackUp, MoveIn,
         Bump, Commit, DropBackup, UndoMove, UndoBackup, Unlink, Fail, Goto, UploadTypeOK
<1>2. at[r] \notin {"none", "done"}
  BY DEF HandlerStep, HandlerFails, Handler, Prepare, PrepareEntry, BeginPublication, BackUp, MoveIn,
         Bump, Commit, DropBackup, UndoMove, UndoBackup, Unlink, Fail
<1>3. \/ BeginPublication(r) /\ at[r] = "prepared"
      \/ at'[r] \in Inside /\ at[r] \in Inside \cup {"begun"}
      \/ at'[r] \notin Inside \cup {"begun"}
  BY DEF HandlerStep, HandlerFails, Handler, Prepare, PrepareEntry, BeginPublication, BackUp, MoveIn,
         Bump, Commit, DropBackup, UndoMove, UndoBackup, Unlink, Fail, Goto, UploadTypeOK, Inside
<1>4. BeginPublication(r) => row'[r].op # "staging"
  <2> SUFFICES ASSUME BeginPublication(r), row'[r].op = "staging" PROVE FALSE
    OBVIOUS
  <2>1. row[r].op = "staging"
    BY BeginPublicationEffect
  <2>2. lock = NoId /\ lock' = r
    BY <2>1 DEF BeginPublication
  <2> QED BY <2>2, UploadAssumption DEF UploadAssumption
<1>5. HandlersGoOn
  BY <1>1, <1>2, <1>3, <1>4 DEF HandlersGoOn
<1>6. lock = r => at'[r] \in Inside \cup {"begun", "unlink", "committed"}
  <2> SUFFICES ASSUME lock = r PROVE at'[r] \in Inside \cup {"begun", "unlink", "committed"}
    OBVIOUS
  <2>1. at[r] \in Inside \cup {"begun", "unlink", "committed"}
    BY DEF LockInv
  <2> QED
    BY <2>1 DEF HandlerStep, HandlerFails, Handler, Prepare, PrepareEntry, BeginPublication, BackUp,
           MoveIn, Bump, Commit, DropBackup, UndoMove, UndoBackup, Unlink, Fail, Goto, UploadTypeOK,
           Inside
<1>7. \A q \in Ids : lock = q => at'[q] \in Inside \cup {"begun", "unlink", "committed"}
  BY <1>1, <1>6 DEF LockInv
<1>8. \A q \in Ids : Kept(q)
  BY HandlerKept
<1>9. lock \in Procs => lock \in live'
  BY <1>1 DEF LockInv
<1> QED BY <1>1, <1>5, <1>7, <1>8, <1>9, LockFrame

\* A staging upload takes the lock when nobody has it.
LEMMA BeginLock ==
  ASSUME UploadTypeOK, Shape, LockInv, NEW r \in Ids, BeginPublication(r), row[r].op = "staging"
  PROVE  LockInv'
<1>1. /\ lock = NoId /\ lock' = r /\ job' = job /\ req' = req /\ live' = live /\ at[r] = "prepared"
      /\ at'[r] = "begun" /\ (\A q \in Ids \ {r} : at'[q] = at[q] /\ row'[q] = row[q])
      /\ row'[r].op = row[r].op
  <2>1. lock = NoId /\ lock' = r /\ job' = job /\ req' = req /\ live' = live /\ at[r] = "prepared"
    BY DEF BeginPublication, Handler
  <2>2. at'[r] = "begun" /\ row'[r].op = row[r].op /\ \A q \in Ids \ {r} : Same(q)
    BY BeginPublicationEffect
  <2> QED BY <2>1, <2>2 DEF Same
<1>2. NoId \notin Ids /\ NoId \notin Procs /\ r \notin Procs /\ job = NoJob /\ NoJob.ids = {}
  BY <1>1, UploadAssumption DEF UploadAssumption, NoJob, LockInv
<1>3. \A q \in Ids : Kept(q)
  BY HandlerKept DEF HandlerStep
<1>4. \A q \in Ids : row'[q].op = "staging" /\ at'[q] \in Inside \cup {"begun"} => lock' = q
  BY <1>1, <1>2 DEF LockInv
<1>5. \A x \in Procs : req'[x].phase # "import" /\ PlanOK(req'[x].plan)
  BY <1>1, <1>2 DEF LockInv
<1>6. \A q \in Ids : row'[q].op = "import" /\ at'[q] \notin {"none", "done"} => q \in job'.ids
  BY <1>1 DEF LockInv
<1>7. \A q \in Ids : row'[q].op = "import" /\ row'[q].state # "unused" => row'[q].audio # NoFile
  BY <1>3 DEF LockInv, Kept
<1> QED BY <1>1, <1>2, <1>4, <1>5, <1>6, <1>7 DEF LockInv, PlanOK

\* A handler keeps the invariant of the import lock; the one that releases it is its holder.
LEMMA HandlerLock ==
  ASSUME UploadTypeOK, Shape, LockInv, NEW r \in Ids, HandlerStep(r) \/ HandlerFails(r)
  PROVE  LockInv'
<1>1. CASE (DropBackup(r) \/ Unlink(r)) /\ lock = r
  <2>1. /\ lock' = NoId /\ job' = job /\ req' = req /\ at'[r] \in {"done", "fail"}
        /\ at[r] \in {"committed", "unlink"}
        /\ \A q \in Ids \ {r} : at'[q] = at[q]
    BY <1>1 DEF DropBackup, Unlink, Goto, Handler, UploadTypeOK
  <2>2. job = NoJob /\ NoJob.ids = {} /\ r \notin Procs
    BY <1>1, UploadAssumption DEF LockInv, NoJob, UploadAssumption
  <2>3. HandlersGoOn
    BY <2>1 DEF HandlersGoOn, Inside
  <2>4. \A x \in Procs : req'[x].phase # "import" /\ PlanOK(req'[x].plan)
    BY <1>1, <2>1, <2>2 DEF LockInv
  <2>5. \A q \in Ids : lock = q => at'[q] \notin Inside \cup {"begun"}
    BY <1>1, <2>1 DEF Inside
  <2> QED BY <2>1, <2>2, <2>3, <2>4, <2>5, HandlerKept, LockReleased
<1>2. CASE BeginPublication(r) /\ row[r].op = "staging"
  BY <1>2, BeginLock
<1>3. CASE /\ ~ (BeginPublication(r) /\ row[r].op = "staging")
           /\ ~ ((DropBackup(r) \/ Unlink(r)) /\ lock = r)
  <2>1. lock' = lock
    BY <1>3 DEF HandlerStep, HandlerFails, Prepare, PrepareEntry, BeginPublication, BackUp, MoveIn,
         Bump, Commit, DropBackup, UndoMove, UndoBackup, Unlink, Fail
  <2> QED BY <1>3, <2>1, HandlerLockFrame
<1> QED BY <1>1, <1>2, <1>3

\* The steps of a recovery.
LEMMA RecoveryLock ==
  ASSUME UploadTypeOK, Shape, LockInv, NEW p \in Procs, NEW r \in Ids,
         Discard(p, r) \/ Unpublish(p, r) \/ Restore(p, r) \/ MarkFailed(p, r) \/ CleanTemp(p, r)
           \/ RowFails(p, r)
  PROVE  LockInv'
<1>1. lock' = lock /\ job' = job /\ req' = req /\ live' = live
  BY DEF Discard, Unpublish, Restore, MarkFailed, CleanTemp, RowFails
<1>2. at' = at \/ EndRow(p, r)
  BY DEF Discard, Unpublish, Restore, MarkFailed, CleanTemp, RowFails
<1>3. \A q \in Ids : at'[q] = at[q] \/ (at[q] = "failing" /\ at'[q] = "done")
  BY <1>2, EndRowEffect
<1>4. HandlersGoOn
  BY <1>3 DEF HandlersGoOn, Inside
<1>5. \A q \in Ids : lock = q => at'[q] \in Inside \cup {"begun", "unlink", "committed"}
  BY <1>3 DEF LockInv, Inside
<1>6. \A q \in Ids : Kept(q)
  BY RecoveryKept
<1>7. lock \in Procs => lock \in live'
  BY <1>1 DEF LockInv
<1> QED BY <1>1, <1>4, <1>5, <1>6, <1>7, LockFrame

\* An import that begins holds the lock.
LEMMA StartCommitLock ==
  ASSUME UploadTypeOK, Shape, LockInv, NEW p \in Procs, StartCommit(p)
  PROVE  LockInv'
<1>1. /\ lock = NoId /\ lock' = p /\ job' = job /\ live' = live /\ p \in live /\ at' = at
      /\ req'[p].phase = "import" /\ req'[p].plan = req[p].plan
      /\ \A x \in Procs \ {p} : req'[x] = req[x]
  BY DEF StartCommit, UploadTypeOK
<1>2. NoId \notin Ids /\ NoId \notin Procs /\ p \notin Ids /\ job = NoJob /\ NoJob.ids = {}
  BY <1>1, UploadAssumption DEF UploadAssumption, NoJob, LockInv
<1>3. \A q \in Ids : Kept(q)
  BY ReapKept DEF StartCommit
<1>h. \A r \in Ids : at[r] # "none" => row[r].state # "unused"
  BY HandlerRow
<1>4. \A q \in Ids : row'[q].op = "staging" => at'[q] \notin Inside \cup {"begun"}
  <2> SUFFICES ASSUME NEW q \in Ids, row'[q].op = "staging", at[q] \in Inside \cup {"begun"}
               PROVE  FALSE
    BY <1>1
  <2>1. row[q].op = "staging"
    BY <1>3, <1>h DEF Kept, Inside
  <2> QED BY <1>1, <1>2, <2>1 DEF LockInv
<1>5. \A x \in Procs : PlanOK(req'[x].plan) /\ (req'[x].phase = "import" => lock' = x /\ job' = NoJob)
  BY <1>1, <1>2 DEF LockInv
<1>6. \A q \in Ids : row'[q].op = "import" => at'[q] \in {"none", "done"}
  <2> SUFFICES ASSUME NEW q \in Ids, row'[q].op = "import", at[q] \notin {"none", "done"}
               PROVE  FALSE
    BY <1>1
  <2>1. row[q].op = "import"
    BY <1>3, <1>h DEF Kept
  <2> QED BY <1>2, <2>1 DEF LockInv
<1>7. \A q \in Ids : row'[q].op = "import" /\ row'[q].state # "unused" => row'[q].audio # NoFile
  BY <1>3 DEF LockInv, Kept
<1> QED BY <1>1, <1>2, <1>4, <1>5, <1>6, <1>7 DEF LockInv, PlanOK

\* A request that does not begin an import.
LEMMA RequestLock ==
  ASSUME UploadTypeOK, Shape, LockInv, NEW p \in Procs,
         \/ AskUpload(p) \/ \E overwrite \in BOOLEAN : AskCommit(p, overwrite)
         \/ CommitRefused(p) \/ UploadRefused(p)
  PROVE  LockInv'
<1>1. lock' = lock /\ job' = job /\ live' = live /\ at' = at /\ \A x \in Procs \ {p} : req'[x] = req[x]
  BY DEF AskUpload, AskCommit, CommitRefused, UploadRefused, UploadTypeOK
<1>2. \A r \in Ids : Kept(r)
  BY ReapKept DEF AskUpload, AskCommit, CommitRefused, UploadRefused, Kept
<1>3. req'[p].phase # "import" /\ PlanOK(req'[p].plan)
  <2>1. CASE AskUpload(p)
    BY <2>1 DEF AskUpload, UploadTypeOK, LockInv
  <2>2. CASE CommitRefused(p) \/ UploadRefused(p)
    BY <2>2 DEF CommitRefused, UploadRefused, UploadTypeOK, NoRequest, NoPlan, PlanOK
  <2>3. ASSUME NEW overwrite \in BOOLEAN, AskCommit(p, overwrite)
        PROVE  req'[p].phase # "import" /\ PlanOK(req'[p].plan)
    <3>1. /\ req'[p].phase = "asked"
          /\ req'[p].plan.seen = [s \in Staged |-> final[s]]
          /\ \A s \in req'[p].plan.entries : s \in Staged /\ final[s] # NoFile /\ SoleFile(s)
      BY <2>3 DEF AskCommit, UploadTypeOK
    <3> QED BY <3>1 DEF PlanOK, SoleFile
  <2> QED BY <2>1, <2>2, <2>3
<1>4. HandlersGoOn
  BY <1>1 DEF HandlersGoOn
<1>5. lock \in Procs => lock \in live'
  BY <1>1 DEF LockInv
<1>6. \A r \in Ids : lock = r => at'[r] \in Inside \cup {"begun", "unlink", "committed"}
  BY <1>1 DEF LockInv
<1>7. \A x \in Procs : req'[x] = req[x] \/ (req'[x].phase # "import" /\ PlanOK(req'[x].plan))
  BY <1>1, <1>3
<1> QED BY <1>1, <1>2, <1>4, <1>5, <1>6, <1>7, LockFrame

\* A reservation of one upload.
LEMMA ReserveUploadLock ==
  ASSUME UploadTypeOK, Shape, LockInv, NEW p \in Procs, NEW r \in Ids, NEW o \in {"individual", "staging"},
         NEW t \in Targets, ReserveUpload(p, r, o, t)
  PROVE  LockInv'
<1>1. /\ lock' = lock /\ job' = job /\ live' = live /\ r \in Unused
      /\ row'[r] = NewRow(p, o, t, NoFile, r) /\ at'[r] = "reserved"
      /\ \A q \in Ids \ {r} : row'[q] = row[q] /\ at'[q] = at[q]
      /\ req'[p] = NoRequest /\ \A x \in Procs \ {p} : req'[x] = req[x]
  BY DEF ReserveUpload, UploadTypeOK
<1>2. row[r].state = "unused" /\ row'[r].op # "import" /\ at[r] = "none"
  BY <1>1 DEF Unused, NewRow, NoRow, Shape, RowInv
<1>3. \A q \in Ids : Kept(q) \/ (row[q].state = "unused" /\ row'[q].op # "import")
  BY <1>1, <1>2 DEF Kept
<1>4. HandlersGoOn
  BY <1>1, <1>2 DEF HandlersGoOn, Inside
<1>5. lock \in Procs => lock \in live'
  BY <1>1 DEF LockInv
<1>6. \A q \in Ids : lock = q => at'[q] \in Inside \cup {"begun", "unlink", "committed"}
  BY <1>1, <1>2 DEF LockInv, Inside
<1>7. \A x \in Procs : req'[x] = req[x] \/ (req'[x].phase # "import" /\ PlanOK(req'[x].plan))
  BY <1>1 DEF NoRequest, NoPlan, PlanOK
<1> QED BY <1>1, <1>3, <1>4, <1>5, <1>6, <1>7, LockFrame

\* The reservations of an import.
LEMMA ReserveEntriesLock ==
  ASSUME UploadTypeOK, Shape, LockInv, NEW p \in Procs, ReserveEntries(p)
  PROVE  LockInv'
<1> DEFINE new == req[p].plan.entries
<1>1. /\ p \in live /\ req[p].phase = "import" /\ new \subseteq Staged /\ live' = live
      /\ req'[p] = NoRequest /\ \A x \in Procs \ {p} : req'[x] = req[x]
  BY ReserveEntriesEffect
<1>2. PICK id \in [new -> Unused] :
         /\ \A s, x \in new : id[s] = id[x] => s = x
         /\ \A s \in new : /\ row'[id[s]] = NewRow(p, "import", EntryOf[s], s, req[p].plan.seen[s])
                           /\ at'[id[s]] = "reserved"
         /\ \A r \in Ids : (\A s \in new : id[s] # r) => row'[r] = row[r] /\ at'[r] = at[r]
         /\ job'.plan = req[p].plan /\ job'.swept = FALSE
         /\ \A r : r \in job'.ids <=> \E s \in new : id[s] = r
  BY ReserveEntriesEffect
<1>3. lock = p /\ lock' = p /\ job = NoJob /\ NoJob.ids = {} /\ p \notin Ids
  BY <1>1, UploadAssumption DEF LockInv, NoJob, ReserveEntries, UploadAssumption
<1>4. \A s \in new : req[p].plan.seen[s] # NoFile
  BY DEF LockInv, PlanOK
<1>5. \A s \in new : /\ row'[id[s]].op = "import" /\ row'[id[s]].owner = p /\ row'[id[s]].source = s
                     /\ row'[id[s]].state = "reserved" /\ row'[id[s]].audio # NoFile
  <2> SUFFICES ASSUME NEW s \in new
               PROVE  /\ row'[id[s]].op = "import" /\ row'[id[s]].owner = p /\ row'[id[s]].source = s
                      /\ row'[id[s]].state = "reserved" /\ row'[id[s]].audio # NoFile
    OBVIOUS
  <2>1. row'[id[s]] = NewRow(p, "import", EntryOf[s], s, req[p].plan.seen[s])
    BY <1>2
  <2>2. req[p].plan.seen[s] # NoFile
    BY <1>4
  <2> HIDE DEF new
  <2> QED BY <2>1, <2>2 DEF NewRow, NoRow
<1> HIDE DEF new
<1>6. \A r \in Ids : r \in job'.ids \/ (row'[r] = row[r] /\ at'[r] = at[r])
  BY <1>2
<1>7. \A r \in job'.ids : /\ row'[r].op = "import" /\ row'[r].owner = p /\ row'[r].state # "unused"
                          /\ row'[r].audio # NoFile
  BY <1>2, <1>5
<1>8. \A r, q \in job'.ids : row'[r].source = row'[q].source => r = q
  BY <1>2, <1>5
<1>9. \A r \in Ids : row'[r].op = "staging" /\ at'[r] \in Inside \cup {"begun"} => lock' = r
  BY <1>3, <1>6, <1>7 DEF LockInv
<1>10. \A x \in Procs : req'[x].phase # "import" /\ PlanOK(req'[x].plan)
  BY <1>1, <1>3 DEF LockInv, NoRequest, NoPlan, PlanOK
<1>11. \A r \in Ids : row'[r].op = "import" /\ at'[r] \notin {"none", "done"} => r \in job'.ids
  BY <1>3, <1>6 DEF LockInv
<1>12. \A r \in Ids : row'[r].op = "import" /\ row'[r].state # "unused" => row'[r].audio # NoFile
  BY <1>6, <1>7 DEF LockInv
<1> QED BY <1>1, <1>3, <1>7, <1>8, <1>9, <1>10, <1>11, <1>12 DEF LockInv, PlanOK

\* The steps that let go of the lock, or keep it.
LEMMA OtherLock ==
  ASSUME UploadTypeOK, Shape, LockInv, NEW p \in Procs,
         \/ EntriesRefused(p) \/ EndImport(p) \/ EndReap(p) \/ EndFail(p) \/ RecoveryRaises(p)
         \/ Die(p) \/ ClearStaging \/ \E sweeps \in BOOLEAN : SweepStaging(p, sweeps)
  PROVE  LockInv'
<1>1. \A r \in Ids : Kept(r)
  <2>1. CASE EndReap(p)
    BY <2>1, EndReapKept
  <2> QED BY <2>1 DEF EntriesRefused, EndImport, EndFail, RecoveryRaises, Die, ClearStaging,
                      SweepStaging, Kept
<1>2. NoId \notin Ids /\ NoId \notin Procs /\ NoJob.ids = {} /\ PlanOK(NoRequest.plan)
      /\ NoRequest.phase # "import" /\ p \notin Ids
  BY UploadAssumption DEF UploadAssumption, NoJob, NoRequest, NoPlan, PlanOK
<1>3. \A x \in Procs : PlanOK(req[x].plan) /\ (req[x].phase = "import" => lock = x /\ job = NoJob)
  BY DEF LockInv
<1>4. CASE EntriesRefused(p)
  <2>1. /\ lock' = NoId /\ job' = job /\ at' = at /\ req[p].phase = "import"
        /\ req'[p] = NoRequest /\ \A x \in Procs \ {p} : req'[x] = req[x]
    BY <1>4 DEF EntriesRefused, Reserving, UploadTypeOK
  <2>2. lock = p /\ job = NoJob /\ HandlersGoOn
    BY <1>3, <2>1 DEF HandlersGoOn
  <2>3. \A x \in Procs : req'[x].phase # "import" /\ PlanOK(req'[x].plan)
    BY <1>2, <1>3, <2>1, <2>2
  <2> QED BY <1>1, <1>2, <2>1, <2>2, <2>3, LockReleased
<1>5. CASE EndImport(p)
  <2>1. lock = p /\ lock' = NoId /\ job' = NoJob /\ at' = at /\ req' = req /\ job.swept
        /\ \A r \in job.ids : at[r] = "done"
    BY <1>5 DEF EndImport
  <2>2. job # NoJob /\ HandlersGoOn
    BY <2>1 DEF HandlersGoOn, NoJob
  <2>3. \A x \in Procs : req'[x].phase # "import" /\ PlanOK(req'[x].plan)
    BY <1>2, <1>3, <2>1, <2>2
  <2>4. \A r \in job.ids : at'[r] \in {"none", "done"}
    BY <2>1
  <2> QED BY <1>1, <1>2, <2>1, <2>2, <2>3, <2>4, LockReleased
<1>6. CASE EndReap(p) \/ EndFail(p) \/ ClearStaging
  <2>1. lock' = lock /\ job' = job /\ at' = at /\ req' = req /\ live' = live
    BY <1>6 DEF EndReap, EndFail, ClearStaging
  <2>2. HandlersGoOn /\ (lock \in Procs => lock \in live')
        /\ \A r \in Ids : lock = r => at'[r] \in Inside \cup {"begun", "unlink", "committed"}
    BY <2>1 DEF HandlersGoOn, LockInv
  <2> QED BY <1>1, <2>1, <2>2, LockFrame
<1>7. CASE RecoveryRaises(p)
  <2>1. /\ job' = job /\ live' = live /\ \A x \in Procs \ {p} : req'[x] = req[x]
        /\ \A r \in Ids : at'[r] = at[r] \/ (at[r] = "failing" /\ at'[r] = "done")
    BY <1>7 DEF RecoveryRaises, UploadTypeOK
  <2>2. HandlersGoOn
    BY <2>1 DEF HandlersGoOn, Inside
  <2>3. CASE rec[p].why = "reap" /\ req[p].phase = "import"
    <3>1. lock' = NoId /\ req'[p] = NoRequest /\ lock = p /\ job = NoJob
      BY <1>3, <1>7, <2>3 DEF RecoveryRaises, UploadTypeOK
    <3>2. \A x \in Procs : req'[x].phase # "import" /\ PlanOK(req'[x].plan)
      BY <1>2, <1>3, <2>1, <3>1
    <3> QED BY <1>1, <1>2, <2>1, <2>2, <3>1, <3>2, LockReleased
  <2>4. CASE ~ (rec[p].why = "reap" /\ req[p].phase = "import")
    <3>1. lock' = lock /\ (req'[p] = req[p] \/ req'[p] = NoRequest)
      BY <1>7, <2>4 DEF RecoveryRaises, UploadTypeOK
    <3>2. \A r \in Ids : lock = r => at'[r] \in Inside \cup {"begun", "unlink", "committed"}
      BY <2>1 DEF LockInv, Inside
    <3>3. \A x \in Procs : req'[x] = req[x] \/ (req'[x].phase # "import" /\ PlanOK(req'[x].plan))
      BY <1>2, <2>1, <3>1
    <3>4. lock \in Procs => lock \in live'
      BY <2>1 DEF LockInv
    <3> QED BY <1>1, <2>1, <2>2, <3>1, <3>2, <3>3, <3>4, LockFrame
  <2> QED BY <2>3, <2>4
<1>8. ASSUME NEW sweeps \in BOOLEAN, SweepStaging(p, sweeps) PROVE LockInv'
  <2>1. /\ lock' = lock /\ lock = p /\ job' = [job EXCEPT !.swept = TRUE] /\ req' = req
        /\ live' = live
        /\ req[p].phase # "import"
        /\ \A r \in Ids : at'[r] = at[r] \/ (r \in job.ids /\ at'[r] = "fail")
    BY <1>8 DEF SweepStaging
  <2>2. job'.ids = job.ids
    BY <2>1 DEF UploadTypeOK
  <2>3. HandlersGoOn
    BY <2>1 DEF HandlersGoOn, Inside
  <2>4. \A x \in Procs : req'[x].phase # "import"
    BY <1>3, <2>1
  <2>5. lock \in Procs => lock \in live'
    BY <2>1 DEF LockInv
  <2> QED BY <1>1, <1>2, <2>1, <2>2, <2>3, <2>4, <2>5, LockFrame
<1>9. CASE Die(p)
  <2>1. /\ req'[p] = NoRequest /\ live' = live \ {p} /\ \A x \in Procs \ {p} : req'[x] = req[x]
        /\ \A r \in Ids : at'[r] = IF row[r].owner = p THEN "none" ELSE at[r]
    BY <1>9 DEF Die, UploadTypeOK
  <2>2. HandlersGoOn
    BY <2>1 DEF HandlersGoOn, Inside
  <2>3. CASE lock = p
    <3>1. lock' = NoId /\ job' = NoJob
      BY <1>9, <2>3 DEF Die
    <3>2. \A r \in job.ids : at'[r] \in {"none", "done"}
      BY <2>1, <2>3, JobRows
    <3>3. \A x \in Procs : req'[x].phase # "import" /\ PlanOK(req'[x].plan)
      BY <1>2, <1>3, <2>1, <2>3
    <3> QED BY <1>1, <1>2, <2>2, <2>3, <3>1, <3>2, <3>3, LockReleased
  <2>4. CASE lock \in Ids /\ row[lock].owner = p
    <3>1. lock' = NoId /\ job' = job /\ lock \notin Procs
      BY <1>9, <2>4, UploadAssumption DEF Die, UploadAssumption
    <3>2. job = NoJob
      BY <3>1 DEF LockInv
    <3>3. \A x \in Procs : req'[x].phase # "import" /\ PlanOK(req'[x].plan)
      BY <1>2, <1>3, <2>1, <3>1
    <3>4. \A r \in Ids : lock = r => at'[r] \notin Inside \cup {"begun"}
      BY <2>1, <2>4 DEF Inside
    <3> QED BY <1>1, <1>2, <2>2, <3>1, <3>2, <3>3, <3>4, LockReleased
  <2>5. CASE lock # p /\ ~ (lock \in Ids /\ row[lock].owner = p)
    <3>1. lock' = lock /\ job' = job
      BY <1>9, <2>5 DEF Die
    <3>2. \A r \in Ids : lock = r => at'[r] \in Inside \cup {"begun", "unlink", "committed"}
      BY <2>1, <2>5 DEF LockInv
    <3>3. \A x \in Procs : req'[x] = req[x] \/ (req'[x].phase # "import" /\ PlanOK(req'[x].plan))
      BY <1>2, <2>1
    <3>4. lock \in Procs => lock \in live'
      BY <2>1, <2>5 DEF LockInv
    <3> QED BY <1>1, <2>1, <2>2, <3>1, <3>2, <3>3, <3>4, LockFrame
  <2> QED BY <2>3, <2>4, <2>5
<1> QED BY <1>4, <1>5, <1>6, <1>7, <1>8, <1>9

\* Every step keeps the invariant of the import lock.
LEMMA LockStep ==
  ASSUME UploadTypeOK, Shape, LockInv, UploadNext
  PROVE  LockInv'
<1>1. ASSUME NEW p \in Procs, RequestStep(p) PROVE LockInv'
  BY <1>1, StartCommitLock, RequestLock, ReserveUploadLock, ReserveEntriesLock, OtherLock
     DEF RequestStep, ReserveEpisode, ReserveStaged, Targets
<1>2. ASSUME NEW p \in Procs, RecoveryStep(p) PROVE LockInv'
  BY <1>2, RecoveryLock, OtherLock DEF RecoveryStep
<1>3. CASE Failure
  BY <1>3, HandlerLock, OtherLock, RecoveryLock DEF Failure
<1>4. CASE ClearStaging
  BY <1>4, OtherLock DEF ClearStaging, UploadTypeOK
<1> QED BY <1>1, <1>2, <1>3, <1>4, HandlerLock, RequestLock DEF UploadNext

-----------------------------------------------------------------------------
(* No audio in two places *)

\* A step that moves no audio: it leaves what a place holds, or removes it.
Lost == \A k \in Kinds : \A x \in Keys(k) : Holds(k, x)' \in {Holds(k, x), NoFile}

\* A step that moves the audio at one place to another, which loses what it held.
Moved(k, x, l, y) ==
  /\ k \in Kinds /\ l \in Kinds /\ x \in Keys(k) /\ y \in Keys(l) /\ (k # l \/ x # y)
  /\ Holds(l, y)' = Holds(k, x) /\ Holds(k, x)' = NoFile
  /\ \A m \in Kinds : \A z \in Keys(m) :
       (m # k \/ z # x) /\ (m # l \/ z # y) => Holds(m, z)' \in {Holds(m, z), NoFile}

\* The audio of an upload comes in only when it is there to come.
StillAwaited ==
  \A r \in Ids : row'[r].state \in {"unused", "reserved"} => row[r].state \in {"unused", "reserved"}

\* A step that at most removes audio keeps places apart.
LEMMA LostApart ==
  ASSUME Apart, Awaited, Lost, StillAwaited
  PROVE  Apart' /\ Awaited'
<1>1. Apart'
  BY DEF Apart, Lost, Keys
<1>2. Awaited'
  BY UploadAssumption DEF Awaited, Lost, StillAwaited, UploadAssumption, Keys
<1> QED BY <1>1, <1>2

\* A rename keeps places apart.
LEMMA MovedApart ==
  ASSUME Apart, Awaited, NEW k, NEW x, NEW l, NEW y, Moved(k, x, l, y), StillAwaited
  PROVE  Apart' /\ Awaited'
<1>1. Apart'
  <2> SUFFICES ASSUME NEW m \in Kinds, NEW n \in Kinds, NEW z \in Keys(m), NEW w \in Keys(n),
                      m # n \/ z # w, Holds(m, z)' = Holds(n, w)'
               PROVE  Holds(m, z)' = NoFile
    BY DEF Apart, Keys
  <2>1. CASE (m = k /\ z = x) \/ (n = k /\ w = x)
    BY <2>1 DEF Moved
  <2>2. CASE m = l /\ z = y /\ (n # k \/ w # x)
    BY <2>2 DEF Moved, Apart
  <2>3. CASE n = l /\ w = y /\ (m # k \/ z # x)
    BY <2>3 DEF Moved, Apart
  <2>4. CASE (m # k \/ z # x) /\ (m # l \/ z # y) /\ (n # k \/ w # x) /\ (n # l \/ w # y)
    BY <2>4 DEF Moved, Apart
  <2> QED BY <2>1, <2>2, <2>3, <2>4
<1>2. Awaited'
  <2> SUFFICES ASSUME NEW r \in Ids, row'[r].state \in {"unused", "reserved"},
                      NEW m \in Kinds, NEW z \in Keys(m)
               PROVE  Holds(m, z)' # r
    BY DEF Awaited, Keys
  <2>1. r # NoFile /\ row[r].state \in {"unused", "reserved"}
    BY UploadAssumption DEF StillAwaited, UploadAssumption
  <2> QED BY <2>1 DEF Moved, Awaited
<1> QED BY <1>1, <1>2

\* The audio that arrives was nowhere.
LEMMA PrepareApart ==
  ASSUME UploadTypeOK, Shape, Apart, Awaited, NEW r \in Ids, Prepare(r), StillAwaited
  PROVE  Apart' /\ Awaited'
<1>1. /\ Holds("part", r)' = r /\ row'[r].state = "prepared"
      /\ \A k \in Kinds : \A x \in Keys(k) : (k # "part" \/ x # r) => Holds(k, x)' = Holds(k, x)
      /\ r \in Keys("part") /\ "part" \in Kinds
  BY PrepareEffect DEF Prepare, UploadTypeOK, Holds, Keys, Kinds
<1>2. row[r].state = "reserved"
  BY DEF Prepare, Handler, Shape, HandlerInv
<1>3. \A k \in Kinds : \A x \in Keys(k) : Holds(k, x) # r
  BY <1>2 DEF Awaited
<1>4. Apart'
  <2> SUFFICES ASSUME NEW m \in Kinds, NEW n \in Kinds, NEW z \in Keys(m), NEW w \in Keys(n),
                      m # n \/ z # w, Holds(m, z)' = Holds(n, w)'
               PROVE  Holds(m, z)' = NoFile
    BY DEF Apart, Keys
  <2> QED BY <1>1, <1>3 DEF Apart
<1>5. Awaited'
  <2> SUFFICES ASSUME NEW q \in Ids, row'[q].state \in {"unused", "reserved"},
                      NEW m \in Kinds, NEW z \in Keys(m)
               PROVE  Holds(m, z)' # q
    BY DEF Awaited, Keys
  <2>1. q # r /\ row[q].state \in {"unused", "reserved"}
    BY <1>1 DEF StillAwaited
  <2> QED BY <1>1, <2>1 DEF Awaited
<1> QED BY <1>4, <1>5

\* The renames of a handler.
LEMMA HandlerMoves ==
  ASSUME UploadTypeOK, Shape, NEW r \in Ids, HandlerStep(r) \/ HandlerFails(r), ~Prepare(r)
  PROVE  Lost \/ \E k, x, l, y : Moved(k, x, l, y)
<1>1. at[r] # "none"
  BY DEF HandlerStep, HandlerFails, Handler, Prepare, PrepareEntry, BeginPublication, BackUp, MoveIn,
         Bump, Commit, DropBackup, UndoMove, UndoBackup, Unlink, Fail
<1>2. /\ row[r].target \in Targets
      /\ row[r].op = "import" => /\ row[r].source \in Targets /\ row[r].source # row[r].target
  BY <1>1, HandlerRow, RowTargets, UploadAssumption DEF UploadAssumption
<1>3. CASE BackUp(r)
  <2>1. Moved("final", row[r].target, "backup", r)
    BY <1>2, <1>3 DEF BackUp, Moved, Holds, Keys, Kinds, UploadTypeOK
  <2> QED BY <2>1
<1>4. CASE MoveIn(r) /\ row[r].op = "import"
  <2>1. Moved("final", row[r].source, "final", row[r].target)
    BY <1>2, <1>4 DEF MoveIn, SourceOf, Moved, Holds, Keys, Kinds, UploadTypeOK
  <2> QED BY <2>1
<1>5. CASE MoveIn(r) /\ row[r].op # "import"
  <2>1. Moved("part", r, "final", row[r].target)
    BY <1>2, <1>5 DEF MoveIn, SourceOf, Moved, Holds, Keys, Kinds, UploadTypeOK
  <2> QED BY <2>1
<1>6. CASE UndoMove(r) /\ row[r].op = "import"
  <2>1. Moved("final", row[r].target, "final", row[r].source)
    BY <1>2, <1>6 DEF UndoMove, Moved, Holds, Keys, Kinds, UploadTypeOK
  <2> QED BY <2>1
<1>7. CASE UndoMove(r) /\ row[r].op # "import"
  <2>1. Moved("final", row[r].target, "part", r)
    BY <1>2, <1>7 DEF UndoMove, Moved, Holds, Keys, Kinds, UploadTypeOK
  <2> QED BY <2>1
<1>8. CASE UndoBackup(r) /\ backup[r] # NoFile
  <2>1. Moved("backup", r, "final", row[r].target)
    BY <1>2, <1>8 DEF UndoBackup, Moved, Holds, Keys, Kinds, UploadTypeOK
  <2> QED BY <2>1
<1>9. CASE UndoBackup(r) /\ backup[r] = NoFile
  BY <1>9 DEF UndoBackup, Lost, Holds, Keys, Kinds, UploadTypeOK
<1>10. CASE DropBackup(r)
  BY <1>10 DEF DropBackup, Lost, Holds, Keys, Kinds, UploadTypeOK
<1>11. CASE Unlink(r)
  BY <1>11 DEF Unlink, Lost, Holds, Keys, Kinds, UploadTypeOK
<1>12. CASE PrepareEntry(r) \/ BeginPublication(r) \/ Bump(r) \/ Commit(r) \/ HandlerFails(r) \/ Fail(r)
  <2>1. final' = final /\ part' = part /\ backup' = backup
    BY <1>12 DEF PrepareEntry, BeginPublication, Bump, Commit, HandlerFails, Fail, files
  <2> QED BY <2>1 DEF Lost, Holds
<1> QED BY <1>3, <1>4, <1>5, <1>6, <1>7, <1>8, <1>9, <1>10, <1>11, <1>12 DEF HandlerStep

\* The renames of a recovery.
LEMMA RecoveryMoves ==
  ASSUME UploadTypeOK, Shape, NEW p \in Procs, NEW r \in Ids,
         Discard(p, r) \/ Unpublish(p, r) \/ Restore(p, r) \/ MarkFailed(p, r) \/ CleanTemp(p, r)
           \/ RowFails(p, r)
  PROVE  Lost \/ \E k, x, l, y : Moved(k, x, l, y)
<1>1. \A step : Recovering(p, r, step) => row[r].state # "unused"
  BY RecoveringFacts
<1>2. row[r].state # "unused"
  BY <1>1 DEF Discard, Unpublish, Restore, MarkFailed, CleanTemp, RowFails
<1>3. /\ row[r].target \in Targets
      /\ row[r].op = "import" => /\ row[r].source \in Targets /\ row[r].source # row[r].target
  BY <1>2, RowTargets, UploadAssumption DEF UploadAssumption
<1>4. CASE Unpublish(p, r)
  <2> DEFINE back == final[row[r].target] # NoFile /\ SourceOf(r) = NoFile
  <2>1. CASE back /\ row[r].op = "import"
    <3>1. Moved("final", row[r].target, "final", row[r].source)
      BY <1>3, <1>4, <2>1 DEF Unpublish, Moved, Holds, Keys, Kinds, UploadTypeOK
    <3> QED BY <3>1
  <2>2. CASE back /\ row[r].op # "import"
    <3>1. Moved("final", row[r].target, "part", r)
      BY <1>3, <1>4, <2>2 DEF Unpublish, Moved, Holds, Keys, Kinds, UploadTypeOK
    <3> QED BY <3>1
  <2>3. CASE ~back
    BY <1>4, <2>3 DEF Unpublish, Lost, Holds
  <2> QED BY <2>1, <2>2, <2>3
<1>5. CASE Restore(p, r) /\ backup[r] # NoFile
  <2>1. Moved("backup", r, "final", row[r].target)
    BY <1>3, <1>5 DEF Restore, Moved, Holds, Keys, Kinds, UploadTypeOK
  <2> QED BY <2>1
<1>6. CASE (Restore(p, r) /\ backup[r] = NoFile) \/ Discard(p, r) \/ CleanTemp(p, r)
  BY <1>6 DEF Restore, Discard, CleanTemp, Lost, Holds, Keys, Kinds, UploadTypeOK
<1>7. CASE MarkFailed(p, r) \/ RowFails(p, r)
  <2>1. final' = final /\ part' = part /\ backup' = backup
    BY <1>7 DEF MarkFailed, RowFails, files
  <2> QED BY <2>1 DEF Lost, Holds
<1> QED BY <1>4, <1>5, <1>6, <1>7

\* Every step keeps places apart, and what has not arrived away.
LEMMA ApartStep ==
  ASSUME UploadTypeOK, Shape, Apart, Awaited, UploadNext
  PROVE  Apart' /\ Awaited'
<1>1. StillAwaited
  <2>1. CASE \A p \in Procs : ~Reserve(p)
    BY <2>1, RowsKept DEF Kept, StillAwaited
  <2>2. ASSUME NEW p \in Procs, NEW r \in Ids, NEW o, NEW t \in Targets, ReserveUpload(p, r, o, t)
        PROVE  StillAwaited
    BY <2>2 DEF ReserveUpload, StillAwaited, Unused, UploadTypeOK
  <2>3. ASSUME NEW p \in Procs, ReserveEntries(p) PROVE StillAwaited
    <3>1. \A r \in Ids : row'[r] = row[r] \/ r \in Unused
      <4>1. PICK id \in [req[p].plan.entries -> Unused] :
              \A r \in Ids : (\A s \in req[p].plan.entries : id[s] # r) => row'[r] = row[r] /\ at'[r] = at[r]
        BY <2>3, ReserveEntriesEffect
      <4> QED BY <4>1
    <3> QED BY <3>1 DEF StillAwaited, Unused
  <2> QED BY <2>1, <2>2, <2>3 DEF Reserve, ReserveEpisode, ReserveStaged, Targets
<1>2. ASSUME NEW p \in Procs, EndReap(p) PROVE Lost
  BY <1>2 DEF EndReap, Lost, Holds, Keys, Kinds
<1>3. ASSUME NEW p \in Procs,
             \/ \E overwrite \in BOOLEAN : AskCommit(p, overwrite)
             \/ AskUpload(p) \/ StartCommit(p) \/ CommitRefused(p) \/ UploadRefused(p)
             \/ EntriesRefused(p) \/ EndImport(p) \/ EndFail(p) \/ RecoveryRaises(p) \/ Die(p)
             \/ Reserve(p)
      PROVE  Lost
  <2>1. final' = final /\ part' = part /\ backup' = backup
    BY <1>3 DEF AskCommit, AskUpload, StartCommit, CommitRefused, UploadRefused, EntriesRefused,
                EndImport, EndFail, RecoveryRaises, Die, Reserve, ReserveEpisode, ReserveStaged,
                ReserveUpload, ReserveEntries, files
  <2> QED BY <2>1 DEF Lost, Holds
<1>4. ASSUME NEW p \in Procs, ClearStaging \/ \E sweeps \in BOOLEAN : SweepStaging(p, sweeps)
      PROVE  Lost
  BY <1>4 DEF ClearStaging, SweepStaging, Lost, Holds, Keys, Kinds
<1>5. ClearStaging => Lost
  BY <1>4 DEF ClearStaging, UploadTypeOK
<1>6. \/ Lost \/ (\E k, x, l, y : Moved(k, x, l, y)) \/ \E r \in Ids : Prepare(r)
  BY <1>2, <1>3, <1>4, <1>5, HandlerMoves, RecoveryMoves
     DEF UploadNext, RequestStep, RecoveryStep, Failure, Reserve
<1> QED BY <1>1, <1>6, LostApart, MovedApart, PrepareApart

-----------------------------------------------------------------------------
(* The audio that an active reservation is going to replace *)

\* Episodes that are free, and episodes that are held.
HeldOK == RowHasAudio /\ \A r \in Ids : HeldInv(r)

\* Nothing about q that HeldInv speaks of changes.
Steady(q) ==
  /\ Active(q)' => Active(q)
  /\ row'[q].target = row[q].target /\ row'[q].op = row[q].op /\ row'[q].audio = row[q].audio
  /\ row'[q].temp => row[q].temp
  /\ Early(q)' => Early(q)
  /\ at'[q] \in {"begun", "unlink"} => at[q] \in {"begun", "unlink"}
  /\ at'[q] \in Inside => at[q] \in Inside
  /\ backup'[q] = backup[q]
  /\ Active(q) /\ row[q].target \in Episodes =>
       /\ final'[row[q].target] = final[row[q].target]
       /\ episode'[row[q].target] = episode[row[q].target]
  /\ \A p \in Procs : rec'[p].on = q /\ rec'[p].step = "mark" => rec[p].on = q /\ rec[p].step = "mark"

\* What HeldInv says of q stays true when nothing it speaks of changes.
LEMMA SteadyHeld ==
  ASSUME NEW q \in Ids, HeldInv(q), Steady(q), strayed \subseteq strayed'
  PROVE  HeldInv(q)'
BY DEF HeldInv, Steady, Intact, Aside

\* A free episode is left alone, or its audio is what its row says.
LEMMA AudioFrame ==
  ASSUME RowHasAudio, strayed \subseteq strayed',
         \A e \in Episodes : \/ Held(e)'
                             \/ ~Held(e) /\ final'[e] = final[e] /\ episode'[e] = episode[e]
                             \/ e \in strayed' \/ episode'[e] = NoFile
                             \/ final'[e] = episode'[e]
  PROVE  RowHasAudio'
BY DEF RowHasAudio

\* A step of the handler of r, or of its recovery, need only be right for r.
LEMMA RowHeldFrame ==
  ASSUME UploadTypeOK, Shape, OneHolder, HeldOK, NEW r \in Ids, HeldInv(r)',
         \A q \in Ids \ {r} : row'[q] = row[q] /\ at'[q] = at[q] /\ backup'[q] = backup[q],
         row'[r].target = row[r].target, strayed \subseteq strayed',
         Active(r) /\ row[r].target \in Episodes =>
           \/ Active(r)' \/ row[r].target \in strayed' \/ episode'[row[r].target] = NoFile
           \/ final'[row[r].target] = episode'[row[r].target],
         \A p \in Procs : rec'[p] = rec[p] \/ rec'[p].on \in {NoId, r},
         \A e \in Episodes : (Active(r) => e # row[r].target) => final'[e] = final[e] /\ episode'[e] = episode[e]
  PROVE  HeldOK'
<1>1. ASSUME NEW q \in Ids \ {r} PROVE HeldInv(q)'
  <2>1. \A p \in Procs : rec'[p].on = q => rec'[p] = rec[p]
    BY UploadAssumption DEF UploadAssumption
  <2>2. Active(q) /\ row[q].target \in Episodes =>
          final'[row[q].target] = final[row[q].target]
          /\ episode'[row[q].target] = episode[row[q].target]
    BY DEF OneHolder
  <2>3. Steady(q)
    BY <2>1, <2>2 DEF Steady, Active, Early
  <2> QED BY <2>3, SteadyHeld DEF HeldOK
<1>2. \A e \in Episodes : Held(e) => Held(e)' \/ (Active(r) /\ e = row[r].target)
  BY DEF Held, Active
<1>3. \A e \in Episodes : ~Held(e) => final'[e] = final[e] /\ episode'[e] = episode[e]
  BY DEF Held
<1>4. Active(r) /\ Active(r)' => Held(row[r].target)'
  BY DEF Held
<1>5. RowHasAudio'
  BY <1>2, <1>3, <1>4, AudioFrame DEF HeldOK
<1> QED BY <1>1, <1>5 DEF HeldOK

\* What a handler holds, before its transaction, inside it, and after it.
LEMMA HolderFacts ==
  ASSUME UploadTypeOK, Shape, HeldOK, NEW r \in Ids, Active(r), row[r].target \in Episodes \ strayed,
         episode[row[r].target] # NoFile
  PROVE  /\ row[r].op = "import"
         /\ row[r].temp => episode[row[r].target] # row[r].audio
         /\ at[r] \in {"reserved", "prepared", "begun", "unlink"} => Intact(r)
         /\ at[r] \in Inside => Aside(r)
         /\ Early(r) => Intact(r)
         /\ Intact(r) \/ Aside(r)
<1>1. HeldInv(r) /\ HandlerInv(r)
  BY DEF HeldOK, Shape
<1>2. at[r] \in {"reserved", "prepared"} => Early(r)
  BY <1>1 DEF HandlerInv, Early
<1> QED BY <1>1, <1>2 DEF HeldInv

\* The steps of a handler before its transaction, and after it.
LEMMA HandlerHeldEarly ==
  ASSUME UploadTypeOK, Shape, OneHolder, Apart, HeldOK, NEW r \in Ids,
         Prepare(r) \/ PrepareEntry(r) \/ BeginPublication(r)
  PROVE  HeldOK'
<1>1. /\ final' = final /\ episode' = episode /\ strayed' = strayed /\ rec' = rec
      /\ backup' = backup
      /\ \A q \in Ids \ {r} : row'[q] = row[q] /\ at'[q] = at[q]
  BY DEF Prepare, PrepareEntry, BeginPublication, Goto, files, UploadTypeOK
<1>2. at[r] \in {"reserved", "prepared"} /\ Active(r) /\ HandlerInv(r)
  BY DEF Prepare, PrepareEntry, BeginPublication, Handler, Shape, HandlerInv, Working
<1>3. /\ row'[r].target = row[r].target /\ row'[r].op = row[r].op /\ row'[r].audio = row[r].audio
      /\ row'[r].state \in {"prepared", "publishing"} /\ at'[r] \in {"prepared", "begun"}
  BY PrepareEffect, PrepareEntryEffect, BeginPublicationEffect
<1>4. HeldInv(r)'
  <2> SUFFICES ASSUME row[r].target \in Episodes, episode[row[r].target] # NoFile
               PROVE  /\ row[r].op = "import"
                      /\ row[r].target \notin strayed =>
                           /\ row'[r].temp => episode[row[r].target] # row[r].audio
                           /\ Intact(r)
                           /\ at'[r] \notin Inside
    BY <1>1, <1>3 DEF HeldInv, Intact
  <2>1. row[r].op = "import"
    BY <1>2 DEF HeldOK, HeldInv
  <2>2. ASSUME row[r].target \notin strayed PROVE Intact(r)
    BY <1>2, <2>2, HolderFacts
  <2>3. ASSUME row[r].target \notin strayed, row'[r].temp
        PROVE  episode[row[r].target] # row[r].audio
    <3>1. CASE PrepareEntry(r)
      <4>1. final[row[r].source] = row[r].audio
        BY <3>1 DEF PrepareEntry
      <4>2. row[r].source \in Targets /\ row[r].target \in Targets /\ row[r].source # row[r].target
        BY <1>2, <2>1, HandlerRow, RowTargets, UploadAssumption DEF UploadAssumption
      <4>3. final[row[r].source] # final[row[r].target] \/ final[row[r].target] = NoFile
        BY <4>2 DEF Apart, Kinds, Keys, Holds
      <4> QED BY <2>2, <2>3, <4>1, <4>3 DEF Intact
    <3>2. CASE BeginPublication(r)
      <4>1. row[r].temp
        BY <2>3, <3>2, BeginPublicationEffect
      <4> QED BY <1>2, <2>3, <4>1, HolderFacts
    <3>3. ~Prepare(r)
      BY <2>1 DEF Prepare
    <3> QED BY <3>1, <3>2, <3>3
  <2>4. at'[r] \notin Inside
    BY <1>3 DEF Inside
  <2> QED BY <2>1, <2>2, <2>3, <2>4
<1>5. Active(r)'
  BY <1>3 DEF Active, ActiveUpload
<1> QED BY <1>1, <1>3, <1>4, <1>5, RowHeldFrame

\* The steps of a handler that change no row.
LEMMA HandlerHeldInside ==
  ASSUME UploadTypeOK, Shape, OneHolder, HeldOK, NEW r \in Ids,
         BackUp(r) \/ MoveIn(r) \/ Bump(r) \/ HandlerFails(r) \/ UndoMove(r) \/ UndoBackup(r) \/ Unlink(r)
  PROVE  HeldOK'
<1>1. /\ episode' = episode /\ strayed' = strayed /\ rec' = rec /\ row' = row
      /\ \A q \in Ids \ {r} : at'[q] = at[q] /\ backup'[q] = backup[q]
  BY DEF BackUp, MoveIn, Bump, HandlerFails, UndoMove, UndoBackup, Unlink, Goto, files, UploadTypeOK
<1>2. at[r] \in Working /\ Active(r)
  BY DEF BackUp, MoveIn, Bump, HandlerFails, UndoMove, UndoBackup, Unlink, Handler, Shape, HandlerInv,
         Working, Inside
<1>3. /\ row[r].target \in Targets
      /\ row[r].op = "import" => row[r].source \in Staged /\ row[r].source \in Targets
      /\ Staged \cap Episodes = {}
  BY <1>2, HandlerRow, RowTargets, UploadAssumption DEF UploadAssumption, Working
<1>4. \A e \in Episodes : e # row[r].target => final'[e] = final[e]
  <2> SUFFICES ASSUME NEW e \in Episodes, e # row[r].target PROVE final'[e] = final[e]
    OBVIOUS
  <2>1. e \in Targets /\ (row[r].op = "import" => e # row[r].source)
    BY <1>3 DEF Targets
  <2>2. CASE BackUp(r)
    BY <2>1, <2>2 DEF BackUp, UploadTypeOK
  <2>3. CASE MoveIn(r)
    BY <2>1, <2>3 DEF MoveIn, UploadTypeOK
  <2>4. CASE UndoMove(r)
    BY <2>1, <2>4 DEF UndoMove, UploadTypeOK
  <2>5. CASE UndoBackup(r)
    BY <2>1, <2>5 DEF UndoBackup, UploadTypeOK
  <2>6. CASE Bump(r) \/ HandlerFails(r) \/ Unlink(r)
    BY <2>6 DEF Bump, HandlerFails, Unlink, files
  <2> QED BY <2>2, <2>3, <2>4, <2>5, <2>6
<1>5. \A p \in Procs : ~ (rec'[p].on = r)
  BY <1>1, <1>2 DEF Shape, RecoveryInv, InRecovery
<1>6. HeldInv(r)'
  <2> SUFFICES ASSUME row[r].target \in Episodes, episode[row[r].target] # NoFile
               PROVE  /\ row[r].op = "import"
                      /\ row[r].target \notin strayed =>
                           /\ row[r].temp => episode[row[r].target] # row[r].audio
                           /\ Early(r) \/ at'[r] \in {"begun", "unlink"} => Intact(r)'
                           /\ at'[r] \in Inside => Aside(r)'
                           /\ Intact(r)' \/ Aside(r)'
    BY <1>1, <1>5 DEF HeldInv, Early
  <2>1. row[r].op = "import"
    BY <1>2 DEF HeldOK, HeldInv
  <2> SUFFICES ASSUME row[r].target \notin strayed
               PROVE  /\ row[r].temp => episode[row[r].target] # row[r].audio
                      /\ Early(r) \/ at'[r] \in {"begun", "unlink"} => Intact(r)'
                      /\ at'[r] \in Inside => Aside(r)'
                      /\ Intact(r)' \/ Aside(r)'
    BY <2>1
  <2>2. /\ row[r].temp => episode[row[r].target] # row[r].audio
        /\ at[r] \in {"reserved", "prepared", "begun", "unlink"} => Intact(r)
        /\ at[r] \in Inside => Aside(r)
        /\ Early(r) => Intact(r)
        /\ Intact(r) \/ Aside(r)
    BY <1>2, HolderFacts
  <2>3. Intact(r) => ~Aside(r)
    BY DEF Intact, Aside
  <2>4. CASE BackUp(r)
    <3>1. at[r] = "begun" /\ at'[r] = "backedUp" /\ backup'[r] = final[row[r].target]
      BY <2>4, BackUpEffect DEF BackUp, Handler
    <3>2. row[r].state = "publishing" /\ row[r].was = "none"
      BY <2>4, <1>2 DEF BackUp, Shape, HandlerInv
    <3>3. Aside(r)'
      BY <1>1, <2>2, <3>1 DEF Intact, Aside
    <3> QED BY <2>2, <3>1, <3>2, <3>3 DEF Early
  <2>5. CASE MoveIn(r) \/ Bump(r) \/ UndoMove(r)
    <3>1. /\ at[r] \in Inside /\ at'[r] \in Inside /\ backup'[r] = backup[r]
      BY <2>5 DEF MoveIn, Bump, UndoMove, Handler, Goto, files, Inside, UploadTypeOK
    <3>2. Aside(r)'
      BY <1>1, <2>2, <3>1 DEF Aside
    <3> QED BY <2>2, <2>3, <3>1, <3>2 DEF Inside
  <2>6. CASE UndoBackup(r)
    <3>1. at[r] = "undoBackup" /\ at'[r] = "unlink" /\ backup'[r] = NoFile
      BY <2>6, UndoBackupEffect DEF UndoBackup, Handler
    <3>2. Aside(r) /\ backup[r] # NoFile
      BY <2>2, <3>1 DEF Inside, Aside
    <3>3. final'[row[r].target] = backup[r]
      BY <1>3, <2>6, <3>2 DEF UndoBackup, UploadTypeOK
    <3>4. Intact(r)'
      BY <1>1, <3>1, <3>2, <3>3 DEF Intact, Aside
    <3> QED BY <2>2, <3>1, <3>4 DEF Inside
  <2>7. CASE HandlerFails(r)
    <3>1. final' = final /\ backup' = backup
      BY <2>7 DEF HandlerFails, files
    <3>2. \/ at[r] \in {"moved", "bumped", "backedUp"} /\ at'[r] \in {"undoMove", "undoBackup"}
          \/ at[r] \in {"reserved", "prepared", "begun"} /\ at'[r] = "unlink"
      BY <2>7, HandlerFailsEffect
    <3>3. (Intact(r) => Intact(r)') /\ (Aside(r) => Aside(r)')
      BY <1>1, <3>1 DEF Intact, Aside
    <3> QED BY <2>2, <3>2, <3>3 DEF Inside
  <2>8. CASE Unlink(r)
    <3>1. at'[r] = "fail" /\ final' = final /\ backup' = backup
      BY <2>8, UnlinkEffect DEF Unlink
    <3> QED BY <1>1, <2>2, <3>1 DEF Intact, Aside, Inside
  <2> QED BY <2>4, <2>5, <2>6, <2>7, <2>8
<1> QED BY <1>1, <1>2, <1>4, <1>6, RowHeldFrame DEF Active

\* The end of a publication: the episode's row describes the file that is in place.
LEMMA HandlerHeldEnd ==
  ASSUME UploadTypeOK, Shape, OneHolder, HeldOK, NEW r \in Ids,
         Commit(r) \/ DropBackup(r) \/ Fail(r)
  PROVE  HeldOK'
<1>1. CASE Commit(r)
  <2>1. /\ final' = final /\ strayed' = strayed /\ rec' = rec /\ backup' = backup
        /\ row'[r].state = "published"
        /\ \A q \in Ids \ {r} : row'[q] = row[q] /\ at'[q] = at[q]
    BY <1>1, CommitEffect DEF Commit, Goto, UploadTypeOK
  <2>2. Active(r)
    BY <1>1 DEF Commit, Handler, Shape, HandlerInv, Working
  <2>3. \A e \in Episodes : IF e = row[r].target THEN episode'[e] = final'[e] ELSE episode'[e] = episode[e]
    BY <1>1, <2>1 DEF Commit, UploadTypeOK
  <2>4. HeldInv(r)'
    BY <2>1 DEF HeldInv, Active, ActiveUpload
  <2>5. ASSUME NEW q \in Ids \ {r} PROVE HeldInv(q)'
    <3>1. Active(q) => row[q].target # row[r].target
      BY <2>2 DEF OneHolder
    <3>2. Steady(q)
      BY <2>1, <2>3, <3>1 DEF Steady, Active, Early
    <3> QED BY <2>1, <3>2, SteadyHeld DEF HeldOK
  <2>6. \A e \in Episodes : e # row[r].target => (Held(e) => Held(e)')
    BY <2>1 DEF Held, Active
  <2>7. RowHasAudio'
    BY <2>1, <2>3, <2>6, AudioFrame DEF HeldOK
  <2> QED BY <2>4, <2>5, <2>7 DEF HeldOK
<1>2. CASE DropBackup(r)
  <2>1. /\ final' = final /\ episode' = episode /\ strayed' = strayed /\ rec' = rec
        /\ \A q \in Ids \ {r} : row'[q] = row[q] /\ at'[q] = at[q] /\ backup'[q] = backup[q]
    BY <1>2 DEF DropBackup, Goto, UploadTypeOK
  <2>2. row[r].state = "published" /\ row'[r].state = "published" /\ row'[r].target = row[r].target
    BY <1>2, DropBackupEffect DEF DropBackup, Handler, Shape, HandlerInv
  <2>3. HeldInv(r)' /\ ~Active(r)
    BY <2>2 DEF HeldInv, Active, ActiveUpload
  <2> QED BY <2>1, <2>2, <2>3, RowHeldFrame
<1>3. CASE Fail(r)
  <2>1. /\ final' = final /\ episode' = episode /\ strayed' = strayed /\ backup' = backup
        /\ at[r] = "fail" /\ row[r].owner \in Procs
        /\ at'[r] \in {"failing", "done"} /\ \A q \in Ids \ {r} : at'[q] = at[q]
    BY <1>3 DEF Fail, Handler, Goto, files, UploadTypeOK
  <2>2. \A p \in Procs : rec'[p] = rec[p] \/ rec'[p].on = NoId
    <3>1. rec' = rec \/ rec' = [rec EXCEPT ![row[r].owner] = [NoRecovery EXCEPT !.why = "fail", !.todo = {r}]]
      BY <1>3 DEF Fail
    <3>2. [NoRecovery EXCEPT !.why = "fail", !.todo = {r}].on = NoId
      BY DEF NoRecovery
    <3>3. rec \in [Procs -> Recoveries]
      BY DEF UploadTypeOK
    <3> QED BY <3>1, <3>2, <3>3
  <2>3. CASE ~Active(r)
    <3>1. row' = row
      BY <1>3, <2>3 DEF Fail
    <3>2. HeldInv(r)'
      BY <2>3, <3>1 DEF HeldInv, Active
    <3> QED BY <2>1, <2>2, <2>3, <3>1, <3>2, RowHeldFrame
  <2>4. CASE Active(r)
    <3>1. row' = ClaimedBy(row[r].owner, {r})
      BY <1>3, <2>4 DEF Fail
    <3>2. /\ row'[r].state = "publishing"
          /\ row'[r].was = IF row[r].was # "none" THEN row[r].was ELSE row[r].state
          /\ row'[r].op = row[r].op /\ row'[r].target = row[r].target
          /\ row'[r].temp = row[r].temp /\ row'[r].audio = row[r].audio
          /\ \A q \in Ids \ {r} : row'[q] = row[q]
      BY <2>1, <3>1, ClaimEffect
    <3>3. Early(r)' => Early(r)
      BY <3>2 DEF Early
    <3>4. Steady(r)
      <4>1. \A p \in Procs : rec'[p].on = r => rec'[p] = rec[p]
        BY <2>2, UploadAssumption DEF UploadAssumption
      <4> QED BY <2>1, <2>4, <3>2, <3>3, <4>1 DEF Steady, Active, ActiveUpload, Inside
    <3>5. HeldInv(r)' /\ Active(r)'
      BY <2>1, <3>2, <3>4, SteadyHeld DEF HeldOK, Active, ActiveUpload
    <3> QED BY <2>1, <2>2, <3>2, <3>5, RowHeldFrame
  <2> QED BY <2>3, <2>4
<1> QED BY <1>1, <1>2, <1>3

\* Where a recovery marks its row as failed, the files are back.
LEMMA MarkFacts ==
  ASSUME UploadTypeOK, Shape, HeldOK, NEW p \in Procs, NEW r \in Ids, Recovering(p, r, "mark"),
         row[r].target \in Episodes \ strayed, episode[row[r].target] # NoFile
  PROVE  Intact(r)
<1>1. Active(r)
  BY RecoveringFacts DEF Active, ActiveUpload
<1>2. CASE rec[p].on = r /\ rec[p].step = "mark"
  BY <1>1, <1>2 DEF HeldOK, HeldInv
<1>3. CASE "mark" = FirstStep(r) /\ rec[p].on = NoId
  <2>1. row[r].was = "reserved"
    BY <1>3 DEF FirstStep
  <2> QED BY <1>1, <2>1, HolderFacts DEF Early
<1> QED BY <1>2, <1>3 DEF Recovering

\* The steps of a recovery.
LEMMA RecoveryHeld ==
  ASSUME UploadTypeOK, Shape, OneHolder, HeldOK, NEW p \in Procs, NEW r \in Ids,
         Discard(p, r) \/ Unpublish(p, r) \/ Restore(p, r) \/ RowFails(p, r)
  PROVE  HeldOK'
<1>1. row' = row /\ episode' = episode
  BY DEF Discard, Unpublish, Restore, RowFails
<1>2. PICK step : Recovering(p, r, step)
  BY DEF Discard, Unpublish, Restore, RowFails
<1>3. row[r].state # "unused" /\ at[r] \notin Working
  BY <1>2, RecoveringFacts
<1>4. /\ row[r].target \in Targets
      /\ row[r].op = "import" => row[r].source \in Staged /\ row[r].source \in Targets
      /\ Staged \cap Episodes = {}
  BY <1>3, RowTargets, UploadAssumption DEF UploadAssumption
<1>5. CASE Discard(p, r)
  <2>1. /\ final' = final /\ strayed' = strayed /\ at' = at /\ backup' = backup
        /\ Recovering(p, r, "discard") /\ NextStep(p, r, "mark")
    BY <1>5 DEF Discard
  <2>2. Early(r) /\ Active(r)
    BY <2>1, RecoveringFacts DEF Early, Active, ActiveUpload
  <2>3. HeldInv(r)'
    BY <1>1, <1>3, <2>1, <2>2 DEF HeldOK, HeldInv, Intact, Aside, Early, Active, Working
  <2> QED BY <1>1, <2>1, <2>2, <2>3, NextStepEffect, RowHeldFrame DEF Active
<1>6. CASE Unpublish(p, r)
  <2> DEFINE t == row[r].target
             back == final[t] # NoFile /\ SourceOf(r) = NoFile
  <2>1. /\ at' = at /\ backup' = backup /\ strayed \subseteq strayed'
        /\ Recovering(p, r, "unpublish") /\ NextStep(p, r, "restore")
        /\ ~back => final' = final
        /\ back => final'[t] = NoFile /\ (final[t] = row[r].audio \/ t \in strayed')
    BY <1>4, <1>6 DEF Unpublish, UploadTypeOK
  <2>2. /\ row[r].was = "publishing" /\ row[r].state = "publishing"
    BY <2>1, RecoveringFacts
  <2>3. ~Early(r) /\ Active(r) /\ row[r].temp
    BY <2>2 DEF Early, Active, ActiveUpload, Shape, RowInv
  <2>4. \A e \in Episodes : e # t => final'[e] = final[e]
    BY <1>4, <1>6 DEF Unpublish, Targets, UploadTypeOK
  <2>5. \A x \in Procs : rec'[x].on = r /\ rec'[x].step = "mark" =>
                         rec[x].on = r /\ rec[x].step = "mark"
    BY <2>1, NextStepEffect
  <2>6. HeldInv(r)'
    <3> SUFFICES ASSUME t \in Episodes, episode[t] # NoFile
                 PROVE  /\ row[r].op = "import"
                        /\ t \notin strayed' =>
                             /\ row[r].temp => episode[t] # row[r].audio
                             /\ Intact(r)' \/ Aside(r)'
                             /\ \A x \in Procs : rec'[x].on = r /\ rec'[x].step = "mark" => Intact(r)'
      BY <1>1, <1>3, <2>1, <2>3 DEF HeldInv, Early, Working, Inside
    <3>1. HeldInv(r)
      BY DEF HeldOK
    <3>2. row[r].op = "import"
      BY <2>3, <3>1 DEF HeldInv
    <3>3. ASSUME t \notin strayed'
          PROVE  /\ row[r].temp => episode[t] # row[r].audio
                 /\ Intact(r)' \/ Aside(r)'
                 /\ \A x \in Procs : rec'[x].on = r /\ rec'[x].step = "mark" => Intact(r)'
      <4>1. t \notin strayed
        BY <2>1, <3>3
      <4>2. /\ row[r].temp => episode[t] # row[r].audio
            /\ Intact(r) \/ Aside(r)
            /\ \A x \in Procs : rec[x].on = r /\ rec[x].step = "mark" => Intact(r)
        BY <2>3, <3>1, <4>1 DEF HeldInv
      <4>3. back => Aside(r) /\ ~Intact(r)
        BY <2>1, <2>3, <3>3, <4>2 DEF Intact
      <4>4. (~back /\ Intact(r) => Intact(r)') /\ (Aside(r) => Aside(r)')
        BY <1>1, <2>1 DEF Intact, Aside
      <4> QED BY <2>5, <4>2, <4>3, <4>4
    <3> QED BY <3>2, <3>3
  <2> QED BY <1>1, <2>1, <2>3, <2>4, <2>6, NextStepEffect, RowHeldFrame DEF Active
<1>7. CASE Restore(p, r)
  <2> DEFINE t == row[r].target
  <2>1. /\ at' = at /\ strayed \subseteq strayed' /\ backup'[r] = NoFile
        /\ \A q \in Ids \ {r} : backup'[q] = backup[q]
        /\ Recovering(p, r, "restore") /\ NextStep(p, r, "mark")
        /\ final'[t] = IF backup[r] = NoFile THEN final[t] ELSE backup[r]
    BY <1>4, <1>7 DEF Restore, UploadTypeOK
  <2>2. Active(r)
    BY <2>1, RecoveringFacts DEF Active, ActiveUpload
  <2>3. \A e \in Episodes : e # t => final'[e] = final[e]
    BY <1>4, <1>7 DEF Restore, Targets, UploadTypeOK
  <2>4. HeldInv(r)'
    <3> SUFFICES ASSUME t \in Episodes, episode[t] # NoFile
                 PROVE  /\ row[r].op = "import"
                        /\ t \notin strayed => (row[r].temp => episode[t] # row[r].audio) /\ Intact(r)'
      BY <1>1, <1>3, <2>1 DEF HeldInv, Working, Inside
    <3>1. row[r].op = "import"
      BY <2>2 DEF HeldOK, HeldInv
    <3>2. ASSUME t \notin strayed PROVE (row[r].temp => episode[t] # row[r].audio) /\ Intact(r)'
      <4>1. (row[r].temp => episode[t] # row[r].audio) /\ (Intact(r) \/ Aside(r))
        BY <2>2, <3>2, HolderFacts
      <4>2. Intact(r)'
        BY <1>1, <2>1, <4>1 DEF Intact, Aside
      <4> QED BY <4>1, <4>2
    <3> QED BY <3>1, <3>2
  <2> QED BY <1>1, <2>1, <2>2, <2>3, <2>4, NextStepEffect, RowHeldFrame DEF Active
<1>8. CASE RowFails(p, r)
  <2>1. final' = final /\ strayed' = strayed /\ backup' = backup /\ EndRow(p, r)
    BY <1>8 DEF RowFails, files
  <2>2. /\ at'[r] = (IF at[r] = "failing" THEN "done" ELSE at[r])
        /\ \A q \in Ids \ {r} : at'[q] = at[q]
    BY <2>1, EndRowEffect
  <2>3. \A x \in Procs : rec'[x].on = r => rec'[x] = rec[x]
    BY <2>1, EndRowEffect, UploadAssumption DEF UploadAssumption
  <2>4. Steady(r)
    BY <1>1, <2>1, <2>2, <2>3 DEF Steady, Active, Early, Inside
  <2>5. HeldInv(r)'
    BY <2>1, <2>4, SteadyHeld DEF HeldOK
  <2> QED BY <1>1, <2>1, <2>2, <2>5, EndRowEffect, RowHeldFrame DEF Active
<1> QED BY <1>5, <1>6, <1>7, <1>8

\* The target is free again, with the audio it had.
LEMMA RowRecoveredHeld ==
  ASSUME UploadTypeOK, Shape, OneHolder, HeldOK, NEW p \in Procs, NEW r \in Ids,
         MarkFailed(p, r) \/ CleanTemp(p, r)
  PROVE  HeldOK'
<1>1. /\ final' = final /\ episode' = episode /\ strayed' = strayed /\ backup' = backup
  BY DEF MarkFailed, CleanTemp, files
<1>2. row[r] \in Reservations
  BY DEF UploadTypeOK
<1>3. /\ row'[r].state = "failed" /\ row'[r].target = row[r].target
      /\ \A q \in Ids \ {r} : row'[q] = row[q]
  <2>1. CASE MarkFailed(p, r)
    BY <1>2, <2>1 DEF MarkFailed, UploadTypeOK, Reservations
  <2>2. CASE CleanTemp(p, r)
    <3>1. row[r].state = "failed"
      BY <2>2, RecoveringFacts DEF CleanTemp
    <3> QED BY <1>2, <2>2, <3>1 DEF CleanTemp, UploadTypeOK, Reservations
  <2> QED BY <2>1, <2>2
<1>4. EndRow(p, r) \/ (at' = at /\ NextStep(p, r, "clean"))
  BY DEF MarkFailed, CleanTemp
<1>5. /\ \A x \in Procs : rec'[x] = rec[x] \/ rec'[x].on \in {NoId, r}
      /\ \A q \in Ids \ {r} : at'[q] = at[q]
  BY <1>4, EndRowEffect, NextStepEffect
<1>6. HeldInv(r)'
  BY <1>3 DEF HeldInv, Active, ActiveUpload
<1>7. Active(r) /\ row[r].target \in Episodes =>
        \/ row[r].target \in strayed' \/ episode'[row[r].target] = NoFile
        \/ final'[row[r].target] = episode'[row[r].target]
  <2>1. CASE MarkFailed(p, r)
    BY <1>1, <2>1, MarkFacts DEF MarkFailed, Intact
  <2>2. CASE CleanTemp(p, r)
    BY <2>2, RecoveringFacts DEF CleanTemp, Active, ActiveUpload
  <2> QED BY <2>1, <2>2
<1> QED BY <1>1, <1>3, <1>5, <1>6, <1>7, RowHeldFrame

\* A claim changes nothing of it.
LEMMA ReapHeld ==
  ASSUME UploadTypeOK, Shape, HeldOK, NEW p \in Procs, Reap(p), at' = at, files' = files,
         episode' = episode, strayed' = strayed
  PROVE  HeldOK'
<1>1. Claimable(p) \in SUBSET Ids /\ row' = ClaimedBy(p, Claimable(p)) /\ final' = final /\ backup' = backup
      /\ \A r \in Claimable(p) : Active(r)
  BY DEF Reap, Claimable, files
<1>2. \A x \in Procs : rec'[x] = rec[x] \/ rec'[x].on = NoId
  BY ReapEffect DEF NoRecovery
<1>3. ASSUME NEW q \in Ids
      PROVE  Steady(q) /\ (Active(q) => Active(q)') /\ row'[q].target = row[q].target
  <2>1. \A x \in Procs : rec'[x].on = q => rec'[x] = rec[x]
    BY <1>2, UploadAssumption DEF UploadAssumption
  <2>2. CASE q \in Claimable(p)
    <3>1. /\ row'[q].state = "publishing" /\ Active(q)
          /\ row'[q].was = IF row[q].was # "none" THEN row[q].was ELSE row[q].state
          /\ row'[q].op = row[q].op /\ row'[q].target = row[q].target
          /\ row'[q].temp = row[q].temp /\ row'[q].audio = row[q].audio
      BY <1>1, <2>2, ClaimEffect
    <3>2. Early(q)' => Early(q)
      BY <3>1 DEF Early
    <3> QED BY <1>1, <2>1, <3>1, <3>2 DEF Steady, Active, ActiveUpload
  <2>3. CASE q \notin Claimable(p)
    <3>1. row'[q] = row[q]
      BY <1>1, <2>3, ClaimEffect
    <3> QED BY <1>1, <2>1, <3>1 DEF Steady, Active, Early
  <2> QED BY <2>2, <2>3
<1>4. \A q \in Ids : HeldInv(q)'
  BY <1>3, SteadyHeld DEF HeldOK
<1>5. \A e \in Episodes : Held(e) => Held(e)'
  BY <1>3 DEF Held
<1>6. RowHasAudio'
  BY <1>1, <1>5, AudioFrame DEF HeldOK
<1> QED BY <1>4, <1>6 DEF HeldOK

\* Steps that leave the rows and the audio of the episodes alone.
LEMMA IdleHeld ==
  ASSUME UploadTypeOK, Shape, HeldOK, row' = row, backup' = backup, episode' = episode, strayed' = strayed,
         \A e \in Episodes : final'[e] = final[e],
         \A p \in Procs : rec'[p] = rec[p] \/ rec'[p] = NoRecovery,
         \A r \in Ids : at'[r] = at[r] \/ at'[r] \in {"none", "done", "fail"}
  PROVE  HeldOK'
<1>1. ASSUME NEW q \in Ids PROVE Steady(q)
  <2>1. \A p \in Procs : rec'[p].on = q => rec'[p] = rec[p]
    BY UploadAssumption DEF UploadAssumption, NoRecovery
  <2> QED BY <2>1 DEF Steady, Active, Early, Inside
<1>2. \A q \in Ids : HeldInv(q)'
  BY <1>1, SteadyHeld DEF HeldOK
<1>3. \A e \in Episodes : Held(e) => Held(e)'
  BY DEF Held, Active
<1>4. RowHasAudio'
  BY <1>3, AudioFrame DEF HeldOK
<1> QED BY <1>2, <1>4 DEF HeldOK

\* An upload reserves an episode that has no row.
LEMMA ReserveUploadHeld ==
  ASSUME UploadTypeOK, Shape, HeldOK, NEW p \in Procs, NEW r \in Ids, NEW o \in {"individual", "staging"},
         NEW t \in Targets, ReserveUpload(p, r, o, t), t \in Episodes => episode[t] = NoFile
  PROVE  HeldOK'
<1>1. /\ final' = final /\ backup' = backup /\ episode' = episode /\ strayed' = strayed
      /\ rec' = rec
      /\ row'[r] = NewRow(p, o, t, NoFile, r) /\ r \in Unused
      /\ \A q \in Ids \ {r} : row'[q] = row[q] /\ at'[q] = at[q]
  BY DEF ReserveUpload, files, UploadTypeOK
<1>2. row'[r].target = t /\ ~Active(r)
  BY <1>1 DEF NewRow, NoRow, Unused, Active, ActiveUpload
<1>3. HeldInv(r)'
  BY <1>1, <1>2 DEF HeldInv
<1>4. ASSUME NEW q \in Ids \ {r} PROVE HeldInv(q)'
  <2>1. Steady(q)
    BY <1>1 DEF Steady, Active, Early
  <2> QED BY <1>1, <2>1, SteadyHeld DEF HeldOK
<1>5. \A e \in Episodes : Held(e) => Held(e)'
  BY <1>1, <1>2 DEF Held, Active
<1>6. RowHasAudio'
  BY <1>1, <1>5, AudioFrame DEF HeldOK
<1> QED BY <1>3, <1>4, <1>6 DEF HeldOK

\* An import reserves episodes whose audio is what their rows say.
LEMMA ReserveEntriesHeld ==
  ASSUME UploadTypeOK, Shape, HeldOK, NEW p \in Procs, ReserveEntries(p)
  PROVE  HeldOK'
<1> DEFINE new == req[p].plan.entries
<1>1. /\ new \subseteq Staged /\ (\A s \in new : ~Conflict(req[p].plan, s)) /\ rec' = rec
      /\ files' = files
  BY ReserveEntriesEffect
<1>2. PICK id \in [new -> Unused] :
         /\ \A s \in new : /\ row'[id[s]] = NewRow(p, "import", EntryOf[s], s, req[p].plan.seen[s])
                           /\ at'[id[s]] = "reserved"
         /\ \A r \in Ids : (\A s \in new : id[s] # r) => row'[r] = row[r] /\ at'[r] = at[r]
  BY ReserveEntriesEffect
<1>3. final' = final /\ backup' = backup /\ episode' = episode /\ strayed' = strayed
  BY DEF ReserveEntries, files
<1> HIDE DEF new
<1>4. ASSUME NEW s \in new PROVE HeldInv(id[s])' /\ ~Active(id[s])
  <2> DEFINE r == id[s]
  <2>1. row'[r] = NewRow(p, "import", EntryOf[s], s, req[p].plan.seen[s]) /\ at'[r] = "reserved"
    BY <1>2
  <2>2. r \in Ids /\ row[r].state = "unused" /\ EntryOf[s] \in Episodes
    BY <1>1, <1>2, UploadAssumption DEF Unused, UploadAssumption
  <2>3. backup[r] = NoFile /\ \A x \in Procs : ~InRecovery(x, r)
    BY <2>2 DEF Shape, RowInv, RecoveryInv
  <2> HIDE DEF r
  <2>4. row'[r].op = "import" /\ row'[r].temp = FALSE /\ row'[r].target = EntryOf[s]
    BY <2>1 DEF NewRow, NoRow
  <2>5. ~Held(EntryOf[s])
    BY <1>1 DEF Conflict
  <2>6. episode[EntryOf[s]] # NoFile /\ EntryOf[s] \notin strayed => final[EntryOf[s]] = episode[EntryOf[s]]
    BY <2>2, <2>5 DEF HeldOK, RowHasAudio
  <2>7. HeldInv(r)'
    <3>1. episode[EntryOf[s]] # NoFile /\ EntryOf[s] \notin strayed => Intact(r)'
      BY <1>3, <2>3, <2>4, <2>6 DEF Intact
    <3>2. at'[r] \notin Inside
      BY <2>1 DEF Inside
    <3> QED BY <1>3, <2>4, <3>1, <3>2 DEF HeldInv
  <2> QED BY <2>2, <2>7 DEF r, Active, ActiveUpload
<1>5. ASSUME NEW q \in Ids, \A s \in new : id[s] # q PROVE HeldInv(q)'
  <2>1. row'[q] = row[q] /\ at'[q] = at[q]
    BY <1>2, <1>5
  <2>2. Steady(q)
    BY <1>1, <1>3, <2>1 DEF Steady, Active, Early
  <2> QED BY <1>3, <2>2, SteadyHeld DEF HeldOK
<1>6. \A q \in Ids : HeldInv(q)'
  BY <1>4, <1>5
<1>7. \A q \in Ids : Active(q) => row'[q] = row[q]
  BY <1>2, <1>4
<1>8. \A e \in Episodes : Held(e) => Held(e)'
  BY <1>7 DEF Held, Active
<1>9. RowHasAudio'
  BY <1>3, <1>8, AudioFrame DEF HeldOK
<1> QED BY <1>6, <1>9 DEF HeldOK

\* The leftovers are of rows that hold nothing.
LEMMA EndReapHeld ==
  ASSUME UploadTypeOK, Shape, HeldOK, NEW p \in Procs, EndReap(p)
  PROVE  HeldOK'
<1>1. /\ final' = final /\ episode' = episode /\ strayed' = strayed /\ at' = at
      /\ \A x \in Procs : rec'[x] = rec[x] \/ rec'[x].on = NoId
  BY DEF EndReap, UploadTypeOK, NoRecovery
<1>2. ASSUME NEW q \in Ids
      PROVE  /\ row'[q].state = row[q].state /\ row'[q].op = row[q].op /\ row'[q].was = row[q].was
             /\ row'[q].target = row[q].target /\ row'[q].audio = row[q].audio
             /\ row'[q].temp => row[q].temp
             /\ Active(q) => backup'[q] = backup[q]
  <2>1. row'[q] = [row[q] EXCEPT !.backup = @ /\ q \notin KeptBackups,
                                 !.temp = @ /\ q \notin FailedTemps]
        /\ backup'[q] = IF q \in KeptBackups THEN NoFile ELSE backup[q]
    BY DEF EndReap
  <2>2. row[q] \in Reservations
    BY DEF UploadTypeOK
  <2>3. Active(q) => q \notin KeptBackups
    BY DEF KeptBackups, Active, ActiveUpload
  <2> QED BY <2>1, <2>2, <2>3 DEF Reservations
<1>3. ASSUME NEW q \in Ids PROVE HeldInv(q)'
  <2>1. CASE ~Active(q)
    BY <1>2, <2>1 DEF HeldInv, Active
  <2>2. CASE Active(q)
    <3>1. \A x \in Procs : rec'[x].on = q => rec'[x] = rec[x]
      BY <1>1, UploadAssumption DEF UploadAssumption
    <3>2. Steady(q)
      BY <1>1, <1>2, <2>2, <3>1 DEF Steady, Active, Early
    <3> QED BY <1>1, <3>2, SteadyHeld DEF HeldOK
  <2> QED BY <2>1, <2>2
<1>4. \A e \in Episodes : Held(e) => Held(e)'
  BY <1>2 DEF Held, Active
<1>5. RowHasAudio'
  BY <1>1, <1>4, AudioFrame DEF HeldOK
<1> QED BY <1>3, <1>5 DEF HeldOK

\* Every step keeps the audio of the episodes with their rows.
LEMMA HeldStep ==
  ASSUME UploadTypeOK, Shape, OneHolder, Apart, HeldOK, UploadNext
  PROVE  HeldOK'
<1>1. ASSUME NEW r \in Ids, HandlerStep(r) \/ HandlerFails(r) PROVE HeldOK'
  BY <1>1, HandlerHeldEarly, HandlerHeldInside, HandlerHeldEnd DEF HandlerStep
<1>2. ASSUME NEW p \in Procs, NEW r \in Ids,
             Discard(p, r) \/ Unpublish(p, r) \/ Restore(p, r) \/ MarkFailed(p, r) \/ CleanTemp(p, r)
               \/ RowFails(p, r)
      PROVE  HeldOK'
  BY <1>2, RecoveryHeld, RowRecoveredHeld
<1>3. ASSUME NEW p \in Procs, AskUpload(p) \/ StartCommit(p) PROVE HeldOK'
  BY <1>3, ReapHeld DEF AskUpload, StartCommit
<1>4. ASSUME NEW p \in Procs, NEW r \in Ids,
             \/ \E e \in Episodes : ReserveEpisode(p, r, e)
             \/ \E s \in Staged : ReserveStaged(p, r, s)
      PROVE  HeldOK'
  BY <1>4, ReserveUploadHeld, UploadAssumption DEF ReserveEpisode, ReserveStaged, Targets, UploadAssumption
<1>5. ASSUME NEW p \in Procs,
             \/ \E overwrite \in BOOLEAN : AskCommit(p, overwrite)
             \/ CommitRefused(p) \/ UploadRefused(p) \/ EntriesRefused(p) \/ EndImport(p)
             \/ EndFail(p) \/ RecoveryRaises(p) \/ Die(p)
      PROVE  HeldOK'
  <2>1. row' = row /\ backup' = backup /\ final' = final /\ episode' = episode /\ strayed' = strayed
    BY <1>5 DEF AskCommit, CommitRefused, UploadRefused, EntriesRefused, EndImport, EndFail,
                RecoveryRaises, Die, files
  <2>2. \A x \in Procs : rec'[x] = rec[x] \/ rec'[x] = NoRecovery
    BY <1>5 DEF AskCommit, CommitRefused, UploadRefused, EntriesRefused, EndImport, EndFail,
                RecoveryRaises, Die, UploadTypeOK
  <2>3. \A r \in Ids : at'[r] = at[r] \/ at'[r] \in {"none", "done", "fail"}
    BY <1>5 DEF AskCommit, CommitRefused, UploadRefused, EntriesRefused, EndImport, EndFail,
                RecoveryRaises, Die
  <2> QED BY <2>1, <2>2, <2>3, IdleHeld
<1>6. ASSUME ClearStaging \/ \E p \in Procs : \E sweeps \in BOOLEAN : SweepStaging(p, sweeps)
      PROVE  HeldOK'
  <2>1. row' = row /\ backup' = backup /\ episode' = episode /\ strayed' = strayed /\ rec' = rec
    BY <1>6 DEF ClearStaging, SweepStaging
  <2>2. \A e \in Episodes : final'[e] = final[e]
    BY <1>6, UploadAssumption DEF ClearStaging, SweepStaging, Targets, UploadAssumption
  <2>3. \A r \in Ids : at'[r] = at[r] \/ at'[r] \in {"none", "done", "fail"}
    BY <1>6 DEF ClearStaging, SweepStaging
  <2> QED BY <2>1, <2>2, <2>3, IdleHeld
<1> QED BY <1>1, <1>2, <1>3, <1>4, <1>5, <1>6, ReserveEntriesHeld, EndReapHeld
        DEF UploadNext, RequestStep, RecoveryStep, Failure

-----------------------------------------------------------------------------
(* Where there is no row, there is no audio *)

\* Episodes that are free, and episodes that are held.
FreshOK == NoRowNoAudio /\ \A r \in Ids : FreshInv(r)

\* A recovery knows that the file of q is not in place.
KnownGone(p, q) == rec[p].on = q /\ rec[p].step \in {"restore", "mark"}

\* Nothing that FreshInv speaks of comes about for q.
Undisturbed(q) ==
  /\ Active(q)' => Active(q)
  /\ row'[q].target = row[q].target /\ row'[q].op = row[q].op
  /\ Early(q)' => Early(q)
  /\ at'[q] \in Vacant => at[q] \in Vacant
  /\ part'[q] \in {part[q], NoFile} /\ backup'[q] = backup[q]
  /\ Active(q) /\ row[q].target \in Episodes =>
       /\ final'[row[q].target] = final[row[q].target]
       /\ episode'[row[q].target] = episode[row[q].target]
  /\ \A p \in Procs : KnownGone(p, q)' => KnownGone(p, q)

LEMMA UndisturbedFresh ==
  ASSUME NEW q \in Ids, FreshInv(q), Undisturbed(q), Excused \subseteq Excused'
  PROVE  FreshInv(q)'
BY DEF FreshInv, Undisturbed, KnownGone

\* It holds of a row with no file in place and nothing set aside.
LEMMA VacatedFresh ==
  ASSUME NEW r \in Ids,
         Active(r)' /\ row'[r].target \in Episodes \ Excused' /\ episode'[row'[r].target] = NoFile =>
           final'[row'[r].target] = NoFile /\ backup'[r] = NoFile
  PROVE  FreshInv(r)'
BY DEF FreshInv

\* A free episode is left alone, or it has a row, or no audio.
LEMMA NoAudioFrame ==
  ASSUME NoRowNoAudio, Excused \subseteq Excused',
         \A e \in Episodes : \/ Held(e)'
                             \/ ~Held(e) /\ final'[e] = final[e] /\ episode'[e] = episode[e]
                             \/ e \in Excused' \/ episode'[e] # NoFile
                             \/ final'[e] = NoFile
  PROVE  NoRowNoAudio'
BY DEF NoRowNoAudio

\* A step of the handler of r, or of its recovery, need only be right for r.
LEMMA RowFreshFrame ==
  ASSUME UploadTypeOK, OneHolder, FreshOK, NEW r \in Ids, FreshInv(r)',
         \A q \in Ids \ {r} : Same(q),
         row'[r].target = row[r].target, Excused \subseteq Excused',
         Active(r) /\ row[r].target \in Episodes =>
           \/ Active(r)' \/ row[r].target \in Excused' \/ episode'[row[r].target] # NoFile
           \/ final'[row[r].target] = NoFile,
         \A p \in Procs : rec'[p] = rec[p] \/ rec'[p].on \in {NoId, r},
         \A e \in Episodes : (Active(r) => e # row[r].target) => final'[e] = final[e] /\ episode'[e] = episode[e]
  PROVE  FreshOK'
<1>1. ASSUME NEW q \in Ids \ {r} PROVE FreshInv(q)'
  <2>1. \A p \in Procs : rec'[p].on = q => rec'[p] = rec[p]
    BY UploadAssumption DEF UploadAssumption
  <2>2. Active(q) /\ row[q].target \in Episodes =>
          final'[row[q].target] = final[row[q].target]
          /\ episode'[row[q].target] = episode[row[q].target]
    BY DEF OneHolder
  <2>3. Undisturbed(q)
    BY <2>1, <2>2 DEF Undisturbed, Active, Early, Same, KnownGone
  <2> QED BY <2>3, UndisturbedFresh DEF FreshOK
<1>2. \A e \in Episodes : Held(e) => Held(e)' \/ (Active(r) /\ e = row[r].target)
  BY DEF Held, Active, Same
<1>3. \A e \in Episodes : ~Held(e) => final'[e] = final[e] /\ episode'[e] = episode[e]
  BY DEF Held
<1>4. Active(r) /\ Active(r)' => Held(row[r].target)'
  BY DEF Held
<1>5. NoRowNoAudio'
  BY <1>2, <1>3, <1>4, NoAudioFrame DEF FreshOK
<1> QED BY <1>1, <1>5 DEF FreshOK

\* The target of an active row without an episode, before its file is moved in.
LEMMA VacantFacts ==
  ASSUME Shape, FreshOK, NEW r \in Ids, Active(r), row[r].target \in Episodes \ Excused,
         episode[row[r].target] = NoFile
  PROVE  /\ backup[r] = NoFile
         /\ row[r].op # "import" => part[r] = NoFile \/ final[row[r].target] = NoFile
         /\ Early(r) \/ at[r] \in Vacant \cup {"reserved", "prepared"} => final[row[r].target] = NoFile
<1>1. at[r] \in {"reserved", "prepared"} => Early(r)
  BY DEF Shape, HandlerInv, Early
<1> QED BY <1>1 DEF FreshOK, FreshInv

\* The steps of a handler before its transaction, and after it.
LEMMA HandlerFreshOutside ==
  ASSUME UploadTypeOK, Shape, OneHolder, FreshOK, NEW r \in Ids,
         Prepare(r) \/ PrepareEntry(r) \/ BeginPublication(r) \/ Commit(r) \/ DropBackup(r)
  PROVE  FreshOK'
<1>1. /\ final' = final /\ strayed' = strayed /\ stranded' = stranded /\ rec' = rec
      /\ \A q \in Ids \ {r} : Same(q)
      /\ row'[r].target = row[r].target
  BY PrepareEffect, PrepareEntryEffect, BeginPublicationEffect, CommitEffect, DropBackupEffect
     DEF Prepare, PrepareEntry, BeginPublication, Commit, DropBackup, files
<1>2. CASE Prepare(r) \/ PrepareEntry(r) \/ BeginPublication(r)
  <2>1. at[r] \in {"reserved", "prepared"} /\ Active(r)
    BY <1>2 DEF Prepare, PrepareEntry, BeginPublication, Handler, Shape, HandlerInv, Working
  <2>2. episode' = episode /\ backup'[r] = backup[r] /\ row'[r].state \in {"prepared", "publishing"}
    BY <1>2, PrepareEffect, PrepareEntryEffect, BeginPublicationEffect
       DEF Prepare, PrepareEntry, BeginPublication
  <2>3. FreshInv(r)'
    BY <1>1, <2>1, <2>2, VacantFacts, VacatedFresh DEF Excused
  <2> QED BY <1>1, <2>2, <2>3, RowFreshFrame DEF Excused, Active, ActiveUpload
<1>3. CASE Commit(r)
  <2>1. row'[r].state = "published" /\ Active(r)
    BY <1>3, CommitEffect DEF Commit, Handler, Shape, HandlerInv, Working
  <2>2. \A e \in Episodes : IF e = row[r].target THEN episode'[e] = final'[e] ELSE episode'[e] = episode[e]
    BY <1>1, <1>3 DEF Commit, UploadTypeOK
  <2>3. FreshInv(r)'
    BY <2>1 DEF FreshInv, Active, ActiveUpload
  <2> QED BY <1>1, <2>1, <2>2, <2>3, RowFreshFrame DEF Excused
<1>4. CASE DropBackup(r)
  <2>1. row[r].state = "published" /\ row'[r].state = "published" /\ episode' = episode
    BY <1>4, DropBackupEffect DEF DropBackup, Handler, Shape, HandlerInv
  <2>2. FreshInv(r)' /\ ~Active(r)
    BY <2>1 DEF FreshInv, Active, ActiveUpload
  <2> QED BY <1>1, <2>1, <2>2, RowFreshFrame DEF Excused
<1> QED BY <1>2, <1>3, <1>4

\* The steps of a handler that change no row.
LEMMA HandlerFreshInside ==
  ASSUME UploadTypeOK, Shape, OneHolder, FreshOK, NEW r \in Ids,
         BackUp(r) \/ MoveIn(r) \/ Bump(r) \/ HandlerFails(r) \/ UndoMove(r) \/ UndoBackup(r) \/ Unlink(r)
  PROVE  FreshOK'
<1>1. /\ episode' = episode /\ strayed' = strayed /\ stranded' = stranded /\ rec' = rec /\ row' = row
      /\ \A q \in Ids \ {r} : Same(q)
  BY BackUpEffect, MoveInEffect, BumpEffect, HandlerFailsEffect, UndoMoveEffect, UndoBackupEffect,
     UnlinkEffect
     DEF BackUp, MoveIn, Bump, HandlerFails, UndoMove, UndoBackup, Unlink, files
<1>2. at[r] \in Working /\ Active(r)
  BY DEF BackUp, MoveIn, Bump, HandlerFails, UndoMove, UndoBackup, Unlink, Handler, Shape, HandlerInv,
         Working, Inside
<1>3. /\ row[r].target \in Targets
      /\ row[r].op = "import" => row[r].source \in Staged /\ row[r].source \in Targets
      /\ Staged \cap Episodes = {}
  BY <1>2, HandlerRow, RowTargets, UploadAssumption DEF UploadAssumption, Working
<1>4. \A e \in Episodes : e # row[r].target => final'[e] = final[e]
  <2> SUFFICES ASSUME NEW e \in Episodes, e # row[r].target PROVE final'[e] = final[e]
    OBVIOUS
  <2>1. e \in Targets /\ (row[r].op = "import" => e # row[r].source)
    BY <1>3 DEF Targets
  <2>2. CASE BackUp(r)
    BY <2>1, <2>2 DEF BackUp, UploadTypeOK
  <2>3. CASE MoveIn(r)
    BY <2>1, <2>3 DEF MoveIn, UploadTypeOK
  <2>4. CASE UndoMove(r)
    BY <2>1, <2>4 DEF UndoMove, UploadTypeOK
  <2>5. CASE UndoBackup(r)
    BY <2>1, <2>5 DEF UndoBackup, UploadTypeOK
  <2>6. CASE Bump(r) \/ HandlerFails(r) \/ Unlink(r)
    BY <2>6 DEF Bump, HandlerFails, Unlink, files
  <2> QED BY <2>2, <2>3, <2>4, <2>5, <2>6
<1>5. FreshInv(r)'
  <2> SUFFICES ASSUME row[r].target \in Episodes \ Excused, episode[row[r].target] = NoFile
               PROVE  FreshInv(r)'
    BY <1>1 DEF FreshInv, Excused
  <2> DEFINE t == row[r].target
  <2>1. /\ backup[r] = NoFile
        /\ row[r].op # "import" => part[r] = NoFile \/ final[t] = NoFile
        /\ at[r] \in Vacant \cup {"reserved", "prepared"} => final[t] = NoFile
    BY <1>2, VacantFacts
  <2>2. CASE BackUp(r)
    <3>1. at[r] = "begun" /\ backup'[r] = final[t] /\ final'[t] = NoFile
      BY <1>3, <2>2, BackUpEffect DEF BackUp, Handler, UploadTypeOK
    <3> QED BY <1>1, <2>1, <3>1, VacatedFresh DEF Vacant
  <2>3. CASE MoveIn(r) \/ (HandlerFails(r) /\ at[r] \in {"moved", "bumped"})
    <3>1. /\ backup'[r] = NoFile
          /\ at'[r] \in {"moved", "undoMove"} /\ at[r] \in Inside
          /\ row[r].op # "import" => part'[r] = NoFile \/ final'[t] = NoFile
      <4>1. CASE MoveIn(r)
        BY <2>1, <4>1, MoveInEffect DEF MoveIn, Handler, Inside
      <4>2. CASE HandlerFails(r) /\ at[r] \in {"moved", "bumped"}
        BY <2>1, <4>2, HandlerFailsEffect DEF HandlerFails, files, Inside
      <4> QED BY <2>3, <4>1, <4>2
    <3>2. ~Early(r)'
      BY <1>1, <1>2, <3>1 DEF Shape, HandlerInv, Early
    <3>3. \A p \in Procs : rec'[p].on # r
      BY <1>1, <1>2 DEF Shape, RecoveryInv, InRecovery
    <3> QED BY <1>1, <3>1, <3>2, <3>3 DEF FreshInv, Vacant
  <2>4. ~Bump(r)
    BY <1>2, <1>3 DEF Bump, Shape, RowInv, Active, ActiveUpload
  <2>5. CASE HandlerFails(r) /\ at[r] \notin {"moved", "bumped"}
    <3>1. at[r] \in {"reserved", "prepared", "begun", "backedUp"} /\ final' = final /\ backup' = backup
      BY <2>5, HandlerFailsEffect DEF HandlerFails, files
    <3> QED BY <1>1, <2>1, <3>1, VacatedFresh DEF Vacant
  <2>6. CASE UndoMove(r)
    <3>1. final'[t] = NoFile /\ backup'[r] = backup[r]
      BY <1>3, <2>6, UndoMoveEffect DEF UndoMove, UploadTypeOK
    <3> QED BY <1>1, <2>1, <3>1, VacatedFresh
  <2>7. CASE UndoBackup(r)
    <3>1. at[r] = "undoBackup" /\ final' = final /\ backup'[r] = NoFile
      BY <2>1, <2>7, UndoBackupEffect DEF UndoBackup, Handler
    <3> QED BY <1>1, <2>1, <3>1, VacatedFresh DEF Vacant
  <2>8. CASE Unlink(r)
    <3>1. at[r] = "unlink" /\ final' = final /\ backup' = backup
      BY <2>8 DEF Unlink, Handler
    <3> QED BY <1>1, <2>1, <3>1, VacatedFresh DEF Vacant
  <2> QED BY <2>2, <2>3, <2>4, <2>5, <2>6, <2>7, <2>8
<1> QED BY <1>1, <1>2, <1>4, <1>5, RowFreshFrame DEF Active, Excused

\* The handler gives up: its row is claimed.
LEMMA FailFresh ==
  ASSUME UploadTypeOK, Shape, OneHolder, FreshOK, NEW r \in Ids, Fail(r)
  PROVE  FreshOK'
<1>1. /\ final' = final /\ episode' = episode /\ strayed' = strayed /\ stranded' = stranded
      /\ backup' = backup /\ part' = part
      /\ at[r] = "fail" /\ row[r].owner \in Procs
      /\ at'[r] \in {"failing", "done"} /\ \A q \in Ids \ {r} : at'[q] = at[q]
  BY DEF Fail, Handler, Goto, files, UploadTypeOK
<1>2. \A p \in Procs : rec'[p] = rec[p] \/ rec'[p].on = NoId
  <2>1. rec' = rec \/ rec' = [rec EXCEPT ![row[r].owner] = [NoRecovery EXCEPT !.why = "fail", !.todo = {r}]]
    BY DEF Fail
  <2>2. [NoRecovery EXCEPT !.why = "fail", !.todo = {r}].on = NoId
    BY DEF NoRecovery
  <2>3. rec \in [Procs -> Recoveries]
    BY DEF UploadTypeOK
  <2> QED BY <2>1, <2>2, <2>3
<1>3. CASE ~Active(r)
  <2>1. row' = row
    BY <1>3 DEF Fail
  <2>2. FreshInv(r)'
    BY <1>3, <2>1 DEF FreshInv, Active
  <2> QED BY <1>1, <1>2, <1>3, <2>1, <2>2, RowFreshFrame DEF Same, Excused
<1>4. CASE Active(r)
  <2>1. row' = ClaimedBy(row[r].owner, {r})
    BY <1>4 DEF Fail
  <2>2. /\ row'[r].state = "publishing"
        /\ row'[r].was = (IF row[r].was # "none" THEN row[r].was ELSE row[r].state)
        /\ row'[r].op = row[r].op /\ row'[r].target = row[r].target
        /\ \A q \in Ids \ {r} : row'[q] = row[q]
    <3>1. {r} \in SUBSET Ids
      OBVIOUS
    <3> QED BY <1>1, <2>1, <3>1, ClaimEffect
  <2>3. Early(r)' => Early(r)
    BY <2>2 DEF Early
  <2>4. \A p \in Procs : rec'[p].on = r => rec'[p] = rec[p]
    BY <1>2, UploadAssumption DEF UploadAssumption
  <2>5. Undisturbed(r)
    BY <1>1, <1>4, <2>2, <2>3, <2>4 DEF Undisturbed, Active, ActiveUpload, Vacant, KnownGone
  <2>6. FreshInv(r)' /\ Active(r)'
    BY <1>1, <2>2, <2>5, UndisturbedFresh DEF FreshOK, Active, ActiveUpload, Excused
  <2> QED BY <1>1, <1>2, <2>2, <2>6, RowFreshFrame DEF Same, Excused
<1> QED BY <1>3, <1>4

\* The steps of a recovery.
LEMMA RecoveryFresh ==
  ASSUME UploadTypeOK, Shape, OneHolder, FreshOK, NEW p \in Procs, NEW r \in Ids,
         Discard(p, r) \/ Unpublish(p, r) \/ Restore(p, r) \/ RowFails(p, r)
  PROVE  FreshOK'
<1>1. row' = row /\ episode' = episode
  BY DEF Discard, Unpublish, Restore, RowFails
<1>2. PICK step : Recovering(p, r, step)
  BY DEF Discard, Unpublish, Restore, RowFails
<1>3. row[r].state # "unused" /\ at[r] \notin Working
  BY <1>2, RecoveringFacts
<1>4. /\ row[r].target \in Targets
      /\ row[r].op = "import" => row[r].source \in Staged /\ row[r].source \in Targets
      /\ Staged \cap Episodes = {}
  BY <1>3, RowTargets, UploadAssumption DEF UploadAssumption
<1> DEFINE t == row[r].target
<1>5. CASE Discard(p, r)
  <2>1. /\ final' = final /\ strayed' = strayed /\ stranded' = stranded /\ at' = at /\ backup' = backup
        /\ \A q \in Ids \ {r} : part'[q] = part[q]
        /\ Recovering(p, r, "discard") /\ NextStep(p, r, "mark")
    BY <1>5 DEF Discard, UploadTypeOK
  <2>2. Early(r) /\ Active(r)
    BY <2>1, RecoveringFacts DEF Early, Active, ActiveUpload
  <2>3. FreshInv(r)'
    BY <1>1, <2>1, <2>2, VacantFacts, VacatedFresh DEF Excused
  <2> QED BY <1>1, <2>1, <2>2, <2>3, NextStepEffect, RowFreshFrame DEF Active, Same, Excused
<1>6. CASE Unpublish(p, r)
  <2> DEFINE back == final[t] # NoFile /\ SourceOf(r) = NoFile
  <2>1. /\ at' = at /\ backup' = backup /\ strayed \subseteq strayed' /\ stranded \subseteq stranded'
        /\ Recovering(p, r, "unpublish") /\ NextStep(p, r, "restore")
        /\ ~back => final' = final
        /\ back => final'[t] = NoFile
        /\ \A q \in Ids \ {r} : part'[q] = part[q]
    BY <1>4, <1>6 DEF Unpublish, UploadTypeOK
  <2>2. Active(r)
    BY <2>1, RecoveringFacts DEF Active, ActiveUpload
  <2>3. \A e \in Episodes : e # t => final'[e] = final[e]
    BY <1>4, <1>6 DEF Unpublish, Targets, UploadTypeOK
  <2>4. ASSUME t \in Episodes \ Excused', episode[t] = NoFile PROVE final'[t] = NoFile
    <3>1. t \notin Excused
      BY <2>1, <2>4 DEF Excused
    <3>2. ~(row[r].op = "import" /\ SourceOf(r) # NoFile /\ final[t] # NoFile)
      BY <1>6, <2>4 DEF Unpublish, Excused
    <3>3. row[r].op # "import" => part[r] = NoFile \/ final[t] = NoFile
      BY <2>2, <2>4, <3>1, VacantFacts
    <3>4. back \/ final[t] = NoFile
      BY <3>2, <3>3 DEF SourceOf
    <3> QED BY <2>1, <3>4
  <2>5. ASSUME t \in Episodes \ Excused', episode[t] = NoFile PROVE backup'[r] = NoFile
    BY <2>1, <2>2, <2>5, VacantFacts DEF Excused
  <2>6. FreshInv(r)'
    BY <1>1, <2>4, <2>5, VacatedFresh
  <2> QED BY <1>1, <2>1, <2>2, <2>3, <2>6, NextStepEffect, RowFreshFrame DEF Active, Same, Excused
<1>7. CASE Restore(p, r)
  <2>1. /\ at' = at /\ part' = part /\ strayed \subseteq strayed' /\ stranded' = stranded
        /\ backup'[r] = NoFile
        /\ \A q \in Ids \ {r} : backup'[q] = backup[q]
        /\ Recovering(p, r, "restore") /\ NextStep(p, r, "mark")
        /\ backup[r] = NoFile => final' = final
    BY <1>7 DEF Restore, UploadTypeOK
  <2>2. Active(r) /\ rec[p].on = r /\ rec[p].step = "restore"
    BY <2>1, RecoveringFacts DEF Active, ActiveUpload, Recovering, FirstStep
  <2>3. \A e \in Episodes : e # t => final'[e] = final[e]
    BY <1>4, <1>7 DEF Restore, Targets, UploadTypeOK
  <2>4. FreshInv(r)'
    <3> SUFFICES ASSUME t \in Episodes \ Excused, episode[t] = NoFile
                 PROVE  final'[t] = NoFile /\ backup'[r] = NoFile
      BY <1>1, <2>1, VacatedFresh DEF Excused
    <3> QED BY <2>1, <2>2 DEF FreshOK, FreshInv
  <2> QED BY <1>1, <2>1, <2>2, <2>3, <2>4, NextStepEffect, RowFreshFrame DEF Active, Same, Excused
<1>8. CASE RowFails(p, r)
  <2>1. /\ final' = final /\ strayed' = strayed /\ stranded' = stranded /\ backup' = backup
        /\ part' = part /\ EndRow(p, r)
    BY <1>8 DEF RowFails, files
  <2>2. /\ at'[r] = (IF at[r] = "failing" THEN "done" ELSE at[r])
        /\ \A q \in Ids \ {r} : at'[q] = at[q]
    BY <2>1, EndRowEffect
  <2>3. \A x \in Procs : rec'[x].on = r => rec'[x] = rec[x]
    BY <2>1, EndRowEffect, UploadAssumption DEF UploadAssumption
  <2>4. Undisturbed(r)
    BY <1>1, <2>1, <2>2, <2>3 DEF Undisturbed, Active, Early, Vacant, KnownGone
  <2>5. FreshInv(r)'
    BY <2>1, <2>4, UndisturbedFresh DEF FreshOK, Excused
  <2> QED BY <1>1, <2>1, <2>2, <2>5, EndRowEffect, RowFreshFrame DEF Active, Same, Excused
<1> QED BY <1>5, <1>6, <1>7, <1>8

\* The target is free again, and as empty as it was.
LEMMA RowRecoveredFresh ==
  ASSUME UploadTypeOK, Shape, OneHolder, FreshOK, NEW p \in Procs, NEW r \in Ids,
         MarkFailed(p, r) \/ CleanTemp(p, r)
  PROVE  FreshOK'
<1>1. /\ final' = final /\ episode' = episode /\ strayed' = strayed /\ stranded' = stranded
      /\ backup' = backup
      /\ \A q \in Ids \ {r} : part'[q] = part[q]
  BY DEF MarkFailed, CleanTemp, files, UploadTypeOK
<1>2. row[r] \in Reservations
  BY DEF UploadTypeOK
<1>3. /\ row'[r].state = "failed" /\ row'[r].target = row[r].target
      /\ \A q \in Ids \ {r} : row'[q] = row[q]
  <2>1. CASE MarkFailed(p, r)
    BY <1>2, <2>1 DEF MarkFailed, UploadTypeOK, Reservations
  <2>2. CASE CleanTemp(p, r)
    <3>1. row[r].state = "failed"
      BY <2>2, RecoveringFacts DEF CleanTemp
    <3> QED BY <1>2, <2>2, <3>1 DEF CleanTemp, UploadTypeOK, Reservations
  <2> QED BY <2>1, <2>2
<1>4. EndRow(p, r) \/ (at' = at /\ NextStep(p, r, "clean"))
  BY DEF MarkFailed, CleanTemp
<1>5. /\ \A x \in Procs : rec'[x] = rec[x] \/ rec'[x].on \in {NoId, r}
      /\ \A q \in Ids \ {r} : at'[q] = at[q]
  BY <1>4, EndRowEffect, NextStepEffect
<1>6. FreshInv(r)'
  BY <1>3 DEF FreshInv, Active, ActiveUpload
<1>7. ASSUME Active(r), row[r].target \in Episodes \ Excused, episode[row[r].target] = NoFile
      PROVE  final[row[r].target] = NoFile
  <2>1. Recovering(p, r, "mark")
    BY <1>7, RecoveringFacts DEF MarkFailed, CleanTemp, Active, ActiveUpload
  <2>2. CASE rec[p].on = r /\ rec[p].step = "mark"
    BY <1>7, <2>2 DEF FreshOK, FreshInv
  <2>3. CASE "mark" = FirstStep(r)
    BY <1>7, <2>3, VacantFacts DEF FirstStep, Early
  <2> QED BY <2>1, <2>2, <2>3 DEF Recovering
<1> QED BY <1>1, <1>3, <1>5, <1>6, <1>7, RowFreshFrame DEF Same, Excused

\* A claim changes nothing of it.
LEMMA ReapFresh ==
  ASSUME UploadTypeOK, FreshOK, NEW p \in Procs, Reap(p), at' = at, files' = files,
         episode' = episode, strayed' = strayed, stranded' = stranded
  PROVE  FreshOK'
<1>1. /\ Claimable(p) \in SUBSET Ids /\ row' = ClaimedBy(p, Claimable(p)) /\ final' = final
      /\ backup' = backup /\ part' = part
      /\ \A r \in Claimable(p) : Active(r)
  BY DEF Reap, Claimable, files
<1>2. \A x \in Procs : rec'[x] = rec[x] \/ rec'[x].on = NoId
  BY ReapEffect DEF NoRecovery
<1>3. ASSUME NEW q \in Ids
      PROVE  Undisturbed(q) /\ (Active(q) => Active(q)') /\ row'[q].target = row[q].target
  <2>1. \A x \in Procs : rec'[x].on = q => rec'[x] = rec[x]
    BY <1>2, UploadAssumption DEF UploadAssumption
  <2>2. CASE q \in Claimable(p)
    <3>1. /\ row'[q].state = "publishing" /\ Active(q)
          /\ row'[q].was = IF row[q].was # "none" THEN row[q].was ELSE row[q].state
          /\ row'[q].op = row[q].op /\ row'[q].target = row[q].target
      BY <1>1, <2>2, ClaimEffect
    <3>2. Early(q)' => Early(q)
      BY <3>1 DEF Early
    <3> QED BY <1>1, <2>1, <3>1, <3>2 DEF Undisturbed, Active, ActiveUpload, KnownGone
  <2>3. CASE q \notin Claimable(p)
    <3>1. row'[q] = row[q]
      BY <1>1, <2>3, ClaimEffect
    <3> QED BY <1>1, <2>1, <3>1 DEF Undisturbed, Active, Early, KnownGone
  <2> QED BY <2>2, <2>3
<1>4. \A q \in Ids : FreshInv(q)'
  BY <1>3, UndisturbedFresh DEF FreshOK, Excused
<1>5. \A e \in Episodes : Held(e) => Held(e)'
  BY <1>3 DEF Held
<1>6. NoRowNoAudio'
  BY <1>1, <1>5, NoAudioFrame DEF FreshOK, Excused
<1> QED BY <1>4, <1>6 DEF FreshOK

\* Steps that leave the rows and the audio of the episodes alone.
LEMMA IdleFresh ==
  ASSUME UploadTypeOK, FreshOK, row' = row, part' = part, backup' = backup, episode' = episode,
         strayed' = strayed, stranded' = stranded,
         \A e \in Episodes : final'[e] = final[e],
         \A p \in Procs : rec'[p] = rec[p] \/ rec'[p] = NoRecovery,
         \A r \in Ids : at'[r] = at[r] \/ at'[r] \in {"none", "done", "fail"}
  PROVE  FreshOK'
<1>1. ASSUME NEW q \in Ids PROVE Undisturbed(q)
  <2>1. \A p \in Procs : rec'[p].on = q => rec'[p] = rec[p]
    BY UploadAssumption DEF UploadAssumption, NoRecovery
  <2> QED BY <2>1 DEF Undisturbed, Active, Early, Vacant, KnownGone
<1>2. \A q \in Ids : FreshInv(q)'
  BY <1>1, UndisturbedFresh DEF FreshOK, Excused
<1>3. \A e \in Episodes : Held(e) => Held(e)'
  BY DEF Held, Active
<1>4. NoRowNoAudio'
  BY <1>3, NoAudioFrame DEF FreshOK, Excused
<1> QED BY <1>2, <1>4 DEF FreshOK

\* A new reservation finds its target as a free one is.
LEMMA ReservedFresh ==
  ASSUME Shape, FreshOK, NEW r \in Unused, row'[r].target \in Targets, ~Held(row'[r].target),
         final' = final, backup' = backup, episode' = episode, strayed' = strayed, stranded' = stranded
  PROVE  FreshInv(r)' /\ ~Active(r)
<1>1. r \in Ids /\ row[r].state = "unused" /\ backup[r] = NoFile
  BY DEF Unused, Shape, RowInv
<1>2. row'[r].target \in Episodes \ Excused /\ episode[row'[r].target] = NoFile =>
        final[row'[r].target] = NoFile
  BY DEF FreshOK, NoRowNoAudio
<1> QED BY <1>1, <1>2, VacatedFresh DEF Active, ActiveUpload, Excused

\* The reservations of a request: the rows that were active stay as they are.
LEMMA ReserveFreshFrame ==
  ASSUME FreshOK, \A q \in Ids : FreshInv(q)' \/ Same(q), \A q \in Ids : Active(q) => row'[q] = row[q],
         files' = files, episode' = episode, rec' = rec, strayed' = strayed, stranded' = stranded
  PROVE  FreshOK'
<1>1. ASSUME NEW q \in Ids, Same(q) PROVE FreshInv(q)'
  <2>1. Undisturbed(q)
    BY <1>1 DEF Undisturbed, Active, Early, Same, KnownGone, files
  <2> QED BY <2>1, UndisturbedFresh DEF FreshOK, Excused
<1>2. \A e \in Episodes : Held(e) => Held(e)'
  BY DEF Held, Active
<1>3. NoRowNoAudio'
  BY <1>2, NoAudioFrame DEF FreshOK, Excused, files
<1> QED BY <1>1, <1>3 DEF FreshOK

\* A single or a staging upload reserves its target.
LEMMA ReserveUploadFresh ==
  ASSUME UploadTypeOK, Shape, FreshOK, NEW p \in Procs, NEW r \in Ids, NEW o \in {"individual", "staging"},
         NEW t \in Targets, ReserveUpload(p, r, o, t)
  PROVE  FreshOK'
<1>1. /\ files' = files /\ episode' = episode /\ strayed' = strayed /\ stranded' = stranded /\ rec' = rec
      /\ row'[r] = NewRow(p, o, t, NoFile, r) /\ r \in Unused /\ ~Held(t)
      /\ \A q \in Ids \ {r} : row'[q] = row[q] /\ at'[q] = at[q]
  BY DEF ReserveUpload, UploadTypeOK
<1>2. row'[r].target = t
  BY <1>1 DEF NewRow, NoRow
<1>3. FreshInv(r)' /\ ~Active(r)
  BY <1>1, <1>2, ReservedFresh DEF files
<1>4. \A q \in Ids \ {r} : Same(q)
  BY <1>1 DEF Same, files
<1> QED BY <1>1, <1>3, <1>4, ReserveFreshFrame

\* An import reserves the targets of its entries.
LEMMA ReserveEntriesFresh ==
  ASSUME UploadTypeOK, Shape, FreshOK, NEW p \in Procs, ReserveEntries(p)
  PROVE  FreshOK'
<1> DEFINE new == req[p].plan.entries
<1>1. /\ new \subseteq Staged /\ (\A s \in new : ~Conflict(req[p].plan, s)) /\ rec' = rec
      /\ files' = files
  BY ReserveEntriesEffect
<1>2. PICK id \in [new -> Unused] :
         /\ \A s \in new : /\ row'[id[s]] = NewRow(p, "import", EntryOf[s], s, req[p].plan.seen[s])
                           /\ at'[id[s]] = "reserved"
         /\ \A r \in Ids : (\A s \in new : id[s] # r) => row'[r] = row[r] /\ at'[r] = at[r]
  BY ReserveEntriesEffect
<1>3. episode' = episode /\ strayed' = strayed /\ stranded' = stranded
  BY DEF ReserveEntries
<1> HIDE DEF new
<1>4. ASSUME NEW s \in new PROVE FreshInv(id[s])' /\ ~Active(id[s])
  <2>1. row'[id[s]].target = EntryOf[s]
    BY <1>2 DEF NewRow, NoRow
  <2>2. id[s] \in Unused /\ EntryOf[s] \in Targets /\ ~Held(EntryOf[s])
    BY <1>1, <1>2, UploadAssumption DEF UploadAssumption, Conflict, Targets
  <2> QED BY <1>1, <1>3, <2>1, <2>2, ReservedFresh DEF files
<1>5. ASSUME NEW q \in Ids, \A s \in new : id[s] # q PROVE Same(q)
  BY <1>1, <1>2, <1>5 DEF Same, files
<1>6. \A q \in Ids : FreshInv(q)' \/ Same(q)
  BY <1>4, <1>5
<1>7. \A q \in Ids : Active(q) => row'[q] = row[q]
  BY <1>2, <1>4
<1> QED BY <1>1, <1>3, <1>6, <1>7, ReserveFreshFrame

\* The leftovers are of rows that hold nothing.
LEMMA EndReapFresh ==
  ASSUME UploadTypeOK, FreshOK, NEW p \in Procs, EndReap(p)
  PROVE  FreshOK'
<1>1. /\ final' = final /\ episode' = episode /\ strayed' = strayed /\ stranded' = stranded /\ at' = at
      /\ \A x \in Procs : rec'[x] = rec[x] \/ rec'[x].on = NoId
  BY DEF EndReap, UploadTypeOK, NoRecovery
<1>2. ASSUME NEW q \in Ids
      PROVE  /\ row'[q].state = row[q].state /\ row'[q].op = row[q].op /\ row'[q].was = row[q].was
             /\ row'[q].target = row[q].target
             /\ part'[q] \in {part[q], NoFile}
             /\ Active(q) => backup'[q] = backup[q]
  <2>1. row'[q] = [row[q] EXCEPT !.backup = @ /\ q \notin KeptBackups,
                                 !.temp = @ /\ q \notin FailedTemps]
        /\ backup'[q] = (IF q \in KeptBackups THEN NoFile ELSE backup[q])
        /\ part'[q] = IF q \in FailedTemps THEN NoFile ELSE part[q]
    BY DEF EndReap
  <2>2. row[q] \in Reservations
    BY DEF UploadTypeOK
  <2>3. Active(q) => q \notin KeptBackups
    BY DEF KeptBackups, Active, ActiveUpload
  <2> QED BY <2>1, <2>2, <2>3 DEF Reservations
<1>3. ASSUME NEW q \in Ids PROVE FreshInv(q)'
  <2>1. CASE ~Active(q)
    BY <1>2, <2>1 DEF FreshInv, Active
  <2>2. CASE Active(q)
    <3>1. \A x \in Procs : rec'[x].on = q => rec'[x] = rec[x]
      BY <1>1, UploadAssumption DEF UploadAssumption
    <3>2. Undisturbed(q)
      BY <1>1, <1>2, <2>2, <3>1 DEF Undisturbed, Active, Early, KnownGone
    <3> QED BY <1>1, <3>2, UndisturbedFresh DEF FreshOK, Excused
  <2> QED BY <2>1, <2>2
<1>4. \A e \in Episodes : Held(e) => Held(e)'
  BY <1>2 DEF Held, Active
<1>5. NoRowNoAudio'
  BY <1>1, <1>4, NoAudioFrame DEF FreshOK, Excused
<1> QED BY <1>3, <1>5 DEF FreshOK

\* Every step keeps the places without a row empty.
LEMMA FreshStep ==
  ASSUME UploadTypeOK, Shape, OneHolder, FreshOK, UploadNext
  PROVE  FreshOK'
<1>1. ASSUME NEW r \in Ids, HandlerStep(r) \/ HandlerFails(r) PROVE FreshOK'
  BY <1>1, HandlerFreshOutside, HandlerFreshInside, FailFresh DEF HandlerStep
<1>2. ASSUME NEW p \in Procs, NEW r \in Ids,
             Discard(p, r) \/ Unpublish(p, r) \/ Restore(p, r) \/ MarkFailed(p, r) \/ CleanTemp(p, r)
               \/ RowFails(p, r)
      PROVE  FreshOK'
  BY <1>2, RecoveryFresh, RowRecoveredFresh
<1>3. ASSUME NEW p \in Procs, AskUpload(p) \/ StartCommit(p) PROVE FreshOK'
  BY <1>3, ReapFresh DEF AskUpload, StartCommit
<1>4. ASSUME NEW p \in Procs, NEW r \in Ids,
             \/ \E e \in Episodes : ReserveEpisode(p, r, e)
             \/ \E s \in Staged : ReserveStaged(p, r, s)
      PROVE  FreshOK'
  BY <1>4, ReserveUploadFresh DEF ReserveEpisode, ReserveStaged, Targets
<1>5. ASSUME NEW p \in Procs,
             \/ \E overwrite \in BOOLEAN : AskCommit(p, overwrite)
             \/ CommitRefused(p) \/ UploadRefused(p) \/ EntriesRefused(p) \/ EndImport(p)
             \/ EndFail(p) \/ RecoveryRaises(p) \/ Die(p)
      PROVE  FreshOK'
  <2>1. /\ row' = row /\ part' = part /\ backup' = backup /\ final' = final /\ episode' = episode
        /\ strayed' = strayed /\ stranded' = stranded
    BY <1>5 DEF AskCommit, CommitRefused, UploadRefused, EntriesRefused, EndImport, EndFail,
                RecoveryRaises, Die, files
  <2>2. \A x \in Procs : rec'[x] = rec[x] \/ rec'[x] = NoRecovery
    BY <1>5 DEF AskCommit, CommitRefused, UploadRefused, EntriesRefused, EndImport, EndFail,
                RecoveryRaises, Die, UploadTypeOK
  <2>3. \A r \in Ids : at'[r] = at[r] \/ at'[r] \in {"none", "done", "fail"}
    BY <1>5 DEF AskCommit, CommitRefused, UploadRefused, EntriesRefused, EndImport, EndFail,
                RecoveryRaises, Die
  <2> QED BY <2>1, <2>2, <2>3, IdleFresh
<1>6. ASSUME ClearStaging \/ \E p \in Procs : \E sweeps \in BOOLEAN : SweepStaging(p, sweeps)
      PROVE  FreshOK'
  <2>1. /\ row' = row /\ part' = part /\ backup' = backup /\ episode' = episode
        /\ strayed' = strayed /\ stranded' = stranded /\ rec' = rec
    BY <1>6 DEF ClearStaging, SweepStaging
  <2>2. \A e \in Episodes : final'[e] = final[e]
    BY <1>6, UploadAssumption DEF ClearStaging, SweepStaging, Targets, UploadAssumption
  <2>3. \A r \in Ids : at'[r] = at[r] \/ at'[r] \in {"none", "done", "fail"}
    BY <1>6 DEF ClearStaging, SweepStaging
  <2> QED BY <2>1, <2>2, <2>3, IdleFresh
<1> QED BY <1>1, <1>2, <1>3, <1>4, <1>5, <1>6, ReserveEntriesFresh, EndReapFresh
        DEF UploadNext, RequestStep, RecoveryStep, Failure

-----------------------------------------------------------------------------
(* What an import moves in *)

\* An import has compared its source with the plan, and has yet to move it.
Moving == {"prepared", "begun", "backedUp"}

\* The handlers of an import, while it moves, are of the one that holds the lock.
LEMMA Importing ==
  ASSUME UploadTypeOK, Shape, LockInv, NEW r \in Ids, row[r].op = "import", at[r] \in Moving \cup {"moved"}
  PROVE  /\ r \in job.ids /\ lock \in Procs /\ Active(r) /\ row[r].audio # NoFile
         /\ row[r].source \in Staged /\ row[r].source \in Targets
         /\ row[r].target \in Episodes /\ row[r].target \in Targets
         /\ row[r].source # row[r].target
<1>1. at[r] \notin {"none", "done"} /\ at[r] \in Working
  BY DEF Moving, Working, Inside
<1>2. r \in job.ids /\ row[r].state # "unused" /\ Active(r)
  BY <1>1, HandlerRow DEF LockInv, Shape, HandlerInv
<1> QED BY <1>2, JobRows, RowTargets, UploadAssumption DEF UploadAssumption, LockInv

\* What PlannedInv says of r stays true when nothing it speaks of changes.
LEMMA PlannedFrame ==
  ASSUME NEW r \in Ids, PlannedInv(r), strayed \subseteq strayed',
         row'[r].op = row[r].op, row'[r].source = row[r].source, row'[r].target = row[r].target,
         row'[r].audio = row[r].audio, at'[r] \in Moving \cup {"moved"} => at'[r] = at[r],
         row[r].op = "import" /\ at[r] \in Moving /\ row[r].source \notin strayed' =>
           final'[row[r].source] = final[row[r].source],
         row[r].op = "import" /\ at[r] = "moved" => final'[row[r].target] = final[row[r].target]
  PROVE  PlannedInv(r)'
BY DEF PlannedInv, Moving

\* The steps of a handler.
LEMMA HandlerPlanned ==
  ASSUME UploadTypeOK, Shape, LockInv, OneHolder, \A q \in Ids : PlannedInv(q),
         NEW r \in Ids, HandlerStep(r) \/ HandlerFails(r)
  PROVE  \A q \in Ids : PlannedInv(q)'
<1>1. strayed' = strayed /\ (\A q \in Ids \ {r} : at'[q] = at[q]) /\ \A q \in Ids : Kept(q)
  BY HandlerKept DEF HandlerStep, HandlerFails, Prepare, PrepareEntry, BeginPublication, BackUp, MoveIn,
         Bump, Commit, DropBackup, UndoMove, UndoBackup, Unlink, Fail, Goto, UploadTypeOK
<1>2. CASE BackUp(r) \/ MoveIn(r) \/ UndoMove(r) \/ UndoBackup(r)
  <2>1. at[r] \in Inside \cup {"begun"} /\ Active(r) /\ row' = row
    BY <1>2 DEF BackUp, MoveIn, UndoMove, UndoBackup, Handler, Shape, HandlerInv, Working, Inside
  <2>2. ASSUME NEW t \in Targets, t # row[r].target, row[r].op = "import" => t # row[r].source
        PROVE  final'[t] = final[t]
    BY <1>2, <2>2 DEF BackUp, MoveIn, UndoMove, UndoBackup, UploadTypeOK
  <2>3. ASSUME NEW q \in Ids \ {r} PROVE PlannedInv(q)'
    <3>1. ASSUME row[q].op = "import", at[q] \in Moving
          PROVE  final'[row[q].source] = final[row[q].source]
      <4>1. q \in job.ids /\ lock \in Procs /\ row[q].source \in Staged /\ row[q].source \in Targets
        BY <3>1, Importing
      <4>2. row[r].op # "staging"
        BY <2>1, <4>1, UploadAssumption DEF LockInv, UploadAssumption
      <4>3. row[r].op = "import" => r \in job.ids
        BY <2>1 DEF LockInv, Inside
      <4>4. row[r].op = "import" => row[q].source # row[r].source
        BY <4>1, <4>3 DEF LockInv
      <4>5. row[q].source # row[r].target
        BY <2>1, <4>1, <4>2, HandlerRow, RowTargets, UploadAssumption DEF UploadAssumption, Inside
      <4> QED BY <2>2, <4>1, <4>4, <4>5
    <3>2. ASSUME row[q].op = "import", at[q] = "moved"
          PROVE  final'[row[q].target] = final[row[q].target]
      <4>1. Active(q) /\ row[q].target \in Targets /\ row[q].target \in Episodes
        BY <3>2, Importing
      <4>2. row[q].target # row[r].target
        BY <2>1, <4>1 DEF OneHolder
      <4>3. row[r].op = "import" => row[q].target # row[r].source
        BY <2>1, <4>1, HandlerRow, RowTargets, UploadAssumption DEF UploadAssumption, Inside
      <4> QED BY <2>2, <4>1, <4>2, <4>3
    <3> QED BY <1>1, <2>1, <3>1, <3>2, PlannedFrame
  <2>4. PlannedInv(r)'
    <3> SUFFICES ASSUME row[r].op = "import", row[r].source \notin strayed
                 PROVE  /\ at'[r] \in Moving => final'[row[r].source] = row[r].audio
                        /\ at'[r] = "moved" => final'[row[r].target] = row[r].audio
      BY <1>1, <2>1 DEF PlannedInv, Moving
    <3>1. CASE BackUp(r)
      <4>1. at[r] = "begun" /\ at'[r] = "backedUp"
        BY <3>1, BackUpEffect DEF BackUp, Handler
      <4>2. final[row[r].source] = row[r].audio /\ row[r].source \in Targets
            /\ row[r].source # row[r].target
        BY <4>1, Importing DEF PlannedInv, Moving
      <4> QED BY <3>1, <4>1, <4>2 DEF BackUp, UploadTypeOK
    <3>2. CASE MoveIn(r)
      <4>1. at[r] = "backedUp" /\ at'[r] = "moved"
        BY <3>2, MoveInEffect DEF MoveIn, Handler
      <4>2. final[row[r].source] = row[r].audio /\ row[r].target \in Targets
            /\ row[r].source # row[r].target
        BY <4>1, Importing DEF PlannedInv, Moving
      <4>3. final'[row[r].target] = final[row[r].source]
        BY <3>2, <4>2 DEF MoveIn, SourceOf, UploadTypeOK
      <4> QED BY <4>1, <4>2, <4>3 DEF Moving
    <3>3. CASE UndoMove(r) \/ UndoBackup(r)
      BY <3>3, UndoMoveEffect, UndoBackupEffect DEF Moving
    <3> QED BY <1>2, <3>1, <3>2, <3>3
  <2> QED BY <2>3, <2>4
<1>3. CASE ~ (BackUp(r) \/ MoveIn(r) \/ UndoMove(r) \/ UndoBackup(r))
  <2>1. final' = final
    BY <1>3 DEF HandlerStep, HandlerFails, Prepare, PrepareEntry, BeginPublication,
         Bump, Commit, DropBackup, Unlink, Fail, files
  <2>2. at[r] # "none"
    BY <1>3 DEF HandlerStep, HandlerFails, Handler, Prepare, PrepareEntry, BeginPublication,
         Bump, Commit, DropBackup, Unlink, Fail
  <2>3. \A q \in Ids : /\ row'[q].op = row[q].op /\ row'[q].source = row[q].source
                       /\ row'[q].target = row[q].target /\ row'[q].audio = row[q].audio
    BY <1>1 DEF Kept
  <2>4. ASSUME NEW q \in Ids \ {r} PROVE PlannedInv(q)'
    BY <1>1, <2>1, <2>3, PlannedFrame
  <2>5. PlannedInv(r)'
    <3>1. CASE PrepareEntry(r)
      <4>1. final[row[r].source] = row[r].audio /\ at'[r] = "prepared"
        BY <3>1, PrepareEntryEffect DEF PrepareEntry
      <4> QED BY <2>1, <2>3, <4>1 DEF PlannedInv
    <3>2. CASE BeginPublication(r)
      <4>1. at[r] = "prepared" /\ at'[r] = "begun"
        BY <3>2, BeginPublicationEffect DEF BeginPublication, Handler
      <4> QED BY <1>1, <2>1, <2>3, <4>1 DEF PlannedInv
    <3>3. CASE Prepare(r) \/ Bump(r)
      <4>1. row[r].op # "import"
        BY <3>3 DEF Prepare, Bump
      <4> QED BY <2>3, <4>1 DEF PlannedInv
    <3>4. CASE Commit(r) \/ DropBackup(r) \/ HandlerFails(r) \/ Unlink(r) \/ Fail(r)
      <4>1. at'[r] \notin Moving \cup {"moved"}
        BY <3>4 DEF Commit, DropBackup, HandlerFails, Unlink, Fail, Goto, Moving, UploadTypeOK
      <4> QED BY <4>1 DEF PlannedInv, Moving
    <3> QED BY <1>3, <3>1, <3>2, <3>3, <3>4 DEF HandlerStep
  <2> QED BY <2>4, <2>5
<1> QED BY <1>2, <1>3

\* The steps of a recovery: what they take from under an import is in strayed.
LEMMA RecoveryPlanned ==
  ASSUME UploadTypeOK, Shape, LockInv, OneHolder, \A q \in Ids : PlannedInv(q),
         NEW p \in Procs, NEW r \in Ids,
         Discard(p, r) \/ Unpublish(p, r) \/ Restore(p, r) \/ MarkFailed(p, r) \/ CleanTemp(p, r)
           \/ RowFails(p, r)
  PROVE  \A q \in Ids : PlannedInv(q)'
<1>1. strayed \subseteq strayed' /\ \A q \in Ids : Kept(q)
  BY RecoveryKept DEF Discard, Unpublish, Restore, MarkFailed, CleanTemp, RowFails
<1>2. \A q \in Ids : /\ row'[q].op = row[q].op /\ row'[q].source = row[q].source
                     /\ row'[q].target = row[q].target /\ row'[q].audio = row[q].audio
  BY <1>1 DEF Kept
<1>3. EndRow(p, r) \/ at' = at
  BY DEF Discard, Unpublish, Restore, MarkFailed, CleanTemp, RowFails
<1>4. \A q \in Ids : at'[q] = at[q] \/ at'[q] = "done"
  BY <1>3, EndRowEffect
<1>5. CASE Discard(p, r) \/ MarkFailed(p, r) \/ CleanTemp(p, r) \/ RowFails(p, r)
  <2>1. final' = final
    BY <1>5 DEF Discard, MarkFailed, CleanTemp, RowFails, files
  <2> QED BY <1>1, <1>2, <1>4, <2>1, PlannedFrame DEF Moving
<1>6. CASE Unpublish(p, r) \/ Restore(p, r)
  <2>1. at[r] \notin Working /\ Active(r)
    BY <1>6, RecoveringFacts DEF Unpublish, Restore, Active, ActiveUpload
  <2> SUFFICES ASSUME NEW q \in Ids PROVE PlannedInv(q)'
    OBVIOUS
  <2>2. ASSUME row[q].op = "import", at[q] = "moved"
        PROVE  final'[row[q].target] = final[row[q].target]
    <3>1. Active(q) /\ row[q].target \in Targets /\ row[q].target \in Episodes
      BY <2>2, Importing
    <3>2. q # r
      BY <2>1, <2>2 DEF Working, Inside
    <3>3. row[q].target # row[r].target
      BY <2>1, <3>1, <3>2 DEF OneHolder
    <3>4. row[r].op = "import" => row[q].target # row[r].source
      BY <2>1, <3>1, RowTargets, UploadAssumption DEF UploadAssumption, Active, ActiveUpload
    <3> QED BY <1>6, <3>1, <3>3, <3>4 DEF Unpublish, Restore, UploadTypeOK
  <2>3. ASSUME row[q].op = "import", at[q] \in Moving, row[q].source \notin strayed'
        PROVE  final'[row[q].source] = final[row[q].source]
    <3>1. row[q].audio # NoFile /\ row[q].source \in Targets /\ BeingImported(row[q].source)
      BY <2>3, Importing DEF BeingImported, Moving
    <3>2. final[row[q].source] # NoFile
      BY <1>1, <2>3, <3>1 DEF PlannedInv, Moving
    <3>3. CASE Unpublish(p, r)
      <4> DEFINE t == row[r].target
                 back == final[t] # NoFile /\ SourceOf(r) = NoFile
      <4>1. CASE ~back
        BY <3>3, <4>1 DEF Unpublish
      <4>2. CASE back
        <5>1. row[q].source # t
          BY <2>3, <3>1, <3>3, <4>2 DEF Unpublish
        <5>2. row[r].op = "import" => row[q].source # row[r].source
          BY <3>2, <4>2 DEF SourceOf
        <5> QED BY <3>1, <3>3, <4>2, <5>1, <5>2 DEF Unpublish, UploadTypeOK
      <4> QED BY <4>1, <4>2
    <3>4. CASE Restore(p, r)
      <4>1. CASE backup[r] = NoFile
        BY <3>4, <4>1 DEF Restore
      <4>2. CASE backup[r] # NoFile
        <5>1. row[q].source # row[r].target
          BY <2>3, <3>1, <3>4, <4>2 DEF Restore
        <5> QED BY <3>1, <3>4, <4>2, <5>1 DEF Restore, UploadTypeOK
      <4> QED BY <4>1, <4>2
    <3> QED BY <1>6, <3>3, <3>4
  <2> QED BY <1>1, <1>2, <1>4, <2>2, <2>3, PlannedFrame DEF Moving
<1> QED BY <1>5, <1>6

\* Steps that leave the audio alone, and send no handler where an import moves.
LEMMA IdlePlanned ==
  ASSUME UploadTypeOK, Shape, \A q \in Ids : PlannedInv(q), final' = final, strayed' = strayed,
         \A q \in Ids : \/ at'[q] \notin Moving \cup {"moved"}
                        \/ at'[q] = at[q] /\ Kept(q)
  PROVE  \A q \in Ids : PlannedInv(q)'
<1> SUFFICES ASSUME NEW q \in Ids PROVE PlannedInv(q)'
  OBVIOUS
<1>1. CASE at'[q] \notin Moving \cup {"moved"}
  BY <1>1 DEF PlannedInv, Moving
<1>2. CASE at'[q] = at[q] /\ Kept(q)
  BY <1>2, PlannedFrame DEF Kept
<1> QED BY <1>1, <1>2

\* Every step leaves an import the file of its plan.
LEMMA PlannedStep ==
  ASSUME UploadTypeOK, Shape, LockInv, OneHolder, \A q \in Ids : PlannedInv(q), UploadNext
  PROVE  \A q \in Ids : PlannedInv(q)'
<1>1. ASSUME NEW p \in Procs, AskUpload(p) \/ StartCommit(p) \/ EndReap(p)
      PROVE  \A q \in Ids : PlannedInv(q)'
  <2>1. final' = final /\ strayed' = strayed /\ at' = at /\ \A q \in Ids : Kept(q)
    BY <1>1, ReapKept, EndReapKept DEF AskUpload, StartCommit, EndReap, files
  <2> QED BY <2>1, IdlePlanned
<1>2. ASSUME NEW p \in Procs,
             \/ \E overwrite \in BOOLEAN : AskCommit(p, overwrite)
             \/ CommitRefused(p) \/ UploadRefused(p) \/ EntriesRefused(p) \/ EndImport(p)
             \/ EndFail(p) \/ RecoveryRaises(p) \/ Die(p)
      PROVE  \A q \in Ids : PlannedInv(q)'
  <2>1. row' = row /\ final' = final /\ strayed' = strayed
    BY <1>2 DEF AskCommit, CommitRefused, UploadRefused, EntriesRefused, EndImport, EndFail,
                RecoveryRaises, Die, files
  <2>2. \A r \in Ids : at'[r] = at[r] \/ at'[r] \notin Moving \cup {"moved"}
    BY <1>2 DEF AskCommit, CommitRefused, UploadRefused, EntriesRefused, EndImport, EndFail,
                RecoveryRaises, Die, Moving
  <2> QED BY <2>1, <2>2, IdlePlanned DEF Kept
<1>3. ASSUME NEW p \in Procs, NEW r \in Ids, NEW o, NEW t \in Targets, ReserveUpload(p, r, o, t)
      PROVE  \A q \in Ids : PlannedInv(q)'
  <2>1. /\ final' = final /\ strayed' = strayed /\ at'[r] = "reserved"
        /\ \A q \in Ids \ {r} : row'[q] = row[q] /\ at'[q] = at[q]
    BY <1>3 DEF ReserveUpload, files, UploadTypeOK
  <2> QED BY <2>1, IdlePlanned DEF Kept, Moving
<1>4. ASSUME NEW p \in Procs, ReserveEntries(p) PROVE \A q \in Ids : PlannedInv(q)'
  <2>1. final' = final /\ strayed' = strayed
    BY <1>4 DEF ReserveEntries, files
  <2>2. PICK id \in [req[p].plan.entries -> Unused] :
         /\ \A s \in req[p].plan.entries :
              /\ row'[id[s]] = NewRow(p, "import", EntryOf[s], s, req[p].plan.seen[s])
              /\ at'[id[s]] = "reserved"
         /\ \A r \in Ids : (\A s \in req[p].plan.entries : id[s] # r) => row'[r] = row[r] /\ at'[r] = at[r]
    BY <1>4, ReserveEntriesEffect
  <2>3. \A r \in Ids : at'[r] = "reserved" \/ (row'[r] = row[r] /\ at'[r] = at[r])
    BY <2>2
  <2> QED BY <2>1, <2>3, IdlePlanned DEF Kept, Moving
<1>5. ASSUME ClearStaging \/ \E p \in Procs : \E sweeps \in BOOLEAN : SweepStaging(p, sweeps)
      PROVE  \A q \in Ids : PlannedInv(q)'
  <2>1. row' = row /\ strayed' = strayed /\ \A r \in Ids : at'[r] = at[r] \/ at'[r] = "fail"
    BY <1>5 DEF ClearStaging, SweepStaging
  <2>2. \A r \in job.ids : at[r] = "done"
    BY <1>5, UploadAssumption, JobRows DEF ClearStaging, SweepStaging, UploadAssumption
  <2>3. ASSUME NEW q \in Ids, row[q].op = "import" PROVE at[q] \notin Moving \cup {"moved"}
    BY <2>2, <2>3, Importing DEF Moving
  <2>4. ASSUME NEW q \in Ids PROVE PlannedInv(q)'
    BY <2>1, <2>3 DEF PlannedInv, Moving
  <2> QED BY <2>4
<1> QED BY <1>1, <1>2, <1>3, <1>4, <1>5, HandlerPlanned, RecoveryPlanned
        DEF UploadNext, RequestStep, RecoveryStep, Failure, ReserveEpisode, ReserveStaged, Targets

\* Only the commit of a publication publishes.
LEMMA OnlyCommitPublishes ==
  ASSUME UploadTypeOK, Shape, UploadNext, NEW r \in Ids, row[r].state # "published",
         row'[r].state = "published"
  PROVE  Commit(r)
<1>1. \A p \in Procs, rs \in SUBSET Ids : row' # ClaimedBy(p, rs)
  BY ClaimEffect
<1>2. ASSUME NEW q \in Ids, HandlerStep(q) \/ HandlerFails(q) PROVE Commit(r)
  <2>1. CASE Prepare(q) \/ PrepareEntry(q) \/ BeginPublication(q) \/ DropBackup(q)
    <3>1. \A x \in Ids \ {q} : row'[x] = row[x]
      BY <2>1 DEF Prepare, PrepareEntry, BeginPublication, DropBackup, UploadTypeOK
    <3>2. CASE Prepare(q) \/ PrepareEntry(q)
      <4>1. row'[q].state = "prepared"
        BY <3>2, PrepareEffect, PrepareEntryEffect
      <4> QED BY <3>1, <4>1
    <3>3. CASE BeginPublication(q)
      <4>1. row'[q].state = "publishing"
        BY <3>3, BeginPublicationEffect
      <4> QED BY <3>1, <4>1
    <3>4. CASE DropBackup(q)
      <4>1. row'[q].state = row[q].state
        BY <3>4, DropBackupEffect
      <4> QED BY <3>1, <4>1
    <3> QED BY <2>1, <3>2, <3>3, <3>4
  <2>2. CASE Commit(q)
    BY <2>2, CommitEffect DEF Same
  <2>3. CASE Fail(q)
    <3>1. row[q].owner \in Procs
      BY <2>3 DEF Fail, Handler, UploadTypeOK
    <3> QED BY <1>1, <2>3, <3>1 DEF Fail
  <2>4. CASE BackUp(q) \/ MoveIn(q) \/ Bump(q) \/ HandlerFails(q) \/ UndoMove(q) \/ UndoBackup(q) \/ Unlink(q)
    BY <2>4 DEF BackUp, MoveIn, Bump, HandlerFails, UndoMove, UndoBackup, Unlink
  <2> QED BY <1>2, <2>1, <2>2, <2>3, <2>4 DEF HandlerStep
<1>3. ASSUME NEW p \in Procs, NEW q \in Ids,
             Discard(p, q) \/ Unpublish(p, q) \/ Restore(p, q) \/ MarkFailed(p, q) \/ CleanTemp(p, q)
               \/ RowFails(p, q)
      PROVE  FALSE
  <2>1. CASE Discard(p, q) \/ Unpublish(p, q) \/ Restore(p, q) \/ RowFails(p, q)
    BY <2>1 DEF Discard, Unpublish, Restore, RowFails
  <2>2. CASE MarkFailed(p, q) \/ CleanTemp(p, q)
    <3>1. \A x \in Ids \ {q} : row'[x] = row[x]
      BY <2>2 DEF MarkFailed, CleanTemp, UploadTypeOK
    <3>2. row[q] \in Reservations
      BY DEF UploadTypeOK
    <3>3. row'[q].state \in {"failed", row[q].state}
      BY <2>2, <3>2 DEF MarkFailed, CleanTemp, UploadTypeOK, Reservations
    <3> QED BY <3>1, <3>3
  <2> QED BY <1>3, <2>1, <2>2
<1>4. ASSUME NEW p \in Procs, EndReap(p) PROVE FALSE
  <2>1. row'[r] = [row[r] EXCEPT !.backup = @ /\ r \notin KeptBackups, !.temp = @
        /\ r \notin FailedTemps]
    BY <1>4 DEF EndReap
  <2>2. row[r] \in Reservations
    BY DEF UploadTypeOK
  <2> QED BY <2>1, <2>2 DEF Reservations
<1>5. ASSUME NEW p \in Procs, AskUpload(p) \/ StartCommit(p) PROVE FALSE
  BY <1>1, <1>5 DEF AskUpload, StartCommit, Reap, Claimable
<1>6. ASSUME NEW p \in Procs, NEW q \in Ids, NEW o, NEW t \in Targets, ReserveUpload(p, q, o, t)
      PROVE  FALSE
  <2>1. row'[q] = NewRow(p, o, t, NoFile, q) /\ \A x \in Ids \ {q} : row'[x] = row[x]
    BY <1>6 DEF ReserveUpload, UploadTypeOK
  <2> QED BY <2>1 DEF NewRow, NoRow
<1>7. ASSUME NEW p \in Procs, ReserveEntries(p) PROVE FALSE
  <2>1. PICK id \in [req[p].plan.entries -> Unused] :
         /\ \A s \in req[p].plan.entries :
              /\ row'[id[s]] = NewRow(p, "import", EntryOf[s], s, req[p].plan.seen[s])
              /\ at'[id[s]] = "reserved"
         /\ \A q \in Ids : (\A s \in req[p].plan.entries : id[s] # q) => row'[q] = row[q] /\ at'[q] = at[q]
    BY <1>7, ReserveEntriesEffect
  <2>2. PICK s \in req[p].plan.entries : id[s] = r
    BY <2>1
  <2>3. row'[r] = NewRow(p, "import", EntryOf[s], s, req[p].plan.seen[s])
    BY <2>1, <2>2
  <2> QED BY <2>3 DEF NewRow, NoRow
<1>8. ASSUME NEW p \in Procs,
             \/ \E overwrite \in BOOLEAN : AskCommit(p, overwrite)
             \/ CommitRefused(p) \/ UploadRefused(p) \/ EntriesRefused(p) \/ EndImport(p)
             \/ EndFail(p) \/ RecoveryRaises(p) \/ Die(p) \/ \E sweeps \in BOOLEAN : SweepStaging(p, sweeps)
      PROVE  FALSE
  BY <1>8 DEF AskCommit, CommitRefused, UploadRefused, EntriesRefused, EndImport, EndFail,
              RecoveryRaises, Die, SweepStaging
<1>9. ~ClearStaging
  BY DEF ClearStaging
<1> QED BY <1>2, <1>3, <1>4, <1>5, <1>6, <1>7, <1>8, <1>9
        DEF UploadNext, RequestStep, RecoveryStep, Failure, ReserveEpisode, ReserveStaged, Targets

-----------------------------------------------------------------------------
(* The invariant *)

\* A step that changes nothing keeps the invariant.
LEMMA StutterKeeps ==
  ASSUME UploadInv, UNCHANGED uploadVars
  PROVE  UploadInv'
<1> USE DEF uploadVars, files
<1>1. UploadTypeOK'
  BY DEF UploadInv, UploadTypeOK
<1>2. Shape'
  BY DEF UploadInv, Shape, RowInv, HandlerInv, Named, RecoveryInv, InRecovery, Early, Active
<1>3. OneHolder' /\ LockInv'
  BY DEF UploadInv, OneHolder, LockInv, Active
<1>4. Apart' /\ Awaited'
  BY DEF UploadInv, Apart, Awaited, Holds, Keys
<1>5. \A r \in Ids : HeldInv(r)'
  BY DEF UploadInv, HeldInv, Intact, Aside, Active, Early
<1>6. RowHasAudio'
  BY DEF UploadInv, RowHasAudio, Held, Active
<1>7. \A r \in Ids : PlannedInv(r)'
  BY DEF UploadInv, PlannedInv
<1>8. \A r \in Ids : FreshInv(r)'
  BY DEF UploadInv, FreshInv, Active, Early, Excused
<1>9. NoRowNoAudio'
  BY DEF UploadInv, NoRowNoAudio, Held, Active, Excused
<1> QED BY <1>1, <1>2, <1>3, <1>4, <1>5, <1>6, <1>7, <1>8, <1>9 DEF UploadInv

\* It holds when the feed is new.
LEMMA InvariantInit ==
  UploadInit => UploadInv
<1> SUFFICES ASSUME UploadInit PROVE UploadInv
  OBVIOUS
<1>1. UploadTypeOK /\ Shape
  BY TypeInit, ShapeInit
<1>2. \A r \in Ids : row[r] = NoRow /\ at[r] = "none" /\ part[r] = NoFile /\ backup[r] = NoFile
  BY DEF UploadInit
<1>3. \A r \in Ids : row[r].state = "unused" /\ row[r].op = "individual"
  BY <1>2 DEF NoRow
<1>4. OneHolder
  BY <1>3 DEF OneHolder, Active, ActiveUpload
<1>5. LockInv
  <2>1. PlanOK(NoPlan)
    BY DEF PlanOK, NoPlan
  <2>2. \A p \in Procs : req[p].plan = NoPlan /\ req[p].phase = "idle"
    BY DEF UploadInit, NoRequest
  <2>3. job = NoJob /\ job.ids = {} /\ lock = NoId
    BY DEF UploadInit, NoJob
  <2> QED BY <1>2, <1>3, <2>1, <2>2, <2>3, UploadAssumption DEF LockInv, UploadAssumption, Inside
<1>6. \A k \in Kinds : \A x \in Keys(k) : Holds(k, x) = NoFile \/ (k = "final" /\ Holds(k, x) = x)
  BY <1>2 DEF UploadInit, Kinds, Keys, Holds
<1>7. Apart
  BY <1>6 DEF Apart, Kinds
<1>8. Awaited
  BY <1>6, UploadAssumption DEF Awaited, Keys, Targets, UploadAssumption
<1>9. \A r \in Ids : HeldInv(r)
  BY <1>3 DEF HeldInv, Active, ActiveUpload
<1>10. RowHasAudio
  BY DEF UploadInit, RowHasAudio
<1>11. \A r \in Ids : PlannedInv(r)
  BY <1>3 DEF PlannedInv
<1>12. NoRowNoAudio /\ \A r \in Ids : FreshInv(r)
  BY <1>3 DEF UploadInit, NoRowNoAudio, FreshInv, Active, ActiveUpload
<1> QED BY <1>1, <1>4, <1>5, <1>7, <1>8, <1>9, <1>10, <1>11, <1>12 DEF UploadInv

\* Every step keeps it.
LEMMA InvariantStep ==
  UploadInv /\ [UploadNext]_uploadVars => UploadInv'
<1>1. CASE UploadInv /\ UploadNext
  <2>1. UploadTypeOK /\ Shape /\ OneHolder /\ LockInv /\ Apart /\ Awaited /\ HeldOK /\ FreshOK
        /\ \A r \in Ids : PlannedInv(r)
    BY <1>1 DEF UploadInv, HeldOK, FreshOK
  <2>2. UploadTypeOK' /\ Shape' /\ OneHolder' /\ LockInv' /\ Apart' /\ Awaited'
    BY <1>1, <2>1, TypeStep, ShapeStep, OneHolderStep, LockStep, ApartStep
  <2>3. HeldOK'
    BY <1>1, <2>1, HeldStep
  <2>4. \A r \in Ids : PlannedInv(r)'
    BY <1>1, <2>1, PlannedStep
  <2>5. FreshOK'
    BY <1>1, <2>1, FreshStep
  <2> QED BY <2>2, <2>3, <2>4, <2>5 DEF UploadInv, HeldOK, FreshOK
<1>2. CASE UploadInv /\ UNCHANGED uploadVars
  BY <1>2, StutterKeeps
<1> QED BY <1>1, <1>2

\* The invariant holds in every state that the handlers, the recoveries, the imports and
\* the deaths of processes reach.
THEOREM UploadInvariant == UploadSpec => []UploadInv
<1>1. UploadInit => UploadInv
  BY InvariantInit
<1>2. UploadInv /\ [UploadNext]_uploadVars => UploadInv'
  BY InvariantStep
<1> QED BY <1>1, <1>2, PTL DEF UploadSpec

\* Types: the rows of upload_reservations, the files and the state of the processes.
THEOREM UploadTypeCorrect == UploadSpec => []UploadTypeOK
<1>1. UploadInv => UploadTypeOK
  BY DEF UploadInv
<1> QED BY <1>1, UploadInvariant, PTL

\* At every moment, every temporary file with audio and every backup has its name in a row
\* that a reaper looks at, whichever processes died and at which rename.
THEOREM LeftoversAreNamed == UploadSpec => []LeftoversNamed
<1>1. UploadInv => LeftoversNamed
  BY DEF UploadInv, Shape, Named, LeftoversNamed
<1> QED BY <1>1, UploadInvariant, PTL

\* An episode that no active reservation holds has the audio its row describes, and
\* without a row it has none, whatever publications of it failed or died on the way: but
\* for a file that a recovery has strayed on, and for the file of an import that a recovery
\* left in place because its source had been staged anew.
THEOREM AudioMatches == UploadSpec => []AudioMatchesRow
<1>1. UploadInv => AudioMatchesRow
  BY DEF UploadInv, RowHasAudio, NoRowNoAudio, Excused, AudioMatchesRow
<1> QED BY <1>1, UploadInvariant, PTL

\* What an import publishes is the file that the operator's scan saw.
THEOREM PublishesThePlan == UploadSpec => ImportsWhatWasPlanned
<1> DEFINE Planned == \A r \in Ids : row[r].op = "import" /\ row[r].state # "published"
                                       /\ row'[r].state = "published"
                                       /\ row[r].source \notin strayed
                                     => final[row[r].target] = row[r].audio
<1>1. UploadInv /\ [UploadNext]_uploadVars => [Planned]_uploadVars
  <2> SUFFICES ASSUME UploadInv, UploadNext, NEW r \in Ids, row[r].op = "import",
                      row[r].state # "published", row'[r].state = "published",
                      row[r].source \notin strayed
               PROVE  final[row[r].target] = row[r].audio
    OBVIOUS
  <2>1. Commit(r)
    BY OnlyCommitPublishes DEF UploadInv
  <2>2. at[r] = "moved"
    BY <2>1 DEF Commit, Handler
  <2> QED BY <2>2 DEF UploadInv, PlannedInv
<1> QED BY <1>1, UploadInvariant, PTL DEF UploadSpec, ImportsWhatWasPlanned

-----------------------------------------------------------------------------
(* What an import has seen *)

\* A staging upload that is about to commit.
Staging(r) == row[r].op = "staging" /\ at[r] = "bumped"

\* A plan knows the uploads that were staged by then.
Sees(plan) == StagedUploads \subseteq plan.published

\* A plan of this generation has seen all that is staged, and so has one whose import has
\* taken the lock.
ScanInv ==
  \A p \in Procs :
    /\ req[p].phase = "asked" =>
         /\ req[p].plan.gen <= generation
         /\ req[p].plan.gen = generation => Sees(req[p].plan) /\ \A r \in Ids : ~Staging(r)
    /\ req[p].phase = "import" => Sees(req[p].plan)
    /\ lock = p /\ req[p].phase # "import" => Sees(job.plan)

\* A reservation takes unused rows.
LEMMA UsedRowsStay ==
  ASSUME UploadTypeOK, NEW p \in Procs, Reserve(p), NEW r \in Ids, row[r].state # "unused"
  PROVE  row'[r] = row[r] /\ at'[r] = at[r]
<1>1. r \notin Unused
  BY DEF Unused
<1>2. ASSUME NEW q \in Ids, NEW o, NEW t, ReserveUpload(p, q, o, t)
      PROVE  row'[r] = row[r] /\ at'[r] = at[r]
  BY <1>1, <1>2 DEF ReserveUpload, UploadTypeOK
<1>3. ASSUME ReserveEntries(p) PROVE row'[r] = row[r] /\ at'[r] = at[r]
  <2>1. PICK id \in [req[p].plan.entries -> Unused] :
         /\ \A s \in req[p].plan.entries :
              /\ row'[id[s]] = NewRow(p, "import", EntryOf[s], s, req[p].plan.seen[s])
              /\ at'[id[s]] = "reserved"
         /\ \A q \in Ids : (\A s \in req[p].plan.entries : id[s] # q) => row'[q] = row[q] /\ at'[q] = at[q]
    BY <1>3, ReserveEntriesEffect
  <2> QED BY <1>1, <2>1
<1> QED BY <1>2, <1>3 DEF Reserve, ReserveEpisode, ReserveStaged

\* An upload is staged by its commit alone.
LEMMA StagedByCommit ==
  ASSUME UploadTypeOK, Shape, UploadNext, NEW r \in StagedUploads'
  PROVE  r \in StagedUploads \/ (Commit(r) /\ Staging(r))
<1>1. r \in Ids /\ row'[r].op = "staging" /\ row'[r].state = "published"
  BY DEF StagedUploads
<1>2. CASE row[r].state # "published"
  <2>1. Commit(r)
    BY <1>1, <1>2, OnlyCommitPublishes
  <2>2. row[r].op = "staging"
    BY <1>1, <2>1, CommitEffect
  <2> QED BY <2>1, <2>2 DEF Commit, Handler, Staging
<1>3. CASE row[r].state = "published"
  <2>1. CASE \A p \in Procs : ~Reserve(p)
    BY <1>1, <1>3, <2>1, RowsKept DEF Kept, StagedUploads
  <2>2. CASE \E p \in Procs : Reserve(p)
    BY <1>1, <1>3, <2>2, UsedRowsStay DEF StagedUploads
  <2> QED BY <2>1, <2>2
<1> QED BY <1>2, <1>3

\* A step that commits nothing in staging, asks for no import and starts none.
LEMMA ScanFrame ==
  ASSUME UploadTypeOK, ScanInv, StagedUploads' \subseteq StagedUploads,
         generation' \in {generation, generation + 1},
         generation' = generation => \A r \in Ids : Staging(r)' => Staging(r),
         \A x \in Procs : \/ req'[x] = req[x]
                          \/ /\ req'[x].phase \notin {"asked", "import"}
                             /\ req[x].phase # "import" \/ lock' # x,
         lock' = lock \/ lock' \notin Procs,
         lock' \in Procs => job'.plan = job.plan
  PROVE  ScanInv'
<1>1. generation \in Nat /\ \A x \in Procs : req[x].plan.gen \in Nat
  BY DEF UploadTypeOK, Plans
<1>2. ASSUME NEW x \in Procs, req'[x].phase = "asked"
      PROVE  /\ req'[x].plan.gen <= generation'
             /\ req'[x].plan.gen = generation' =>
                  StagedUploads' \subseteq req'[x].plan.published /\ \A r \in Ids : ~Staging(r)'
  <2>1. req'[x] = req[x]
    BY <1>2
  <2>2. req[x].plan.gen <= generation /\ (req[x].plan.gen = generation => Sees(req[x].plan) /\ \A r \in Ids : ~Staging(r))
    BY <1>2, <2>1 DEF ScanInv
  <2>3. CASE generation' = generation
    BY <2>1, <2>2, <2>3 DEF Sees
  <2>4. CASE generation' = generation + 1
    BY <1>1, <2>1, <2>2, <2>4
  <2> QED BY <2>3, <2>4
<1>3. ASSUME NEW x \in Procs, req'[x].phase = "import"
      PROVE  StagedUploads' \subseteq req'[x].plan.published
  BY <1>3 DEF ScanInv, Sees
<1>4. ASSUME NEW x \in Procs, lock' = x, req'[x].phase # "import"
      PROVE  StagedUploads' \subseteq job'.plan.published
  <2>1. lock = x /\ job'.plan = job.plan /\ req[x].phase # "import"
    BY <1>4
  <2> QED BY <2>1 DEF ScanInv, Sees
<1> QED BY <1>2, <1>3, <1>4 DEF ScanInv, Sees

\* The commit of a staging upload: it has the lock, and plans of its generation came before
\* its new file.
LEMMA CommitScans ==
  ASSUME UploadTypeOK, Shape, LockInv, ScanInv, NEW r \in Ids, Commit(r), Staging(r)
  PROVE  ScanInv'
<1>1. lock = r /\ lock \notin Procs
  BY UploadAssumption DEF LockInv, Staging, Inside, UploadAssumption
<1>2. req' = req /\ lock' = lock /\ generation' = generation
  BY DEF Commit
<1>3. \A x \in Procs : req[x].phase # "import" /\ lock # x
  BY <1>1 DEF LockInv
<1>4. \A x \in Procs : req[x].phase = "asked" => req[x].plan.gen <= generation /\ req[x].plan.gen # generation
  BY DEF ScanInv
<1> QED BY <1>2, <1>3, <1>4 DEF ScanInv

\* A scan sees all that is staged: the lock is free.
LEMMA AskScans ==
  ASSUME UploadTypeOK, Shape, LockInv, ScanInv, NEW p \in Procs, NEW overwrite \in BOOLEAN,
         AskCommit(p, overwrite)
  PROVE  ScanInv'
<1>1. /\ req'[p].phase = "asked" /\ req'[p].plan.gen = generation
      /\ req'[p].plan.published = {r \in Ids : row[r].state = "published"}
      /\ \A x \in Procs \ {p} : req'[x] = req[x]
      /\ lock' = lock /\ generation' = generation /\ row' = row /\ at' = at /\ job' = job /\ lock = NoId
  BY DEF AskCommit, UploadTypeOK
<1>2. generation \in Nat /\ generation <= generation
  BY DEF UploadTypeOK
<1>3. \A r \in Ids : ~Staging(r)
  BY <1>1, UploadAssumption DEF LockInv, Staging, Inside, UploadAssumption
<1>4. StagedUploads' = StagedUploads /\ (\A r \in Ids : ~Staging(r)')
  BY <1>1, <1>3 DEF StagedUploads, Staging
<1>5. StagedUploads' \subseteq req'[p].plan.published
  BY <1>1, <1>4 DEF StagedUploads
<1>6. NoId \notin Procs
  BY UploadAssumption DEF UploadAssumption
<1> QED BY <1>1, <1>2, <1>4, <1>5, <1>6 DEF ScanInv, Sees

\* An import starts with a plan of this generation.
LEMMA StartScans ==
  ASSUME UploadTypeOK, Shape, LockInv, ScanInv, NEW p \in Procs, StartCommit(p),
         StagedUploads' \subseteq StagedUploads, \A r \in Ids : Staging(r)' => Staging(r)
  PROVE  ScanInv'
<1>1. /\ req'[p].phase = "import" /\ req'[p].plan = req[p].plan
      /\ \A x \in Procs \ {p} : req'[x] = req[x]
      /\ lock' = p /\ lock = NoId /\ generation' = generation /\ req[p].phase = "asked"
      /\ req[p].plan.gen = generation
  BY DEF StartCommit, UploadTypeOK
<1>2. StagedUploads' \subseteq req'[p].plan.published
  BY <1>1 DEF ScanInv, Sees
<1> QED BY <1>1, <1>2 DEF ScanInv, Sees

\* The reservations of an import hand its plan to the thread.
LEMMA EntriesScan ==
  ASSUME UploadTypeOK, Shape, LockInv, ScanInv, NEW p \in Procs, ReserveEntries(p),
         StagedUploads' \subseteq StagedUploads, \A r \in Ids : Staging(r)' => Staging(r)
  PROVE  ScanInv'
<1>1. /\ req'[p] = NoRequest /\ req[p].phase = "import"
      /\ \A x \in Procs \ {p} : req'[x] = req[x]
      /\ lock' = lock /\ generation' = generation
      /\ job'.plan = req[p].plan
  BY DEF ReserveEntries, Reserving, UploadTypeOK, NoJob
<1>2. req'[p].phase = "idle" /\ lock = p
  BY <1>1 DEF NoRequest, LockInv
<1>3. StagedUploads' \subseteq job'.plan.published
  BY <1>1 DEF ScanInv, Sees
<1> QED BY <1>1, <1>2, <1>3 DEF ScanInv, Sees

\* An upload is about to commit in staging only after its change of the generation.
LEMMA StagingByBump ==
  ASSUME UploadTypeOK, Shape, UploadNext, NEW r \in Ids, Staging(r)'
  PROVE  Staging(r) \/ Bump(r)
<1>1. row'[r].op = "staging" /\ at'[r] = "bumped"
  BY DEF Staging
<1>2. ASSUME at[r] = "bumped" PROVE Staging(r)
  <2>1. row[r].state # "unused"
    BY <1>2, HandlerRow
  <2>2. CASE \A p \in Procs : ~Reserve(p)
    BY <1>1, <1>2, <2>2, RowsKept DEF Kept, Staging
  <2>3. CASE \E p \in Procs : Reserve(p)
    BY <1>1, <1>2, <2>1, <2>3, UsedRowsStay DEF Staging
  <2> QED BY <2>2, <2>3
<1>3. ASSUME at[r] # "bumped" PROVE Bump(r)
  <2>1. ASSUME NEW q \in Ids, HandlerStep(q) \/ HandlerFails(q) PROVE Bump(r)
    <3>1. \A x \in Ids \ {q} : at'[x] = at[x]
      BY <2>1 DEF HandlerStep, Prepare, PrepareEntry, BeginPublication, BackUp, MoveIn, Bump, Commit,
           DropBackup, UndoMove, UndoBackup, Unlink, Fail, HandlerFails, Goto, UploadTypeOK
    <3>2. Bump(q) \/ at'[q] # "bumped"
      BY <2>1 DEF HandlerStep, Prepare, PrepareEntry, BeginPublication, BackUp, MoveIn, Commit,
           DropBackup, UndoMove, UndoBackup, Unlink, Fail, HandlerFails, Goto, UploadTypeOK
    <3> QED BY <1>1, <1>3, <3>1, <3>2
  <2>2. ASSUME NEW p \in Procs, NEW q \in Ids,
               Discard(p, q) \/ Unpublish(p, q) \/ Restore(p, q) \/ MarkFailed(p, q) \/ CleanTemp(p, q)
                 \/ RowFails(p, q)
        PROVE  FALSE
    BY <1>1, <1>3, <2>2 DEF Discard, Unpublish, Restore, MarkFailed, CleanTemp, RowFails, EndRow, UploadTypeOK
  <2>3. ASSUME NEW p \in Procs, NEW q \in Ids, NEW o, NEW t \in Targets, ReserveUpload(p, q, o, t)
        PROVE  FALSE
    BY <1>1, <1>3, <2>3 DEF ReserveUpload, UploadTypeOK
  <2>4. ASSUME NEW p \in Procs, ReserveEntries(p) \/ Die(p) \/ RecoveryRaises(p) PROVE FALSE
    <3>1. CASE ReserveEntries(p)
      <4>1. at'[r] \in {"reserved", at[r]}
        BY <3>1 DEF ReserveEntries
      <4> QED BY <1>1, <1>3, <4>1
    <3>2. CASE Die(p)
      BY <1>1, <1>3, <3>2 DEF Die
    <3>3. CASE RecoveryRaises(p)
      BY <1>1, <1>3, <3>3 DEF RecoveryRaises
    <3> QED BY <2>4, <3>1, <3>2, <3>3
  <2>5. ASSUME NEW p \in Procs, NEW sweeps \in BOOLEAN, SweepStaging(p, sweeps) PROVE FALSE
    BY <1>1, <1>3, <2>5 DEF SweepStaging, UploadTypeOK
  <2>6. ASSUME at' = at PROVE FALSE
    BY <1>1, <1>3, <2>6
  <2>7. ASSUME NEW p \in Procs,
               \/ AskUpload(p) \/ \E overwrite \in BOOLEAN : AskCommit(p, overwrite)
               \/ StartCommit(p) \/ CommitRefused(p) \/ UploadRefused(p) \/ EntriesRefused(p)
               \/ EndImport(p) \/ EndReap(p) \/ EndFail(p)
        PROVE  FALSE
    <3>1. CASE AskUpload(p) \/ StartCommit(p)
      BY <2>6, <3>1 DEF AskUpload, StartCommit
    <3>2. CASE \E overwrite \in BOOLEAN : AskCommit(p, overwrite)
      BY <2>6, <3>2 DEF AskCommit
    <3>3. CASE CommitRefused(p) \/ UploadRefused(p) \/ EntriesRefused(p) \/ EndImport(p) \/ EndFail(p)
      BY <2>6, <3>3 DEF CommitRefused, UploadRefused, EntriesRefused, EndImport, EndFail
    <3>4. CASE EndReap(p)
      BY <2>6, <3>4, Zenon DEF EndReap
    <3> QED BY <2>7, <3>1, <3>2, <3>3, <3>4
  <2>8. ~ClearStaging
    BY <2>6 DEF ClearStaging
  <2> QED BY <2>1, <2>2, <2>3, <2>4, <2>5, <2>7, <2>8
          DEF UploadNext, RequestStep, RecoveryStep, Failure, ReserveEpisode, ReserveStaged, Targets
<1> QED BY <1>2, <1>3

\* Every step keeps what is known of the plans.
LEMMA ScanStep ==
  ASSUME UploadInv, ScanInv, UploadNext
  PROVE  ScanInv'
<1>0. UploadTypeOK /\ Shape /\ LockInv
  BY DEF UploadInv
<1>1. CASE \E r \in Ids : Commit(r) /\ Staging(r)
  BY <1>0, <1>1, CommitScans
<1>2. CASE ~\E r \in Ids : Commit(r) /\ Staging(r)
  <2>1. StagedUploads' \subseteq StagedUploads
    BY <1>0, <1>2, StagedByCommit DEF StagedUploads
  <2>2. ASSUME NEW r \in Ids, Bump(r) PROVE ScanInv'
    <3>1. req' = req /\ lock' = lock /\ job' = job /\ generation' = generation + 1
      BY <2>2 DEF Bump
    <3>2. generation \in Nat
      BY <1>0 DEF UploadTypeOK
    <3> QED BY <1>0, <2>1, <3>1, <3>2, ScanFrame
  <2>3. CASE \A r \in Ids : ~Bump(r)
    <3>1. \A r \in Ids : Staging(r)' => Staging(r)
      BY <1>0, <2>3, StagingByBump
    <3>2. ASSUME NEW r \in Ids, HandlerStep(r) \/ HandlerFails(r) PROVE ScanInv'
      <4>1. req' = req /\ job' = job /\ generation' = generation
        BY <2>3, <3>2 DEF HandlerStep, Prepare, PrepareEntry, BeginPublication, BackUp, MoveIn, Commit,
             DropBackup, UndoMove, UndoBackup, Unlink, Fail, HandlerFails
      <4>2. lock' \in {lock, r, NoId}
        BY <2>3, <3>2 DEF HandlerStep, Prepare, PrepareEntry, BeginPublication, BackUp, MoveIn, Commit,
             DropBackup, UndoMove, UndoBackup, Unlink, Fail, HandlerFails
      <4>3. lock' = lock \/ lock' \notin Procs
        BY <4>2, UploadAssumption DEF UploadAssumption
      <4> QED BY <1>0, <2>1, <3>1, <4>1, <4>3, ScanFrame
    <3>3. ASSUME NEW p \in Procs, NEW r \in Ids,
                 Discard(p, r) \/ Unpublish(p, r) \/ Restore(p, r) \/ MarkFailed(p, r) \/ CleanTemp(p, r)
                   \/ RowFails(p, r)
          PROVE  ScanInv'
      <4>1. req' = req /\ job' = job /\ generation' = generation /\ lock' = lock
        BY <3>3 DEF Discard, Unpublish, Restore, MarkFailed, CleanTemp, RowFails
      <4> QED BY <1>0, <2>1, <3>1, <4>1, ScanFrame
    <3>4. ASSUME NEW p \in Procs, NEW r \in Ids, NEW o, NEW t \in Targets, ReserveUpload(p, r, o, t)
          PROVE  ScanInv'
      <4>1. /\ job' = job /\ generation' = generation /\ lock' = lock
            /\ \A x \in Procs : req'[x] = req[x] \/ (x = p /\ req'[x] = NoRequest /\ req[x].phase = "upload")
        BY <1>0, <3>4 DEF ReserveUpload, Reserving, UploadTypeOK
      <4> QED BY <1>0, <2>1, <3>1, <4>1, ScanFrame DEF NoRequest
    <3>5. ASSUME NEW p \in Procs, AskUpload(p) \/ CommitRefused(p) \/ UploadRefused(p) PROVE ScanInv'
      <4>1. /\ job' = job /\ generation' = generation /\ lock' = lock
            /\ \A x \in Procs : \/ req'[x] = req[x]
                                \/ req'[x].phase \in {"idle", "upload"} /\ req[x].phase # "import"
        BY <1>0, <3>5 DEF AskUpload, CommitRefused, UploadRefused, Reserving, UploadTypeOK, NoRequest
      <4> QED BY <1>0, <2>1, <3>1, <4>1, ScanFrame
    <3>6. ASSUME NEW p \in Procs, EntriesRefused(p) \/ EndImport(p) PROVE ScanInv'
      <4>1. /\ generation' = generation /\ lock' = NoId
            /\ \A x \in Procs : req'[x] = req[x] \/ req'[x].phase = "idle"
        BY <1>0, <3>6 DEF EntriesRefused, EndImport, UploadTypeOK, NoRequest
      <4>2. lock' \notin Procs
        BY <4>1, UploadAssumption DEF UploadAssumption
      <4> QED BY <1>0, <2>1, <3>1, <4>1, <4>2, ScanFrame
    <3>7. ASSUME NEW p \in Procs, NEW sweeps \in BOOLEAN, SweepStaging(p, sweeps) PROVE ScanInv'
      <4>1. req' = req /\ generation' \in {generation, generation + 1} /\ lock' = lock
            /\ job'.plan = job.plan
        BY <1>0, <3>7 DEF SweepStaging, UploadTypeOK
      <4> QED BY <1>0, <2>1, <3>1, <4>1, ScanFrame
    <3>8. CASE ClearStaging
      <4>1. req' = req /\ generation' = generation + 1 /\ lock' = lock /\ job' = job
        BY <3>8 DEF ClearStaging
      <4> QED BY <1>0, <2>1, <3>1, <4>1, ScanFrame
    <3>9. ASSUME NEW p \in Procs, Die(p) \/ RecoveryRaises(p) PROVE ScanInv'
      <4>1. /\ generation' = generation /\ lock' \in {lock, NoId} /\ (lock' \in Procs => job' = job)
            /\ \A x \in Procs : \/ req'[x] = req[x]
                                \/ x = p /\ req'[x].phase = "idle"
            /\ req[p].phase = "import" /\ req'[p] # req[p] => lock' # p
        BY <1>0, <3>9, UploadAssumption
           DEF Die, RecoveryRaises, UploadTypeOK, NoRequest, UploadAssumption
      <4>2. lock' = lock \/ lock' \notin Procs
        BY <4>1, UploadAssumption DEF UploadAssumption
      <4> QED BY <1>0, <2>1, <3>1, <4>1, <4>2, ScanFrame
    <3>10. ASSUME NEW p \in Procs, EndReap(p) \/ EndFail(p) PROVE ScanInv'
      <4>1. req' = req /\ job' = job /\ generation' = generation /\ lock' = lock
        <5>1. CASE EndReap(p)
          BY <5>1, Zenon DEF EndReap
        <5>2. CASE EndFail(p)
          BY <5>2 DEF EndFail
        <5> QED BY <3>10, <5>1, <5>2
      <4> QED BY <1>0, <2>1, <3>1, <4>1, ScanFrame
    <3> QED BY <1>0, <2>1, <3>1, <3>2, <3>3, <3>4, <3>5, <3>6, <3>7, <3>8, <3>9, <3>10,
               AskScans, StartScans, EntriesScan
            DEF UploadNext, RequestStep, RecoveryStep, Failure, ReserveEpisode, ReserveStaged, Targets
  <2> QED BY <2>2, <2>3
<1> QED BY <1>1, <1>2

\* The sweep at the end of an import removes no upload that was staged after the scan: the
\* generation, and the lock, have kept its plan up to date.
THEOREM SweepsSpareUploads == UploadSpec => SweepSparesNewUploads
<1> DEFINE Spared == \A s \in Staged : job.swept # job'.swept /\ final'[s] # final[s]
                                         /\ final[s] \in StagedUploads
                                       => final[s] \in job.plan.published
<1>1. UploadInit => ScanInv
  BY UploadAssumption DEF UploadInit, ScanInv, NoRequest, UploadAssumption
<1>2. UploadInv /\ ScanInv /\ [UploadNext]_uploadVars => ScanInv'
  <2>1. CASE UNCHANGED uploadVars
    BY <2>1 DEF uploadVars, ScanInv, Sees, StagedUploads, Staging
  <2> QED BY <2>1, ScanStep
<1>3. UploadInv /\ ScanInv /\ [UploadNext]_uploadVars => [Spared]_uploadVars
  <2> SUFFICES ASSUME UploadInv, ScanInv, UploadNext, NEW s \in Staged, job.swept # job'.swept,
                      final'[s] # final[s], final[s] \in StagedUploads
               PROVE  final[s] \in job.plan.published
    OBVIOUS
  <2>1. PICK p \in Procs : lock = p /\ req[p].phase # "import"
    <3>1. ASSUME NEW p \in Procs, NEW sweeps \in BOOLEAN, SweepStaging(p, sweeps)
          PROVE  lock = p /\ req[p].phase # "import"
      BY <3>1 DEF SweepStaging
    <3>2. CASE \A p \in Procs, sweeps \in BOOLEAN : ~SweepStaging(p, sweeps)
      <4>1. ASSUME NEW r \in Ids, HandlerStep(r) \/ HandlerFails(r) PROVE job' = job
        BY <4>1 DEF HandlerStep, Prepare, PrepareEntry, BeginPublication, BackUp, MoveIn, Bump, Commit,
             DropBackup, UndoMove, UndoBackup, Unlink, Fail, HandlerFails
      <4>2. ASSUME NEW p \in Procs, NEW r \in Ids,
                   Discard(p, r) \/ Unpublish(p, r) \/ Restore(p, r) \/ MarkFailed(p, r) \/ CleanTemp(p, r)
                     \/ RowFails(p, r)
            PROVE  job' = job
        BY <4>2 DEF Discard, Unpublish, Restore, MarkFailed, CleanTemp, RowFails
      <4>3. ASSUME NEW p \in Procs,
                   \/ AskUpload(p) \/ \E overwrite \in BOOLEAN : AskCommit(p, overwrite)
                   \/ StartCommit(p) \/ CommitRefused(p) \/ UploadRefused(p) \/ EntriesRefused(p)
                   \/ EndImport(p) \/ EndFail(p) \/ ReserveEntries(p) \/ Die(p) \/ RecoveryRaises(p)
            PROVE  final' = final
        <5>1. CASE ReserveEntries(p)
          BY <5>1, Zenon DEF ReserveEntries, files
        <5>2. CASE EndFail(p) \/ Die(p) \/ RecoveryRaises(p)
          BY <5>2 DEF EndFail, Die, RecoveryRaises, files
        <5>3. CASE AskUpload(p) \/ (\E overwrite \in BOOLEAN : AskCommit(p, overwrite)) \/ StartCommit(p)
          BY <5>3 DEF AskUpload, AskCommit, StartCommit, files
        <5>4. CASE CommitRefused(p) \/ UploadRefused(p) \/ EntriesRefused(p) \/ EndImport(p)
          BY <5>4 DEF CommitRefused, UploadRefused, EntriesRefused, EndImport, files
        <5> QED BY <4>3, <5>1, <5>2, <5>3, <5>4
      <4>4. ASSUME NEW p \in Procs, EndReap(p) PROVE final' = final
        BY <4>4, Zenon DEF EndReap
      <4>5. ASSUME NEW p \in Procs, NEW r \in Ids, NEW o, NEW t, ReserveUpload(p, r, o, t)
            PROVE  final' = final
        BY <4>5 DEF ReserveUpload, files
      <4>6. ClearStaging => job' = job
        BY DEF ClearStaging
      <4> QED BY <3>2, <4>1, <4>2, <4>3, <4>4, <4>5, <4>6
              DEF UploadNext, RequestStep, RecoveryStep, Failure, ReserveEpisode, ReserveStaged
    <3> QED BY <3>1, <3>2
  <2> QED BY <2>1 DEF ScanInv, Sees
<1> QED BY <1>1, <1>2, <1>3, UploadInvariant, PTL DEF UploadSpec, SweepSparesNewUploads
=============================================================================
