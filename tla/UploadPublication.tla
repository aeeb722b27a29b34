--------------------------- MODULE UploadPublication ---------------------------
(***************************************************************************)
(* How the audio of a local feed gets in place: the table                  *)
(* upload_reservations (database/upload_reservations.py), the single and   *)
(* the staging upload handlers (api/local_episodes.py), the bulk import    *)
(* (local_import.py), and the recovery of what a dead worker left behind.  *)
(*                                                                         *)
(* A publication renames the file it replaces to a backup and its own file *)
(* into place inside a database transaction.  The transaction undoes the   *)
(* row when it fails; the files are undone by the handler, or, when the    *)
(* process died, by the next process that reaps.  Every rename, unlink and *)
(* commit is a step of its own, and a process may die between any two.     *)
(*                                                                         *)
(* One local feed.  Its marks, its runs and the episodes being processed,  *)
(* which also refuse a reservation, are in ProcessingLease.                *)
(***************************************************************************)
EXTENDS Integers, FiniteSets, Functions

CONSTANTS
  Episodes,     \* episode ids: the target is podcasts/<slug>/episodes/<id>-original.mp3
  Staged,       \* basenames: the target is import-staging/<slug>/<basename>
  EntryOf,      \* the episode that the name of a staged file stands for
  Stocked,      \* the targets that have audio at the start
  Procs,        \* incarnations of a worker: pid and start time
  Ids,          \* reservations; also the audio each upload brings
  MaxGeneration,  \* bound: imports and clears of staging are asked for below it
  NoFile, NoProc, NoId

ASSUME UploadAssumption ==
  /\ EntryOf \in [Staged -> Episodes]
  /\ Episodes \cap Staged = {}
  /\ Stocked \subseteq Episodes \cup Staged
  /\ MaxGeneration \in Nat
  /\ NoProc \notin Procs
  /\ NoId \notin Ids \cup Procs /\ Ids \cap Procs = {}
  /\ Ids \cap (Episodes \cup Staged) = {}
  /\ NoFile \notin Ids \cup Episodes \cup Staged

VARIABLES
  row,          \* the upload_reservations row of each id
  final,        \* the file at each target
  part,         \* the temporary file of each single or staging upload
  backup,       \* the file a publication set aside
  episode,      \* the audio the episodes row describes; NoFile without a row
  at,           \* where the handler of each reservation is
  req,          \* the request of each process that is reserving
  rec,          \* the recovery under way in each process
  job,          \* what the importing thread, if any, was started with
  lock,         \* holder of the per-feed import flock: an upload or a process
  generation,   \* <slug>.generation.json
  live,         \* the processes that have not died
  strayed,      \* history: targets whose file a recovery took or put back when it was
                \* not its own, or was about to be imported
  stranded      \* history: episodes without a row where a recovery left the file of an
                \* import, whose source had been staged anew

files == <<final, part, backup>>
uploadVars == <<row, files, episode, at, req, rec, job, lock, generation, live, strayed, stranded>>

Targets == Episodes \cup Staged
Content == Ids \cup Targets \cup {NoFile}   \* a target's first audio has its name
ActiveUpload == {"reserved", "prepared", "publishing"}
Ops == {"individual", "staging", "import"}
Phases == {"none", "reserved", "prepared", "begun", "backedUp", "moved",
           "bumped", "committed", "undoMove", "undoBackup", "unlink", "fail", "failing", "done"}

\* A row: was is recovery_state, temp and backup say that a name is recorded.  source
\* is the staged file of an import, its temp_name.  audio is history: what it brings.
NoRow == [state |-> "unused", op |-> "individual", target |-> NoFile, source |-> NoFile,
          owner |-> NoProc, was |-> "none", temp |-> FALSE, backup |-> FALSE,
          audio |-> NoFile]
\* A plan: the staged files a scan saw, those it commits, and, as history, the uploads
\* published then.
NoPlan == [seen |-> [s \in Staged |-> NoFile], entries |-> {}, gen |-> 0,
           overwrite |-> FALSE, published |-> {}]
NoRequest == [phase |-> "idle", plan |-> NoPlan]
NoRecovery == [why |-> "none", todo |-> {}, on |-> NoId, step |-> "none"]
NoJob == [plan |-> NoPlan, ids |-> {}, swept |-> FALSE]

UploadInit ==
  /\ row = [r \in Ids |-> NoRow]
  /\ final = [t \in Targets |-> IF t \in Stocked THEN t ELSE NoFile]
  /\ part = [r \in Ids |-> NoFile]
  /\ backup = [r \in Ids |-> NoFile]
  /\ episode = [e \in Episodes |-> final[e]]
  /\ at = [r \in Ids |-> "none"]
  /\ req = [p \in Procs |-> NoRequest]
  /\ rec = [p \in Procs |-> NoRecovery]
  /\ job = NoJob
  /\ lock = NoId
  /\ generation = 0
  /\ live = Procs
  /\ strayed = {}
  /\ stranded = {}

Active(r) == row[r].state \in ActiveUpload
Unused == {r \in Ids : row[r].state = "unused"}
Held(t) == \E r \in Ids : Active(r) /\ row[r].target = t

\* BEGIN IMMEDIATE takes SQLite's write lock: while a publication is between its
\* ownership check and its commit, no other write of the database happens.
WriterFree == \A r \in Ids : at[r] \notin {"backedUp", "moved", "bumped"}

\* The audio an import moves is the staged file itself; an upload's is its temporary file.
SourceOf(r) == IF row[r].op = "import" THEN final[row[r].source] ELSE part[r]

-----------------------------------------------------------------------------
(* The reaper: first half of every reservation request, and of a commit.    *)

\* _owner_dead: no process has the pid, or one with another start time.
OwnerDead(r) == row[r].owner \notin live

\* Rows _reap_upload_reservations claims for p: of dead owners, and those p itself
\* claimed earlier and did not finish.
Claimable(p) ==
  {r \in Ids : /\ Active(r)
               /\ \/ row[r].was # "none" /\ row[r].owner = p
                  \/ OwnerDead(r)}

\* Claiming keeps the target reserved: the row is publishing until the files are back.
ClaimedBy(p, rs) ==
  [r \in Ids |->
     IF r \notin rs THEN row[r]
     ELSE [row[r] EXCEPT !.state = "publishing", !.owner = p,
                         !.was = IF @ # "none" THEN @ ELSE row[r].state]]

\* What a reap removes besides, whoever owned it: the backups of published rows and the
\* temporary files of failed ones.
KeptBackups == {r \in Ids : row[r].state = "published" /\ row[r].backup}
FailedTemps == {r \in Ids : row[r].state = "failed" /\ row[r].op # "import" /\ row[r].temp}

\* _reap_upload_reservations begins, under _UPLOAD_RECOVERY_LOCK: one recovery at a
\* time in a process.
Reap(p) ==
  /\ WriterFree /\ rec[p] = NoRecovery
  /\ rec' = IF Claimable(p) \cup KeptBackups \cup FailedTemps = {} THEN rec
             ELSE [rec EXCEPT ![p] = [NoRecovery EXCEPT !.why = "reap", !.todo = Claimable(p)]]
  /\ row' = ClaimedBy(p, Claimable(p))

\* A single or a staging upload arrives: its reservation starts with a reap.  (A request
\* that has nothing to reap, when Ids are used up, would change nothing: left out.)
AskUpload(p) ==
  /\ p \in live /\ req[p].phase = "idle"
  /\ Claimable(p) \cup KeptBackups \cup FailedTemps \cup Unused # {}
  /\ Reap(p)
  /\ req' = [req EXCEPT ![p].phase = "upload"]
  /\ UNCHANGED <<files, episode, at, job, lock, generation, live, strayed, stranded>>

\* build_import_plan: files that stand for the same episode are errors, all of them.
SoleFile(s) == \A x \in Staged \ {s} : EntryOf[x] = EntryOf[s] => final[x] = NoFile

\* The operator sends the plan of a scan.  scan_import read the directory under the
\* import lock; commit_import has read it again and found the same hash, which covers
\* the files, the overwrite flag and the generation.  An entry whose episode exists
\* takes part only when it may overwrite.
AskCommit(p, overwrite) ==
  /\ p \in live /\ req[p].phase = "idle" /\ lock = NoId /\ generation < MaxGeneration
  /\ req' = [req EXCEPT ![p] =
       [phase |-> "asked",
        plan |-> [seen |-> [s \in Staged |-> final[s]], gen |-> generation,
                  entries |-> {s \in Staged : /\ final[s] # NoFile /\ SoleFile(s)
                                              /\ overwrite \/ episode[EntryOf[s]] = NoFile},
                  overwrite |-> overwrite,
                  published |-> {r \in Ids : row[r].state = "published"}]]]
  /\ UNCHANGED <<row, files, episode, at, rec, job, lock, generation, live, strayed, stranded>>

\* Mutant: the generation is not looked at again once the lock is held.
Mut_StartCommit(p) ==
  /\ p \in live /\ req[p].phase = "asked" /\ lock = NoId
  /\ Reap(p)
  /\ lock' = p
  /\ req' = [req EXCEPT ![p].phase = "import"]
  /\ UNCHANGED <<files, episode, at, job, generation, live, strayed, stranded>>

\* start_commit up to its reservations: the import lock, the generation, the reap.
StartCommit(p) ==
  /\ p \in live /\ req[p].phase = "asked" /\ lock = NoId
  /\ req[p].plan.gen = generation
  /\ Reap(p)
  /\ lock' = p
  /\ req' = [req EXCEPT ![p].phase = "import"]
  /\ UNCHANGED <<files, episode, at, job, generation, live, strayed, stranded>>

\* start_commit refuses: somebody holds the lock, staged files changed, or the disk is
\* too full, which may be at any time.
CommitRefused(p) ==
  /\ p \in live /\ req[p].phase = "asked"
  /\ req' = [req EXCEPT ![p] = NoRequest]
  /\ UNCHANGED <<row, files, episode, at, rec, job, lock, generation, live, strayed, stranded>>

\* Where the recovery of a claimed row begins: what its state before the claim calls for.
FirstStep(r) ==
  CASE row[r].was = "reserved" -> "mark"
    [] row[r].was = "prepared" -> "discard"
    [] OTHER -> "unpublish"

\* p is at this step of the recovery of r; it takes its rows one after the other.
Recovering(p, r, step) ==
  /\ p \in live
  /\ \/ rec[p].on = r /\ rec[p].step = step
     \/ rec[p].on = NoId /\ r \in rec[p].todo /\ step = FirstStep(r)

NextStep(p, r, step) ==
  rec' = [rec EXCEPT ![p].on = r, ![p].step = step, ![p].todo = @ \ {r}]

\* A prepared upload has only its temporary file; an import's source is the operator's.
Discard(p, r) ==
  /\ Recovering(p, r, "discard")
  /\ part' = IF row[r].op # "import" /\ row[r].temp
             THEN [part EXCEPT ![r] = NoFile] ELSE part
  /\ NextStep(p, r, "mark")
  /\ UNCHANGED <<row, final, backup, episode, at, req, job, lock, generation, live,
                 strayed, stranded>>

\* An import has compared this staged file with its plan and is about to move it.
BeingImported(t) ==
  \E r \in Ids : row[r].source = t /\ at[r] \in {"prepared", "begun", "backedUp"}

\* A publishing one: when the target exists and the source does not, the file at the
\* target is taken for the upload's own and moved back to the source.
Unpublish(p, r) ==
  LET t == row[r].target
      back == final[t] # NoFile /\ SourceOf(r) = NoFile
  IN
  /\ Recovering(p, r, "unpublish")
  /\ final' = IF ~back THEN final
              ELSE IF row[r].op = "import"
                   THEN [final EXCEPT ![row[r].source] = final[t], ![t] = NoFile]
                   ELSE [final EXCEPT ![t] = NoFile]
  /\ part' = IF back /\ row[r].op # "import" THEN [part EXCEPT ![r] = final[t]] ELSE part
  /\ strayed' = IF back /\ (final[t] # row[r].audio \/ BeingImported(t))
                THEN strayed \cup {t} ELSE strayed
  /\ stranded' = IF row[r].op = "import" /\ SourceOf(r) # NoFile
                    /\ t \in Episodes /\ episode[t] = NoFile /\ final[t] # NoFile
                 THEN stranded \cup {t} ELSE stranded
  /\ NextStep(p, r, "restore")
  /\ UNCHANGED <<row, backup, episode, at, req, job, lock, generation, live>>

\* Mutant: what the publication set aside is not put back.
Mut_Restore(p, r) ==
  /\ Recovering(p, r, "restore")
  /\ backup' = [backup EXCEPT ![r] = NoFile]
  /\ NextStep(p, r, "mark")
  /\ UNCHANGED <<row, final, part, episode, at, req, job, lock, generation, live,
                 strayed, stranded>>

\* Then the backup, when there is one, goes back to the target.
Restore(p, r) ==
  /\ Recovering(p, r, "restore")
  /\ final' = IF backup[r] = NoFile THEN final
              ELSE [final EXCEPT ![row[r].target] = backup[r]]
  /\ backup' = [backup EXCEPT ![r] = NoFile]
  /\ strayed' = IF backup[r] # NoFile /\ BeingImported(row[r].target)
                THEN strayed \cup {row[r].target} ELSE strayed
  /\ NextStep(p, r, "mark")
  /\ UNCHANGED <<row, part, episode, at, req, job, lock, generation, live, stranded>>

\* The recovery of r by p ends; the handler that was waiting for it, if any, goes on.
EndRow(p, r) ==
  /\ rec' = [rec EXCEPT ![p].on = NoId, ![p].step = "none", ![p].todo = @ \ {r}]
  /\ at' = [at EXCEPT ![r] = IF @ = "failing" THEN "done" ELSE @]

\* Mutant: a recovered row gets a state of its own.
Mut_MarkFailed(p, r) ==
  /\ Recovering(p, r, "mark") /\ WriterFree
  /\ row' = [row EXCEPT ![r].state = "released", ![r].was = "none"]
  /\ EndRow(p, r)
  /\ UNCHANGED <<files, episode, req, job, lock, generation, live, strayed, stranded>>

\* The files are back: the row fails, and the target is free.
MarkFailed(p, r) ==
  /\ Recovering(p, r, "mark") /\ WriterFree
  /\ row' = [row EXCEPT ![r].state = "failed", ![r].was = "none"]
  /\ IF row[r].op # "import" /\ row[r].temp
     THEN NextStep(p, r, "clean") /\ UNCHANGED at
     ELSE EndRow(p, r)
  /\ UNCHANGED <<files, episode, req, job, lock, generation, live, strayed, stranded>>

\* _cleanup_terminal_temp.
CleanTemp(p, r) ==
  /\ Recovering(p, r, "clean") /\ WriterFree
  /\ part' = [part EXCEPT ![r] = NoFile]
  /\ row' = [row EXCEPT ![r].temp = FALSE]
  /\ EndRow(p, r)
  /\ UNCHANGED <<final, backup, episode, req, job, lock, generation, live, strayed, stranded>>

\* A rename or an unlink fails: the row stays claimed by p, for its next reap.
RowFails(p, r) ==
  /\ \E step \in {"discard", "unpublish", "restore", "clean"} : Recovering(p, r, step)
  /\ EndRow(p, r)
  /\ UNCHANGED <<row, files, episode, req, job, lock, generation, live, strayed, stranded>>

\* A reap ends with the leftovers.
EndReap(p) ==
  /\ p \in live /\ rec[p].why = "reap" /\ rec[p].todo = {} /\ rec[p].on = NoId /\ WriterFree
  /\ backup' = [r \in Ids |-> IF r \in KeptBackups THEN NoFile ELSE backup[r]]
  /\ part' = [r \in Ids |-> IF r \in FailedTemps THEN NoFile ELSE part[r]]
  /\ row' = [r \in Ids |-> [row[r] EXCEPT !.backup = @ /\ r \notin KeptBackups,
                                          !.temp = @ /\ r \notin FailedTemps]]
  /\ rec' = [rec EXCEPT ![p] = NoRecovery]
  /\ UNCHANGED <<final, episode, at, req, job, lock, generation, live, strayed, stranded>>

EndFail(p) ==
  /\ p \in live /\ rec[p].why = "fail" /\ rec[p].todo = {} /\ rec[p].on = NoId
  /\ rec' = [rec EXCEPT ![p] = NoRecovery]
  /\ UNCHANGED <<row, files, episode, at, req, job, lock, generation, live, strayed, stranded>>

\* A transaction of the recovery raises: the rows stay claimed.  A reap takes its
\* request with it, and a commit that was starting releases the lock.
RecoveryRaises(p) ==
  LET reaps == rec[p].why = "reap" IN
  /\ p \in live /\ rec[p] # NoRecovery
  /\ rec' = [rec EXCEPT ![p] = NoRecovery]
  /\ req' = IF reaps THEN [req EXCEPT ![p] = NoRequest] ELSE req
  /\ lock' = IF reaps /\ req[p].phase = "import" THEN NoId ELSE lock
  /\ at' = [r \in Ids |-> IF at[r] = "failing" /\ row[r].owner = p THEN "done" ELSE at[r]]
  /\ UNCHANGED <<row, files, episode, job, generation, live, strayed, stranded>>

-----------------------------------------------------------------------------
(* Reservations: the second half of the request, one transaction.           *)

\* The reap of the request is over.
Reserving(p, phase) ==
  p \in live /\ req[p].phase = phase /\ rec[p].why # "reap" /\ WriterFree

NewRow(p, o, t, s, c) ==
  [NoRow EXCEPT !.state = "reserved", !.op = o, !.target = t, !.source = s, !.owner = p,
                !.audio = c]

ReserveUpload(p, r, o, t) ==
  /\ Reserving(p, "upload") /\ r \in Unused /\ ~Held(t)
  /\ row' = [row EXCEPT ![r] = NewRow(p, o, t, NoFile, r)]
  /\ at' = [at EXCEPT ![r] = "reserved"]
  /\ req' = [req EXCEPT ![p] = NoRequest]
  /\ UNCHANGED <<files, episode, rec, job, lock, generation, live, strayed, stranded>>

\* reserve_episode_uploads and reserve_next_episode_upload for a single upload: no
\* active reservation of the target and no episodes row.
ReserveEpisode(p, r, e) == episode[e] = NoFile /\ ReserveUpload(p, r, "individual", e)

\* reserve_staging_upload: only an active upload of the same basename refuses it.
ReserveStaged(p, r, s) == ReserveUpload(p, r, "staging", s)

\* The request finds its target taken.
UploadRefused(p) ==
  /\ Reserving(p, "upload")
  /\ \/ \E t \in Targets : Held(t)
     \/ \E e \in Episodes : episode[e] # NoFile
     \/ Unused = {}
  /\ req' = [req EXCEPT ![p] = NoRequest]
  /\ UNCHANGED <<row, files, episode, at, rec, job, lock, generation, live, strayed, stranded>>

\* reserve_episode_uploads finds the target of an entry taken: by an active reservation,
\* or by an episode, when the plan does not overwrite.
Conflict(plan, s) ==
  Held(EntryOf[s]) \/ (episode[EntryOf[s]] # NoFile /\ ~plan.overwrite)

\* start_commit takes one reservation per entry, all of them or none, and starts the
\* thread, which holds the lock from here on.
ReserveEntries(p) ==
  LET plan == req[p].plan
      new == plan.entries
  IN
  /\ Reserving(p, "import")
  /\ \A s \in new : ~Conflict(plan, s)
  /\ \E id \in Injection(new, Unused) :
       /\ job' = [NoJob EXCEPT !.plan = plan, !.ids = {id[s] : s \in new}]
       /\ row' = [r \in Ids |->
                    IF \E s \in new : id[s] = r
                    THEN LET s == CHOOSE x \in new : id[x] = r
                         IN NewRow(p, "import", EntryOf[s], s, plan.seen[s])
                    ELSE row[r]]
       /\ at' = [r \in Ids |-> IF \E s \in new : id[s] = r THEN "reserved" ELSE at[r]]
  /\ req' = [req EXCEPT ![p] = NoRequest]
  /\ UNCHANGED <<files, episode, rec, lock, generation, live, strayed, stranded>>

\* One entry's target is taken (or Ids are used up): nothing is reserved, and the lock
\* is released.
EntriesRefused(p) ==
  LET plan == req[p].plan IN
  /\ Reserving(p, "import")
  /\ \/ \E s \in plan.entries : Conflict(plan, s)
     \/ Cardinality(plan.entries) > Cardinality(Unused)
  /\ req' = [req EXCEPT ![p] = NoRequest]
  /\ lock' = NoId
  /\ UNCHANGED <<row, files, episode, at, rec, job, generation, live, strayed, stranded>>

-----------------------------------------------------------------------------
(* Publication: the handler of a reservation.                               *)

Handler(r, phase) == at[r] = phase /\ row[r].owner \in live
Goto(r, phase) == at' = [at EXCEPT ![r] = phase]

\* prepare_upload_reservation and upload.save.
Prepare(r) ==
  /\ Handler(r, "reserved") /\ row[r].op # "import" /\ WriterFree
  /\ row' = [row EXCEPT ![r].state = "prepared", ![r].temp = TRUE]
  /\ part' = [part EXCEPT ![r] = r]
  /\ Goto(r, "prepared")
  /\ UNCHANGED <<final, backup, episode, req, rec, job, lock, generation, live, strayed, stranded>>

\* Mutant: the staged file is not compared with the one the scan saw.
Mut_PrepareEntry(r) ==
  /\ Handler(r, "reserved") /\ row[r].op = "import" /\ WriterFree
  /\ final[row[r].source] # NoFile
  /\ episode[row[r].target] # NoFile => job.plan.overwrite
  /\ row' = [row EXCEPT ![r].state = "prepared", ![r].temp = TRUE]
  /\ Goto(r, "prepared")
  /\ UNCHANGED <<files, episode, req, rec, job, lock, generation, live, strayed, stranded>>

\* _commit_entry up to its prepare: size and mtime are those of the scan, and the
\* episode may be replaced.
PrepareEntry(r) ==
  /\ Handler(r, "reserved") /\ row[r].op = "import" /\ WriterFree
  /\ final[row[r].source] = row[r].audio
  /\ episode[row[r].target] # NoFile => job.plan.overwrite
  /\ row' = [row EXCEPT ![r].state = "prepared", ![r].temp = TRUE]
  /\ Goto(r, "prepared")
  /\ UNCHANGED <<files, episode, req, rec, job, lock, generation, live, strayed, stranded>>

\* Mutant: the name of the backup is not recorded before the rename.
Mut_BeginPublication(r) ==
  /\ Handler(r, "prepared") /\ WriterFree
  /\ row[r].op = "staging" => lock = NoId
  /\ lock' = IF row[r].op = "staging" THEN r ELSE lock
  /\ row' = [row EXCEPT ![r].state = "publishing"]
  /\ Goto(r, "begun")
  /\ UNCHANGED <<files, episode, req, rec, job, generation, live, strayed, stranded>>

\* begin_upload_publication; a staging upload first takes the import lock.
BeginPublication(r) ==
  /\ Handler(r, "prepared") /\ WriterFree
  /\ row[r].op = "staging" => lock = NoId
  /\ lock' = IF row[r].op = "staging" THEN r ELSE lock
  /\ row' = [row EXCEPT ![r].state = "publishing", ![r].backup = TRUE]
  /\ Goto(r, "begun")
  /\ UNCHANGED <<files, episode, req, rec, job, generation, live, strayed, stranded>>

\* The transaction opens, the reservation is still ours, and the file at the target, if
\* any, is set aside.
BackUp(r) ==
  LET t == row[r].target IN
  /\ Handler(r, "begun") /\ WriterFree
  /\ row[r].state = "publishing"
  /\ backup' = [backup EXCEPT ![r] = final[t]]
  /\ final' = [final EXCEPT ![t] = NoFile]
  /\ Goto(r, "backedUp")
  /\ UNCHANGED <<row, part, episode, req, rec, job, lock, generation, live, strayed, stranded>>

\* The new file is moved in.
MoveIn(r) ==
  LET t == row[r].target IN
  /\ Handler(r, "backedUp") /\ SourceOf(r) # NoFile
  /\ IF row[r].op = "import"
     THEN /\ final' = [final EXCEPT ![t] = SourceOf(r), ![row[r].source] = NoFile]
          /\ UNCHANGED part
     ELSE /\ final' = [final EXCEPT ![t] = part[r]]
          /\ part' = [part EXCEPT ![r] = NoFile]
  /\ Goto(r, "moved")
  /\ UNCHANGED <<row, backup, episode, req, rec, job, lock, generation, live, strayed, stranded>>

\* bump_staging_generation.
Bump(r) ==
  /\ Handler(r, "moved") /\ row[r].op = "staging"
  /\ generation' = generation + 1
  /\ Goto(r, "bumped")
  /\ UNCHANGED <<row, files, episode, req, rec, job, lock, live, strayed, stranded>>

\* The episodes row and the published state commit together.
Commit(r) ==
  LET t == row[r].target IN
  /\ Handler(r, IF row[r].op = "staging" THEN "bumped" ELSE "moved")
  /\ row' = [row EXCEPT ![r].state = "published"]
  /\ episode' = IF t \in Episodes THEN [episode EXCEPT ![t] = final[t]] ELSE episode
  /\ Goto(r, "committed")
  /\ UNCHANGED <<final, part, backup, req, rec, job, lock, generation, live, strayed, stranded>>

\* The backup is removed (an import leaves its name for the reaper), and a staging
\* upload releases the lock.
DropBackup(r) ==
  /\ Handler(r, "committed") /\ WriterFree
  /\ backup' = [backup EXCEPT ![r] = NoFile]
  /\ row' = [row EXCEPT ![r].backup = @ /\ row[r].op = "import"]
  /\ lock' = IF lock = r THEN NoId ELSE lock
  /\ Goto(r, "done")
  /\ UNCHANGED <<final, part, episode, req, rec, job, generation, live, strayed, stranded>>

\* Anything may raise before the commit: the upload is not audio, the lock is taken,
\* the database is busy, a rename fails.  Inside the transaction the database rolls
\* back and the handler undoes its renames.
HandlerFails(r) ==
  /\ \E phase \in {"reserved", "prepared", "begun", "backedUp", "moved", "bumped"} :
       Handler(r, phase)
  /\ Goto(r, CASE at[r] \in {"moved", "bumped"} -> "undoMove"
               [] at[r] = "backedUp" -> "undoBackup"
               [] OTHER -> "unlink")
  /\ UNCHANGED <<row, files, episode, req, rec, job, lock, generation, live, strayed, stranded>>

UndoMove(r) ==
  LET t == row[r].target IN
  /\ Handler(r, "undoMove")
  /\ IF row[r].op = "import"
     THEN /\ final' = [final EXCEPT ![row[r].source] = final[t], ![t] = NoFile]
          /\ UNCHANGED part
     ELSE /\ part' = [part EXCEPT ![r] = final[t]]
          /\ final' = [final EXCEPT ![t] = NoFile]
  /\ Goto(r, "undoBackup")
  /\ UNCHANGED <<row, backup, episode, req, rec, job, lock, generation, live, strayed, stranded>>

UndoBackup(r) ==
  LET t == row[r].target IN
  /\ Handler(r, "undoBackup")
  /\ final' = IF backup[r] = NoFile THEN final ELSE [final EXCEPT ![t] = backup[r]]
  /\ backup' = [backup EXCEPT ![r] = NoFile]
  /\ Goto(r, "unlink")
  /\ UNCHANGED <<row, part, episode, req, rec, job, lock, generation, live, strayed, stranded>>

\* The finally block of the two uploads: the lock is released and the temporary file
\* removed.  An import has neither.
Unlink(r) ==
  /\ Handler(r, "unlink")
  /\ part' = [part EXCEPT ![r] = NoFile]
  /\ lock' = IF lock = r THEN NoId ELSE lock
  /\ Goto(r, "fail")
  /\ UNCHANGED <<row, final, backup, episode, req, rec, job, generation, live, strayed, stranded>>

\* fail_upload_reservation: claim the row, then the same recovery as the reaper's; a row
\* that a reap has failed already is left alone.
Fail(r) ==
  LET p == row[r].owner IN
  /\ Handler(r, "fail") /\ WriterFree /\ rec[p] = NoRecovery
  /\ IF Active(r)
     THEN /\ row' = ClaimedBy(p, {r})
          /\ Goto(r, "failing")
          /\ rec' = [rec EXCEPT ![p] = [NoRecovery EXCEPT !.why = "fail", !.todo = {r}]]
     ELSE Goto(r, "done") /\ UNCHANGED <<row, rec>>
  /\ UNCHANGED <<files, episode, req, job, lock, generation, live, strayed, stranded>>

-----------------------------------------------------------------------------
(* The end of an import, the operator, and death.                           *)

\* The thread has dealt with every entry, and _commit_entries sweeps: what is left in
\* staging goes, but for the files of skipped and of failed entries.  When an entry could
\* not even be failed, the exception may skip the sweep.  _run_commit then fails what is
\* still active once more.  (Entries are handled in turn; here, in any order.)
SweepStaging(p, sweeps) ==
  LET committed == {row[r].source : r \in {x \in job.ids : row[x].state = "published"}}
      spared == {s \in Staged : job.plan.seen[s] # NoFile /\ s \notin committed}
  IN
  /\ p \in live /\ lock = p /\ req[p].phase # "import" /\ ~job.swept
  /\ \A r \in job.ids : at[r] = "done"
  /\ sweeps \/ \E r \in job.ids : Active(r)
  /\ final' = [t \in Targets |-> IF sweeps /\ t \in Staged \ spared THEN NoFile ELSE final[t]]
  /\ generation' = IF sweeps THEN generation + 1 ELSE generation
  /\ job' = [job EXCEPT !.swept = TRUE]
  /\ at' = [r \in Ids |-> IF r \in job.ids /\ Active(r) THEN "fail" ELSE at[r]]
  /\ UNCHANGED <<row, part, backup, episode, req, rec, lock, live, strayed, stranded>>

\* The thread ends, and with it the lock.
EndImport(p) ==
  /\ p \in live /\ lock = p /\ job.swept
  /\ \A r \in job.ids : at[r] = "done"
  /\ lock' = NoId
  /\ job' = NoJob
  /\ UNCHANGED <<row, files, episode, at, req, rec, generation, live, strayed, stranded>>

\* clear_import_staging.
ClearStaging ==
  /\ lock = NoId /\ live # {} /\ generation < MaxGeneration
  /\ final' = [t \in Targets |-> IF t \in Staged THEN NoFile ELSE final[t]]
  /\ generation' = generation + 1
  /\ UNCHANGED <<row, part, backup, episode, at, req, rec, job, lock, live, strayed, stranded>>

\* A process dies: its handlers, its recovery, its import and its flock go with it,
\* and SQLite rolls its transaction back.
Die(p) ==
  /\ p \in live
  /\ live # {p}
  /\ live' = live \ {p}
  /\ at' = [r \in Ids |-> IF row[r].owner = p THEN "none" ELSE at[r]]
  /\ req' = [req EXCEPT ![p] = NoRequest]
  /\ rec' = [rec EXCEPT ![p] = NoRecovery]
  /\ LET held == lock = p \/ (lock \in Ids /\ row[lock].owner = p)
     IN /\ lock' = IF held THEN NoId ELSE lock
        /\ job' = IF lock = p THEN NoJob ELSE job
  /\ UNCHANGED <<row, files, episode, generation, strayed, stranded>>

HandlerStep(r) ==
  \/ Prepare(r) \/ PrepareEntry(r) \/ BeginPublication(r)
  \/ BackUp(r) \/ MoveIn(r) \/ Bump(r) \/ Commit(r) \/ DropBackup(r)
  \/ UndoMove(r) \/ UndoBackup(r) \/ Unlink(r) \/ Fail(r)

RecoveryStep(p) ==
  \/ \E r \in Ids : \/ Discard(p, r) \/ Unpublish(p, r) \/ Restore(p, r)
                    \/ MarkFailed(p, r) \/ CleanTemp(p, r)
  \/ EndReap(p) \/ EndFail(p)

RequestStep(p) ==
  \/ StartCommit(p) \/ CommitRefused(p) \/ UploadRefused(p)
  \/ \E r \in Ids : \/ \E e \in Episodes : ReserveEpisode(p, r, e)
                    \/ \E s \in Staged : ReserveStaged(p, r, s)
  \/ ReserveEntries(p) \/ EntriesRefused(p)
  \/ \E sweeps \in BOOLEAN : SweepStaging(p, sweeps)
  \/ EndImport(p)

Failure ==
  \/ \E r \in Ids : HandlerFails(r)
  \/ \E p \in Procs : Die(p) \/ RecoveryRaises(p) \/ \E r \in Ids : RowFails(p, r)

UploadNext ==
  \/ \E p \in Procs : \/ AskUpload(p) \/ \E overwrite \in BOOLEAN : AskCommit(p, overwrite)
                      \/ RequestStep(p) \/ RecoveryStep(p)
  \/ \E r \in Ids : HandlerStep(r)
  \/ ClearStaging
  \/ Failure

UploadSpec == UploadInit /\ [][UploadNext]_uploadVars

-----------------------------------------------------------------------------
(* Properties.                                                              *)

Reservations ==
  [state : ActiveUpload \cup {"unused", "published", "failed"}, op : Ops,
   target : Targets \cup {NoFile}, source : Staged \cup {NoFile}, owner : Procs \cup {NoProc},
   was : ActiveUpload \cup {"none"}, temp : BOOLEAN, backup : BOOLEAN, audio : Content]
Plans == [seen : [Staged -> Content], entries : SUBSET Staged, gen : Nat,
          overwrite : BOOLEAN, published : SUBSET Ids]
Recoveries == [why : {"none", "reap", "fail"}, todo : SUBSET Ids, on : Ids \cup {NoId},
               step : {"none", "restore", "mark", "clean"}]

\* Types.
UploadTypeOK ==
  /\ row \in [Ids -> Reservations]
  /\ final \in [Targets -> Content]
  /\ part \in [Ids -> Content]
  /\ backup \in [Ids -> Content]
  /\ episode \in [Episodes -> Content]
  /\ at \in [Ids -> Phases]
  /\ req \in [Procs -> [phase : {"idle", "upload", "asked", "import"}, plan : Plans]]
  /\ rec \in [Procs -> Recoveries]
  /\ job \in [plan : Plans, ids : SUBSET Ids, swept : BOOLEAN]
  /\ lock \in {NoId} \cup Ids \cup Procs
  /\ generation \in Nat
  /\ live \subseteq Procs
  /\ strayed \subseteq Targets
  /\ stranded \subseteq Episodes

\* An episode nobody has reserved has the audio its row describes, or neither a row nor
\* audio: a publication that fails, or whose worker dies at any rename, leaves the old
\* pair, and the target stays reserved until it is back.  But for the files that
\* TakesOnlyItsOwn is about, and for the audio of an import that its recovery leaves at
\* an episode without a row, because a file of the same name has been staged since.
AudioMatchesRow ==
  \A e \in Episodes \ strayed :
    ~Held(e) => final[e] = episode[e] \/ (episode[e] = NoFile /\ e \in stranded)

\* Every temporary file with audio and every backup has its name in a row that a reaper
\* looks at: none is left behind unknown, wherever the worker died.  (The empty file
\* that mkstemp makes before its name is recorded is not part of the model.)
LeftoversNamed ==
  \A r \in Ids : /\ part[r] # NoFile => row[r].temp
                 /\ backup[r] # NoFile => row[r].backup /\ row[r].state \in {"publishing", "published"}

\* An import commits the file the operator saw in the scan, whatever uploads and
\* recoveries did to the staging directory in between.
ImportsWhatWasPlanned ==
  [][\A r \in Ids : row[r].op = "import" /\ row[r].state # "published"
                      /\ row'[r].state = "published" /\ row[r].source \notin strayed
                    => final[row[r].target] = row[r].audio]_uploadVars

\* The uploads that were published in the staging directory.
StagedUploads == {r \in Ids : row[r].op = "staging" /\ row[r].state = "published"}

\* The sweep at the end of an import never removes an upload that was staged after the
\* scan the operator reviewed.
SweepSparesNewUploads ==
  [][\A s \in Staged : job.swept # job'.swept /\ final'[s] # final[s]
                         /\ final[s] \in StagedUploads
                         => final[s] \in job.plan.published]_uploadVars

\* A recovery takes away only the file its reservation put there.
TakesOnlyItsOwn == strayed = {}
=============================================================================
