------------------------------ MODULE EpisodeFiles ------------------------------
(***************************************************************************)
(* What a processed episode is served from: the versioned audio files on   *)
(* disk, the episodes row that names one of them, the ad markers that are  *)
(* shown next to it, and the review decisions that wait for a recut.       *)
(*                                                                         *)
(* A run (processing.py, pipeline/recut.py, pipeline/finalize.py) renders  *)
(* into a fresh version, saves its markers, and only then points the row   *)
(* at the new file.  People record decisions meanwhile; apply settles the  *)
(* ones that change only chapters on a thread of its own; bulk deletion    *)
(* and the retention sweep unlink the files and reset the row.             *)
(*                                                                         *)
(* One episode, which has a transcript and a retained original.  The lease *)
(* is the one of ProcessingLease, here with one run of the episode at a    *)
(* time; why a run starts or ends is in EpisodeRun.                        *)
(***************************************************************************)
EXTENDS Integers, FiniteSets

CONSTANTS
  Runs,         \* run ids, each used once
  Decisions,    \* review decisions, each recorded once
  ChapterOnly,  \* those that change the chapters of the published audio, not its cut
  Sweepers,     \* deletions, each one pass
  MaxTime,      \* bound: the clock, in seconds, the resolution of the stamps
  MaxVersion,   \* bound: the versions rendered
  NoRun, NoRender

ASSUME FilesAssumption ==
  /\ ChapterOnly \subseteq Decisions
  /\ MaxTime \in Nat /\ MaxVersion \in Nat
  /\ NoRun \notin Runs

VARIABLES
  row,        \* the episodes row, and queued: it has an open auto_process_queue row
  fence,      \* episodes.deletion_requested_at is set
  audio,      \* the file at each version's path
  markers,    \* ad_markers_json: the render it describes
  decided,    \* decisions recorded in pattern_corrections
  stamped,    \* those whose request has stamped pending_recut_at, too
  lease,      \* processing_runs.state of each run
  th,         \* the thread of each run
  rebuild,    \* the ad-chapters-apply thread
  sweep,      \* where each deletion is, and whether it fences: bulk does, retention not
  now,        \* utc_now_iso
  exposed,    \* history: decisions stamped, or rebuilt, in a way that loses them
  torn,       \* history: markers left, or put back, beside another run's audio
  raced       \* history: a sweep was overtaken by a run or cut short

filesVars == <<row, fence, audio, markers, decided, stamped, lease, th, rebuild, sweep,
               now, exposed, torn, raced>>
history == <<exposed, torn, raced>>
decisionVars == <<decided, stamped, rebuild>>

None == -1   \* no pending_recut_at, no published version
Versions == 0..MaxVersion
Statuses == {"discovered", "pending", "processing", "processed", "failed"}
Modes == {"none", "full", "llm", "recut"}

\* What a file was rendered by and markers describe: the run, and whether in its own recut.
Render == [run : Runs \cup {NoRun}, again : BOOLEAN]
Legacy == [run |-> NoRun, again |-> FALSE]

\* A file: its render, and the decisions its cut and its chapters were made from.
Files == [by : Render, cut : SUBSET Decisions]

ASSUME RenderAssumption == NoRender \notin Files

Rows == [status : Statuses, version : Versions, published : BOOLEAN, requested : BOOLEAN,
         policy : BOOLEAN, mode : Modes, queued : BOOLEAN, stamp : 0..MaxTime \cup {None}]

\* The thread's locals.  snap and was are the row and the markers read at the start, cut
\* and more the corrections loaded by the run and by its own recut, next the version it
\* renders to, saved and out say that its markers are saved and published.
Places == {"none", "admitted", "begun", "working", "loaded", "rendered", "moved",
           "marked", "checked", "persisted", "cleared", "done"}
Snaps == [version : Versions, published : BOOLEAN, requested : BOOLEAN, policy : BOOLEAN,
          mode : Modes]
Threads == [at : Places, start : 0..MaxTime, snap : Snaps, was : Render \cup {NoRender},
            cut : SUBSET Decisions, more : SUBSET Decisions, next : Versions,
            again : {"no", "in", "tried"}, saved : BOOLEAN, out : BOOLEAN]

Snap(e) == [f \in {"version", "published", "requested", "policy", "mode"} |-> e[f]]

FirstRow(p) ==
  [status |-> IF p THEN "processed" ELSE "discovered", version |-> 0, published |-> p,
   requested |-> FALSE, policy |-> FALSE, mode |-> "none",
   queued |-> FALSE, stamp |-> None]

NoThread == [at |-> "none", start |-> 0, snap |-> Snap(FirstRow(FALSE)), was |-> NoRender,
             cut |-> {}, more |-> {}, next |-> 0, again |-> "no", saved |-> FALSE,
             out |-> FALSE]
NoRebuild == [at |-> "idle", stamp |-> None, seen |-> {}, version |-> 0, ok |-> FALSE]

FilesInit ==
  /\ \E p \in BOOLEAN :
       /\ row = FirstRow(p)
       /\ audio = [v \in Versions |-> IF p /\ v = 0 THEN [by |-> Legacy, cut |-> {}]
                                      ELSE NoRender]
       /\ markers = IF p THEN Legacy ELSE NoRender
  /\ th = [r \in Runs |-> NoThread]
  /\ fence = FALSE
  /\ decided = {} /\ stamped = {}
  /\ lease = [r \in Runs |-> "unused"]
  /\ rebuild = NoRebuild
  /\ sweep = [w \in Sweepers |-> [at |-> "idle", fences |-> FALSE]]
  /\ now = 0
  /\ exposed = {} /\ torn = FALSE /\ raced = FALSE

Active(r) == lease[r] \in {"running", "cancel_requested"}
Busy == \E r \in Runs : Active(r)
Owned(r) == lease[r] = "running"              \* what _check_cancel accepts
Recut(r) == th[r].snap.mode = "recut"
Sweeping(w) == sweep[w].at \in {"selected", "unlinked"}

\* published_episode_version, and _next_processed_version
Published(e) == IF e.published THEN e.version ELSE None
NextVersion(e) ==
  IF e.version > 0 \/ e.requested \/ e.published THEN e.version + 1 ELSE 0

\* What the thread is rendering, or has rendered
Own(r) == [run |-> r, again |-> th[r].again = "in"]
Cut(r) == IF th[r].again = "in" THEN th[r].more ELSE th[r].cut

-----------------------------------------------------------------------------
(* The run's thread                                                         *)

In(r, places) == th[r].at \in places
Goes(r, f) == th' = [th EXCEPT ![r] = f]
Runs_ == UNCHANGED <<fence, decisionVars, lease, sweep, now>>

\* acquire and the thread's start.  A served episode is run again on request only.
Admit(r) ==
  /\ lease[r] = "unused" /\ ~Busy /\ ~fence
  /\ row.status # "processing"
  /\ row.status = "processed" => row.requested
  /\ lease' = [lease EXCEPT ![r] = "running"]
  /\ Goes(r, [th[r] EXCEPT !.at = "admitted"])
  /\ raced' = (raced \/ \E w \in Sweepers : Sweeping(w))
  /\ UNCHANGED <<row, fence, audio, markers, decisionVars, sweep, now, exposed, torn>>

\* episode_at_start, start_time and episode_data
Begin(r) ==
  /\ In(r, {"admitted"}) /\ Owned(r)
  /\ Goes(r, [th[r] EXCEPT !.at = "begun", !.start = now, !.snap = Snap(row), !.was = markers])
  /\ Runs_ /\ UNCHANGED <<row, audio, markers, history>>

\* The upsert to 'processing'; an automatic llm rerun clears its markers only here.
MarkProcessing(r) ==
  /\ In(r, {"begun"}) /\ Owned(r)
  /\ row' = [row EXCEPT !.status = "processing"]
  /\ markers' = IF th[r].snap.policy /\ th[r].snap.mode = "llm" THEN NoRender ELSE markers
  /\ Goes(r, [th[r] EXCEPT !.at = "working"])
  /\ Runs_ /\ UNCHANGED <<audio, history>>

\* A full rerun drops the details row once it has its transcript.  The corrections are
\* read once; a recut reads them before its only render, and needs markers to cut.
LoadCorrections(r) ==
  /\ In(r, {"working"}) /\ th[r].again = "no" /\ Owned(r)
  /\ Recut(r) => th[r].was # NoRender
  /\ Goes(r, [th[r] EXCEPT !.at = IF Recut(r) THEN "rendered" ELSE "loaded",
                           !.cut = decided])
  /\ markers' = IF th[r].snap.mode = "full" THEN NoRender ELSE markers
  /\ Runs_ /\ UNCHANGED <<row, audio, history>>

\* Detection, review and the cut stages save their markers as they go.
SaveMidRun(r) ==
  /\ In(r, {"loaded"})
  /\ markers' = Own(r)
  /\ Goes(r, [th[r] EXCEPT !.at = "rendered", !.saved = TRUE])
  /\ Runs_ /\ UNCHANGED <<row, audio, history>>

\* The version, the owner check and the rename: a cancellation that lands after the check
\* is found before the row is written, as one after the rename is ...
Move(r) ==
  LET v == IF Recut(r) THEN th[r].snap.version + 1
           ELSE IF th[r].again = "in" THEN row.version + 1 ELSE NextVersion(row)
  IN  /\ In(r, {"rendered"}) /\ Owned(r)
      /\ v \in Versions
      /\ audio' = [audio EXCEPT ![v] = [by |-> Own(r), cut |-> Cut(r)]]
      /\ Goes(r, [th[r] EXCEPT !.at = "moved", !.next = v])
      /\ Runs_ /\ UNCHANGED <<row, markers, history>>

\* ... the assets, and the markers as rendered.
SaveMarkers(r) ==
  /\ In(r, {"moved"})
  /\ markers' = Own(r)
  /\ Goes(r, [th[r] EXCEPT !.at = "marked", !.saved = TRUE])
  /\ Runs_ /\ UNCHANGED <<row, audio, history>>

\* A run that files approvals of its own recuts before it publishes: _recut_episode with
\* owns_failure False, which marks the episode as processing and loads the corrections.
BeginOwnRecut(r) ==
  /\ In(r, {"marked"}) /\ th[r].again = "no" /\ ~Recut(r) /\ Owned(r)
  /\ row' = [row EXCEPT !.status = "processing"]
  /\ Goes(r, [th[r] EXCEPT !.at = "working", !.again = "in", !.more = th[r].cut])
  /\ Runs_ /\ UNCHANGED <<audio, markers, history>>

LoadForOwnRecut(r) ==
  /\ In(r, {"working"}) /\ th[r].again = "in" /\ Owned(r)
  /\ Goes(r, [th[r] EXCEPT !.at = "rendered", !.more = decided])
  /\ Runs_ /\ UNCHANGED <<row, audio, markers, history>>

\* It fails before it has overwritten anything: the run publishes its own render.
OwnRecutFallsBack(r) ==
  /\ In(r, {"working", "rendered"}) /\ th[r].again = "in" /\ Owned(r)
  /\ Goes(r, [th[r] EXCEPT !.at = "marked", !.again = "tried"])
  /\ Runs_ /\ UNCHANGED <<row, audio, markers, history>>

-----------------------------------------------------------------------------
(* Publication: _persist_episode_state                                      *)

CheckOwner(r) ==
  /\ In(r, {"marked"}) /\ Owned(r)
  /\ Goes(r, [th[r] EXCEPT !.at = "checked"])
  /\ Runs_ /\ UNCHANGED <<row, audio, markers, history>>

Persist(r) ==
  /\ In(r, {"checked"})
  /\ row' = [row EXCEPT !.status = "processed", !.version = th[r].next, !.published = TRUE,
                        !.requested = FALSE, !.policy = FALSE, !.mode = "none"]
  /\ torn' = FALSE
  /\ Goes(r, [th[r] EXCEPT !.at = "persisted"])
  /\ Runs_ /\ UNCHANGED <<audio, markers, exposed, raced>>

\* clear_episode_pending_recut
Clear(before) == IF row.stamp <= before THEN None ELSE row.stamp

\* Only a stamp from before the run began: its second is the last that counts.
ClearStamp(r) ==
  /\ In(r, {"persisted"})
  /\ row' = [row EXCEPT !.stamp = Clear(th[r].start)]
  /\ Goes(r, [th[r] EXCEPT !.at = "cleared"])
  /\ Runs_ /\ UNCHANGED <<audio, markers, history>>

\* cleanup_stale_audio_versions, close_queue_rows_for_episode and on_persisted
CleanStale(r) ==
  /\ In(r, {"cleared"})
  /\ audio' = [v \in Versions |-> IF th[r].next = 0 \/ v = th[r].next THEN audio[v]
                                  ELSE NoRender]
  /\ row' = [row EXCEPT !.queued = FALSE]
  /\ Goes(r, [th[r] EXCEPT !.at = "done", !.out = TRUE])
  /\ Runs_ /\ UNCHANGED <<markers, history>>

Ends(r) ==
  /\ lease' = [lease EXCEPT ![r] = "ended"]
  /\ Goes(r, NoThread)

\* The run is over; one of low yield queues a rerun of the episode, which stays served.
Complete(r, rerun) ==
  /\ In(r, {"done"}) /\ Owned(r)
  /\ row' = IF rerun THEN [row EXCEPT !.requested = TRUE, !.policy = TRUE, !.mode = "llm",
                                     !.queued = TRUE]
            ELSE row
  /\ Ends(r)
  /\ UNCHANGED <<fence, audio, markers, decisionVars, sweep, now, history>>

-----------------------------------------------------------------------------
(* The run ends without publishing, or after it has                         *)

\* Mutant: the markers are put back although the row already names the new audio.
Mut_PutsBack(r, cancelled) ==
  /\ th[r].was # NoRender
  /\ Recut(r) => th[r].saved /\ ~cancelled

\* _restore_saved_markers: the run's handler calls it unless it knows its markers to be
\* published, the one of a recut only for an error after it has saved them.  The caller
\* of an own recut that was cancelled does not know whether it had published.
PutsBack(r, cancelled) ==
  /\ th[r].was # NoRender
  /\ IF Recut(r) THEN th[r].saved /\ ~th[r].out /\ ~cancelled
     ELSE ~th[r].out \/ (cancelled /\ th[r].again = "in")

Rolled(r, cancelled) == IF PutsBack(r, cancelled) THEN th[r].was ELSE markers

\* The ways in which that leaves the markers of one run beside the audio of another:
\* there is nothing to put back, since a requested llm rerun clears the markers when it
\* is requested; a recut is cancelled after it saved them; the run fails, or its own
\* recut is cancelled, after the row was written and before it knows.
Tears(r, cancelled) ==
  \/ th[r].saved /\ ~th[r].out /\ th[r].was = NoRender
  \/ Recut(r) /\ cancelled /\ th[r].saved /\ ~th[r].out
  \/ ~cancelled /\ In(r, {"persisted"})
  \/ cancelled /\ th[r].again = "in" /\ th[r].out

\* An exception, and _handle_processing_failure, which checks the owner first.
Fail(r) ==
  /\ In(r, {"begun", "working", "loaded", "rendered", "moved", "marked", "checked",
            "persisted", "done"}) /\ Owned(r)
  /\ ~(th[r].again = "in" /\ In(r, {"working", "rendered"}))
  /\ markers' = Rolled(r, FALSE)
  /\ torn' = (torn \/ Tears(r, FALSE))
  /\ row' = [row EXCEPT !.status = "failed", !.queued = FALSE]
  /\ Ends(r)
  /\ UNCHANGED <<fence, audio, decisionVars, sweep, now, exposed, raced>>

\* _cleanup_cancelled_processing_output, for the row s that the thread read first: it
\* takes the version it expects the run to have written, or every file when nothing was
\* ever published, and leaves all alone when the row is not what it expects.
KeepsRow(s) == Published(row) = NextVersion(s)

\* Mutant: the replacement goes although the row already names it.
Mut_Leavings(s) == {NextVersion(s)}

Leavings(s) ==
  LET before == Published(s)
      after == Published(row)
  IN  IF KeepsRow(s) \/ (before # None /\ after = None) \/ after \notin {None, before}
      THEN {}
      ELSE IF before # None \/ after # None THEN {NextVersion(s)}
           ELSE IF row.version = 0 /\ s.version = 0 THEN Versions ELSE {}

\* A check finds the run cancelled.  The background wrapper cleans up and puts the
\* episode back to pending unless this run's audio is published.
Cancelled(r) ==
  LET s == IF In(r, {"admitted"}) THEN row ELSE th[r].snap
  IN  /\ In(r, {"admitted", "begun", "working", "loaded", "rendered", "marked", "done"})
      /\ lease[r] = "cancel_requested"
      /\ IF In(r, {"admitted"}) THEN UNCHANGED <<markers, torn>>
         ELSE markers' = Rolled(r, TRUE) /\ torn' = (torn \/ Tears(r, TRUE))
      /\ audio' = [v \in Versions |-> IF v \in Leavings(s) THEN NoRender ELSE audio[v]]
      /\ row' = [row EXCEPT !.status = IF KeepsRow(s) THEN @ ELSE "pending", !.queued = FALSE]
      /\ Ends(r)
      /\ UNCHANGED <<fence, decisionVars, sweep, now, exposed, raced>>

\* request_cancellation
Cancel(r) ==
  /\ lease[r] = "running"
  /\ lease' = [lease EXCEPT ![r] = "cancel_requested"]
  /\ UNCHANGED <<row, fence, audio, markers, decisionVars, th, sweep, now, history>>

\* The leader dies; its successor interrupts the run and resets the episode.  A deletion
\* that another worker was serving goes on, the retention sweep does not.
LeaderDies ==
  /\ \/ Busy
     \/ \E w \in Sweepers : Sweeping(w) /\ ~sweep[w].fences
  /\ lease' = [r \in Runs |-> IF Active(r) THEN "ended" ELSE lease[r]]
  /\ th' = [r \in Runs |-> NoThread]
  /\ row' = [row EXCEPT !.status = IF row.status = "processing" THEN "pending" ELSE @]
  /\ sweep' = [w \in Sweepers |-> IF Sweeping(w) /\ ~sweep[w].fences
                                   THEN [sweep[w] EXCEPT !.at = "done"] ELSE sweep[w]]
  /\ torn' = (torn \/ \E r \in Runs : Active(r) /\ th[r].saved
                                       /\ ~In(r, {"persisted", "cleared", "done"}))
  /\ raced' = (raced \/ \E w \in Sweepers : sweep[w] = [at |-> "unlinked", fences |-> FALSE])
  /\ UNCHANGED <<fence, audio, markers, decisionVars, now, exposed>>

-----------------------------------------------------------------------------
(* Requests: reruns, decisions, and the apply that rebuilds chapters        *)

Rests_ == UNCHANGED <<fence, lease, th, sweep, now>>

\* reset_episode_for_reprocess, and apply_pending_recuts where the audio must change: the
\* run is started at once or queued, and an llm rerun drops the markers right away.
Request(mode, queues) ==
  /\ ~Busy
  /\ row.status \in {"processed", "failed"} \/ (row.status = "pending" /\ ~row.queued)
  /\ mode = "recut" => markers # NoRender
  /\ row' = [row EXCEPT !.status = "pending", !.mode = mode, !.requested = TRUE,
                        !.policy = FALSE, !.queued = queues]
  /\ markers' = IF mode = "llm" THEN NoRender ELSE markers
  /\ Rests_ /\ UNCHANGED <<audio, decisionVars, history>>

\* submit_correction, first the correction ...
Decide(d) ==
  /\ d \notin decided /\ markers # NoRender
  /\ decided' = decided \cup {d}
  /\ Rests_ /\ UNCHANGED <<row, audio, markers, stamped, rebuild, history>>

\* The decision is recorded beside work that has not loaded it and is going to clear
\* this very stamp: a run that began within the second or is not marked as processing,
\* or a rebuild, which the first stamp of the afternoon outlives.
Blind(d) ==
  \/ \E r \in Runs : /\ In(r, {"loaded", "rendered", "moved", "marked", "checked",
                              "persisted"}) \/ th[r].again = "in"
                     /\ d \notin Cut(r) \/ d \notin th[r].cut
                     /\ row.status # "processing" \/ now <= th[r].start
  \/ rebuild.at # "idle" /\ d \notin rebuild.seen

\* Mutant: the first stamp stays, whatever the episode is doing.
Mut_Stamped == IF row.stamp = None THEN now ELSE row.stamp

\* ... then mark_episode_pending_recut.
Stamped == IF row.status = "processing" \/ row.stamp = None THEN now ELSE row.stamp

\* Mutant: the stamp is set before the correction is recorded.
Mut_Stamp(d) ==
  /\ d \notin stamped
  /\ stamped' = stamped \cup {d}
  /\ row' = [row EXCEPT !.stamp = Stamped]
  /\ exposed' = IF Blind(d) THEN exposed \cup {d} ELSE exposed
  /\ Rests_ /\ UNCHANGED <<audio, markers, decided, rebuild, torn, raced>>

Stamp(d) ==
  /\ d \in decided \ stamped
  /\ stamped' = stamped \cup {d}
  /\ row' = [row EXCEPT !.stamp = Stamped]
  /\ exposed' = IF Blind(d) THEN exposed \cup {d} ELSE exposed
  /\ Rests_ /\ UNCHANGED <<audio, markers, decided, rebuild, torn, raced>>

\* Mutant: neither the apply nor the rebuild looks at what the episode is doing.
Mut_ApplyChapters ==
  /\ rebuild.at = "idle" /\ row.stamp # None
  /\ row.published /\ audio[row.version] # NoRender /\ markers # NoRender
  /\ decided \ audio[row.version].cut \subseteq ChapterOnly
  /\ rebuild' = [at |-> "todo", stamp |-> row.stamp, seen |-> decided,
                 version |-> row.version, ok |-> TRUE]
  /\ Rests_ /\ UNCHANGED <<row, audio, markers, decided, stamped, history>>

\* apply_pending_recuts on an episode whose decisions leave the cut as it is: the stamp,
\* the row and the markers are handed to the ad-chapters-apply thread.
ApplyChapters ==
  /\ rebuild.at = "idle" /\ row.stamp # None
  /\ row.status # "processing" /\ ~(row.status = "pending" /\ row.queued)
  /\ row.published /\ audio[row.version] # NoRender /\ markers # NoRender
  /\ decided \ audio[row.version].cut \subseteq ChapterOnly
  /\ rebuild' = [at |-> "todo", stamp |-> row.stamp, seen |-> decided,
                 version |-> row.version, ok |-> row.status = "processed"]
  /\ Rests_ /\ UNCHANGED <<row, audio, markers, decided, stamped, history>>

\* rebuild_ad_chapters, which never raises: it edits the tags of the file it was given,
\* or, when the row it was given is not processed or the embedding fails, does nothing ...
Rebuild(fails) ==
  LET v == rebuild.version
      done == rebuild.ok /\ ~fails
  IN  /\ rebuild.at = "todo"
      /\ audio' = IF done /\ audio[v] # NoRender
                  THEN [audio EXCEPT ![v].cut = @ \cup rebuild.seen] ELSE audio
      /\ exposed' = IF done \/ audio[v] = NoRender THEN exposed
                    ELSE exposed \cup (rebuild.seen \ audio[v].cut)
      /\ rebuild' = [rebuild EXCEPT !.at = "rebuilt"]
      /\ Rests_ /\ UNCHANGED <<row, markers, decided, stamped, torn, raced>>

\* ... and the stamp read by the apply is cleared all the same.
RebuildClears ==
  /\ rebuild.at = "rebuilt"
  /\ row' = [row EXCEPT !.stamp = Clear(rebuild.stamp)]
  /\ rebuild' = NoRebuild
  /\ Rests_ /\ UNCHANGED <<audio, markers, decided, stamped, history>>

-----------------------------------------------------------------------------
(* Deletion: bulk_episode_action and cleanup_old_episodes                   *)

Sweeps_ == UNCHANGED <<decisionVars, lease, th, now, exposed, torn>>
SweepGoes(w, place) == sweep' = [sweep EXCEPT ![w].at = place]
Leaves(w) == SweepGoes(w, IF sweep[w].fences THEN "clearing" ELSE "done")

\* A bulk deletion marks the episode and, in the same transaction, looks for runs.
SelectAndFence(w) ==
  /\ sweep[w].at = "idle" /\ row.status \in {"processed", "failed"}
  /\ fence' = TRUE
  /\ sweep' = [sweep EXCEPT ![w] = [at |-> IF Busy THEN "clearing" ELSE "selected",
                                   fences |-> TRUE]]
  /\ Sweeps_ /\ UNCHANGED <<row, audio, markers, raced>>

\* The retention sweep takes the episodes that were processed long enough ago.
SelectExpired(w) ==
  /\ sweep[w].at = "idle" /\ row.status \in {"processed", "failed"} /\ row.published
  /\ SweepGoes(w, "selected")
  /\ raced' = (raced \/ Busy)
  /\ Sweeps_ /\ UNCHANGED <<row, fence, audio, markers>>

\* delete_episodes: every version goes, if the row, read again, has a processed file ...
Unlink(w) ==
  /\ sweep[w].at = "selected"
  /\ IF row.published
     THEN audio' = [v \in Versions |-> NoRender] /\ SweepGoes(w, "unlinked")
     ELSE UNCHANGED audio /\ Leaves(w)
  /\ Sweeps_ /\ UNCHANGED <<row, fence, markers, raced>>

\* ... then the details, then the row's publication.
Reset(w) ==
  /\ sweep[w].at = "unlinked"
  /\ markers' = NoRender
  /\ row' = [row EXCEPT !.status = "discovered", !.published = FALSE]
  /\ Leaves(w)
  /\ Sweeps_ /\ UNCHANGED <<fence, audio, raced>>

\* clear_episode_deletion_requests: whoever's mark it is.
ClearFence(w) ==
  /\ sweep[w].at = "clearing"
  /\ fence' = FALSE
  /\ SweepGoes(w, "done")
  /\ Sweeps_ /\ UNCHANGED <<row, audio, markers, raced>>

Tick ==
  /\ now < MaxTime
  /\ now' = now + 1
  /\ UNCHANGED <<row, fence, audio, markers, decisionVars, lease, th, sweep, history>>

-----------------------------------------------------------------------------
RunStep(r) ==
  \/ Admit(r) \/ Begin(r) \/ MarkProcessing(r) \/ LoadCorrections(r) \/ SaveMidRun(r)
  \/ Move(r) \/ SaveMarkers(r)
  \/ BeginOwnRecut(r) \/ LoadForOwnRecut(r) \/ OwnRecutFallsBack(r)
  \/ CheckOwner(r) \/ Persist(r) \/ ClearStamp(r) \/ CleanStale(r)
  \/ \E rerun \in BOOLEAN : Complete(r, rerun)
  \/ Fail(r) \/ Cancelled(r) \/ Cancel(r)

FilesNext ==
  \/ \E r \in Runs : RunStep(r)
  \/ LeaderDies \/ Tick
  \/ \E mode \in Modes \ {"none"}, queues \in BOOLEAN : Request(mode, queues)
  \/ \E d \in Decisions : Decide(d) \/ Stamp(d)
  \/ ApplyChapters \/ RebuildClears \/ \E fails \in BOOLEAN : Rebuild(fails)
  \/ \E w \in Sweepers : \/ SelectAndFence(w) \/ SelectExpired(w)
                         \/ Unlink(w) \/ Reset(w) \/ ClearFence(w)

FilesSpec == FilesInit /\ [][FilesNext]_filesVars

-----------------------------------------------------------------------------
(* Properties.                                                              *)

\* Types.
FilesTypeOK ==
  /\ row \in Rows
  /\ fence \in BOOLEAN
  /\ audio \in [Versions -> Files \cup {NoRender}]
  /\ markers \in Render \cup {NoRender}
  /\ stamped \subseteq decided /\ decided \subseteq Decisions
  /\ lease \in [Runs -> {"unused", "running", "cancel_requested", "ended"}]
  /\ th \in [Runs -> Threads]
  /\ rebuild \in [at : {"idle", "todo", "rebuilt"}, stamp : 0..MaxTime \cup {None},
                  seen : SUBSET Decisions, version : Versions, ok : BOOLEAN]
  /\ sweep \in [Sweepers -> [at : {"idle", "selected", "unlinked", "clearing", "done"},
                           fences : BOOLEAN]]
  /\ now \in 0..MaxTime
  /\ exposed \subseteq Decisions
  /\ torn \in BOOLEAN /\ raced \in BOOLEAN

InAudio == IF row.published /\ audio[row.version] # NoRender THEN audio[row.version].cut ELSE {}
Swept == raced \/ \E w \in Sweepers : sweep[w].at = "unlinked"

\* The row never names a file that is not there: the old version is served until the row
\* names the new one, and no failure, cancellation or death takes either away, but for a
\* deletion that a run overtakes: a retention sweep does not fence the episode, and one
\* bulk deletion takes away the mark of another.
PublishedAudioExists == row.published /\ ~Swept => audio[row.version] # NoRender

\* A decision recorded while a run works outlives that run: it is in the published audio
\* or its stamp is still there for the next apply.  Not so the ones stamped within the
\* second a run began in, between its last two writes, or beside a chapter rebuild.
StampedDecisionsSurvive ==
  row.published /\ ~Swept /\ row.stamp = None => stamped \ exposed \subseteq InAudio

\* The same of every decision: what the comments on the stamp promise.
NoDecisionLost ==
  row.published /\ ~Swept /\ row.stamp = None => stamped \subseteq InAudio

\* Once a run is over, the markers shown are those of the published audio, whatever the
\* run had saved before it failed or was cancelled; the exceptions are in Tears.
MarkersMatchAudio ==
  row.published /\ ~Swept /\ ~torn /\ ~Busy /\ markers # NoRender
    => markers = audio[row.version].by

\* A new publication never goes back on a decision that the last one honoured.
DecisionsStayApplied ==
  [][row.published /\ row'.published /\ ~Swept' => InAudio \subseteq InAudio']_filesVars
=============================================================================
