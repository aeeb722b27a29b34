-------------------------- MODULE EpisodeFiles_proofs --------------------------
(***************************************************************************)
(* Proofs about EpisodeFiles, for every set of runs, decisions and         *)
(* deletions, and every clock.  FilesInv is the inductive invariant: the   *)
(* types; that one thread works at a time, and, unless a sweep has been    *)
(* overtaken, none beside a sweep (Exclusive); what the thread of a run    *)
(* knows (ThreadInv) and what it has made (WorkInv); and what stamps and   *)
(* the rebuild of chapters owe to the decisions (StampInv).                *)
(***************************************************************************)
EXTENDS EpisodeFiles, TLAPS

BeforePersist == {"begun", "working", "loaded", "rendered", "moved", "marked", "checked"}
AfterPersist == {"persisted", "cleared", "done"}

\* One thread works on the episode, under its lease; a sweep beside it was overtaken.
Exclusive ==
  /\ \A r \in Runs : th[r].at # "none" <=> Active(r)
  /\ \A r \in Runs : th[r].at = "none" => th[r] = NoThread
  /\ \A r, s \in Runs : Active(r) /\ Active(s) => r = s
  /\ Busy /\ (\E w \in Sweepers : Sweeping(w)) => raced

\* What a thread knows.
ThreadInv(r) ==
  /\ th[r].again = "in" => ~Recut(r) /\ ~In(r, {"admitted", "begun", "loaded"})
  /\ th[r].again = "in" => th[r].cut \subseteq th[r].more
  /\ th[r].again = "tried" => In(r, {"marked", "checked"} \cup AfterPersist)
  /\ th[r].again = "no" /\ In(r, {"admitted", "begun", "working", "loaded"}) => ~th[r].saved
  /\ In(r, {"marked", "checked"} \cup AfterPersist) \/ th[r].again # "no" => th[r].saved
  /\ th[r].out <=> In(r, {"done"})
  /\ th[r].cut \subseteq decided /\ th[r].more \subseteq decided
  /\ In(r, BeforePersist) => th[r].snap.version = row.version
  /\ In(r, AfterPersist) => row.version = th[r].next

\* The markers m are those of the published audio, if there are any.
Describes(m) ==
  m # NoRender => row.published /\ audio[row.version] # NoRender /\ m = audio[row.version].by

\* It has a file of its own: the render of its own recut only from the rename on.
HasFile(r) == In(r, {"moved", "marked", "checked"} \cup AfterPersist) \/ th[r].again = "in"
Rendered(r) == [run |-> r, again |-> th[r].again = "in" /\ ~In(r, {"working", "rendered"})]

\* It has loaded the corrections, and has not published.
Loaded(r) ==
  \/ In(r, {"loaded", "rendered", "moved", "marked", "checked"})
  \/ In(r, {"working"}) /\ th[r].again = "in"

\* What it has made.
WorkInv(r) ==
  /\ In(r, BeforePersist \ {"begun"}) => row.status = "processing"
  /\ In(r, AfterPersist) => row.published
  /\ HasFile(r) => /\ audio[th[r].next] # NoRender
                   /\ audio[th[r].next].by = Rendered(r)
                   /\ th[r].cut \subseteq audio[th[r].next].cut
  /\ HasFile(r) /\ ~In(r, {"moved"}) => markers = Rendered(r)
  /\ In(r, BeforePersist) /\ ~th[r].saved => markers \in {th[r].was, NoRender}
  /\ In(r, BeforePersist) /\ ~torn => Describes(th[r].was)
  /\ In(r, {"admitted"}) /\ ~torn => Describes(markers)
  /\ Loaded(r) => InAudio \cup rebuild.seen \subseteq th[r].cut
  /\ Loaded(r) => row.stamp > th[r].start \/ stamped \ exposed \subseteq th[r].cut
  /\ In(r, {"persisted"}) => row.stamp > th[r].start \/ stamped \ exposed \subseteq InAudio

\* What a stamp and a rebuild are about.
StampInv ==
  /\ row.stamp <= now
  /\ \A v \in Versions : audio[v] # NoRender => audio[v].cut \subseteq decided
  /\ rebuild.seen \subseteq decided
  /\ rebuild.at = "idle" => rebuild.seen = {}
  /\ rebuild.at # "idle" => stamped \ exposed \subseteq rebuild.seen
  /\ row.published /\ ~Swept /\ rebuild.at = "todo"
       => row.version = rebuild.version \/ rebuild.seen \subseteq InAudio
  /\ row.published /\ ~Swept /\ rebuild.at = "rebuilt"
       => rebuild.seen \ exposed \subseteq InAudio

\* The inductive invariant.
FilesInv ==
  /\ FilesTypeOK
  /\ Exclusive
  /\ \A r \in Runs : ThreadInv(r)
  /\ ~raced => \A r \in Runs : WorkInv(r)
  /\ StampInv
  /\ PublishedAudioExists
  /\ StampedDecisionsSurvive
  /\ ~Busy /\ ~Swept /\ ~torn => Describes(markers)

-----------------------------------------------------------------------------
(* Types *)

\* The fields of the row, and the clock.
LEMMA RowTypes ==
  ASSUME FilesTypeOK
  PROVE  /\ row.status \in Statuses /\ row.version \in Versions /\ row.published \in BOOLEAN
         /\ row.requested \in BOOLEAN /\ row.policy \in BOOLEAN /\ row.mode \in Modes
         /\ row.queued \in BOOLEAN /\ row.stamp \in 0..MaxTime \cup {None}
         /\ Snap(row) \in Snaps /\ now \in Nat /\ MaxTime \in Nat /\ MaxVersion \in Nat
BY FilesAssumption DEF FilesTypeOK, Rows, Snaps, Snap, FilesAssumption

\* The row at the start is a row.
LEMMA FirstRowType == \A p \in BOOLEAN : FirstRow(p) \in Rows
BY FilesAssumption DEF FirstRow, Rows, Statuses, Modes, Versions, FilesAssumption

\* The locals at the start are locals.
LEMMA NoThreadType == NoThread \in Threads
<1>1. \A e \in Rows : Snap(e) \in Snaps
  BY DEF Rows, Snaps, Snap
<1>2. Snap(FirstRow(FALSE)) \in Snaps
  BY <1>1, FirstRowType
<1>3. 0 \in Versions /\ 0 \in 0..MaxTime
  BY FilesAssumption DEF Versions, FilesAssumption
<1> QED BY <1>2, <1>3 DEF NoThread, Threads, Places

\* What a thread renders to, and from what.
LEMMA OwnType ==
  ASSUME FilesTypeOK, NEW r \in Runs
  PROVE  /\ th[r] \in Threads /\ Own(r) \in Render /\ Cut(r) \in SUBSET Decisions
         /\ [by |-> Own(r), cut |-> Cut(r)] \in Files
<1>1. th[r] \in Threads
  BY DEF FilesTypeOK
<1> QED BY <1>1 DEF Threads, Own, Render, Cut, Files

\* A thread that only moves on, or ends, stays a thread.
LEMMA GoesType ==
  ASSUME FilesTypeOK, NEW r \in Runs, NEW f \in Threads, Goes(r, f)
  PROVE  th' \in [Runs -> Threads]
BY DEF FilesTypeOK, Goes

\* The end of a run leaves the types alone, whatever it does to the row.
LEMMA EndsType ==
  ASSUME FilesTypeOK, NEW r \in Runs, Ends(r)
  PROVE  /\ th' \in [Runs -> Threads]
         /\ lease' \in [Runs -> {"unused", "running", "cancel_requested", "ended"}]
BY NoThreadType, GoesType DEF FilesTypeOK, Ends

\* The types hold at the start.
LEMMA TypeInit == FilesInit => FilesTypeOK
<1> SUFFICES ASSUME FilesInit PROVE FilesTypeOK
  OBVIOUS
<1>1. Legacy \in Render /\ [by |-> Legacy, cut |-> {}] \in Files
  BY DEF Legacy, Render, Files
<1>2. row \in Rows
  BY FirstRowType DEF FilesInit
<1>3. audio \in [Versions -> Files \cup {NoRender}] /\ markers \in Render \cup {NoRender}
  BY <1>1 DEF FilesInit
<1>4. NoRebuild \in [at : {"idle", "todo", "rebuilt"}, stamp : 0..MaxTime \cup {None},
                     seen : SUBSET Decisions, version : Versions, ok : BOOLEAN]
  BY FilesAssumption DEF NoRebuild, Versions, FilesAssumption
<1>5. /\ sweep \in [Sweepers -> [at : {"idle", "selected", "unlinked", "clearing", "done"},
                               fences : BOOLEAN]]
      /\ lease \in [Runs -> {"unused", "running", "cancel_requested", "ended"}]
      /\ now \in 0..MaxTime
  BY FilesAssumption DEF FilesInit, FilesAssumption
<1>6. /\ th \in [Runs -> Threads] /\ fence \in BOOLEAN /\ torn \in BOOLEAN /\ raced \in BOOLEAN
      /\ stamped \subseteq decided /\ decided \subseteq Decisions /\ exposed \subseteq Decisions
  BY NoThreadType DEF FilesInit
<1>7. rebuild = NoRebuild
  BY DEF FilesInit
<1> QED BY <1>2, <1>3, <1>4, <1>5, <1>6, <1>7 DEF FilesTypeOK

\* A step of a run keeps them.
LEMMA RunTypeStep ==
  ASSUME FilesTypeOK, NEW r \in Runs, RunStep(r)
  PROVE  FilesTypeOK'
<1> USE DEF history, decisionVars, Runs_
<1>0. /\ th[r] \in Threads /\ Own(r) \in Render /\ [by |-> Own(r), cut |-> Cut(r)] \in Files
      /\ row.status \in Statuses /\ Snap(row) \in Snaps /\ row \in Rows
      /\ now \in 0..MaxTime /\ markers \in Render \cup {NoRender} /\ decided \in SUBSET Decisions
  BY OwnType, RowTypes DEF FilesTypeOK
<1>p. \A a \in Places : [th[r] EXCEPT !.at = a] \in Threads
  BY <1>0 DEF Threads
<1>1. CASE Admit(r)
  <2>1. th' \in [Runs -> Threads]
    BY <1>p, <1>1, GoesType DEF Admit, Places
  <2> QED BY <1>1, <2>1 DEF Admit, FilesTypeOK
<1>2. CASE Begin(r)
  <2>1. [th[r] EXCEPT !.at = "begun", !.start = now, !.snap = Snap(row), !.was = markers]
          \in Threads
    BY <1>0 DEF Threads, Places
  <2>2. th' \in [Runs -> Threads]
    BY <1>2, <2>1, GoesType DEF Begin
  <2> QED BY <1>2, <2>2 DEF Begin, FilesTypeOK
<1>3. CASE MarkProcessing(r)
  <2>1. th' \in [Runs -> Threads]
    BY <1>p, <1>3, GoesType DEF MarkProcessing, Places
  <2>2. row' \in Rows
    BY <1>0, <1>3 DEF MarkProcessing, Rows, Statuses
  <2> QED BY <1>3, <2>1, <2>2 DEF MarkProcessing, FilesTypeOK
<1>4. CASE LoadCorrections(r)
  <2>1. \A a \in Places : [th[r] EXCEPT !.at = a, !.cut = decided] \in Threads
    BY <1>0 DEF Threads
  <2>2. th' \in [Runs -> Threads]
    BY <1>4, <2>1, GoesType DEF LoadCorrections, Places
  <2> QED BY <1>4, <2>2 DEF LoadCorrections, FilesTypeOK
<1>5. CASE SaveMidRun(r) \/ SaveMarkers(r)
  <2>1. \A a \in Places : [th[r] EXCEPT !.at = a, !.saved = TRUE] \in Threads
    BY <1>0 DEF Threads
  <2>2. th' \in [Runs -> Threads]
    BY <1>5, <2>1, GoesType DEF SaveMidRun, SaveMarkers, Places
  <2> QED BY <1>0, <1>5, <2>2 DEF SaveMidRun, SaveMarkers, FilesTypeOK
<1>6. CASE Move(r)
  <2>1. PICK v \in Versions :
          /\ audio' = [audio EXCEPT ![v] = [by |-> Own(r), cut |-> Cut(r)]]
          /\ Goes(r, [th[r] EXCEPT !.at = "moved", !.next = v])
    BY <1>6 DEF Move
  <2>2. [th[r] EXCEPT !.at = "moved", !.next = v] \in Threads
    BY <1>0 DEF Threads, Places
  <2>3. th' \in [Runs -> Threads]
    BY <2>1, <2>2, GoesType
  <2>4. audio' \in [Versions -> Files \cup {NoRender}]
    BY <1>0, <2>1 DEF FilesTypeOK
  <2> QED BY <1>6, <2>3, <2>4 DEF Move, FilesTypeOK
<1>7. CASE BeginOwnRecut(r)
  <2>1. [th[r] EXCEPT !.at = "working", !.again = "in", !.more = th[r].cut] \in Threads
    BY <1>0 DEF Threads, Places
  <2>2. th' \in [Runs -> Threads]
    BY <1>7, <2>1, GoesType DEF BeginOwnRecut
  <2>3. row' \in Rows
    BY <1>0, <1>7 DEF BeginOwnRecut, Rows, Statuses
  <2> QED BY <1>7, <2>2, <2>3 DEF BeginOwnRecut, FilesTypeOK
<1>8. CASE LoadForOwnRecut(r)
  <2>1. [th[r] EXCEPT !.at = "rendered", !.more = decided] \in Threads
    BY <1>0 DEF Threads, Places
  <2>2. th' \in [Runs -> Threads]
    BY <1>8, <2>1, GoesType DEF LoadForOwnRecut
  <2> QED BY <1>8, <2>2 DEF LoadForOwnRecut, FilesTypeOK
<1>9. CASE OwnRecutFallsBack(r)
  <2>1. [th[r] EXCEPT !.at = "marked", !.again = "tried"] \in Threads
    BY <1>0 DEF Threads, Places
  <2>2. th' \in [Runs -> Threads]
    BY <1>9, <2>1, GoesType DEF OwnRecutFallsBack
  <2> QED BY <1>9, <2>2 DEF OwnRecutFallsBack, FilesTypeOK
<1>10. CASE CheckOwner(r)
  <2>1. th' \in [Runs -> Threads]
    BY <1>p, <1>10, GoesType DEF CheckOwner, Places
  <2> QED BY <1>10, <2>1 DEF CheckOwner, FilesTypeOK
<1>11. CASE Persist(r)
  <2>1. th' \in [Runs -> Threads]
    BY <1>p, <1>11, GoesType DEF Persist, Places
  <2>2. th[r].next \in Versions
    BY <1>0 DEF Threads
  <2>3. row' \in Rows
    BY <1>0, <1>11, <2>2 DEF Persist, Rows, Statuses, Modes
  <2> QED BY <1>11, <2>1, <2>3 DEF Persist, FilesTypeOK
<1>12. CASE ClearStamp(r)
  <2>1. th' \in [Runs -> Threads]
    BY <1>p, <1>12, GoesType DEF ClearStamp, Places
  <2>2. Clear(th[r].start) \in 0..MaxTime \cup {None}
    BY RowTypes DEF Clear
  <2>3. row' \in Rows
    BY <1>0, <1>12, <2>2 DEF ClearStamp, Rows
  <2> QED BY <1>12, <2>1, <2>3 DEF ClearStamp, FilesTypeOK
<1>13. CASE CleanStale(r)
  <2>1. [th[r] EXCEPT !.at = "done", !.out = TRUE] \in Threads
    BY <1>0 DEF Threads, Places
  <2>2. th' \in [Runs -> Threads]
    BY <1>13, <2>1, GoesType DEF CleanStale
  <2>3. row' \in Rows
    BY <1>0, <1>13 DEF CleanStale, Rows
  <2>4. audio' \in [Versions -> Files \cup {NoRender}]
    BY <1>13 DEF CleanStale, FilesTypeOK
  <2> QED BY <1>13, <2>2, <2>3, <2>4 DEF CleanStale, FilesTypeOK
<1>14. ASSUME NEW rerun \in BOOLEAN, Complete(r, rerun) PROVE FilesTypeOK'
  <2>1. row' \in Rows
    BY <1>0, <1>14 DEF Complete, Rows, Modes
  <2> QED BY <1>14, <2>1, EndsType DEF Complete, FilesTypeOK
<1>15. CASE Fail(r)
  <2>1. row' \in Rows
    BY <1>0, <1>15 DEF Fail, Rows, Statuses
  <2>2. Rolled(r, FALSE) \in Render \cup {NoRender}
    BY <1>0 DEF Rolled, Threads
  <2>3. Tears(r, FALSE) \in BOOLEAN
    BY <1>0 DEF Tears, In, Recut, Threads
  <2> QED BY <1>15, <2>1, <2>2, <2>3, EndsType DEF Fail, FilesTypeOK
<1>16. CASE Cancelled(r)
  <2>1. row' \in Rows
    <3>1. row' = [row EXCEPT !.status = row'.status, !.queued = FALSE] /\ row'.status \in Statuses
      BY <1>0, <1>16 DEF Cancelled, Rows, Statuses
    <3> QED BY <1>0, <3>1 DEF Rows
  <2>2. Rolled(r, TRUE) \in Render \cup {NoRender}
    BY <1>0 DEF Rolled, Threads
  <2>3. Tears(r, TRUE) \in BOOLEAN
    BY <1>0 DEF Tears, In, Recut, Threads
  <2>4. audio' \in [Versions -> Files \cup {NoRender}]
    BY <1>16 DEF Cancelled, FilesTypeOK
  <2>5. torn' \in BOOLEAN /\ markers' \in Render \cup {NoRender}
    BY <1>0, <1>16, <2>2, <2>3 DEF Cancelled, FilesTypeOK
  <2> QED BY <1>16, <2>1, <2>4, <2>5, EndsType DEF Cancelled, FilesTypeOK
<1>17. CASE Cancel(r)
  BY <1>17 DEF Cancel, FilesTypeOK
<1> QED BY <1>1, <1>2, <1>3, <1>4, <1>5, <1>6, <1>7, <1>8, <1>9, <1>10, <1>11, <1>12, <1>13,
           <1>14, <1>15, <1>16, <1>17 DEF RunStep

\* A step of anything else keeps them.
LEMMA RestTypeStep ==
  ASSUME FilesTypeOK
  PROVE  /\ LeaderDies \/ Tick \/ ApplyChapters \/ RebuildClears => FilesTypeOK'
         /\ \A mode \in Modes \ {"none"}, queues \in BOOLEAN : Request(mode, queues) => FilesTypeOK'
         /\ \A d \in Decisions : Decide(d) \/ Stamp(d) => FilesTypeOK'
         /\ \A fails \in BOOLEAN : Rebuild(fails) => FilesTypeOK'
         /\ \A w \in Sweepers :
              \/ SelectAndFence(w) \/ SelectExpired(w) \/ Unlink(w) \/ Reset(w) \/ ClearFence(w)
              => FilesTypeOK'
<1> USE DEF history, decisionVars, Rests_
<1> DEFINE RebuildType == [at : {"idle", "todo", "rebuilt"}, stamp : 0..MaxTime \cup {None},
                           seen : SUBSET Decisions, version : Versions, ok : BOOLEAN]
           SweepType == [at : {"idle", "selected", "unlinked", "clearing", "done"},
                         fences : BOOLEAN]
<1>0. /\ row \in Rows /\ row.status \in Statuses /\ row.stamp \in 0..MaxTime \cup {None}
      /\ rebuild \in RebuildType /\ now \in 0..MaxTime /\ now \in Nat /\ MaxTime \in Nat
      /\ row.version \in Versions
  BY RowTypes DEF FilesTypeOK
<1>1. CASE LeaderDies
  <2>1. row' \in Rows
    <3>1. row' = [row EXCEPT !.status = row'.status] /\ row'.status \in Statuses
      BY <1>0, <1>1 DEF LeaderDies, Rows, Statuses
    <3> QED BY <1>0, <3>1 DEF Rows
  <2>2. sweep' \in [Sweepers -> SweepType]
    BY <1>1 DEF LeaderDies, FilesTypeOK
  <2>3. th' \in [Runs -> Threads]
    BY <1>1, NoThreadType DEF LeaderDies
  <2>4. torn' \in BOOLEAN /\ raced' \in BOOLEAN
    BY <1>1 DEF LeaderDies, FilesTypeOK
  <2>5. lease' \in [Runs -> {"unused", "running", "cancel_requested", "ended"}]
    BY <1>1 DEF LeaderDies, FilesTypeOK
  <2> QED BY <1>1, <2>1, <2>2, <2>3, <2>4, <2>5 DEF LeaderDies, FilesTypeOK
<1>2. CASE Tick
  BY <1>0, <1>2 DEF Tick, FilesTypeOK
<1>3. CASE ApplyChapters
  <2>1. rebuild' \in RebuildType
    BY <1>0, <1>3 DEF ApplyChapters, FilesTypeOK
  <2> QED BY <1>3, <2>1 DEF ApplyChapters, FilesTypeOK
<1>4. CASE RebuildClears
  <2>1. rebuild' \in RebuildType
    BY <1>4, FilesAssumption DEF RebuildClears, NoRebuild, Versions, FilesAssumption
  <2>2. row' \in Rows
    BY <1>0, <1>4 DEF RebuildClears, Clear, Rows
  <2> QED BY <1>4, <2>1, <2>2 DEF RebuildClears, FilesTypeOK
<1>5. ASSUME NEW mode \in Modes \ {"none"}, NEW queues \in BOOLEAN, Request(mode, queues)
      PROVE  FilesTypeOK'
  <2>1. row' \in Rows
    BY <1>0, <1>5 DEF Request, Rows, Statuses
  <2> QED BY <1>5, <2>1 DEF Request, FilesTypeOK
<1>6. ASSUME NEW d \in Decisions, Decide(d) PROVE FilesTypeOK'
  BY <1>6 DEF Decide, FilesTypeOK
<1>7. ASSUME NEW d \in Decisions, Stamp(d) PROVE FilesTypeOK'
  <2>1. row' \in Rows
    BY <1>0, <1>7 DEF Stamp, Stamped, Rows
  <2> QED BY <1>7, <2>1 DEF Stamp, FilesTypeOK
<1>8. ASSUME NEW fails \in BOOLEAN, Rebuild(fails) PROVE FilesTypeOK'
  <2>1. audio' \in [Versions -> Files \cup {NoRender}]
    <3> DEFINE v == rebuild.version
               f == [audio[v] EXCEPT !.cut = @ \cup rebuild.seen]
    <3>1. audio[v] # NoRender => f \in Files
      BY <1>0 DEF FilesTypeOK, Files
    <3>2. audio' = audio \/ (audio[v] # NoRender /\ audio' = [audio EXCEPT ![v] = f])
      BY <1>8 DEF Rebuild
    <3> HIDE DEF f
    <3> QED BY <3>1, <3>2 DEF FilesTypeOK
  <2>2. rebuild' \in RebuildType
    BY <1>0, <1>8 DEF Rebuild
  <2>3. exposed' \subseteq Decisions
    BY <1>0, <1>8 DEF Rebuild, FilesTypeOK
  <2> QED BY <1>8, <2>1, <2>2, <2>3 DEF Rebuild, FilesTypeOK
<1>9. ASSUME NEW w \in Sweepers,
             \/ SelectAndFence(w) \/ SelectExpired(w) \/ Unlink(w) \/ Reset(w) \/ ClearFence(w)
      PROVE  FilesTypeOK'
  <2>1. sweep' \in [Sweepers -> SweepType]
    <3>1. sweep[w] \in SweepType
      BY DEF FilesTypeOK
    <3>2. \A a \in {"idle", "selected", "unlinked", "clearing", "done"} :
            [sweep[w] EXCEPT !.at = a] \in SweepType
      BY <3>1
    <3>3. PICK s \in SweepType : sweep' = [sweep EXCEPT ![w] = s]
      BY <1>9, <3>2 DEF SelectAndFence, SelectExpired, Unlink, Reset, ClearFence, Leaves, SweepGoes
    <3> QED BY <3>3 DEF FilesTypeOK
  <2>2. row' \in Rows
    BY <1>0, <1>9 DEF SelectAndFence, SelectExpired, Unlink, Reset, ClearFence, Rows, Statuses
  <2>3. audio' \in [Versions -> Files \cup {NoRender}]
    BY <1>9 DEF SelectAndFence, SelectExpired, Unlink, Reset, ClearFence, FilesTypeOK
  <2> QED BY <1>9, <2>1, <2>2, <2>3 DEF SelectAndFence, SelectExpired, Unlink, Reset, ClearFence,
          Sweeps_, FilesTypeOK
<1> QED BY <1>1, <1>2, <1>3, <1>4, <1>5, <1>6, <1>7, <1>8, <1>9

\* Every step keeps the types.
LEMMA TypeStep ==
  ASSUME FilesTypeOK, [FilesNext]_filesVars
  PROVE  FilesTypeOK'
<1>1. CASE UNCHANGED filesVars
  BY <1>1 DEF filesVars, FilesTypeOK
<1> QED BY <1>1, RunTypeStep, RestTypeStep DEF FilesNext

-----------------------------------------------------------------------------
(* What the steps of a run do to the locals of its thread *)

\* It takes the start, the row and the markers.
LEMMA BeginLocals ==
  ASSUME FilesTypeOK, NEW r \in Runs, Begin(r)
  PROVE  /\ th'[r].at = "begun" /\ th'[r].start = now /\ th'[r].snap = Snap(row)
         /\ th'[r].was = markers /\ th'[r].cut = th[r].cut /\ th'[r].more = th[r].more
         /\ th'[r].next = th[r].next /\ th'[r].again = th[r].again
         /\ th'[r].saved = th[r].saved /\ th'[r].out = th[r].out
BY DEF Begin, Goes, FilesTypeOK, Threads

\* It is at work.
LEMMA MarkProcessingLocals ==
  ASSUME FilesTypeOK, NEW r \in Runs, MarkProcessing(r)
  PROVE  /\ th'[r].at = "working" /\ th'[r].start = th[r].start /\ th'[r].snap = th[r].snap
         /\ th'[r].was = th[r].was /\ th'[r].cut = th[r].cut /\ th'[r].more = th[r].more
         /\ th'[r].next = th[r].next /\ th'[r].again = th[r].again
         /\ th'[r].saved = th[r].saved /\ th'[r].out = th[r].out
BY DEF MarkProcessing, Goes, FilesTypeOK, Threads

\* It has the corrections; a recut goes straight on to its render.
LEMMA LoadCorrectionsLocals ==
  ASSUME FilesTypeOK, NEW r \in Runs, LoadCorrections(r)
  PROVE  /\ th'[r].at = (IF Recut(r) THEN "rendered" ELSE "loaded") /\ th'[r].cut = decided
         /\ th'[r].start = th[r].start /\ th'[r].snap = th[r].snap /\ th'[r].was = th[r].was
         /\ th'[r].more = th[r].more /\ th'[r].next = th[r].next /\ th'[r].again = th[r].again
         /\ th'[r].saved = th[r].saved /\ th'[r].out = th[r].out
<1>1. PICK a \in Places :
        /\ a = IF Recut(r) THEN "rendered" ELSE "loaded"
        /\ th' = [th EXCEPT ![r] = [th[r] EXCEPT !.at = a, !.cut = decided]]
  BY DEF LoadCorrections, Goes, Places
<1> QED BY <1>1 DEF FilesTypeOK, Threads

\* Its markers are saved as it detects.
LEMMA SaveMidRunLocals ==
  ASSUME FilesTypeOK, NEW r \in Runs, SaveMidRun(r)
  PROVE  /\ th'[r].at = "rendered" /\ th'[r].saved = TRUE /\ th'[r].start = th[r].start
         /\ th'[r].snap = th[r].snap /\ th'[r].was = th[r].was /\ th'[r].cut = th[r].cut
         /\ th'[r].more = th[r].more /\ th'[r].next = th[r].next /\ th'[r].again = th[r].again
         /\ th'[r].out = th[r].out
BY DEF SaveMidRun, Goes, FilesTypeOK, Threads

\* Its markers are saved as rendered.
LEMMA SaveMarkersLocals ==
  ASSUME FilesTypeOK, NEW r \in Runs, SaveMarkers(r)
  PROVE  /\ th'[r].at = "marked" /\ th'[r].saved = TRUE /\ th'[r].start = th[r].start
         /\ th'[r].snap = th[r].snap /\ th'[r].was = th[r].was /\ th'[r].cut = th[r].cut
         /\ th'[r].more = th[r].more /\ th'[r].next = th[r].next /\ th'[r].again = th[r].again
         /\ th'[r].out = th[r].out
BY DEF SaveMarkers, Goes, FilesTypeOK, Threads

\* It recuts its own render, with the corrections it has.
LEMMA BeginOwnRecutLocals ==
  ASSUME FilesTypeOK, NEW r \in Runs, BeginOwnRecut(r)
  PROVE  /\ th'[r].at = "working" /\ th'[r].again = "in" /\ th'[r].more = th[r].cut
         /\ th'[r].start = th[r].start /\ th'[r].snap = th[r].snap /\ th'[r].was = th[r].was
         /\ th'[r].cut = th[r].cut /\ th'[r].next = th[r].next /\ th'[r].saved = th[r].saved
         /\ th'[r].out = th[r].out
BY DEF BeginOwnRecut, Goes, FilesTypeOK, Threads

\* It has the corrections of its own recut.
LEMMA LoadForOwnRecutLocals ==
  ASSUME FilesTypeOK, NEW r \in Runs, LoadForOwnRecut(r)
  PROVE  /\ th'[r].at = "rendered" /\ th'[r].more = decided /\ th'[r].start = th[r].start
         /\ th'[r].snap = th[r].snap /\ th'[r].was = th[r].was /\ th'[r].cut = th[r].cut
         /\ th'[r].next = th[r].next /\ th'[r].again = th[r].again
         /\ th'[r].saved = th[r].saved /\ th'[r].out = th[r].out
BY DEF LoadForOwnRecut, Goes, FilesTypeOK, Threads

\* It goes on with the render it had.
LEMMA OwnRecutFallsBackLocals ==
  ASSUME FilesTypeOK, NEW r \in Runs, OwnRecutFallsBack(r)
  PROVE  /\ th'[r].at = "marked" /\ th'[r].again = "tried" /\ th'[r].start = th[r].start
         /\ th'[r].snap = th[r].snap /\ th'[r].was = th[r].was /\ th'[r].cut = th[r].cut
         /\ th'[r].more = th[r].more /\ th'[r].next = th[r].next /\ th'[r].saved = th[r].saved
         /\ th'[r].out = th[r].out
BY DEF OwnRecutFallsBack, Goes, FilesTypeOK, Threads

\* It has found itself the owner.
LEMMA CheckOwnerLocals ==
  ASSUME FilesTypeOK, NEW r \in Runs, CheckOwner(r)
  PROVE  /\ th'[r].at = "checked" /\ th'[r].start = th[r].start /\ th'[r].snap = th[r].snap
         /\ th'[r].was = th[r].was /\ th'[r].cut = th[r].cut /\ th'[r].more = th[r].more
         /\ th'[r].next = th[r].next /\ th'[r].again = th[r].again
         /\ th'[r].saved = th[r].saved /\ th'[r].out = th[r].out
BY DEF CheckOwner, Goes, FilesTypeOK, Threads

\* It has published.
LEMMA PersistLocals ==
  ASSUME FilesTypeOK, NEW r \in Runs, Persist(r)
  PROVE  /\ th'[r].at = "persisted" /\ th'[r].start = th[r].start /\ th'[r].snap = th[r].snap
         /\ th'[r].was = th[r].was /\ th'[r].cut = th[r].cut /\ th'[r].more = th[r].more
         /\ th'[r].next = th[r].next /\ th'[r].again = th[r].again
         /\ th'[r].saved = th[r].saved /\ th'[r].out = th[r].out
BY DEF Persist, Goes, FilesTypeOK, Threads

\* It has cleared the stamp.
LEMMA ClearStampLocals ==
  ASSUME FilesTypeOK, NEW r \in Runs, ClearStamp(r)
  PROVE  /\ th'[r].at = "cleared" /\ th'[r].start = th[r].start /\ th'[r].snap = th[r].snap
         /\ th'[r].was = th[r].was /\ th'[r].cut = th[r].cut /\ th'[r].more = th[r].more
         /\ th'[r].next = th[r].next /\ th'[r].again = th[r].again
         /\ th'[r].saved = th[r].saved /\ th'[r].out = th[r].out
BY DEF ClearStamp, Goes, FilesTypeOK, Threads

\* It is done, and knows it has published.
LEMMA CleanStaleLocals ==
  ASSUME FilesTypeOK, NEW r \in Runs, CleanStale(r)
  PROVE  /\ th'[r].at = "done" /\ th'[r].out = TRUE /\ th'[r].start = th[r].start
         /\ th'[r].snap = th[r].snap /\ th'[r].was = th[r].was /\ th'[r].cut = th[r].cut
         /\ th'[r].more = th[r].more /\ th'[r].next = th[r].next /\ th'[r].again = th[r].again
         /\ th'[r].saved = th[r].saved
BY DEF CleanStale, Goes, FilesTypeOK, Threads

\* It has a file, at the version v.
LEMMA MoveLocals ==
  ASSUME FilesTypeOK, NEW r \in Runs, NEW v, Goes(r, [th[r] EXCEPT !.at = "moved", !.next = v])
  PROVE  /\ th'[r].at = "moved" /\ th'[r].next = v /\ th'[r].start = th[r].start
         /\ th'[r].snap = th[r].snap /\ th'[r].was = th[r].was /\ th'[r].cut = th[r].cut
         /\ th'[r].more = th[r].more /\ th'[r].again = th[r].again
         /\ th'[r].saved = th[r].saved /\ th'[r].out = th[r].out
BY DEF Goes, FilesTypeOK, Threads

\* It starts from nothing.
LEMMA AdmitLocals ==
  ASSUME FilesTypeOK, Exclusive, NEW r \in Runs, Admit(r)
  PROVE  th'[r].at = "admitted" /\ th'[r].again = "no" /\ ~th'[r].saved /\ ~th'[r].out
         /\ th'[r].cut = {} /\ th'[r].more = {}
<1>1. th[r] = NoThread
  BY DEF Admit, Exclusive, Active
<1>2. th'[r] = [NoThread EXCEPT !.at = "admitted"]
  BY <1>1 DEF Admit, Goes, FilesTypeOK
<1> QED BY <1>2 DEF NoThread

\* It is gone, and its lease over.
LEMMA EndsLocals ==
  ASSUME FilesTypeOK, NEW r \in Runs, Ends(r)
  PROVE  th'[r] = NoThread /\ lease'[r] = "ended"
BY DEF Ends, Goes, FilesTypeOK

-----------------------------------------------------------------------------
(* One thread at a time *)

\* A run takes a step when no other is active, and leaves the others alone.
LEMMA Alone ==
  ASSUME FilesTypeOK, Exclusive, NEW q \in Runs, RunStep(q), NEW r \in Runs, r # q
  PROVE  /\ th[r] = NoThread /\ th'[r] = NoThread
         /\ ~Active(r) /\ lease'[r] = lease[r]
<1>1. ~Active(r)
  BY DEF RunStep, Admit, Begin, MarkProcessing, LoadCorrections, SaveMidRun, Move, SaveMarkers,
     BeginOwnRecut, LoadForOwnRecut, OwnRecutFallsBack, CheckOwner, Persist, ClearStamp, CleanStale,
     Complete, Fail, Cancelled, Cancel, In, Exclusive, Busy, Active, Owned
<1>2. th[r] = NoThread
  BY <1>1 DEF Exclusive
<1>3. th'[r] = th[r] /\ lease'[r] = lease[r]
  BY DEF RunStep, Admit, Begin, MarkProcessing, LoadCorrections, SaveMidRun, Move, SaveMarkers,
     BeginOwnRecut, LoadForOwnRecut, OwnRecutFallsBack, CheckOwner, Persist, ClearStamp, CleanStale,
     Complete, Fail, Cancelled, Cancel, FilesTypeOK, Goes, Runs_, Ends
<1> QED BY <1>1, <1>2, <1>3

\* A run that is not at work knows nothing, and owes nothing.
LEMMA Unemployed ==
  ASSUME NEW r \in Runs, th'[r] = NoThread
  PROVE  ThreadInv(r)' /\ WorkInv(r)'
BY DEF NoThread, ThreadInv, WorkInv, In, BeforePersist, AfterPersist, HasFile, Loaded, Recut

\* Only the threads of active runs are at work, and only one is.
LEMMA ExclusiveStep ==
  ASSUME FilesTypeOK, Exclusive, [FilesNext]_filesVars
  PROVE  Exclusive'
<1> USE DEF Runs_, Rests_, Sweeps_
<1>1. ASSUME NEW q \in Runs, RunStep(q) PROVE Exclusive'
  <2>1. /\ th'[q].at # "none" <=> Active(q)'
        /\ th'[q].at = "none" => th'[q] = NoThread
    <3>0. th[q] \in Threads /\ (th[q].at # "none" <=> Active(q))
      BY DEF FilesTypeOK, Exclusive
    <3>1. CASE Complete(q, TRUE) \/ Complete(q, FALSE) \/ Fail(q) \/ Cancelled(q)
      <4>1. Ends(q)
        BY <3>1 DEF Complete, Fail, Cancelled
      <4> QED BY <4>1 DEF Ends, Goes, Active, NoThread, FilesTypeOK
    <3>2. CASE Admit(q) \/ Cancel(q)
      BY <3>0, <3>2 DEF Admit, Cancel, Goes, Active, FilesTypeOK, Threads
    <3>3. CASE \/ Begin(q) \/ MarkProcessing(q) \/ LoadCorrections(q) \/ SaveMidRun(q) \/ Move(q)
               \/ SaveMarkers(q) \/ BeginOwnRecut(q) \/ LoadForOwnRecut(q) \/ OwnRecutFallsBack(q)
               \/ CheckOwner(q) \/ Persist(q) \/ ClearStamp(q) \/ CleanStale(q)
      <4>1. lease' = lease /\ th[q].at # "none"
        BY <3>3 DEF Begin, MarkProcessing, LoadCorrections, SaveMidRun, Move, SaveMarkers,
           BeginOwnRecut, LoadForOwnRecut, OwnRecutFallsBack, CheckOwner, Persist, ClearStamp,
           CleanStale, In
      <4>2. th'[q].at # "none"
        <5>1. CASE Move(q)
          BY <5>1, MoveLocals DEF Move
        <5> QED BY <3>3, <5>1, BeginLocals, MarkProcessingLocals, LoadCorrectionsLocals,
                   SaveMidRunLocals, SaveMarkersLocals, BeginOwnRecutLocals, LoadForOwnRecutLocals,
                   OwnRecutFallsBackLocals, CheckOwnerLocals, PersistLocals, ClearStampLocals,
                   CleanStaleLocals
      <4> QED BY <3>0, <4>1, <4>2 DEF Active
    <3> QED BY <1>1, <3>1, <3>2, <3>3 DEF RunStep
  <2>2. \A r \in Runs \ {q} : th'[r] = NoThread /\ ~Active(r) /\ ~Active(r)'
    BY <1>1, Alone DEF Active
  <2>3. Busy' /\ (\E w \in Sweepers : Sweeping(w)') => raced'
    <3>1. CASE Admit(q)
      BY <3>1 DEF Admit, Sweeping
    <3>2. CASE ~Admit(q)
      <4>1. sweep' = sweep /\ raced' = raced /\ Active(q)
        BY <1>1, <3>2 DEF RunStep, Begin, MarkProcessing, LoadCorrections, SaveMidRun, Move,
           SaveMarkers, BeginOwnRecut, LoadForOwnRecut, OwnRecutFallsBack, CheckOwner, Persist,
           ClearStamp, CleanStale, Complete, Fail, Cancelled, Cancel, history, In, Active, Exclusive
      <4> QED BY <4>1 DEF Exclusive, Busy, Sweeping
    <3> QED BY <3>1, <3>2
  <2>4. NoThread.at = "none"
    BY DEF NoThread
  <2> QED BY <2>1, <2>2, <2>3, <2>4 DEF Exclusive
<1>2. CASE LeaderDies
  BY <1>2 DEF LeaderDies, Exclusive, Active, Busy, NoThread, FilesTypeOK
<1>3. ASSUME NEW w \in Sweepers,
             \/ SelectAndFence(w) \/ SelectExpired(w) \/ Unlink(w) \/ Reset(w) \/ ClearFence(w)
      PROVE  Exclusive'
  <2>1. th' = th /\ lease' = lease
    BY <1>3 DEF SelectAndFence, SelectExpired, Unlink, Reset, ClearFence
  <2>2. raced' = raced \/ (SelectExpired(w) /\ raced' = (raced \/ Busy))
    BY <1>3 DEF SelectAndFence, SelectExpired, Unlink, Reset, ClearFence
  <2>3. ASSUME NEW v \in Sweepers, Sweeping(v)', ~Sweeping(v), ~SelectExpired(w) PROVE ~Busy
    <3>1. v = w /\ sweep[w].at = "idle"
      BY <1>3, <2>3 DEF SelectAndFence, Unlink, Reset, ClearFence, Leaves, SweepGoes,
         Sweeping, FilesTypeOK
    <3>2. SelectAndFence(w)
      BY <1>3, <2>3, <3>1 DEF Unlink, Reset, ClearFence
    <3> QED BY <2>3, <3>1, <3>2 DEF SelectAndFence, Sweeping, FilesTypeOK
  <2>4. (Busy' <=> Busy) /\ (SelectExpired(w) /\ Busy => raced')
    BY <2>1 DEF Busy, Active, SelectExpired
  <2>5. raced => raced'
    BY <2>2
  <2>6. Busy' /\ (\E v \in Sweepers : Sweeping(v)') => raced'
    BY <2>3, <2>4, <2>5 DEF Exclusive
  <2> QED BY <2>1, <2>6 DEF Exclusive, Active
<1>4. ASSUME th' = th, lease' = lease, sweep' = sweep, raced' = raced PROVE Exclusive'
  BY <1>4 DEF Exclusive, Active, Busy, Sweeping
<1>5. ASSUME \/ Tick \/ ApplyChapters \/ RebuildClears \/ UNCHANGED filesVars
             \/ \E mode \in Modes \ {"none"}, queues \in BOOLEAN : Request(mode, queues)
             \/ \E d \in Decisions : Decide(d) \/ Stamp(d)
             \/ \E fails \in BOOLEAN : Rebuild(fails)
      PROVE  th' = th /\ lease' = lease /\ sweep' = sweep /\ raced' = raced
  BY <1>5 DEF Tick, ApplyChapters, RebuildClears, filesVars, Request, Decide, Stamp, Rebuild,
     history
<1> QED BY <1>1, <1>2, <1>3, <1>4, <1>5 DEF FilesNext

-----------------------------------------------------------------------------
(* What a thread knows *)

\* What the steps of others leave a thread: its locals, the version, every decision.
LEMMA OthersKeepThread ==
  ASSUME FilesTypeOK, [FilesNext]_filesVars, ~\E q \in Runs : RunStep(q)
  PROVE  /\ row'.version = row.version /\ decided \subseteq decided'
         /\ th' = th \/ th' = [r \in Runs |-> NoThread]
<1> USE DEF Rests_, Sweeps_, decisionVars
<1>0. row \in [status : Statuses, version : Versions, published : BOOLEAN, requested : BOOLEAN,
               policy : BOOLEAN, mode : Modes, queued : BOOLEAN, stamp : 0..MaxTime \cup {None}]
  BY DEF FilesTypeOK, Rows
<1>1. CASE LeaderDies \/ Tick \/ ApplyChapters \/ RebuildClears \/ UNCHANGED filesVars
  BY <1>0, <1>1 DEF LeaderDies, Tick, ApplyChapters, RebuildClears, filesVars
<1>2. CASE \E mode \in Modes \ {"none"}, queues \in BOOLEAN : Request(mode, queues)
  BY <1>0, <1>2 DEF Request
<1>3. CASE \E d \in Decisions : Decide(d) \/ Stamp(d)
  BY <1>0, <1>3 DEF Decide, Stamp
<1>4. CASE \E fails \in BOOLEAN : Rebuild(fails)
  BY <1>4 DEF Rebuild
<1>5. CASE \E w \in Sweepers : \/ SelectAndFence(w) \/ SelectExpired(w) \/ Unlink(w) \/ Reset(w)
                               \/ ClearFence(w)
  BY <1>0, <1>5 DEF SelectAndFence, SelectExpired, Unlink, Reset, ClearFence
<1> QED BY <1>1, <1>2, <1>3, <1>4, <1>5 DEF FilesNext

\* A step keeps it true.
LEMMA ThreadInvStep ==
  ASSUME FilesTypeOK, Exclusive, NEW r \in Runs, ThreadInv(r), [FilesNext]_filesVars
  PROVE  ThreadInv(r)'
<1>0. /\ th[r] \in Threads /\ th'[r] \in Threads
      /\ row \in [status : Statuses, version : Versions, published : BOOLEAN, requested : BOOLEAN,
               policy : BOOLEAN, mode : Modes, queued : BOOLEAN, stamp : 0..MaxTime \cup {None}]
  BY TypeStep DEF FilesTypeOK, Rows
<1> USE DEF Runs_, decisionVars, ThreadInv, In, BeforePersist, AfterPersist, Recut
<1>1. CASE th'[r] = NoThread
  BY <1>1, Unemployed
<1>2. CASE ~\E q \in Runs : RunStep(q)
  <2>1. CASE th' = th
    BY <2>1, <1>2, OthersKeepThread
  <2> QED BY <1>1, <1>2, <2>1, OthersKeepThread
<1>3. ASSUME NEW q \in Runs, q # r, RunStep(q) PROVE ThreadInv(r)'
  BY <1>1, <1>3, Alone
<1>4. CASE Admit(r)
  BY <1>4, AdmitLocals DEF Admit
<1>5. CASE Begin(r)
  <2>1. Snap(row).version = row.version
    BY DEF Snap
  <2> QED BY <1>5, <2>1, BeginLocals DEF Begin
<1>6. CASE MarkProcessing(r)
  BY <1>0, <1>6, MarkProcessingLocals DEF MarkProcessing
<1>7. CASE LoadCorrections(r)
  BY <1>0, <1>7, LoadCorrectionsLocals DEF LoadCorrections
<1>8. CASE SaveMidRun(r)
  BY <1>0, <1>8, SaveMidRunLocals DEF SaveMidRun
<1>9. CASE Move(r)
  <2>1. PICK v : Goes(r, [th[r] EXCEPT !.at = "moved", !.next = v])
    BY <1>9 DEF Move
  <2> QED BY <1>0, <1>9, <2>1, MoveLocals DEF Move
<1>10. CASE SaveMarkers(r)
  BY <1>0, <1>10, SaveMarkersLocals DEF SaveMarkers
<1>11. CASE BeginOwnRecut(r)
  <2>1. row'.version = row.version /\ decided' = decided
    BY <1>0, <1>11 DEF BeginOwnRecut
  <2>2. th[r].at = "marked" /\ th[r].again = "no" /\ th[r].snap.mode # "recut"
    BY <1>11 DEF BeginOwnRecut
  <2> QED BY <1>0, <1>11, <2>1, <2>2, BeginOwnRecutLocals
<1>12. CASE LoadForOwnRecut(r)
  BY <1>0, <1>12, LoadForOwnRecutLocals DEF LoadForOwnRecut
<1>13. CASE OwnRecutFallsBack(r)
  BY <1>0, <1>13, OwnRecutFallsBackLocals DEF OwnRecutFallsBack
<1>14. CASE CheckOwner(r)
  BY <1>0, <1>14, CheckOwnerLocals DEF CheckOwner
<1>15. CASE Persist(r)
  BY <1>0, <1>15, PersistLocals DEF Persist
<1>16. CASE ClearStamp(r)
  BY <1>0, <1>16, ClearStampLocals DEF ClearStamp
<1>17. CASE CleanStale(r)
  BY <1>0, <1>17, CleanStaleLocals DEF CleanStale
<1>18. CASE (\E rerun \in BOOLEAN : Complete(r, rerun)) \/ Fail(r) \/ Cancelled(r)
  BY <1>1, <1>18, EndsLocals DEF Complete, Fail, Cancelled
<1>19. CASE Cancel(r)
  BY <1>19 DEF Cancel
<1> QED BY <1>2, <1>3, <1>4, <1>5, <1>6, <1>7, <1>8, <1>9, <1>10, <1>11, <1>12, <1>13, <1>14,
           <1>15, <1>16, <1>17, <1>18, <1>19 DEF RunStep

-----------------------------------------------------------------------------
(* What a run has made *)

\* Beside a run no sweep goes on, unless one was overtaken.
LEMMA NoSweepBesideRun ==
  ASSUME FilesTypeOK, Exclusive, ~raced, NEW r \in Runs, th[r].at # "none"
  PROVE  /\ Busy /\ ~Swept /\ ~\E w \in Sweepers : Sweeping(w)
BY DEF Exclusive, Busy, Swept, Sweeping

\* What a file and the row are.
LEMMA FieldTypes ==
  ASSUME FilesTypeOK
  PROVE  /\ row \in [status : Statuses, version : Versions, published : BOOLEAN,
                     requested : BOOLEAN, policy : BOOLEAN, mode : Modes, queued : BOOLEAN,
                     stamp : 0..MaxTime \cup {None}]
         /\ \A v \in Versions : audio[v] # NoRender
              => audio[v] \in [by : Render, cut : SUBSET Decisions]
         /\ now \in Nat /\ row.stamp \in Int /\ row.version \in Versions
         /\ \A r \in Runs : th[r].start \in Nat /\ th[r].next \in Versions
         /\ rebuild.version \in Versions /\ rebuild.seen \in SUBSET Decisions
<1>1. \A r \in Runs : th[r] \in Threads
  BY DEF FilesTypeOK
<1>2. \A r \in Runs : th[r].start \in Nat /\ th[r].next \in Versions
  BY <1>1 DEF Threads
<1>3. row.stamp \in Int
  BY RowTypes DEF None
<1> QED BY <1>2, <1>3, RowTypes DEF FilesTypeOK, Rows, Files

\* A stamp is never set back.
LEMMA StampGrows ==
  ASSUME FilesTypeOK, row.stamp <= now
  PROVE  Stamped \in Int /\ Stamped >= row.stamp /\ Stamped <= now /\ Stamped # None
BY FieldTypes DEF Stamped, None

\* The rebuild of chapters leaves every file in place, and adds what it has seen.
LEMMA RebuildStep ==
  ASSUME FilesTypeOK, NEW fails \in BOOLEAN, Rebuild(fails)
  PROVE  /\ \A v \in Versions :
              /\ audio'[v] = NoRender <=> audio[v] = NoRender
              /\ audio[v] # NoRender => /\ audio'[v].by = audio[v].by
                                        /\ audio[v].cut \subseteq audio'[v].cut
                                        /\ audio'[v].cut \subseteq audio[v].cut \cup rebuild.seen
              /\ v # rebuild.version => audio'[v] = audio[v]
         /\ exposed \subseteq exposed'
         /\ audio[rebuild.version] # NoRender =>
              rebuild.seen \ exposed' \subseteq audio'[rebuild.version].cut
<1> DEFINE v == rebuild.version
           f == [audio[v] EXCEPT !.cut = @ \cup rebuild.seen]
<1>1. v \in Versions /\ (audio[v] # NoRender => audio[v] \in [by : Render, cut : SUBSET Decisions])
      /\ rebuild.seen \in SUBSET Decisions
  BY FieldTypes
<1>2. audio[v] # NoRender => /\ f.by = audio[v].by /\ f.cut = audio[v].cut \cup rebuild.seen
                             /\ f # NoRender
  <2> SUFFICES ASSUME audio[v] # NoRender
               PROVE  f.by = audio[v].by /\ f.cut = audio[v].cut \cup rebuild.seen /\ f # NoRender
    OBVIOUS
  <2>1. f.by = audio[v].by /\ f.cut = audio[v].cut \cup rebuild.seen
    BY <1>1
  <2>2. f \in Files
    BY <1>1 DEF Files
  <2> HIDE DEF f
  <2> QED BY <2>1, <2>2, RenderAssumption
<1>3. CASE rebuild.ok /\ ~fails /\ audio[v] # NoRender
  <2>1. audio' = [audio EXCEPT ![v] = f] /\ exposed' = exposed
    BY <1>3 DEF Rebuild
  <2> HIDE DEF f
  <2> QED BY <1>1, <1>2, <1>3, <2>1 DEF FilesTypeOK
<1>4. CASE ~(rebuild.ok /\ ~fails /\ audio[v] # NoRender)
  <2>1. audio' = audio
        /\ (audio[v] # NoRender => exposed' = exposed \cup (rebuild.seen \ audio[v].cut))
        /\ (audio[v] = NoRender => exposed' = exposed)
    BY <1>4 DEF Rebuild
  <2> QED BY <2>1
<1> QED BY <1>3, <1>4

\* What others do beside a run leaves its work as it is.
LEMMA OthersKeepWork ==
  ASSUME FilesInv, [FilesNext]_filesVars, ~\E q \in Runs : RunStep(q), ~raced',
         NEW r \in Runs
  PROVE  WorkInv(r)'
<1> USE DEF Rests_, Sweeps_, decisionVars, history
<1>0. FilesTypeOK /\ Exclusive /\ ThreadInv(r) /\ StampInv
  BY DEF FilesInv
<1>1. CASE th'[r] = NoThread
  BY <1>1, Unemployed
<1>2. CASE th[r].at = "none"
  BY <1>0, <1>1, <1>2, OthersKeepThread DEF Exclusive
<1> SUFFICES ASSUME th'[r] # NoThread, th[r].at # "none" PROVE WorkInv(r)'
  BY <1>1, <1>2
<1>3. th' = th
  BY <1>0, OthersKeepThread
<1>4. Busy
  BY <1>0 DEF Exclusive, Busy
<1> USE DEF WorkInv, In, BeforePersist, AfterPersist, HasFile, Rendered, Loaded, Describes, InAudio
<1>5. ~raced => WorkInv(r) /\ ~Swept /\ ~\E w \in Sweepers : Sweeping(w)
  BY <1>0, NoSweepBesideRun DEF FilesInv
<1>6. CASE Tick \/ UNCHANGED filesVars
  BY <1>5, <1>6 DEF Tick, filesVars
<1>7. CASE LeaderDies
  BY <1>7 DEF LeaderDies
<1>8. CASE ApplyChapters
  BY <1>5, <1>8 DEF ApplyChapters
<1>9. CASE RebuildClears
  <2>1. row' = [row EXCEPT !.stamp = Clear(rebuild.stamp)] /\ rebuild'.seen = {}
    BY <1>9 DEF RebuildClears, NoRebuild
  <2>2. /\ row'.stamp = row.stamp \/ row'.stamp = None
        /\ row'.status = row.status /\ row'.version = row.version
        /\ row'.published = row.published
    BY <1>0, <2>1, FieldTypes DEF Clear
  <2>3. stamped \ exposed \subseteq rebuild.seen
    BY <1>0, <1>9 DEF RebuildClears, StampInv
  <2>4. In(r, AfterPersist) => stamped \ exposed \subseteq InAudio
    BY <1>0, <1>5, <1>9, <2>3 DEF RebuildClears, StampInv
  <2> QED BY <1>3, <1>5, <1>9, <2>1, <2>2, <2>3, <2>4 DEF RebuildClears
<1>10. ASSUME NEW fails \in BOOLEAN, Rebuild(fails) PROVE WorkInv(r)'
  <2>1. /\ row' = row /\ raced' = raced /\ torn' = torn /\ markers' = markers /\ stamped' = stamped
        /\ rebuild'.seen = rebuild.seen
    BY <1>0, <1>10 DEF Rebuild, FilesTypeOK
  <2> QED BY <1>0, <1>3, <1>5, <1>10, <2>1, RebuildStep, FieldTypes
<1>11. CASE \E mode \in Modes \ {"none"}, queues \in BOOLEAN : Request(mode, queues)
  BY <1>4, <1>11 DEF Request
<1>12. ASSUME NEW d \in Decisions, Decide(d) PROVE WorkInv(r)'
  BY <1>3, <1>5, <1>12 DEF Decide
<1>13. ASSUME NEW d \in Decisions, Stamp(d) PROVE WorkInv(r)'
  <2>1. row' = [row EXCEPT !.stamp = Stamped] /\ stamped' = stamped \cup {d} /\ d \in decided
        /\ audio' = audio /\ markers' = markers /\ rebuild' = rebuild
        /\ torn' = torn /\ raced' = raced
    BY <1>13 DEF Stamp
  <2>2. row'.stamp = Stamped
        /\ row'.status = row.status /\ row'.version = row.version /\ row'.published = row.published
    BY <1>0, <2>1, FieldTypes
  <2>3. Stamped \in Int /\ Stamped >= row.stamp
        /\ row.stamp \in Int /\ th[r].start \in Nat /\ now \in Nat
    BY <1>0, FieldTypes, StampGrows DEF StampInv
  <2>4. exposed' = IF Blind(d) THEN exposed \cup {d} ELSE exposed
    BY <1>13 DEF Stamp
  <2>5. CASE Blind(d)
    BY <1>3, <1>5, <2>1, <2>2, <2>3, <2>4, <2>5
  <2>6. CASE ~Blind(d)
    <3>1. Loaded(r) \/ In(r, {"persisted"}) =>
            \/ d \in th[r].cut /\ d \in Cut(r)
            \/ row.status = "processing" /\ now > th[r].start
      BY <2>3, <2>6 DEF Blind
    <3>2. row.status = "processing" => Stamped = now
      BY DEF Stamped
    <3>3. In(r, {"persisted"}) => th[r].cut \subseteq InAudio
      BY <1>0, <1>5, <2>1 DEF ThreadInv
    <3> QED BY <1>3, <1>5, <2>1, <2>2, <2>3, <2>4, <2>6, <3>1, <3>2, <3>3
  <2> QED BY <2>5, <2>6
<1>14. ASSUME NEW w \in Sweepers,
             \/ SelectAndFence(w) \/ SelectExpired(w) \/ Unlink(w) \/ Reset(w) \/ ClearFence(w)
       PROVE WorkInv(r)'
  <2>1. CASE SelectExpired(w)
    BY <1>4, <2>1 DEF SelectExpired
  <2>2. CASE Unlink(w) \/ Reset(w)
    BY <1>5, <2>2 DEF Unlink, Reset, Sweeping
  <2>3. CASE SelectAndFence(w) \/ ClearFence(w)
    BY <1>3, <1>5, <2>3 DEF SelectAndFence, ClearFence
  <2> QED BY <1>14, <2>1, <2>2, <2>3
<1> QED BY <1>6, <1>7, <1>8, <1>9, <1>10, <1>11, <1>12, <1>13, <1>14 DEF FilesNext

\* What a run does itself.
LEMMA OwnWorkStep ==
  ASSUME FilesInv, NEW r \in Runs, RunStep(r), ~raced'
  PROVE  WorkInv(r)'
<1> USE DEF Runs_, decisionVars, history
<1>0. /\ FilesTypeOK /\ Exclusive /\ ThreadInv(r) /\ StampInv
      /\ th[r] \in Threads /\ th'[r] \in Threads
      /\ row \in [status : Statuses, version : Versions, published : BOOLEAN,
                  requested : BOOLEAN, policy : BOOLEAN, mode : Modes, queued : BOOLEAN,
                  stamp : 0..MaxTime \cup {None}]
      /\ row.stamp \in Int /\ th[r].start \in Nat
  BY FieldTypes, TypeStep DEF FilesInv, FilesNext, FilesTypeOK
<1>1. CASE th'[r] = NoThread
  BY <1>1, Unemployed
<1>2. CASE Admit(r)
  <2>1. ~torn => Describes(markers)
    BY <1>0, <1>2 DEF Admit, FilesInv, Swept, Sweeping, FilesTypeOK
  <2>2. row' = row /\ audio' = audio /\ markers' = markers /\ torn' = torn
    BY <1>2 DEF Admit
  <2> QED BY <1>2, <2>1, <2>2, <1>0, AdmitLocals DEF WorkInv, In, BeforePersist, AfterPersist,
          HasFile, Loaded, Describes
<1> SUFFICES ASSUME th'[r] # NoThread, ~Admit(r) PROVE WorkInv(r)'
  BY <1>1, <1>2
<1>3. /\ WorkInv(r) /\ ~raced /\ ~Swept /\ th[r].at # "none"
      /\ row.published => audio[row.version] # NoRender
  <2>1. raced' = raced /\ th[r].at # "none"
    BY <1>0 DEF RunStep, Begin, MarkProcessing, LoadCorrections, SaveMidRun, Move,
       SaveMarkers, BeginOwnRecut, LoadForOwnRecut, OwnRecutFallsBack, CheckOwner, Persist,
       ClearStamp, CleanStale, Complete, Fail, Cancelled, Cancel, In, Active, Exclusive
  <2> QED BY <1>0, <2>1, NoSweepBesideRun DEF FilesInv, PublishedAudioExists
<1> USE DEF WorkInv, In, BeforePersist, AfterPersist, HasFile, Rendered, Loaded, Describes, InAudio
<1>4. CASE Begin(r)
  BY <1>0, <1>3, <1>4, BeginLocals DEF Begin, ThreadInv
<1>5. CASE MarkProcessing(r)
  BY <1>0, <1>3, <1>5, MarkProcessingLocals DEF MarkProcessing, ThreadInv
<1>6. CASE LoadCorrections(r)
  <2>1. /\ row' = row /\ audio' = audio /\ torn' = torn /\ rebuild' = rebuild
        /\ stamped' = stamped /\ exposed' = exposed
        /\ markers' \in {markers, NoRender}
        /\ th[r].at = "working" /\ th[r].again = "no"
    BY <1>6 DEF LoadCorrections
  <2>2. InAudio \cup rebuild.seen \cup stamped \subseteq decided
    BY <1>0 DEF StampInv, FilesTypeOK
  <2>3. th'[r].at \in {"rendered", "loaded"} /\ th'[r].again = "no" /\ th'[r].saved = th[r].saved
        /\ th'[r].was = th[r].was /\ th'[r].cut = decided /\ ~th[r].saved
    BY <1>0, <1>6, <2>1, LoadCorrectionsLocals DEF ThreadInv
  <2> QED BY <1>3, <2>1, <2>2, <2>3
<1>7. CASE SaveMidRun(r)
  BY <1>0, <1>3, <1>7, SaveMidRunLocals DEF SaveMidRun, ThreadInv
<1>8. CASE Move(r)
  <2>1. PICK v \in Versions :
          /\ v = IF Recut(r) THEN th[r].snap.version + 1
                 ELSE IF th[r].again = "in" THEN row.version + 1 ELSE NextVersion(row)
          /\ audio' = [audio EXCEPT ![v] = [by |-> Own(r), cut |-> Cut(r)]]
          /\ Goes(r, [th[r] EXCEPT !.at = "moved", !.next = v])
    BY <1>8 DEF Move
  <2>2. row.published => v # row.version
    BY <1>0, <1>8, <2>1 DEF Move, ThreadInv, NextVersion, Versions
  <2>3. [by |-> Own(r), cut |-> Cut(r)] # NoRender
    BY <1>0, OwnType, RenderAssumption
  <2>4. audio'[v] = [by |-> Own(r), cut |-> Cut(r)]
        /\ (row.published => audio'[row.version] = audio[row.version])
    BY <1>0, <2>1, <2>2 DEF FilesTypeOK
  <2>5. th[r].cut \subseteq Cut(r)
    BY <1>0 DEF ThreadInv, Cut
  <2>6. /\ row' = row /\ markers' = markers /\ torn' = torn /\ rebuild' = rebuild
        /\ stamped' = stamped /\ exposed' = exposed /\ th[r].at = "rendered"
    BY <1>8 DEF Move
  <2>7. /\ th'[r].at = "moved" /\ th'[r].next = v /\ th'[r].start = th[r].start
        /\ th'[r].was = th[r].was /\ th'[r].cut = th[r].cut
        /\ th'[r].again = th[r].again /\ th'[r].saved = th[r].saved
    BY <1>0, <2>1, MoveLocals
  <2>8. Rendered(r)' = Own(r)
    BY <2>7 DEF Own
  <2>9. InAudio' = InAudio
    BY <1>3, <2>4, <2>6
  <2>10. ~torn => (Describes(th[r].was) => Describes(th[r].was)')
    BY <1>3, <2>4, <2>6, <2>7
  <2>11. HasFile(r)' => /\ audio'[th'[r].next] # NoRender
                        /\ audio'[th'[r].next].by = Rendered(r)'
                        /\ th'[r].cut \subseteq audio'[th'[r].next].cut
    BY <2>3, <2>4, <2>5, <2>7, <2>8
  <2> HIDE DEF InAudio, Describes, Rendered
  <2> QED BY <1>3, <2>6, <2>7, <2>9, <2>10, <2>11
<1>9. CASE SaveMarkers(r)
  <2>1. /\ row' = row /\ markers' = Own(r) /\ torn' = torn /\ rebuild' = rebuild /\ audio' = audio
        /\ stamped' = stamped /\ exposed' = exposed /\ th[r].at = "moved"
    BY <1>9 DEF SaveMarkers
  <2>2. /\ th'[r].at = "marked" /\ th'[r].next = th[r].next /\ th'[r].start = th[r].start
        /\ th'[r].was = th[r].was /\ th'[r].cut = th[r].cut
        /\ th'[r].again = th[r].again /\ th'[r].saved = TRUE
    BY <1>0, <1>9, SaveMarkersLocals
  <2>3. Rendered(r)' = Rendered(r) /\ Rendered(r) = Own(r)
    BY <2>1, <2>2 DEF Own
  <2>4. InAudio' = InAudio /\ (Describes(th[r].was) => Describes(th[r].was)')
    BY <2>1, <2>2
  <2> HIDE DEF InAudio, Describes, Rendered
  <2> QED BY <1>3, <2>1, <2>2, <2>3, <2>4
<1>10. CASE BeginOwnRecut(r)
  BY <1>0, <1>3, <1>10, BeginOwnRecutLocals DEF BeginOwnRecut, ThreadInv
<1>11. CASE LoadForOwnRecut(r)
  BY <1>0, <1>3, <1>11, LoadForOwnRecutLocals DEF LoadForOwnRecut, ThreadInv
<1>12. CASE OwnRecutFallsBack(r)
  BY <1>0, <1>3, <1>12, OwnRecutFallsBackLocals DEF OwnRecutFallsBack, ThreadInv
<1>13. CASE CheckOwner(r)
  BY <1>0, <1>3, <1>13, CheckOwnerLocals DEF CheckOwner, ThreadInv
<1>14. CASE Persist(r)
  <2>1. /\ row'.version = th[r].next /\ row'.published /\ row'.stamp = row.stamp
        /\ row'.status = "processed"
    BY <1>0, <1>14 DEF Persist
  <2>2. /\ markers' = markers /\ torn' = FALSE /\ rebuild' = rebuild /\ audio' = audio
        /\ stamped' = stamped /\ exposed' = exposed /\ th[r].at = "checked"
    BY <1>14 DEF Persist
  <2>3. /\ th'[r].at = "persisted" /\ th'[r].next = th[r].next /\ th'[r].start = th[r].start
        /\ th'[r].cut = th[r].cut /\ th'[r].again = th[r].again
    BY <1>0, <1>14, PersistLocals
  <2>4. Rendered(r)' = Rendered(r)
    BY <2>2, <2>3
  <2>5. HasFile(r) /\ ~In(r, {"moved"}) /\ Loaded(r)
    BY <2>2
  <2>6. th[r].cut \subseteq InAudio'
    BY <1>3, <2>1, <2>2, <2>5
  <2> HIDE DEF InAudio, Rendered
  <2> QED BY <1>3, <2>1, <2>2, <2>3, <2>4, <2>5, <2>6
<1>15. CASE ClearStamp(r)
  BY <1>0, <1>3, <1>15, ClearStampLocals DEF ClearStamp, ThreadInv
<1>16. CASE CleanStale(r)
  <2>1. row'.version = row.version /\ row'.published = row.published
        /\ markers' = markers /\ th[r].at = "cleared"
    BY <1>0, <1>16 DEF CleanStale
  <2>2. th'[r].at = "done" /\ th'[r].next = th[r].next /\ th'[r].cut = th[r].cut
        /\ th'[r].again = th[r].again
    BY <1>0, <1>16, CleanStaleLocals
  <2>3. audio'[th[r].next] = audio[th[r].next]
    BY <1>0, <1>16, FieldTypes DEF CleanStale
  <2>4. Rendered(r)' = Rendered(r)
    BY <2>1, <2>2
  <2> HIDE DEF Rendered
  <2> QED BY <1>3, <2>1, <2>2, <2>3, <2>4
<1>17. CASE (\E rerun \in BOOLEAN : Complete(r, rerun)) \/ Fail(r) \/ Cancelled(r)
  BY <1>0, <1>17, EndsLocals DEF Complete, Fail, Cancelled
<1>18. CASE Cancel(r)
  BY <1>3, <1>18 DEF Cancel
<1> QED BY <1>4, <1>5, <1>6, <1>7, <1>8, <1>9, <1>10, <1>11, <1>12, <1>13, <1>14,
           <1>15, <1>16, <1>17, <1>18 DEF RunStep
-----------------------------------------------------------------------------
(* What is served *)

\* That a sweep was overtaken is never forgotten.
LEMMA RacedStays ==
  ASSUME FilesTypeOK, [FilesNext]_filesVars, raced
  PROVE  raced'
<1> USE DEF Runs_, Rests_, Sweeps_, history
<1>1. ASSUME NEW r \in Runs, RunStep(r) PROVE raced'
  BY <1>1 DEF RunStep, Admit, Begin, MarkProcessing, LoadCorrections, SaveMidRun, Move,
     SaveMarkers, BeginOwnRecut, LoadForOwnRecut, OwnRecutFallsBack, CheckOwner, Persist,
     ClearStamp, CleanStale, Complete, Fail, Cancelled, Cancel
<1>2. ASSUME NEW w \in Sweepers,
             \/ SelectAndFence(w) \/ SelectExpired(w) \/ Unlink(w) \/ Reset(w) \/ ClearFence(w)
      PROVE  raced'
  BY <1>2 DEF SelectAndFence, SelectExpired, Unlink, Reset, ClearFence
<1>3. CASE LeaderDies \/ Tick \/ ApplyChapters \/ RebuildClears \/ UNCHANGED filesVars
  BY <1>3 DEF LeaderDies, Tick, ApplyChapters, RebuildClears, filesVars
<1>4. CASE \E mode \in Modes \ {"none"}, queues \in BOOLEAN : Request(mode, queues)
  BY <1>4 DEF Request
<1>5. CASE \E d \in Decisions : Decide(d) \/ Stamp(d)
  BY <1>5 DEF Decide, Stamp
<1>6. CASE \E fails \in BOOLEAN : Rebuild(fails)
  BY <1>6 DEF Rebuild
<1> QED BY <1>1, <1>2, <1>3, <1>4, <1>5, <1>6 DEF FilesNext

\* A deletion that has unlinked the files ends in the row's reset, or is cut short.
LEMMA SweptStays ==
  ASSUME FilesTypeOK, [FilesNext]_filesVars, Swept
  PROVE  Swept' \/ (~row'.published /\ markers' = NoRender)
<1> USE DEF Runs_, Rests_, Sweeps_, history
<1>1. CASE raced
  BY <1>1, RacedStays DEF Swept
<1> SUFFICES ASSUME NEW w \in Sweepers, sweep[w].at = "unlinked"
             PROVE  Swept' \/ (~row'.published /\ markers' = NoRender)
  BY <1>1 DEF Swept
<1>2. CASE sweep' = sweep
  BY <1>2 DEF Swept
<1>3. ASSUME NEW q \in Sweepers,
             \/ SelectAndFence(q) \/ SelectExpired(q) \/ Unlink(q) \/ Reset(q) \/ ClearFence(q)
      PROVE  Swept' \/ (~row'.published /\ markers' = NoRender)
  <2>1. CASE Reset(q)
    BY <2>1, FieldTypes DEF Reset
  <2>2. CASE ~Reset(q)
    <3>1. q # w
      BY <1>3, <2>2 DEF SelectAndFence, SelectExpired, Unlink, ClearFence
    <3>2. sweep'[w] = sweep[w]
      BY <1>3, <2>2, <3>1 DEF SelectAndFence, SelectExpired, Unlink, ClearFence, Leaves,
         SweepGoes, FilesTypeOK
    <3> QED BY <3>2 DEF Swept
  <2> QED BY <2>1, <2>2
<1>4. CASE LeaderDies
  <2>1. CASE sweep[w].fences
    <3>1. sweep'[w] = sweep[w]
      BY <1>4, <2>1 DEF LeaderDies
    <3> QED BY <3>1 DEF Swept
  <2>2. CASE ~sweep[w].fences
    <3>1. sweep[w] \in [at : {"idle", "selected", "unlinked", "clearing", "done"},
                        fences : BOOLEAN]
      BY DEF FilesTypeOK
    <3>2. sweep[w] = [at |-> "unlinked", fences |-> FALSE]
      BY <2>2, <3>1
    <3>3. raced'
      BY <1>4, <3>2 DEF LeaderDies
    <3> QED BY <3>3 DEF Swept
  <2> QED BY <2>1, <2>2
<1>5. ASSUME NEW r \in Runs, RunStep(r) PROVE sweep' = sweep
  BY <1>5 DEF RunStep, Admit, Begin, MarkProcessing, LoadCorrections, SaveMidRun, Move,
     SaveMarkers, BeginOwnRecut, LoadForOwnRecut, OwnRecutFallsBack, CheckOwner, Persist,
     ClearStamp, CleanStale, Complete, Fail, Cancelled, Cancel
<1>6. CASE \/ Tick \/ ApplyChapters \/ RebuildClears \/ UNCHANGED filesVars
           \/ \E mode \in Modes \ {"none"}, queues \in BOOLEAN : Request(mode, queues)
           \/ \E d \in Decisions : Decide(d) \/ Stamp(d)
           \/ \E fails \in BOOLEAN : Rebuild(fails)
  <2>1. sweep' = sweep
    BY <1>6 DEF Tick, ApplyChapters, RebuildClears, filesVars, Request, Decide, Stamp, Rebuild
  <2> QED BY <1>2, <2>1
<1> QED BY <1>2, <1>3, <1>4, <1>5, <1>6 DEF FilesNext

\* The version a thread renders to is not the one that is served.
LEMMA MoveIsFresh ==
  ASSUME FilesTypeOK, NEW r \in Runs, ThreadInv(r), Move(r)
  PROVE  /\ \E v \in Versions :
              /\ row.published => v # row.version
              /\ audio' = [audio EXCEPT ![v] = [by |-> Own(r), cut |-> Cut(r)]]
              /\ Goes(r, [th[r] EXCEPT !.at = "moved", !.next = v])
         /\ [by |-> Own(r), cut |-> Cut(r)] # NoRender
<1>1. [by |-> Own(r), cut |-> Cut(r)] # NoRender
  BY OwnType, RenderAssumption
<1>2. PICK v \in Versions :
        /\ v = IF Recut(r) THEN th[r].snap.version + 1
               ELSE IF th[r].again = "in" THEN row.version + 1 ELSE NextVersion(row)
        /\ audio' = [audio EXCEPT ![v] = [by |-> Own(r), cut |-> Cut(r)]]
        /\ Goes(r, [th[r] EXCEPT !.at = "moved", !.next = v])
  BY DEF Move
<1>3. row.published => v # row.version
  BY <1>2, FieldTypes DEF Move, ThreadInv, NextVersion, Versions, In, BeforePersist
<1> QED BY <1>1, <1>2, <1>3

\* The cleanup of a cancelled run spares the version that is served.
LEMMA LeavingsSpare ==
  ASSUME FilesTypeOK, row.published, NEW s
  PROVE  row.version \notin Leavings(s)
<1>1. Published(row) = row.version /\ row.version # None
  BY RowTypes DEF Published, None, Versions
<1> QED BY <1>1 DEF Leavings, KeepsRow

\* A step of a run publishes the row only by publication.
LEMMA RunPublishes ==
  ASSUME FilesTypeOK, NEW r \in Runs, RunStep(r), ~Persist(r)
  PROVE  row'.published = row.published
<1> USE DEF Runs_
<1>0. row \in [status : Statuses, version : Versions, published : BOOLEAN,
               requested : BOOLEAN, policy : BOOLEAN, mode : Modes, queued : BOOLEAN,
               stamp : 0..MaxTime \cup {None}]
  BY FieldTypes
<1>1. CASE \E rerun \in BOOLEAN : Complete(r, rerun)
  BY <1>0, <1>1 DEF Complete
<1>2. CASE Cancelled(r)
  BY <1>0, <1>2 DEF Cancelled
<1>3. CASE MarkProcessing(r) \/ BeginOwnRecut(r) \/ ClearStamp(r) \/ CleanStale(r) \/ Fail(r)
  BY <1>0, <1>3 DEF MarkProcessing, BeginOwnRecut, ClearStamp, CleanStale, Fail
<1> QED BY <1>1, <1>2, <1>3 DEF RunStep, Admit, Begin, LoadCorrections, SaveMidRun, Move,
           SaveMarkers, LoadForOwnRecut, OwnRecutFallsBack, CheckOwner, Cancel

\* The row keeps naming the file it named, with what it was made from and more.
KeepsServing ==
  /\ row.published /\ row'.version = row.version
  /\ audio[row.version] # NoRender /\ audio'[row.version] # NoRender
  /\ audio'[row.version].by = audio[row.version].by
  /\ audio[row.version].cut \subseteq audio'[row.version].cut

\* A step of a run that does not publish keeps serving.
LEMMA RunKeepsServing ==
  ASSUME FilesInv, NEW r \in Runs, RunStep(r), ~Persist(r), ~Swept, row.published
  PROVE  KeepsServing
<1> USE DEF Runs_
<1>0. /\ FilesTypeOK /\ ThreadInv(r) /\ audio[row.version] # NoRender /\ row.version \in Versions
      /\ row \in [status : Statuses, version : Versions, published : BOOLEAN,
                  requested : BOOLEAN, policy : BOOLEAN, mode : Modes, queued : BOOLEAN,
                  stamp : 0..MaxTime \cup {None}]
  BY FieldTypes DEF FilesInv, PublishedAudioExists
<1>1. row'.version = row.version
  <2>1. CASE \E rerun \in BOOLEAN : Complete(r, rerun)
    BY <1>0, <2>1 DEF Complete
  <2>2. CASE Cancelled(r)
    BY <1>0, <2>2 DEF Cancelled
  <2>3. CASE MarkProcessing(r) \/ BeginOwnRecut(r) \/ ClearStamp(r) \/ CleanStale(r) \/ Fail(r)
    BY <1>0, <2>3 DEF MarkProcessing, BeginOwnRecut, ClearStamp, CleanStale, Fail
  <2> QED BY <2>1, <2>2, <2>3 DEF RunStep, Admit, Begin, LoadCorrections, SaveMidRun, Move,
             SaveMarkers, LoadForOwnRecut, OwnRecutFallsBack, CheckOwner, Cancel
<1>2. audio'[row.version] = audio[row.version]
  <2>1. CASE Move(r)
    BY <1>0, <2>1, MoveIsFresh DEF FilesTypeOK
  <2>2. CASE CleanStale(r)
    BY <1>0, <2>2 DEF CleanStale, ThreadInv, In, AfterPersist
  <2>3. CASE Cancelled(r)
    BY <1>0, <2>3, LeavingsSpare DEF Cancelled
  <2>4. CASE ~(Move(r) \/ CleanStale(r) \/ Cancelled(r))
    <3>1. audio' = audio
      BY <2>4 DEF RunStep, Admit, Begin, MarkProcessing, LoadCorrections, SaveMidRun, SaveMarkers,
         BeginOwnRecut, LoadForOwnRecut, OwnRecutFallsBack, CheckOwner, Persist, ClearStamp,
         Complete, Fail, Cancel
    <3> QED BY <3>1
  <2> QED BY <2>1, <2>2, <2>3, <2>4
<1> QED BY <1>0, <1>1, <1>2 DEF KeepsServing

\* Nor does anything else that happens stop it, but for the deletions.
LEMMA OthersKeepServing ==
  ASSUME FilesInv, [FilesNext]_filesVars, ~\E r \in Runs : RunStep(r),
         ~Swept, ~Swept', row'.published
  PROVE  KeepsServing
<1> USE DEF Rests_, Sweeps_, KeepsServing
<1>0. /\ FilesTypeOK /\ (row.published => audio[row.version] # NoRender) /\ row.version \in Versions
      /\ row \in [status : Statuses, version : Versions, published : BOOLEAN,
                  requested : BOOLEAN, policy : BOOLEAN, mode : Modes, queued : BOOLEAN,
                  stamp : 0..MaxTime \cup {None}]
  BY FieldTypes DEF FilesInv, PublishedAudioExists
<1>1. CASE Tick \/ ApplyChapters \/ UNCHANGED filesVars
  BY <1>0, <1>1 DEF Tick, ApplyChapters, filesVars
<1>2. CASE LeaderDies \/ RebuildClears
  <2>1. row'.version = row.version /\ row'.published = row.published /\ audio' = audio
    BY <1>0, <1>2 DEF LeaderDies, RebuildClears
  <2> QED BY <1>0, <2>1
<1>3. CASE \E mode \in Modes \ {"none"}, queues \in BOOLEAN : Request(mode, queues)
  <2>1. row'.version = row.version /\ row'.published = row.published /\ audio' = audio
    BY <1>0, <1>3 DEF Request
  <2> QED BY <1>0, <2>1
<1>4. CASE \E d \in Decisions : Decide(d) \/ Stamp(d)
  <2>1. row'.version = row.version /\ row'.published = row.published /\ audio' = audio
    BY <1>0, <1>4 DEF Decide, Stamp
  <2> QED BY <1>0, <2>1
<1>5. ASSUME NEW fails \in BOOLEAN, Rebuild(fails) PROVE KeepsServing
  <2>1. row' = row
    BY <1>5 DEF Rebuild
  <2> QED BY <1>0, <1>5, <2>1, RebuildStep
<1>6. ASSUME NEW w \in Sweepers, Unlink(w) PROVE KeepsServing
  <2>1. CASE row.published
    <3>1. sweep'[w].at = "unlinked"
      BY <1>0, <1>6, <2>1 DEF Unlink, SweepGoes, FilesTypeOK
    <3> QED BY <3>1 DEF Swept
  <2> QED BY <1>0, <1>6, <2>1 DEF Unlink
<1>7. ASSUME NEW w \in Sweepers, SelectAndFence(w) \/ SelectExpired(w) \/ Reset(w) \/ ClearFence(w)
      PROVE  KeepsServing
  BY <1>0, <1>7 DEF SelectAndFence, SelectExpired, Reset, ClearFence
<1> QED BY <1>1, <1>2, <1>3, <1>4, <1>5, <1>6, <1>7 DEF FilesNext

\* A publication serves the render of the run, from every correction the run has loaded.
LEMMA PersistServes ==
  ASSUME FilesInv, NEW r \in Runs, Persist(r), ~raced
  PROVE  /\ row'.published /\ row'.version = th[r].next
         /\ audio'[row'.version] # NoRender /\ markers' = audio'[row'.version].by
         /\ InAudio \cup rebuild.seen \subseteq th[r].cut
         /\ th[r].cut \subseteq InAudio'
         /\ row.stamp > th[r].start \/ stamped \ exposed \subseteq th[r].cut
<1>1. WorkInv(r) /\ th[r].at = "checked"
  BY DEF FilesInv, Persist, In
<1>2. HasFile(r) /\ Loaded(r) /\ ~In(r, {"moved"})
  BY <1>1 DEF HasFile, Loaded, In
<1>3. row'.published /\ row'.version = th[r].next /\ audio' = audio /\ markers' = markers
  BY FieldTypes DEF Persist, Runs_, FilesInv
<1>4. /\ audio[th[r].next] # NoRender /\ audio[th[r].next].by = Rendered(r)
      /\ th[r].cut \subseteq audio[th[r].next].cut /\ markers = Rendered(r)
      /\ InAudio \cup rebuild.seen \subseteq th[r].cut
      /\ row.stamp > th[r].start \/ stamped \ exposed \subseteq th[r].cut
  BY <1>1, <1>2 DEF WorkInv
<1>5. InAudio' = audio[th[r].next].cut
  BY <1>3, <1>4 DEF InAudio
<1> QED BY <1>3, <1>4, <1>5

\* After a step that leaves the row published and no sweep under way, there is a file: the
\* one that was served before, or the one a run has just published.
LEMMA ServedStep ==
  ASSUME FilesInv, [FilesNext]_filesVars, ~Swept', row'.published
  PROVE  /\ ~Swept /\ ~raced /\ ~raced'
         /\ audio'[row'.version] # NoRender
         /\ InAudio \subseteq InAudio'
         /\ KeepsServing \/ \E r \in Runs : Persist(r)
<1>1. FilesTypeOK
  BY DEF FilesInv
<1>2. ~Swept /\ ~raced /\ ~raced'
  BY <1>1, SweptStays DEF Swept
<1>3. ASSUME NEW r \in Runs, Persist(r)
      PROVE  audio'[row'.version] # NoRender /\ InAudio \subseteq InAudio'
  BY <1>2, <1>3, PersistServes
<1>4. ASSUME ~\E r \in Runs : Persist(r) PROVE KeepsServing
  <2>1. ASSUME NEW r \in Runs, RunStep(r) PROVE row.published
    BY <1>1, <1>4, <2>1, FieldTypes, RunPublishes
  <2>2. CASE \E r \in Runs : RunStep(r)
    BY <1>2, <1>4, <2>1, <2>2, RunKeepsServing
  <2> QED BY <1>2, <2>2, OthersKeepServing
<1>5. KeepsServing => audio'[row'.version] # NoRender /\ InAudio \subseteq InAudio'
  BY DEF KeepsServing, InAudio
<1> QED BY <1>2, <1>3, <1>4, <1>5

-----------------------------------------------------------------------------
(* Stamps, and the rebuild of chapters *)

\* The stamp after a step of a run, and what any file may have been made from.
LEMMA RunKeepsStamps ==
  ASSUME FilesInv, NEW r \in Runs, RunStep(r)
  PROVE  /\ UNCHANGED decisionVars /\ UNCHANGED exposed /\ now' = now
         /\ row'.stamp \in {row.stamp, None}
         /\ \A v \in Versions : audio'[v] # NoRender => audio'[v].cut \subseteq decided
<1> USE DEF Runs_, decisionVars
<1>0. /\ FilesTypeOK /\ ThreadInv(r)
      /\ \A v \in Versions : audio[v] # NoRender => audio[v].cut \subseteq decided
      /\ row \in [status : Statuses, version : Versions, published : BOOLEAN,
                  requested : BOOLEAN, policy : BOOLEAN, mode : Modes, queued : BOOLEAN,
                  stamp : 0..MaxTime \cup {None}]
  BY FieldTypes DEF FilesInv, StampInv
<1>1. UNCHANGED decisionVars /\ UNCHANGED exposed /\ now' = now
  BY DEF RunStep, Admit, Begin, MarkProcessing, LoadCorrections, SaveMidRun, Move,
     SaveMarkers, BeginOwnRecut, LoadForOwnRecut, OwnRecutFallsBack, CheckOwner, Persist,
     ClearStamp, CleanStale, Complete, Fail, Cancelled, Cancel, history
<1>2. row'.stamp \in {row.stamp, None}
  <2>1. CASE \E rerun \in BOOLEAN : Complete(r, rerun)
    BY <1>0, <2>1 DEF Complete
  <2>2. CASE Cancelled(r)
    BY <1>0, <2>2 DEF Cancelled
  <2>3. CASE MarkProcessing(r) \/ BeginOwnRecut(r) \/ CleanStale(r) \/ Fail(r) \/ Persist(r)
    BY <1>0, <2>3 DEF MarkProcessing, BeginOwnRecut, CleanStale, Fail, Persist
  <2>4. CASE ClearStamp(r)
    BY <1>0, <2>4 DEF ClearStamp, Clear
  <2> QED BY <2>1, <2>2, <2>3, <2>4 DEF RunStep, Admit, Begin, LoadCorrections, SaveMidRun, Move,
             SaveMarkers, LoadForOwnRecut, OwnRecutFallsBack, CheckOwner, Cancel
<1>3. \A v \in Versions : audio'[v] # NoRender => audio'[v].cut \subseteq decided
  <2>1. CASE Move(r)
    <3>1. PICK v \in Versions : audio' = [audio EXCEPT ![v] = [by |-> Own(r), cut |-> Cut(r)]]
      BY <2>1 DEF Move
    <3>2. Cut(r) \subseteq decided
      BY <1>0 DEF Cut, ThreadInv
    <3> QED BY <1>0, <3>1, <3>2 DEF FilesTypeOK
  <2>2. CASE CleanStale(r)
    BY <1>0, <2>2 DEF CleanStale
  <2>3. CASE Cancelled(r)
    BY <1>0, <2>3 DEF Cancelled
  <2>4. CASE ~(Move(r) \/ CleanStale(r) \/ Cancelled(r))
    <3>1. audio' = audio
      BY <2>4 DEF RunStep, Admit, Begin, MarkProcessing, LoadCorrections, SaveMidRun, SaveMarkers,
         BeginOwnRecut, LoadForOwnRecut, OwnRecutFallsBack, CheckOwner, Persist, ClearStamp,
         Complete, Fail, Cancel
    <3> QED BY <1>0, <3>1
  <2> QED BY <2>1, <2>2, <2>3, <2>4
<1> QED BY <1>1, <1>2, <1>3

\* A step that neither stamps nor concerns the rebuild.
LEMMA StampFrame ==
  ASSUME FilesInv, [FilesNext]_filesVars, rebuild' = rebuild, stamped' = stamped,
         exposed' = exposed, decided \subseteq decided', row'.stamp <= now',
         \A v \in Versions : audio'[v] # NoRender => audio'[v].cut \subseteq decided'
  PROVE  StampInv'
<1>1. StampInv
  BY DEF FilesInv
<1>2. ASSUME row'.published, ~Swept'
      PROVE  /\ rebuild.at = "todo"
                  => row'.version = rebuild.version \/ rebuild.seen \subseteq InAudio'
             /\ rebuild.at = "rebuilt" => rebuild.seen \ exposed \subseteq InAudio'
  <2>1. CASE \E r \in Runs : Persist(r)
    BY <1>2, <2>1, ServedStep, PersistServes
  <2>2. CASE KeepsServing
    BY <1>1, <1>2, <2>2, ServedStep DEF StampInv, KeepsServing
  <2> QED BY <1>2, <2>1, <2>2, ServedStep
<1> QED BY <1>1, <1>2 DEF StampInv

\* A step keeps them.
LEMMA StampInvStep ==
  ASSUME FilesInv, [FilesNext]_filesVars
  PROVE  StampInv'
<1> USE DEF Rests_, Sweeps_, decisionVars, history
<1>0. /\ FilesTypeOK /\ StampInv
      /\ now \in Nat /\ row.stamp \in Int /\ None <= now /\ stamped \subseteq decided
      /\ row \in [status : Statuses, version : Versions, published : BOOLEAN,
                  requested : BOOLEAN, policy : BOOLEAN, mode : Modes, queued : BOOLEAN,
                  stamp : 0..MaxTime \cup {None}]
  BY FieldTypes DEF FilesInv, None, FilesTypeOK
<1>1. CASE \E r \in Runs : RunStep(r)
  BY <1>0, <1>1, RunKeepsStamps, StampFrame DEF StampInv
<1>2. CASE \/ LeaderDies \/ Tick \/ UNCHANGED filesVars
           \/ \E mode \in Modes \ {"none"}, queues \in BOOLEAN : Request(mode, queues)
           \/ \E d \in Decisions : Decide(d)
           \/ \E w \in Sweepers : \/ SelectAndFence(w) \/ SelectExpired(w) \/ Unlink(w)
                                  \/ Reset(w) \/ ClearFence(w)
  <2>1. /\ rebuild' = rebuild /\ stamped' = stamped /\ exposed' = exposed
        /\ decided \subseteq decided' /\ now' \in {now, now + 1}
    BY <1>2 DEF LeaderDies, Tick, filesVars, Request, Decide, SelectAndFence, SelectExpired,
       Unlink, Reset, ClearFence
  <2>2. row'.stamp = row.stamp
    <3>1. CASE LeaderDies
      BY <1>0, <3>1 DEF LeaderDies
    <3>2. CASE \E mode \in Modes \ {"none"}, queues \in BOOLEAN : Request(mode, queues)
      BY <1>0, <3>2 DEF Request
    <3>3. CASE \E w \in Sweepers : Reset(w)
      BY <1>0, <3>3 DEF Reset
    <3> QED BY <1>2, <3>1, <3>2, <3>3 DEF Tick, filesVars, Decide, SelectAndFence, SelectExpired,
               Unlink, ClearFence
  <2>3. \A v \in Versions : audio'[v] \in {audio[v], NoRender}
    BY <1>2 DEF LeaderDies, Tick, filesVars, Request, Decide, SelectAndFence, SelectExpired,
       Unlink, Reset, ClearFence
  <2> QED BY <1>0, <2>1, <2>2, <2>3, StampFrame DEF StampInv
<1>3. CASE ApplyChapters
  <2>1. /\ row' = row /\ stamped' = stamped /\ exposed' = exposed /\ decided' = decided
        /\ now' = now /\ audio' = audio
        /\ rebuild'.at = "todo" /\ rebuild'.seen = decided /\ rebuild'.version = row.version
    BY <1>3 DEF ApplyChapters
  <2> QED BY <1>0, <2>1 DEF StampInv
<1>4. CASE RebuildClears
  <2>1. /\ stamped' = stamped /\ exposed' = exposed /\ decided' = decided
        /\ now' = now /\ audio' = audio
        /\ rebuild'.at = "idle" /\ rebuild'.seen = {}
    BY <1>4 DEF RebuildClears, NoRebuild
  <2>2. row'.stamp \in {row.stamp, None}
    BY <1>0, <1>4 DEF RebuildClears, Clear
  <2> QED BY <1>0, <2>1, <2>2 DEF StampInv
<1>5. ASSUME NEW fails \in BOOLEAN, Rebuild(fails) PROVE StampInv'
  <2>1. /\ row' = row /\ stamped' = stamped /\ decided' = decided /\ now' = now /\ sweep' = sweep
        /\ raced' = raced /\ rebuild.at = "todo"
    BY <1>5 DEF Rebuild
  <2>2. /\ rebuild'.at = "rebuilt" /\ rebuild'.seen = rebuild.seen
        /\ rebuild'.version = rebuild.version
    BY <1>0, <1>5 DEF Rebuild, FilesTypeOK
  <2>3. \A v \in Versions : audio'[v] # NoRender => audio'[v].cut \subseteq decided
    BY <1>0, <1>5, RebuildStep DEF StampInv
  <2>4. ASSUME row.published, ~Swept PROVE rebuild.seen \ exposed' \subseteq InAudio'
    <3>1. audio[row.version] # NoRender /\ audio'[row.version] # NoRender
          /\ audio[row.version].cut \subseteq audio'[row.version].cut /\ exposed \subseteq exposed'
      BY <1>0, <1>5, <2>4, RebuildStep, FieldTypes DEF FilesInv, PublishedAudioExists
    <3>2. CASE row.version = rebuild.version
      BY <1>0, <1>5, <2>1, <2>4, <3>1, <3>2, RebuildStep DEF InAudio
    <3>3. CASE rebuild.seen \subseteq InAudio
      BY <2>1, <2>4, <3>1, <3>3 DEF InAudio
    <3> QED BY <1>0, <2>1, <2>4, <3>2, <3>3 DEF StampInv
  <2>5. Swept' <=> Swept
    BY <2>1 DEF Swept
  <2>6. exposed \subseteq exposed'
    BY <1>0, <1>5, RebuildStep
  <2> QED BY <1>0, <2>1, <2>2, <2>3, <2>4, <2>5, <2>6 DEF StampInv
<1>6. ASSUME NEW d \in Decisions, Stamp(d) PROVE StampInv'
  <2>1. /\ decided' = decided /\ now' = now /\ audio' = audio /\ rebuild' = rebuild
        /\ sweep' = sweep /\ raced' = raced /\ d \in decided /\ stamped' = stamped \cup {d}
        /\ exposed' = IF Blind(d) THEN exposed \cup {d} ELSE exposed
    BY <1>6 DEF Stamp
  <2>2. /\ row'.stamp = Stamped /\ row'.version = row.version /\ row'.published = row.published
    BY <1>0, <1>6 DEF Stamp
  <2>3. Stamped <= now
    BY <1>0, StampGrows DEF StampInv
  <2>4. rebuild.at # "idle" /\ ~Blind(d) => d \in rebuild.seen
    BY DEF Blind
  <2>5. (Swept' <=> Swept) /\ InAudio' = InAudio
    BY <2>1, <2>2 DEF Swept, InAudio
  <2>6. rebuild.at # "idle" => stamped' \ exposed' \subseteq rebuild.seen
    BY <1>0, <2>1, <2>4 DEF StampInv
  <2>7. exposed \subseteq exposed'
    BY <2>1
  <2> QED BY <1>0, <2>1, <2>2, <2>3, <2>5, <2>6, <2>7 DEF StampInv
<1> QED BY <1>1, <1>2, <1>3, <1>4, <1>5, <1>6 DEF FilesNext

\* Only a publication, a rebuild and a decision touch the stamp, and what is exposed stays so.
LEMMA StampStays ==
  ASSUME FilesInv, [FilesNext]_filesVars
  PROVE  /\ exposed \subseteq exposed'
         /\ \/ row'.stamp = row.stamp /\ stamped' = stamped
            \/ \E r \in Runs : ClearStamp(r)
            \/ RebuildClears
            \/ \E d \in Decisions : Stamp(d)
<1> USE DEF Runs_, Rests_, Sweeps_, decisionVars, history
<1>0. /\ FilesTypeOK
      /\ row \in [status : Statuses, version : Versions, published : BOOLEAN,
                  requested : BOOLEAN, policy : BOOLEAN, mode : Modes, queued : BOOLEAN,
                  stamp : 0..MaxTime \cup {None}]
  BY FieldTypes DEF FilesInv
<1>1. ASSUME NEW r \in Runs, RunStep(r), ~ClearStamp(r) PROVE row'.stamp = row.stamp
  <2>1. CASE \E rerun \in BOOLEAN : Complete(r, rerun)
    BY <1>0, <2>1 DEF Complete
  <2>2. CASE Cancelled(r)
    BY <1>0, <2>2 DEF Cancelled
  <2>3. CASE MarkProcessing(r) \/ BeginOwnRecut(r) \/ CleanStale(r) \/ Fail(r) \/ Persist(r)
    BY <1>0, <2>3 DEF MarkProcessing, BeginOwnRecut, CleanStale, Fail, Persist
  <2> QED BY <1>1, <2>1, <2>2, <2>3 DEF RunStep, Admit, Begin, LoadCorrections, SaveMidRun, Move,
             SaveMarkers, LoadForOwnRecut, OwnRecutFallsBack, CheckOwner, Cancel
<1>2. CASE LeaderDies
  BY <1>0, <1>2 DEF LeaderDies
<1>3. CASE \E mode \in Modes \ {"none"}, queues \in BOOLEAN : Request(mode, queues)
  BY <1>0, <1>3 DEF Request
<1>4. CASE \E w \in Sweepers : \/ SelectAndFence(w) \/ SelectExpired(w) \/ Unlink(w)
                               \/ Reset(w) \/ ClearFence(w)
  BY <1>0, <1>4 DEF SelectAndFence, SelectExpired, Unlink, Reset, ClearFence
<1>5. CASE Tick \/ ApplyChapters \/ UNCHANGED filesVars
  BY <1>5 DEF Tick, ApplyChapters, filesVars
<1>6. CASE \E d \in Decisions : Decide(d)
  BY <1>6 DEF Decide
<1>7. ASSUME NEW fails \in BOOLEAN, Rebuild(fails)
      PROVE  row'.stamp = row.stamp /\ stamped' = stamped /\ exposed \subseteq exposed'
  BY <1>0, <1>7, RebuildStep DEF Rebuild
<1>8. CASE \E d \in Decisions : Stamp(d)
  BY <1>8 DEF Stamp
<1>9. CASE RebuildClears
  BY <1>9 DEF RebuildClears
<1> QED BY <1>1, <1>2, <1>3, <1>4, <1>5, <1>6, <1>7, <1>8, <1>9, RunKeepsStamps DEF FilesNext

\* A step keeps every stamped decision that is not exposed in the audio, or stamped.
LEMMA SurvivalStep ==
  ASSUME FilesInv, [FilesNext]_filesVars
  PROVE  StampedDecisionsSurvive'
<1> SUFFICES ASSUME row'.published, ~Swept', row'.stamp = None
             PROVE  stamped' \ exposed' \subseteq InAudio'
  BY DEF StampedDecisionsSurvive
<1>0. FilesTypeOK /\ StampInv /\ StampedDecisionsSurvive
  BY DEF FilesInv
<1>1. ~Swept /\ ~raced /\ InAudio \subseteq InAudio' /\ exposed \subseteq exposed'
  BY ServedStep, StampStays
<1>2. CASE row'.stamp = row.stamp /\ stamped' = stamped
  <2>1. CASE \E r \in Runs : Persist(r)
    <3>1. PICK r \in Runs : Persist(r)
      BY <2>1
    <3>2. ~(row.stamp > th[r].start)
      BY <1>0, <1>2, FieldTypes DEF None
    <3> QED BY <1>1, <1>2, <3>1, <3>2, PersistServes
  <2>2. CASE KeepsServing
    BY <1>0, <1>1, <1>2, <2>2 DEF StampedDecisionsSurvive, KeepsServing
  <2> QED BY <2>1, <2>2, ServedStep
<1>3. ASSUME NEW r \in Runs, ClearStamp(r) PROVE stamped' \ exposed' \subseteq InAudio'
  <2>1. stamped' = stamped /\ exposed' = exposed /\ In(r, {"persisted"})
    BY <1>3 DEF ClearStamp, Runs_, decisionVars, history
  <2>2. row'.stamp = Clear(th[r].start)
    BY <1>0, <1>3, FieldTypes DEF ClearStamp
  <2>3. ~(row.stamp > th[r].start)
    BY <1>0, <2>2, FieldTypes DEF Clear, None
  <2> QED BY <1>1, <2>1, <2>3 DEF FilesInv, WorkInv
<1>4. CASE RebuildClears
  <2>1. stamped' = stamped /\ exposed' = exposed /\ rebuild.at = "rebuilt" /\ row.published
    BY <1>0, <1>4, FieldTypes DEF RebuildClears, Rests_, decisionVars, history
  <2> QED BY <1>0, <1>1, <2>1 DEF StampInv
<1>5. ASSUME NEW d \in Decisions, Stamp(d) PROVE FALSE
  <2>1. row'.stamp = Stamped
    BY <1>0, <1>5, FieldTypes DEF Stamp
  <2> QED BY <1>0, <2>1, StampGrows DEF StampInv
<1> QED BY <1>2, <1>3, <1>4, <1>5, StampStays

-----------------------------------------------------------------------------
(* Markers *)

\* The same of the markers m after the step.
DescribesNext(m) ==
  m # NoRender => row'.published /\ audio'[row'.version] # NoRender /\ m = audio'[row'.version].by

\* What the markers say goes for the row and the file after a step that keeps them.
LEMMA DescribesStays ==
  ASSUME NEW m, Describes(m),
         row'.published = row.published, row'.version = row.version,
         row.published => audio'[row.version] = audio[row.version]
  PROVE  DescribesNext(m)
BY DEF Describes, DescribesNext

\* When the thread of a run ends, its markers are to be had: as they are, or as they were.
LEMMA MarkersAtEnd ==
  ASSUME FilesInv, ~raced, ~torn, NEW r \in Runs
  PROVE  /\ In(r, AfterPersist \cup {"admitted"}) => Describes(markers)
         /\ In(r, BeforePersist) => Describes(th[r].was)
         /\ In(r, BeforePersist) /\ ~th[r].saved => Describes(markers)
<1>1. WorkInv(r) /\ ThreadInv(r)
  BY DEF FilesInv
<1>2. In(r, AfterPersist) => Describes(markers)
  <2>1. SUFFICES ASSUME In(r, AfterPersist) PROVE Describes(markers)
    OBVIOUS
  <2>2. HasFile(r) /\ ~In(r, {"moved"})
    BY <2>1 DEF HasFile, In, AfterPersist
  <2> QED BY <1>1, <2>1, <2>2 DEF WorkInv, ThreadInv, Describes
<1>3. Describes(NoRender)
  BY DEF Describes
<1> QED BY <1>1, <1>2, <1>3 DEF WorkInv, In

\* A run that ends leaves the markers of the published audio, or tears them.
LEMMA EndMarkers ==
  ASSUME FilesInv, NEW r \in Runs, ~raced, ~torn',
         Fail(r) \/ Cancelled(r) \/ \E rerun \in BOOLEAN : Complete(r, rerun)
  PROVE  DescribesNext(markers')
<1> USE DEF In, BeforePersist, AfterPersist
<1>0. /\ FilesTypeOK /\ ThreadInv(r) /\ th[r].at \in Places /\ Describes(NoRender)
      /\ row \in [status : Statuses, version : Versions, published : BOOLEAN,
                  requested : BOOLEAN, policy : BOOLEAN, mode : Modes, queued : BOOLEAN,
                  stamp : 0..MaxTime \cup {None}]
  BY FieldTypes, OwnType DEF FilesInv, Threads, Describes
<1>1. CASE \E rerun \in BOOLEAN : Complete(r, rerun)
  <2>1. /\ markers' = markers /\ audio' = audio /\ torn' = torn /\ th[r].at = "done"
        /\ row'.version = row.version /\ row'.published = row.published
    BY <1>0, <1>1 DEF Complete, history
  <2> QED BY <2>1, MarkersAtEnd, DescribesStays
<1>2. CASE Fail(r)
  <2>1. /\ markers' = Rolled(r, FALSE) /\ audio' = audio /\ ~torn /\ ~Tears(r, FALSE)
        /\ row'.version = row.version /\ row'.published = row.published
    BY <1>0, <1>2 DEF Fail
  <2>2. Describes(Rolled(r, FALSE))
    <3>1. CASE In(r, {"persisted"})
      BY <2>1, <3>1 DEF Tears
    <3>2. CASE In(r, {"done"})
      BY <1>0, <2>1, <3>2, MarkersAtEnd DEF Rolled, PutsBack, ThreadInv
    <3>3. CASE In(r, BeforePersist)
      BY <1>0, <2>1, <3>3, MarkersAtEnd DEF Rolled, PutsBack, Tears, ThreadInv
    <3> QED BY <1>2, <3>1, <3>2, <3>3 DEF Fail
  <2> QED BY <2>1, <2>2, DescribesStays
<1>3. CASE Cancelled(r)
  <2>1. row'.version = row.version /\ row'.published = row.published
    BY <1>0, <1>3 DEF Cancelled
  <2>2. row.published => audio'[row.version] = audio[row.version]
    BY <1>0, <1>3, LeavingsSpare DEF Cancelled
  <2>3. Describes(markers')
    <3>1. CASE In(r, {"admitted"})
      BY <1>3, <3>1, MarkersAtEnd DEF Cancelled
    <3>2. CASE ~In(r, {"admitted"})
      <4>1. markers' = Rolled(r, TRUE) /\ ~torn /\ ~Tears(r, TRUE)
        BY <1>0, <1>3, <3>2 DEF Cancelled
      <4>2. CASE In(r, {"done"})
        BY <1>0, <4>1, <4>2, MarkersAtEnd DEF Rolled, PutsBack, Tears, ThreadInv
      <4>3. CASE In(r, BeforePersist)
        BY <1>0, <4>1, <4>3, MarkersAtEnd DEF Rolled, PutsBack, Tears, ThreadInv
      <4> QED BY <1>3, <3>2, <4>2, <4>3 DEF Cancelled
    <3> QED BY <3>1, <3>2
  <2> QED BY <2>1, <2>2, <2>3, DescribesStays
<1> QED BY <1>1, <1>2, <1>3

\* Nor does the death of the leader.
LEMMA DeathMarkers ==
  ASSUME FilesInv, LeaderDies, ~Swept', ~torn'
  PROVE  DescribesNext(markers')
<1>0. /\ FilesTypeOK /\ Exclusive
      /\ row \in [status : Statuses, version : Versions, published : BOOLEAN,
                  requested : BOOLEAN, policy : BOOLEAN, mode : Modes, queued : BOOLEAN,
                  stamp : 0..MaxTime \cup {None}]
  BY FieldTypes DEF FilesInv
<1>1. /\ ~raced /\ ~torn /\ markers' = markers /\ audio' = audio
      /\ row'.version = row.version /\ row'.published = row.published
  BY <1>0 DEF LeaderDies, Swept
<1>2. CASE Busy
  <2>1. PICK r \in Runs : Active(r)
    BY <1>2 DEF Busy
  <2>2. th[r].at # "none" /\ th[r].at \in Places
    BY <1>0, <2>1, OwnType DEF Exclusive, Threads
  <2>3. th[r].saved => In(r, AfterPersist)
    BY <2>1 DEF LeaderDies, In, AfterPersist
  <2>4. In(r, AfterPersist \cup {"admitted"}) \/ In(r, BeforePersist)
    BY <2>2 DEF In, AfterPersist, BeforePersist, Places
  <2>5. Describes(markers)
    BY <1>1, <2>3, <2>4, MarkersAtEnd DEF In
  <2> QED BY <1>1, <2>5, DescribesStays
<1>3. CASE ~Busy
  <2>1. ~Swept \/ (~row'.published /\ markers' = NoRender)
    BY <1>0, SweptStays DEF FilesNext
  <2>2. CASE ~Swept
    BY <1>1, <1>3, <2>2, DescribesStays DEF FilesInv
  <2> QED BY <1>1, <2>1, <2>2 DEF DescribesNext
<1> QED BY <1>2, <1>3

\* A step keeps the markers those of the published audio, while nothing runs.
LEMMA MarkersStep ==
  ASSUME FilesInv, [FilesNext]_filesVars, ~Busy', ~Swept', ~torn'
  PROVE  DescribesNext(markers')
<1> USE DEF Rests_, Sweeps_, history
<1>0. FilesTypeOK /\ Exclusive /\ ~raced
  BY RacedStays DEF FilesInv, Swept
<1>1. ASSUME NEW r \in Runs, RunStep(r) PROVE DescribesNext(markers')
  <2>1. CASE Fail(r) \/ Cancelled(r) \/ \E rerun \in BOOLEAN : Complete(r, rerun)
    BY <1>0, <2>1, EndMarkers
  <2>2. CASE Admit(r) \/ Cancel(r)
    <3>1. lease'[r] \in {"running", "cancel_requested"}
      BY <1>0, <2>2 DEF Admit, Cancel, FilesTypeOK
    <3> QED BY <3>1 DEF Busy, Active
  <2>3. CASE \/ Begin(r) \/ MarkProcessing(r) \/ LoadCorrections(r) \/ SaveMidRun(r) \/ Move(r)
             \/ SaveMarkers(r) \/ BeginOwnRecut(r) \/ LoadForOwnRecut(r) \/ OwnRecutFallsBack(r)
             \/ CheckOwner(r) \/ Persist(r) \/ ClearStamp(r) \/ CleanStale(r)
    <3>1. lease' = lease /\ th[r].at # "none"
      BY <2>3 DEF Begin, MarkProcessing, LoadCorrections, SaveMidRun, Move, SaveMarkers,
         BeginOwnRecut, LoadForOwnRecut, OwnRecutFallsBack, CheckOwner, Persist, ClearStamp,
         CleanStale, In, Runs_
    <3> QED BY <1>0, <3>1 DEF Exclusive, Busy, Active
  <2> QED BY <1>1, <2>1, <2>2, <2>3 DEF RunStep
<1>2. CASE LeaderDies
  BY <1>2, DeathMarkers
<1>3. ASSUME ~LeaderDies, ~\E r \in Runs : RunStep(r) PROVE DescribesNext(markers')
  <2>1. /\ lease' = lease /\ torn' = torn /\ markers' \in {markers, NoRender}
        /\ (row'.published = row.published \/ markers' = NoRender)
    <3>1. CASE Tick \/ ApplyChapters \/ RebuildClears \/ UNCHANGED filesVars
      BY <1>0, <3>1, FieldTypes DEF Tick, ApplyChapters, RebuildClears, filesVars
    <3>2. CASE \E mode \in Modes \ {"none"}, queues \in BOOLEAN : Request(mode, queues)
      BY <1>0, <3>2, FieldTypes DEF Request
    <3>3. CASE \E d \in Decisions : Decide(d) \/ Stamp(d)
      BY <1>0, <3>3, FieldTypes DEF Decide, Stamp
    <3>4. CASE \E fails \in BOOLEAN : Rebuild(fails)
      BY <3>4 DEF Rebuild
    <3>5. CASE \E w \in Sweepers : \/ SelectAndFence(w) \/ SelectExpired(w) \/ Unlink(w)
                                   \/ Reset(w) \/ ClearFence(w)
      BY <3>5 DEF SelectAndFence, SelectExpired, Unlink, Reset, ClearFence
    <3> QED BY <1>3, <3>1, <3>2, <3>3, <3>4, <3>5 DEF FilesNext
  <2>2. CASE markers' = NoRender
    BY <2>2 DEF DescribesNext
  <2>3. CASE markers' = markers /\ markers # NoRender
    <3>1. ~Busy /\ ~torn
      BY <2>1 DEF Busy, Active
    <3>2. ~Swept
      BY <1>0, <2>3, SweptStays
    <3>3. Describes(markers)
      BY <3>1, <3>2 DEF FilesInv
    <3>4. row.published /\ row'.published
      BY <2>1, <2>3, <3>3 DEF Describes
    <3>5. KeepsServing
      BY <1>3, <3>2, <3>4, OthersKeepServing
    <3> QED BY <2>3, <3>3, <3>4, <3>5 DEF Describes, DescribesNext, KeepsServing
  <2> QED BY <2>1, <2>2, <2>3
<1> QED BY <1>1, <1>2, <1>3

-----------------------------------------------------------------------------
(* The theorems *)

\* At the start nothing runs, and the markers are those of the file, if there is one.
LEMMA InitInv == FilesInit => FilesInv
<1> SUFFICES ASSUME FilesInit PROVE FilesInv
  OBVIOUS
<1>1. FilesTypeOK
  BY TypeInit
<1>2. Exclusive /\ ~Busy
  BY DEF FilesInit, Exclusive, Busy, Active, NoThread
<1>3. \A r \in Runs : ThreadInv(r) /\ WorkInv(r)
  BY DEF FilesInit, NoThread, ThreadInv, WorkInv, In, BeforePersist, AfterPersist, HasFile,
     Loaded, Recut
<1>4. PICK p \in BOOLEAN :
        /\ row = FirstRow(p)
        /\ audio = [v \in Versions |-> IF p /\ v = 0 THEN [by |-> Legacy, cut |-> {}] ELSE NoRender]
        /\ markers = IF p THEN Legacy ELSE NoRender
  BY DEF FilesInit
<1>5. /\ row.version = 0 /\ row.published = p /\ row.stamp = None /\ 0 \in Versions
      /\ stamped = {} /\ decided = {} /\ rebuild = NoRebuild /\ now = 0
  BY <1>4, FilesAssumption DEF FirstRow, Versions, FilesInit, FilesAssumption
<1>6. [by |-> Legacy, cut |-> {}] # NoRender
  <2>1. [by |-> Legacy, cut |-> {}] \in Files
    BY DEF Legacy, Render, Files
  <2> QED BY <2>1, RenderAssumption
<1>7. p => audio[0] = [by |-> Legacy, cut |-> {}]
  BY <1>4, <1>5
<1>8. \A v \in Versions : audio[v] # NoRender => audio[v].cut = {}
  BY <1>4
<1>9. StampInv
  BY <1>5, <1>8 DEF StampInv, NoRebuild, None
<1>10. PublishedAudioExists /\ StampedDecisionsSurvive /\ Describes(markers)
  BY <1>4, <1>5, <1>6, <1>7 DEF PublishedAudioExists, StampedDecisionsSurvive, Describes
<1> QED BY <1>1, <1>2, <1>3, <1>9, <1>10 DEF FilesInv

\* Every step keeps the invariant.
LEMMA InvStep ==
  ASSUME FilesInv, [FilesNext]_filesVars
  PROVE  FilesInv'
<1>1. FilesTypeOK /\ Exclusive /\ \A r \in Runs : ThreadInv(r)
  BY DEF FilesInv
<1>2. FilesTypeOK' /\ Exclusive' /\ \A r \in Runs : ThreadInv(r)'
  BY <1>1, TypeStep, ExclusiveStep, ThreadInvStep
<1>3. ASSUME ~raced', NEW r \in Runs PROVE WorkInv(r)'
  <2>1. CASE RunStep(r)
    BY <1>3, <2>1, OwnWorkStep
  <2>2. ASSUME NEW q \in Runs, q # r, RunStep(q) PROVE WorkInv(r)'
    BY <1>1, <2>2, Alone, Unemployed
  <2> QED BY <1>3, <2>1, <2>2, OthersKeepWork
<1>4. StampInv' /\ StampedDecisionsSurvive'
  BY StampInvStep, SurvivalStep
<1>5. PublishedAudioExists'
  BY ServedStep DEF PublishedAudioExists
<1>6. (~Busy /\ ~Swept /\ ~torn => Describes(markers))'
  BY MarkersStep DEF Describes, DescribesNext
<1> QED BY <1>2, <1>3, <1>4, <1>5, <1>6 DEF FilesInv

\* The invariant holds in every reachable state.
THEOREM FilesInvariant == FilesSpec => []FilesInv
BY InitInv, InvStep, PTL DEF FilesSpec

\* The types are right in every reachable state.
THEOREM FilesTypeCorrect == FilesSpec => []FilesTypeOK
<1>1. FilesInv => FilesTypeOK
  BY DEF FilesInv
<1> QED BY <1>1, FilesInvariant, PTL

\* The row names a file that is there, whatever fails, is cancelled or dies, unless a
\* deletion is under way or a run has overtaken one.
THEOREM PublishedAudioIsThere == FilesSpec => []PublishedAudioExists
<1>1. FilesInv => PublishedAudioExists
  BY DEF FilesInv
<1> QED BY <1>1, FilesInvariant, PTL

\* A stamped decision is in the published audio or still stamped, however a run, an apply
\* and a chapter rebuild interleave with it; but for those exposed.
THEOREM DecisionsSurvive == FilesSpec => []StampedDecisionsSurvive
<1>1. FilesInv => StampedDecisionsSurvive
  BY DEF FilesInv
<1> QED BY <1>1, FilesInvariant, PTL

\* While nothing runs, the markers shown are those of the published audio, unless torn.
THEOREM MarkersAgree == FilesSpec => []MarkersMatchAudio
<1>1. FilesInv => MarkersMatchAudio
  BY DEF FilesInv, MarkersMatchAudio, Describes
<1> QED BY <1>1, FilesInvariant, PTL

\* A new publication is cut from all that the last one was, and a rebuild only adds.
THEOREM DecisionsAreKept == FilesSpec => DecisionsStayApplied
<1>1. FilesInv /\ [FilesNext]_filesVars
        => [row.published /\ row'.published /\ ~Swept' => InAudio \subseteq InAudio']_filesVars
  BY ServedStep
<1> QED BY <1>1, FilesInvariant, PTL DEF FilesSpec, DecisionsStayApplied
=============================================================================
