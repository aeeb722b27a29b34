---------------------------- MODULE ProcessingLease ----------------------------
(***************************************************************************)
(* The durable processing lease of src/src/processing_queue.py: the table  *)
(* processing_runs, shared by every worker process, that decides which     *)
(* episode may be processed, by whom, and how many at once.  Around it are *)
(* the things its admission transaction looks at: the operator's pause     *)
(* switch, the deletion marks on podcasts and episodes, and the upload     *)
(* reservations of local feeds.                                            *)
(*                                                                         *)
(* Every BEGIN IMMEDIATE transaction, and every single guarded UPDATE, is  *)
(* one action: SQLite has one writer.  Between two transactions anything   *)
(* may happen, a process death included.                                   *)
(***************************************************************************)
EXTENDS Integers, FiniteSets

CONSTANTS
  Podcasts,      \* slugs
  Episodes,      \* (slug, episode id) pairs
  PodcastOf,     \* the podcast of each episode
  AutoNumbered,  \* the episodes whose id an upload without a number may be given
  Procs,         \* incarnations of a gunicorn worker: pid and start time
  Runs,          \* run ids, each used once (uuid4)
  Slots,         \* values the operator gives max_episodes
  MaxSlots,      \* the largest of them, at least 1
  NoProc, NoEpisode

ASSUME LeaseAssumption ==
  /\ PodcastOf \in [Episodes -> Podcasts]
  /\ AutoNumbered \subseteq Episodes
  /\ IsFiniteSet(Runs)
  /\ Slots \subseteq Int
  /\ MaxSlots \in Nat \ {0}
  /\ \A n \in Slots : n <= MaxSlots
  /\ NoProc \notin Procs
  /\ NoEpisode \notin Episodes

VARIABLES
  podcast,       \* podcasts row: present, deleting (deletion_requested_at) or gone
  episode,       \* episodes row: absent, open, or fenced (deletion_requested_at)
  runState,      \* processing_runs.state; unused before INSERT, gone after a cascade
  runEp,         \* the episode of each run
  runOwner,      \* owner_pid and owner_pid_start
  thread,        \* TRUE while a thread of the owner works for the run
  proc,          \* life of each process and its background role
  flock,         \* holder of .background_leader.lock
  paused,        \* system_settings.processing_admission_paused
  upload         \* owner of the active upload reservation of an episode

leaseVars == <<podcast, episode, runState, runEp, runOwner, thread, proc, flock,
               paused, upload>>

RunStates == {"unused", "running", "cancel_requested", "finished", "interrupted", "gone"}
ActiveStates == {"running", "cancel_requested"}

Active(r) == runState[r] \in ActiveStates
ActiveRuns == {r \in Runs : Active(r)}
Alive(p) == proc[p] \in {"leader", "follower", "draining"}

LeaseInit ==
  /\ podcast = [f \in Podcasts |-> "present"]
  /\ episode \in [Episodes -> {"absent", "open"}]
  /\ runState = [r \in Runs |-> "unused"]
  /\ runEp = [r \in Runs |-> NoEpisode]
  /\ runOwner = [r \in Runs |-> NoProc]
  /\ thread = [r \in Runs |-> FALSE]
  /\ proc = [p \in Procs |-> "new"]
  /\ flock = NoProc
  /\ paused = FALSE
  /\ upload = [e \in Episodes |-> NoProc]

-----------------------------------------------------------------------------
(* Recovery: _reconcile_dead_owners, run at leader startup and inside every *)
(* acquire that gets past its first two checks.                             *)

\* Mutant: an owner whose shutdown has begun counts as dead.
Mut_OwnerProvenDead(r) == proc[runOwner[r]] \notin {"leader", "follower"}

\* _owner_proven_dead: the pid is gone or names a process with another start
\* time.  A process that is shutting down is still alive.
OwnerProvenDead(r) == ~Alive(runOwner[r])

Orphaned(r) == podcast[PodcastOf[runEp[r]]] = "gone"

\* Mutant: recovery writes a state the CHECK constraint does not know.
Mut_Reconciled ==
  [r \in Runs |-> IF Active(r) /\ (Orphaned(r) \/ OwnerProvenDead(r))
                  THEN "failed" ELSE runState[r]]

Reconciled ==
  [r \in Runs |-> IF Active(r) /\ (Orphaned(r) \/ OwnerProvenDead(r))
                  THEN "interrupted" ELSE runState[r]]

-----------------------------------------------------------------------------
(* Admission: acquire *)

\* max(1, limit)
Limit(n) == IF n > 1 THEN n ELSE 1

\* The runs still active once the transaction has reconciled dead owners.
ActiveAfter(state) == {r \in Runs : state[r] \in ActiveStates}

\* Mutants: admission forgets the uploads; a cancelled run no longer counts as a
\* duplicate.
Mut_Blocked(e) == episode[e] = "fenced"
Mut_Duplicate(state, e) == \E r \in Runs : state[r] = "running" /\ runEp[r] = e

Blocked(e) == episode[e] = "fenced" \/ upload[e] # NoProc
Duplicate(state, e) == \E r \in ActiveAfter(state) : runEp[r] = e
Full(state, n) == Cardinality(ActiveAfter(state)) >= Limit(n)

\* What start_background_processing and acquire check before reconciling.  Only
\* the leader runs episodes; shutdown_event is read before the transaction, so
\* a start that has passed it may still acquire while the process drains.
MayAsk(p, e) ==
  /\ proc[p] \in {"leader", "draining"}
  /\ ~paused
  /\ podcast[PodcastOf[e]] = "present"

AcquireAdmitted(p, e, n, r) ==
  /\ MayAsk(p, e)
  /\ runState[r] = "unused"
  /\ ~Blocked(e)
  /\ ~Duplicate(Reconciled, e)
  /\ ~Full(Reconciled, n)
  /\ runState' = [Reconciled EXCEPT ![r] = "running"]
  /\ runEp' = [runEp EXCEPT ![r] = e]
  /\ runOwner' = [runOwner EXCEPT ![r] = p]
  /\ thread' = [thread EXCEPT ![r] = TRUE]
  /\ UNCHANGED <<podcast, episode, proc, flock, paused, upload>>

\* A refused acquire still commits the recovery it did.
AcquireRefused(p, e, n) ==
  /\ MayAsk(p, e)
  /\ Blocked(e) \/ Duplicate(Reconciled, e) \/ Full(Reconciled, n)
  /\ runState' = Reconciled
  /\ UNCHANGED <<podcast, episode, runEp, runOwner, thread, proc, flock, paused, upload>>

-----------------------------------------------------------------------------
(* The run: cancellation and release *)

\* Mutant: the UPDATE is not guarded by the state, and revives a run that ended.
Mut_RequestCancellation(r) ==
  /\ runState[r] \notin {"unused", "gone"}
  /\ runState' = [runState EXCEPT ![r] = "cancel_requested"]
  /\ UNCHANGED <<podcast, episode, runEp, runOwner, thread, proc, flock, paused, upload>>

\* request_cancellation: the run id is read first, the UPDATE is guarded by it.
RequestCancellation(r) ==
  /\ Active(r)
  /\ runState' = [runState EXCEPT ![r] = "cancel_requested"]
  /\ UNCHANGED <<podcast, episode, runEp, runOwner, thread, proc, flock, paused, upload>>

\* Mutant: release only ends a run nobody has cancelled.
Mut_Release(r, terminal) ==
  /\ thread[r]
  /\ thread' = [thread EXCEPT ![r] = FALSE]
  /\ runState' = IF runState[r] = "running" THEN [runState EXCEPT ![r] = terminal]
                 ELSE runState
  /\ UNCHANGED <<podcast, episode, runEp, runOwner, proc, flock, paused, upload>>

\* The thread's last step: release touches only an active row of its own run.
Release(r, terminal) ==
  /\ thread[r]
  /\ thread' = [thread EXCEPT ![r] = FALSE]
  /\ runState' = IF Active(r) THEN [runState EXCEPT ![r] = terminal] ELSE runState
  /\ UNCHANGED <<podcast, episode, runEp, runOwner, proc, flock, paused, upload>>

\* The UPDATE of release failed; the exception is logged and swallowed, the
\* thread ends and the row stays active under a live owner.
ReleaseFails(r) ==
  /\ thread[r]
  /\ thread' = [thread EXCEPT ![r] = FALSE]
  /\ UNCHANGED <<podcast, episode, runState, runEp, runOwner, proc, flock, paused, upload>>

-----------------------------------------------------------------------------
(* Processes: boot, graceful shutdown, death *)

\* The first process to get the flock leads, and reconciles before it serves.
BootLeader(p) ==
  /\ proc[p] = "new" /\ flock = NoProc
  /\ proc' = [proc EXCEPT ![p] = "leader"]
  /\ flock' = p
  /\ runState' = Reconciled
  /\ UNCHANGED <<podcast, episode, runEp, runOwner, thread, paused, upload>>

BootFollower(p) ==
  /\ proc[p] = "new" /\ flock # NoProc
  /\ proc' = [proc EXCEPT ![p] = "follower"]
  /\ UNCHANGED <<podcast, episode, runState, runEp, runOwner, thread, flock, paused, upload>>

BeginShutdown(p) ==
  /\ proc[p] = "leader"
  /\ proc' = [proc EXCEPT ![p] = "draining"]
  /\ UNCHANGED <<podcast, episode, runState, runEp, runOwner, thread, flock, paused, upload>>

\* graceful_shutdown gives the flock up once the drain ends or times out, with
\* its daemon threads still running until the process exits.
DrainEnds(p) ==
  /\ proc[p] = "draining" /\ flock = p
  /\ flock' = NoProc
  /\ UNCHANGED <<podcast, episode, runState, runEp, runOwner, thread, proc, paused, upload>>

Die(p) ==
  /\ Alive(p)
  /\ proc' = [proc EXCEPT ![p] = "dead"]
  /\ flock' = IF flock = p THEN NoProc ELSE flock
  /\ thread' = [r \in Runs |-> thread[r] /\ runOwner[r] # p]
  /\ UNCHANGED <<podcast, episode, runState, runEp, runOwner, paused, upload>>

SetPaused(b) ==
  /\ paused # b
  /\ paused' = b
  /\ UNCHANGED <<podcast, episode, runState, runEp, runOwner, thread, proc, flock, upload>>

-----------------------------------------------------------------------------
(* Upload reservations *)

\* _reap_upload_reservations: the caller takes over the reservations of dead
\* owners, and keeps each target reserved until it has undone the files.
ReapUploads(p) ==
  /\ Alive(p)
  /\ \E e \in Episodes : upload[e] # NoProc /\ ~Alive(upload[e])
  /\ upload' = [e \in Episodes |-> IF upload[e] # NoProc /\ ~Alive(upload[e])
                                   THEN p ELSE upload[e]]
  /\ UNCHANGED <<podcast, episode, runState, runEp, runOwner, thread, proc, flock, paused>>

\* Both reserve functions reap first, so no dead owner is left to be seen.
ReservePreamble(p, e) ==
  /\ Alive(p)
  /\ \A x \in Episodes : upload[x] # NoProc => Alive(upload[x])
  /\ podcast[PodcastOf[e]] = "present"
  /\ upload[e] = NoProc

\* reserve_episode_uploads: a numbered upload or an import.
ReserveUpload(p, e) ==
  /\ ReservePreamble(p, e)
  /\ episode[e] # "fenced"
  /\ ~\E r \in ActiveRuns : runEp[r] = e
  /\ upload' = [upload EXCEPT ![e] = p]
  /\ UNCHANGED <<podcast, episode, runState, runEp, runOwner, thread, proc, flock, paused>>

\* reserve_next_episode_upload: the next number that neither a row nor an
\* active reservation has.  The transaction does not look at processing_runs.
ReserveNextUpload(p, e) ==
  /\ ReservePreamble(p, e)
  /\ e \in AutoNumbered
  /\ episode[e] = "absent"
  /\ upload' = [upload EXCEPT ![e] = p]
  /\ UNCHANGED <<podcast, episode, runState, runEp, runOwner, thread, proc, flock, paused>>

\* finish_upload_reservation, or the end of a recovery: published or not.
FinishUpload(e, published) ==
  /\ upload[e] # NoProc /\ Alive(upload[e])
  /\ upload' = [upload EXCEPT ![e] = NoProc]
  /\ episode' = IF published /\ episode[e] = "absent"
                THEN [episode EXCEPT ![e] = "open"] ELSE episode
  /\ UNCHANGED <<podcast, runState, runEp, runOwner, thread, proc, flock, paused>>

-----------------------------------------------------------------------------
(* The rows admission depends on.  Who calls these, and in which order, is  *)
(* the subject of EpisodeDeletion; here any order is allowed.               *)

\* A feed refresh, or the first upsert of a run, inserts the episode row.
InsertEpisode(e) ==
  /\ podcast[PodcastOf[e]] # "gone" /\ episode[e] = "absent"
  /\ episode' = [episode EXCEPT ![e] = "open"]
  /\ UNCHANGED <<podcast, runState, runEp, runOwner, thread, proc, flock, paused, upload>>

\* mark_episodes_for_deletion
MarkEpisode(e) ==
  /\ podcast[PodcastOf[e]] # "gone"
  /\ episode' = IF episode[e] = "open" THEN [episode EXCEPT ![e] = "fenced"] ELSE episode
  /\ UNCHANGED <<podcast, runState, runEp, runOwner, thread, proc, flock, paused, upload>>

\* clear_episode_deletion_requests
ClearEpisodeMark(e) ==
  /\ podcast[PodcastOf[e]] # "gone"
  /\ episode' = IF episode[e] = "fenced" THEN [episode EXCEPT ![e] = "open"] ELSE episode
  /\ UNCHANGED <<podcast, runState, runEp, runOwner, thread, proc, flock, paused, upload>>

\* delete_episode_rows
DropEpisode(e) ==
  /\ podcast[PodcastOf[e]] # "gone"
  /\ episode' = [episode EXCEPT ![e] = "absent"]
  /\ UNCHANGED <<podcast, runState, runEp, runOwner, thread, proc, flock, paused, upload>>

\* The first transaction of delete_feed.
MarkFeed(f) ==
  /\ podcast[f] # "gone"
  /\ podcast' = [podcast EXCEPT ![f] = "deleting"]
  /\ UNCHANGED <<episode, runState, runEp, runOwner, thread, proc, flock, paused, upload>>

\* _clear_deletion_fence, when a cancellation could not be recorded.
ClearFeedMark(f) ==
  /\ podcast[f] = "deleting"
  /\ podcast' = [podcast EXCEPT ![f] = "present"]
  /\ UNCHANGED <<episode, runState, runEp, runOwner, thread, proc, flock, paused, upload>>

\* The last transaction of delete_feed: refused while an upload is active;
\* runs, episodes and finished reservations cascade away with the podcast.
DropFeed(f) ==
  /\ podcast[f] # "gone"
  /\ \A e \in Episodes : PodcastOf[e] = f => upload[e] = NoProc
  /\ podcast' = [podcast EXCEPT ![f] = "gone"]
  /\ episode' = [e \in Episodes |-> IF PodcastOf[e] = f THEN "absent" ELSE episode[e]]
  /\ runState' = [r \in Runs |-> IF runEp[r] \in Episodes /\ PodcastOf[runEp[r]] = f
                                 THEN "gone" ELSE runState[r]]
  /\ UNCHANGED <<runEp, runOwner, thread, proc, flock, paused, upload>>

\* The feed is added again: the same slug and episode ids, a new podcast id.
AddFeed(f) ==
  /\ podcast[f] = "gone"
  /\ podcast' = [podcast EXCEPT ![f] = "present"]
  /\ UNCHANGED <<episode, runState, runEp, runOwner, thread, proc, flock, paused, upload>>

-----------------------------------------------------------------------------
RunNext ==
  \/ \E p \in Procs, e \in Episodes, n \in Slots :
       \/ \E r \in Runs : AcquireAdmitted(p, e, n, r)
       \/ AcquireRefused(p, e, n)
  \/ \E r \in Runs :
       \/ RequestCancellation(r)
       \/ \E terminal \in {"finished", "interrupted"} : Release(r, terminal)
       \/ ReleaseFails(r)

ProcNext ==
  \/ \E p \in Procs : \/ BootLeader(p) \/ BootFollower(p) \/ BeginShutdown(p)
                      \/ DrainEnds(p) \/ Die(p)
  \/ \E b \in BOOLEAN : SetPaused(b)

UploadNext ==
  \/ \E p \in Procs : ReapUploads(p)
  \/ \E p \in Procs, e \in Episodes : ReserveUpload(p, e) \/ ReserveNextUpload(p, e)
  \/ \E e \in Episodes, published \in BOOLEAN : FinishUpload(e, published)

RowNext ==
  \/ \E e \in Episodes : \/ InsertEpisode(e) \/ MarkEpisode(e)
                         \/ ClearEpisodeMark(e) \/ DropEpisode(e)
  \/ \E f \in Podcasts : MarkFeed(f) \/ ClearFeedMark(f) \/ DropFeed(f) \/ AddFeed(f)

LeaseNext == RunNext \/ ProcNext \/ UploadNext \/ RowNext

LeaseSpec == LeaseInit /\ [][LeaseNext]_leaseVars

-----------------------------------------------------------------------------
(* Properties *)

\* The rows and columns keep the values their CHECK constraints allow, and every
\* run that was ever inserted names its episode and its owner.
LeaseTypeOK ==
  /\ podcast \in [Podcasts -> {"present", "deleting", "gone"}]
  /\ episode \in [Episodes -> {"absent", "open", "fenced"}]
  /\ runState \in [Runs -> RunStates]
  /\ runEp \in [Runs -> Episodes \cup {NoEpisode}]
  /\ runOwner \in [Runs -> Procs \cup {NoProc}]
  /\ thread \in [Runs -> BOOLEAN]
  /\ proc \in [Procs -> {"new", "leader", "follower", "draining", "dead"}]
  /\ flock \in Procs \cup {NoProc}
  /\ paused \in BOOLEAN
  /\ upload \in [Episodes -> Procs \cup {NoProc}]
  /\ \A r \in Runs : IF runState[r] = "unused" THEN runEp[r] = NoEpisode
                     ELSE runEp[r] \in Episodes /\ runOwner[r] \in Procs

\* No episode has two active runs, whichever processes admit them and however
\* many owners have died: the lease is a lock per episode.
OneRunPerEpisode ==
  \A r1, r2 \in ActiveRuns : runEp[r1] = runEp[r2] => r1 = r2

\* The active runs of all processes together never outnumber the largest
\* max_episodes any admission was made under.
SlotBound == Cardinality(ActiveRuns) <= MaxSlots

\* Two worker threads work on the same episode at once only if the lease of one
\* was deleted with its feed: no recovery, release or change of leader takes the
\* lease from under a live thread.
ThreadsExclusive ==
  \A r1, r2 \in Runs :
    thread[r1] /\ thread[r2] /\ r1 # r2 /\ runEp[r1] = runEp[r2] =>
      "gone" \in {runState[r1], runState[r2]}

\* An upload and a run never both hold an episode whose id no automatic
\* numbering hands out: the two admissions each see the other.
UploadExclusive ==
  \A e \in Episodes \ AutoNumbered :
    upload[e] # NoProc => ~\E r \in ActiveRuns : runEp[r] = e

Pool == INSTANCE SlotPool WITH
  Tickets <- Runs, Keys <- Episodes, NoKey <- NoEpisode,
  held <- [r \in Runs |-> IF Active(r) THEN runEp[r] ELSE NoEpisode],
  spent <- {r \in Runs : runState[r] # "unused"}

\* The lease implements the slot pool: a step admits one fresh run beside those it
\* recovers, or only gives slots back.
ImplementsSlotPool == Pool!PoolSpec

=============================================================================
