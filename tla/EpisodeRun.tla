------------------------------ MODULE EpisodeRun -------------------------------
(***************************************************************************)
(* One processing run from the queue to its verdict: the dispatcher        *)
(* (background_queue_processor) claims a row and starts a run under a      *)
(* lease; the run's thread writes the episode's status; a waiter thread    *)
(* polls that status and closes the claimed row; the maintenance sweeps    *)
(* repair what a crash left; people ask for reprocesses and cancellations  *)
(* from any worker; workers shut down gracefully or die.                   *)
(*                                                                         *)
(* Every action is one committed transaction, with what the same thread    *)
(* does before its next read of shared state.  A value read in one step    *)
(* and used in a later one is kept in a variable in between.               *)
(***************************************************************************)
EXTENDS EpisodeQueue

CONSTANTS
  MaxRetries,     \* MAX_EPISODE_RETRIES
  MaxAsks,        \* how many reprocess or play requests are made (a bound)
  MaxCancels,     \* how many cancel requests are made (a bound)
  OtherHolds,     \* TRUE: holds begin outside the runs of Episodes, too (a bound)
  Overlap         \* TRUE: a successor may boot before its predecessor has exited

ASSUME RunAssumption ==
  /\ MaxRetries \in Nat \ {0} /\ MaxAsks \in Nat /\ MaxCancels \in Nat
  /\ OtherHolds \in BOOLEAN /\ Overlap \in BOOLEAN

VARIABLES
  status,        \* episodes.status
  retries,       \* episodes.retry_count
  canceled,      \* error_message = 'Canceled by user'
  requested,     \* reprocess_requested_at is set
  statusOld,     \* processing, and episodes.updated_at older than 30 minutes
  held,          \* a rate-limit hold is active
  pc,            \* where the thread of each run is
  retriesRead,   \* retry_count in the episode_data the thread read
  waiter,        \* the waiter of each run: its place, then its verdict
  disp,          \* the dispatcher thread of each process
  ask, stop,     \* the request handlers of each episode
  asks, cancels  \* requests made so far

episodeVars == <<status, retries, canceled, requested, statusOld>>
threadVars == <<pc, retriesRead>>
handlerVars == <<ask, stop, asks, cancels>>
runVars == <<leaseVars, queueVars, episodeVars, held, threadVars, waiter, disp, handlerVars>>

Statuses == {"discovered", "pending", "processing", "processed", "failed",
             "permanently_failed", "deferred"}
Idle == [at |-> "idle", on |-> {}, spent |-> {}, live |-> {}]

RunInit ==
  /\ LeaseInit /\ episode = [e \in Episodes |-> "open"]
  /\ QueueInit
  /\ status = [e \in Episodes |-> "discovered"]
  /\ retries = [e \in Episodes |-> 0]
  /\ canceled = [e \in Episodes |-> FALSE]
  /\ requested = [e \in Episodes |-> FALSE]
  /\ statusOld = [e \in Episodes |-> FALSE]
  /\ held = FALSE
  /\ pc = [r \in Runs |-> "none"]
  /\ retriesRead = [r \in Runs |-> 0]
  /\ waiter = [r \in Runs |-> "none"]
  /\ disp = [p \in Procs |-> Idle]
  /\ ask = [e \in Episodes |-> "idle"]
  /\ stop = [e \in Episodes |-> "idle"]
  /\ asks = 0 /\ cancels = 0

\* is_processing, and the episodes get_current returns
Processing(e) == \E r \in ActiveRuns : runEp[r] = e
Current == {e \in Episodes : Processing(e)}

\* upsert_episode with a status and an error message: it stamps updated_at.
SetStatus(e, s, byUser) ==
  /\ status' = [status EXCEPT ![e] = s]
  /\ canceled' = [canceled EXCEPT ![e] = byUser]
  /\ statusOld' = [statusOld EXCEPT ![e] = FALSE]

\* The episodes whose dead run a reconciliation interrupts, and the episode half
\* of _reconcile_dead_owners.
Recovered == {runEp[r] : r \in {q \in Runs : Active(q) /\ Reconciled[q] = "interrupted"}}

RecoverEpisodes(E) ==
  LET back == {e \in E : status[e] = "processing"}
  IN  /\ status' = [e \in Episodes |-> IF e \in back THEN "pending" ELSE status[e]]
      /\ canceled' = [e \in Episodes |-> canceled[e] /\ e \notin back]
      /\ statusOld' = [e \in Episodes |-> statusOld[e] /\ e \notin back]
      /\ UNCHANGED <<retries, requested>>

-----------------------------------------------------------------------------
(* The run's thread: _process_episode_background and process_episode *)

Owned(r) == runState[r] = "running"          \* what _check_cancel accepts
Writes(r) == thread[r] /\ UNCHANGED <<leaseVars, held, waiter, disp, handlerVars>>
GoTo(r, place) == pc' = [pc EXCEPT ![r] = place]

\* process_episode up to its first write: the ownership check, the read of the
\* episode row, the upsert to 'processing' (which leaves error_message alone).
RunStarts(r) ==
  LET e == runEp[r]
  IN  /\ Writes(r) /\ pc[r] = "starting" /\ Owned(r)
      /\ GoTo(r, "working")
      /\ retriesRead' = [retriesRead EXCEPT ![r] = retries[e]]
      /\ SetStatus(e, "processing", canceled[e])
      /\ UNCHANGED <<queueVars, retries, requested>>

\* The last check before publication (_require_publication_owner).
RunFences(r) ==
  /\ Writes(r) /\ pc[r] = "working" /\ Owned(r)
  /\ GoTo(r, "fenced")
  /\ UNCHANGED <<queueVars, episodeVars, retriesRead>>

\* _persist_episode_state, first the episode row ...
RunPersists(r) ==
  LET e == runEp[r]
  IN  /\ Writes(r) /\ pc[r] = "fenced"
      /\ GoTo(r, "persisted")
      /\ SetStatus(e, "processed", FALSE)
      /\ retries' = [retries EXCEPT ![e] = 0]
      /\ requested' = [requested EXCEPT ![e] = FALSE]
      /\ UNCHANGED <<queueVars, retriesRead>>

\* ... then, in another transaction, its queue row.
RunClosesRow(r) ==
  /\ Writes(r) /\ pc[r] = "persisted"
  /\ GoTo(r, "published")
  /\ CloseRows(runEp[r])
  /\ UNCHANGED <<episodeVars, retriesRead>>

\* The post-completion actions: a degraded or low-yield run queues a rerun.
RunQueuesRerun(r) ==
  LET e == runEp[r]
  IN  /\ Writes(r) /\ pc[r] = "published"
      /\ GoTo(r, "leaving")
      /\ UpsertRow(e)
      /\ requested' = [requested EXCEPT ![e] = TRUE]
      /\ statusOld' = [statusOld EXCEPT ![e] = FALSE]
      /\ UNCHANGED <<status, retries, canceled, retriesRead>>

RunCompletes(r) ==
  /\ Writes(r) /\ pc[r] = "published"
  /\ GoTo(r, "leaving")
  /\ UNCHANGED <<queueVars, episodeVars, retriesRead>>

\* An exception, and the owner check that opens _handle_processing_failure.
\* History, RSS and webhooks can raise after the episode was published too.
RunRaises(r) ==
  /\ Writes(r) /\ pc[r] \in {"starting", "working", "published"} /\ Owned(r)
  /\ GoTo(r, IF pc[r] = "published" THEN "publishedFailing" ELSE "failing")
  /\ retriesRead' = IF pc[r] = "starting"
                    THEN [retriesRead EXCEPT ![r] = retries[runEp[r]]] ELSE retriesRead
  /\ UNCHANGED <<queueVars, episodeVars>>

\* _handle_processing_failure, the branches that end the run's bookkeeping: the
\* retry count written is the one read at the start.
RunFails(r, kind) ==
  LET e == runEp[r]
      n == IF kind = "transient" THEN retriesRead[r] + 1 ELSE retriesRead[r]
      s == CASE kind = "deferred" -> "deferred"
             [] kind = "permanent" -> "permanently_failed"
             [] kind = "throttled" -> "failed"
             [] kind = "transient" -> IF n >= MaxRetries THEN "permanently_failed"
                                      ELSE "failed"
  IN  /\ Writes(r) /\ pc[r] \in {"failing", "publishedFailing"}
      /\ GoTo(r, "leaving")
      /\ SetStatus(e, s, FALSE)
      /\ retries' = IF kind = "deferred" THEN retries ELSE [retries EXCEPT ![e] = n]
      /\ UNCHANGED <<queueVars, requested, retriesRead>>

\* The same handler on a rate limit, which records a hold, or on an account the
\* operator has changed, which records none: the episode goes back to pending ...
RunIsHeld(r, hold) ==
  /\ thread[r] /\ pc[r] \in {"failing", "publishedFailing"}
  /\ GoTo(r, "requeueing")
  /\ held' = (held \/ hold)
  /\ SetStatus(runEp[r], "pending", FALSE)
  /\ UNCHANGED <<leaseVars, queueVars, retries, requested, retriesRead, waiter, disp,
                 handlerVars>>

\* ... and its row is reopened, or made for a run that came without one.
RunRequeues(r) ==
  LET e == runEp[r]
  IN  /\ Writes(r) /\ pc[r] = "requeueing"
      /\ GoTo(r, "leaving")
      /\ IF row[e] = "processing"
         THEN SetRow(e, "pending") /\ UNCHANGED <<attempts, requested, statusOld>>
         ELSE /\ UpsertRow(e)
              /\ requested' = [requested EXCEPT ![e] = TRUE]
              /\ statusOld' = [statusOld EXCEPT ![e] = FALSE]
      /\ UNCHANGED <<status, retries, canceled, retriesRead>>

\* A check finds the run cancelled: unless this run's audio is already published
\* the episode goes back to pending under the message the waiter looks for.
RunCancelled(r) ==
  /\ Writes(r) /\ pc[r] \in {"starting", "working", "published"}
  /\ runState[r] = "cancel_requested"
  /\ GoTo(r, "leaving")
  /\ IF pc[r] = "published" THEN UNCHANGED episodeVars
     ELSE SetStatus(runEp[r], "pending", TRUE) /\ UNCHANGED <<retries, requested>>
  /\ UNCHANGED <<queueVars, retriesRead>>

\* The bookkeeping itself fails (its exceptions are logged and swallowed), and the
\* thread leaves with the status it had written.
RunGivesUp(r) ==
  /\ Writes(r) /\ pc[r] \in {"working", "failing"}
  /\ GoTo(r, "leaving")
  /\ UNCHANGED <<queueVars, episodeVars, retriesRead>>

RunReleases(r) ==
  /\ pc[r] = "leaving"
  /\ Release(r, IF runState[r] = "cancel_requested" THEN "interrupted" ELSE "finished")
  /\ GoTo(r, "none")
  /\ retriesRead' = [retriesRead EXCEPT ![r] = 0]
  /\ UNCHANGED <<queueVars, episodeVars, held, waiter, disp, handlerVars>>

-----------------------------------------------------------------------------
(* The waiter of a claimed run: _wait_for_claimed_episode.  shutdown_event *)
(* ends its wait early.                                                    *)

Waits(r) == proc[runOwner[r]] \in {"leader", "draining"}
Stopping(r) == proc[runOwner[r]] = "draining"

\* The polling loop ends on a settled status, on a hold, when two polls find
\* nobody holding the lease, or at the hard timeout, which is longer than the age
\* statusOld stands for.
WaiterLeavesLoop(r) ==
  LET e == runEp[r]
  IN  /\ waiter[r] = "polling" /\ Waits(r)
      /\ \/ status[e] \notin {"pending", "processing"}
         \/ status[e] = "pending" /\ held
         \/ ~Processing(e)
         \/ status[e] = "processing" /\ statusOld[e]
         \/ Stopping(r)
      /\ waiter' = [waiter EXCEPT ![r] = "settling"]
      /\ UNCHANGED <<leaseVars, queueVars, episodeVars, held, threadVars, disp, handlerVars>>

\* Mutant: the verdict on the episode is written into the row as it is.
Mut_WaiterDecides(r) ==
  /\ waiter[r] = "settling" /\ Waits(r)
  /\ waiter' = [waiter EXCEPT ![r] = status[runEp[r]]]
  /\ UNCHANGED <<leaseVars, queueVars, episodeVars, held, threadVars, disp, handlerVars>>

\* The final read, after the lease is gone or half a minute later.  It leaves the
\* row alone when a hold has already requeued it.
WaiterDecides(r) ==
  LET e == runEp[r]
      verdict == CASE status[e] \in {"processed", "deferred", "discovered"} -> "completed"
                   [] status[e] = "processing" -> "pending"
                   [] status[e] = "pending" /\ held -> "none"
                   [] status[e] = "pending" /\ ~held /\ canceled[e] -> "completed"
                   [] OTHER -> "failed"
  IN  /\ waiter[r] = "settling" /\ Waits(r)
      /\ waiter' = [waiter EXCEPT ![r] = verdict]
      /\ UNCHANGED <<leaseVars, queueVars, episodeVars, held, threadVars, disp, handlerVars>>

WaiterCloses(r) ==
  /\ waiter[r] \in {"completed", "pending", "failed"} /\ Waits(r)
  /\ CloseClaimedRow(runEp[r], waiter[r], waiter[r] = "failed")
  /\ waiter' = [waiter EXCEPT ![r] = "none"]
  /\ UNCHANGED <<leaseVars, episodeVars, held, threadVars, disp, handlerVars>>

-----------------------------------------------------------------------------
(* The dispatcher: background_queue_processor, one thread of the leader.   *)

Dispatching(p, place) == proc[p] \in {"leader", "draining"} /\ disp[p].at = place

\* At the top of its loop.  With max_episodes 1 it joins the waiter of the run it
\* started before it gets there.
DispatcherRests(p) ==
  /\ proc[p] = "leader"
  /\ \/ disp[p].at = "idle"
     \/ /\ disp[p].at = "joining"
        /\ \A r \in Runs : runOwner[r] = p => waiter[r] = "none"
DispGoes(p, d) == disp' = [disp EXCEPT ![p] = d]
ClaimInHand(p, e) == disp[p].at \in {"claimed", "admitting"} /\ disp[p].on = {e}

Claim(p, e, n) ==
  /\ DispatcherRests(p)
  /\ \E r \in Runs : runState[r] = "unused"    \* the bound on run ids
  /\ ~paused /\ ~held
  /\ Cardinality(ActiveRuns) < Limit(n)
  /\ ClaimRow(e)
  /\ DispGoes(p, [Idle EXCEPT !.at = "claimed", !.on = {e}])
  /\ UNCHANGED <<leaseVars, episodeVars, held, threadVars, waiter, handlerVars>>

\* The auto-process and feed-filter gates, which a user's request passes.
GateSkips(p, e) ==
  /\ Dispatching(p, "claimed") /\ disp[p].on = {e} /\ ~requested[e]
  /\ CloseClaimedRow(e, "completed", TRUE)
  /\ DispGoes(p, Idle)
  /\ UNCHANGED <<leaseVars, episodeVars, held, threadVars, waiter, handlerVars>>

\* start_background_processing, the checks before the admission transaction ...
ClaimPasses(p, e) ==
  /\ proc[p] = "leader" /\ disp[p] = [Idle EXCEPT !.at = "claimed", !.on = {e}]
  /\ ~paused /\ ~Processing(e) /\ ~held
  /\ DispGoes(p, [disp[p] EXCEPT !.at = "admitting"])
  /\ UNCHANGED <<leaseVars, queueVars, episodeVars, held, threadVars, waiter, handlerVars>>

\* Mutant: a refused claim is dropped without putting the row back.
Mut_ClaimBounces(p, e) ==
  /\ Dispatching(p, "claimed") /\ disp[p].on = {e}
  /\ proc[p] = "draining" \/ paused \/ Processing(e) \/ held
  /\ DispGoes(p, Idle)
  /\ UNCHANGED <<leaseVars, queueVars, episodeVars, held, threadVars, waiter, handlerVars>>

\* ... one of which may refuse ...
ClaimBounces(p, e) ==
  /\ Dispatching(p, "claimed") /\ disp[p].on = {e}
  /\ proc[p] = "draining" \/ paused \/ Processing(e) \/ held
  /\ CloseClaimedRow(e, "pending", FALSE)
  /\ DispGoes(p, Idle)
  /\ UNCHANGED <<leaseVars, episodeVars, held, threadVars, waiter, handlerVars>>

\* ... and acquire, which recovers what dead owners left.  The thread and the
\* waiter start; the dispatcher joins the waiter if the pool has one slot.
ClaimStarts(p, e, n, r) ==
  /\ Dispatching(p, "admitting") /\ disp[p].on = {e}
  /\ AcquireAdmitted(p, e, n, r)
  /\ RecoverEpisodes(Recovered) /\ RecoverRows(Recovered)
  /\ GoTo(r, "starting")
  /\ waiter' = [waiter EXCEPT ![r] = "polling"]
  /\ DispGoes(p, IF Limit(n) = 1 THEN [Idle EXCEPT !.at = "joining"] ELSE Idle)
  /\ UNCHANGED <<held, retriesRead, handlerVars>>

\* Refused there, the claim goes back to pending with the rows recovered.
ClaimRefused(p, e, n) ==
  /\ Dispatching(p, "admitting") /\ disp[p].on = {e}
  /\ AcquireRefused(p, e, n)
  /\ RecoverEpisodes(Recovered) /\ RecoverRows(Recovered \cup {e})
  /\ DispGoes(p, Idle)
  /\ UNCHANGED <<held, threadVars, waiter, handlerVars>>

-----------------------------------------------------------------------------
(* Maintenance, every five minutes, on the dispatcher's thread: disp holds *)
(* the episodes a sweep is about, those out of retries, and the runs alive *)
(* when it looked.                                                         *)

\* reset_orphaned_queue_items: get_current, then the UPDATE.
RowSweepReads(p) ==
  /\ DispatcherRests(p)
  /\ \E e \in Episodes : row[e] = "processing" /\ rowOld[e]
  /\ DispGoes(p, [Idle EXCEPT !.at = "rows", !.live = Current])
  /\ UNCHANGED <<leaseVars, queueVars, episodeVars, held, threadVars, waiter, handlerVars>>

RowSweepWrites(p) ==
  /\ Dispatching(p, "rows")
  /\ ResetOrphanedRows(disp[p].live)
  /\ DispGoes(p, Idle)
  /\ UNCHANGED <<leaseVars, episodeVars, held, threadVars, waiter, handlerVars>>

RetryFailed(p) ==
  /\ DispatcherRests(p)
  /\ ResetFailedRows({e \in Episodes : status[e] = "failed" /\ retries[e] < MaxRetries})
  /\ row' # row
  /\ UNCHANGED <<leaseVars, episodeVars, held, threadVars, waiter, disp, handlerVars>>

ClearCompleted(p) ==
  /\ DispatcherRests(p)
  /\ ClearCompletedRows
  /\ row' # row
  /\ UNCHANGED <<leaseVars, episodeVars, held, threadVars, waiter, disp, handlerVars>>

\* reset_stuck_processing_episodes, also the leader's first act: select the old
\* rows, ask for the active runs, then write by id.
StuckSweepSelects(p) ==
  LET stuck == {e \in Episodes : status[e] = "processing" /\ statusOld[e]}
  IN  /\ DispatcherRests(p) /\ stuck # {}
      /\ DispGoes(p, [Idle EXCEPT !.at = "stuck", !.on = stuck,
                         !.spent = {e \in stuck : retries[e] >= MaxRetries}])
      /\ UNCHANGED <<leaseVars, queueVars, episodeVars, held, threadVars, waiter, handlerVars>>

\* Mutant: age alone decides, no live run is spared.
Mut_StuckSweepReads(p) ==
  /\ Dispatching(p, "stuck")
  /\ DispGoes(p, [disp[p] EXCEPT !.at = "resetting", !.live = {}])
  /\ UNCHANGED <<leaseVars, queueVars, episodeVars, held, threadVars, waiter, handlerVars>>

StuckSweepReads(p) ==
  /\ Dispatching(p, "stuck")
  /\ DispGoes(p, [disp[p] EXCEPT !.at = "resetting", !.live = Current])
  /\ UNCHANGED <<leaseVars, queueVars, episodeVars, held, threadVars, waiter, handlerVars>>

\* Mutant: the exclusion is inverted.
Mut_StuckSweepWrites(p) ==
  LET hit == disp[p].on \cap disp[p].live
  IN  /\ Dispatching(p, "resetting")
      /\ status' = [e \in Episodes |-> IF e \in hit THEN "pending" ELSE status[e]]
      /\ canceled' = [e \in Episodes |-> canceled[e] /\ e \notin hit]
      /\ statusOld' = [e \in Episodes |-> statusOld[e] /\ e \notin hit]
      /\ DispGoes(p, Idle)
      /\ UNCHANGED <<leaseVars, queueVars, retries, requested, held, threadVars, waiter,
                     handlerVars>>

StuckSweepWrites(p) ==
  LET hit == disp[p].on \ disp[p].live
  IN  /\ Dispatching(p, "resetting")
      /\ status' = [e \in Episodes |->
                      IF e \notin hit THEN status[e]
                      ELSE IF e \in disp[p].spent THEN "permanently_failed"
                      ELSE "pending"]
      /\ canceled' = [e \in Episodes |-> canceled[e] /\ e \notin hit]
      /\ statusOld' = [e \in Episodes |-> statusOld[e] /\ e \notin hit]
      /\ DispGoes(p, Idle)
      /\ UNCHANGED <<leaseVars, queueVars, retries, requested, held, threadVars, waiter,
                     handlerVars>>

\* requeue_deferred_episodes: the row first, then the status, unguarded.
DeferredRowQueued(p, e) ==
  /\ DispatcherRests(p) /\ status[e] = "deferred"
  /\ UpsertRow(e)
  /\ DispGoes(p, [Idle EXCEPT !.at = "redriving", !.on = {e}])
  /\ UNCHANGED <<leaseVars, episodeVars, held, threadVars, waiter, handlerVars>>

DeferredGoesPending(p, e) ==
  /\ Dispatching(p, "redriving") /\ disp[p].on = {e}
  /\ SetStatus(e, "pending", FALSE)
  /\ DispGoes(p, Idle)
  /\ UNCHANGED <<leaseVars, queueVars, retries, requested, held, threadVars, waiter,
                 handlerVars>>

\* expire_deferred_episodes: the status and the row in one transaction.
DeferredExpires(p, e) ==
  /\ DispatcherRests(p) /\ status[e] = "deferred"
  /\ SetStatus(e, "permanently_failed", FALSE)
  /\ FailRow(e)
  /\ UNCHANGED <<leaseVars, retries, requested, held, threadVars, waiter, disp, handlerVars>>

-----------------------------------------------------------------------------
(* Requests, on any worker: a feed refresh, a reprocess, a play, a cancel *)

Discover(e) ==
  /\ status[e] = "discovered" /\ row[e] = "none"
  /\ QueueRow(e)
  /\ UNCHANGED <<leaseVars, episodeVars, held, threadVars, waiter, disp, handlerVars>>

\* _reprocess_episode_with_mode reads the status and refuses a running episode ...
ReprocessReads(e) ==
  /\ ask[e] = "idle" /\ asks < MaxAsks /\ status[e] # "processing"
  /\ ask' = [ask EXCEPT ![e] = "resetting"]
  /\ asks' = asks + 1
  /\ UNCHANGED <<leaseVars, queueVars, episodeVars, held, threadVars, waiter, disp, stop, cancels>>

\* ... reset_episode_for_reprocess writes whatever the status is by then.
ReprocessResets(e) ==
  /\ ask[e] = "resetting"
  /\ ask' = [ask EXCEPT ![e] = "starting"]
  /\ SetStatus(e, "pending", FALSE)
  /\ requested' = [requested EXCEPT ![e] = TRUE]
  /\ retries' = [retries EXCEPT ![e] = 0]
  /\ UNCHANGED <<leaseVars, queueVars, held, threadVars, waiter, disp, stop, asks, cancels>>

\* serve_episode: a play starts a run for an episode that is not served yet.
PlayReads(e) ==
  /\ ask[e] = "idle" /\ asks < MaxAsks
  /\ status[e] \in {"discovered", "pending", "failed", "deferred"}
  /\ asks' = asks + 1
  /\ IF status[e] = "failed" /\ retries[e] >= MaxRetries
     THEN SetStatus(e, "permanently_failed", canceled[e]) /\ UNCHANGED ask
     ELSE ask' = [ask EXCEPT ![e] = "playing"] /\ UNCHANGED <<status, canceled, statusOld>>
  /\ UNCHANGED <<leaseVars, queueVars, retries, requested, held, threadVars, waiter, disp,
                 stop, cancels>>

\* start_background_processing from a handler, on the leader: the same checks and
\* the same admission, with no claim and so no waiter.
AskPasses(e) ==
  /\ ask[e] \in {"starting", "playing"} /\ ~paused /\ ~Processing(e) /\ ~held
  /\ \E p \in Procs : proc[p] = "leader"
  /\ ask' = [ask EXCEPT ![e] = "admitting"]
  /\ UNCHANGED <<leaseVars, queueVars, episodeVars, held, threadVars, waiter, disp, stop,
                 asks, cancels>>

AskStarts(p, e, n, r) ==
  /\ ask[e] = "admitting"
  /\ AcquireAdmitted(p, e, n, r)
  /\ RecoverEpisodes(Recovered) /\ RecoverRows(Recovered)
  /\ GoTo(r, "starting")
  /\ ask' = [ask EXCEPT ![e] = "idle"]
  /\ UNCHANGED <<held, retriesRead, waiter, disp, stop, asks, cancels>>

AskRefused(p, e, n) ==
  /\ ask[e] = "admitting"
  /\ AcquireRefused(p, e, n)
  /\ RecoverEpisodes(Recovered) /\ RecoverRows(Recovered)
  /\ ask' = [ask EXCEPT ![e] = "queueing"]
  /\ UNCHANGED <<held, threadVars, waiter, disp, stop, asks, cancels>>

\* Any refusal (a follower always refuses) puts the episode in the queue ...
AskQueues(e) ==
  /\ ask[e] \in {"starting", "playing", "queueing"}
  /\ ask' = [ask EXCEPT ![e] = "idle"]
  /\ UpsertRow(e)
  /\ requested' = [requested EXCEPT ![e] = TRUE]
  /\ UNCHANGED <<leaseVars, status, retries, canceled, statusOld, held, threadVars,
                 waiter, disp, stop, asks, cancels>>

\* ... except that a play finding the episode being processed has nothing to ask.
PlayLeaves(e) ==
  /\ ask[e] = "playing" /\ Processing(e)
  /\ ask' = [ask EXCEPT ![e] = "idle"]
  /\ UNCHANGED <<leaseVars, queueVars, episodeVars, held, threadVars, waiter, disp, stop,
                 asks, cancels>>

\* cancel_episode_processing: the status read decides which half runs.
CancelReads(e) ==
  /\ stop[e] = "idle" /\ cancels < MaxCancels
  /\ stop' = [stop EXCEPT ![e] = IF status[e] = "processing" THEN "running" ELSE "queued"]
  /\ cancels' = cancels + 1
  /\ UNCHANGED <<leaseVars, queueVars, episodeVars, held, threadVars, waiter, disp, ask, asks>>

\* request_cancellation; with no active run the handler gives up.
CancelRequests(e) ==
  /\ stop[e] = "running"
  /\ \/ \E r \in ActiveRuns :
          /\ runEp[r] = e
          /\ RequestCancellation(r)
          /\ stop' = [stop EXCEPT ![e] = "queued"]
     \/ /\ ~Processing(e)
        /\ stop' = [stop EXCEPT ![e] = "idle"]
        /\ UNCHANGED leaseVars
  /\ UNCHANGED <<queueVars, episodeVars, held, threadVars, waiter, disp, ask, asks, cancels>>

CancelClosesRow(e) ==
  /\ stop[e] = "queued"
  /\ CloseRows(e)
  /\ stop' = [stop EXCEPT ![e] = "idle"]
  /\ UNCHANGED <<leaseVars, episodeVars, held, threadVars, waiter, disp, ask, asks, cancels>>

-----------------------------------------------------------------------------
(* Time, holds and processes *)

\* A dispatcher is never that long between its claim and its start.
RowAges(e) ==
  /\ ~\E p \in Procs : ClaimInHand(p, e)
  /\ row[e] \in {"processing", "completed", "failed"} /\ ~rowOld[e]
  /\ rowOld' = [rowOld EXCEPT ![e] = TRUE]
  /\ UNCHANGED <<leaseVars, row, attempts, episodeVars, held, threadVars, waiter,
                 disp, handlerVars>>

\* Nor does a request take half an hour.
StatusAges(e) ==
  /\ status[e] = "processing" /\ ~statusOld[e] /\ ask[e] = "idle"
  /\ statusOld' = [statusOld EXCEPT ![e] = TRUE]
  /\ UNCHANGED <<leaseVars, queueVars, status, retries, canceled, requested, held,
                 threadVars, waiter, disp, handlerVars>>

\* Another feed's run, a chapter request or a manual cap hits a limit.
HoldBegins ==
  /\ OtherHolds /\ ~held
  /\ held' = TRUE
  /\ UNCHANGED <<leaseVars, queueVars, episodeVars, threadVars, waiter, disp, handlerVars>>

HoldEnds ==
  /\ held
  /\ held' = FALSE
  /\ UNCHANGED <<leaseVars, queueVars, episodeVars, threadVars, waiter, disp, handlerVars>>

\* A boot takes seconds: the dispatcher of a predecessor that is still shutting down
\* has by then finished what it was at, its runs and waiters need not have.
Boot(p) ==
  /\ \A q \in Procs :
       proc[q] = "draining" => Overlap /\ disp[q].at \in {"idle", "joining"}
  /\ BootLeader(p)
  /\ RecoverEpisodes(Recovered) /\ RecoverRows(Recovered)
  /\ UNCHANGED <<held, threadVars, waiter, disp, handlerVars>>

Shutdown(p) ==
  /\ BeginShutdown(p)
  /\ UNCHANGED <<queueVars, episodeVars, held, threadVars, waiter, disp, handlerVars>>

\* The flock is given up when the drain ends, the threads a little later.
GivesUpFlock(p) ==
  /\ DrainEnds(p)
  /\ UNCHANGED <<queueVars, episodeVars, held, threadVars, waiter, disp, handlerVars>>

\* Every thread of the process ends where it is.
Dies(p) ==
  /\ Die(p)
  /\ waiter' = [r \in Runs |-> IF runOwner[r] = p THEN "none" ELSE waiter[r]]
  /\ pc' = [r \in Runs |-> IF runOwner[r] = p THEN "none" ELSE pc[r]]
  /\ retriesRead' = [r \in Runs |-> IF runOwner[r] = p THEN 0 ELSE retriesRead[r]]
  /\ DispGoes(p, Idle)
  /\ UNCHANGED <<queueVars, episodeVars, held, handlerVars>>

-----------------------------------------------------------------------------
FailKinds == {"deferred", "permanent", "throttled", "transient"}

ThreadNext ==
  \E r \in Runs :
    \/ RunStarts(r) \/ RunFences(r) \/ RunPersists(r) \/ RunClosesRow(r)
    \/ RunQueuesRerun(r) \/ RunCompletes(r) \/ RunRaises(r)
    \/ \E kind \in FailKinds : RunFails(r, kind)
    \/ \E hold \in BOOLEAN : RunIsHeld(r, hold)
    \/ RunRequeues(r) \/ RunCancelled(r) \/ RunGivesUp(r) \/ RunReleases(r)

WaiterNext == \E r \in Runs : WaiterLeavesLoop(r) \/ WaiterDecides(r) \/ WaiterCloses(r)

DispatcherNext ==
  \E p \in Procs :
    \/ \E e \in Episodes, n \in Slots :
         \/ Claim(p, e, n) \/ ClaimRefused(p, e, n)
         \/ \E r \in Runs : ClaimStarts(p, e, n, r)
    \/ \E e \in Episodes : GateSkips(p, e) \/ ClaimPasses(p, e) \/ ClaimBounces(p, e)

SweepNext ==
  \E p \in Procs :
    \/ RowSweepReads(p) \/ RowSweepWrites(p) \/ RetryFailed(p) \/ ClearCompleted(p)
    \/ StuckSweepSelects(p) \/ StuckSweepReads(p) \/ StuckSweepWrites(p)
    \/ \E e \in Episodes :
         DeferredRowQueued(p, e) \/ DeferredGoesPending(p, e) \/ DeferredExpires(p, e)

RequestNext ==
  \E e \in Episodes :
    \/ Discover(e) \/ ReprocessReads(e) \/ ReprocessResets(e) \/ PlayReads(e) \/ AskQueues(e)
    \/ PlayLeaves(e) \/ AskPasses(e)
    \/ \E p \in Procs, n \in Slots :
         \/ \E r \in Runs : AskStarts(p, e, n, r)
         \/ AskRefused(p, e, n)
    \/ CancelReads(e) \/ CancelRequests(e) \/ CancelClosesRow(e)

WorldNext ==
  \/ \E e \in Episodes : RowAges(e) \/ StatusAges(e)
  \/ HoldBegins \/ HoldEnds
  \/ \E p \in Procs : Boot(p) \/ Shutdown(p) \/ GivesUpFlock(p) \/ Dies(p)

Next == ThreadNext \/ WaiterNext \/ DispatcherNext \/ SweepNext \/ RequestNext \/ WorldNext

Spec == RunInit /\ [][Next]_runVars

(***************************************************************************)
(* Fairness: threads that can take a step take it; a process that gave its *)
(* flock up exits; a process that finds the flock free at its boot leads;  *)
(* time passes; the dispatcher comes back to its maintenance block every   *)
(* five minutes, unless it waits for ever in between.                      *)
(***************************************************************************)
ThreadStep(r) ==
  \/ RunStarts(r) \/ RunFences(r) \/ RunPersists(r) \/ RunClosesRow(r)
  \/ RunCompletes(r) \/ RunRaises(r) \/ RunRequeues(r) \/ RunCancelled(r)
  \/ (\E kind \in FailKinds : RunFails(r, kind)) \/ RunReleases(r)

DispatcherStep(p) ==
  \/ \E e \in Episodes, n \in Slots :
       ClaimRefused(p, e, n) \/ \E r \in Runs : ClaimStarts(p, e, n, r)
  \/ \E e \in Episodes : ClaimPasses(p, e) \/ ClaimBounces(p, e)
  \/ RowSweepWrites(p) \/ StuckSweepReads(p) \/ StuckSweepWrites(p)
  \/ \E e \in Episodes : DeferredGoesPending(p, e)

Fairness ==
  /\ \A r \in Runs :
       /\ WF_runVars(ThreadStep(r))
       /\ WF_runVars(WaiterLeavesLoop(r) \/ WaiterDecides(r) \/ WaiterCloses(r))
  /\ \A e \in Episodes : WF_runVars(RowAges(e)) /\ WF_runVars(StatusAges(e))
  /\ \A p \in Procs :
       /\ WF_runVars(Boot(p)) /\ WF_runVars(proc[p] = "draining" /\ Dies(p))
       /\ WF_runVars(DispatcherStep(p))
       /\ SF_runVars(RowSweepReads(p)) /\ SF_runVars(StuckSweepSelects(p))

FairSpec == Spec /\ Fairness

\* The same dispatcher, which also comes back to a row it can claim.
ClaimingSpec ==
  FairSpec /\ \A p \in Procs : SF_runVars(\E e \in Episodes, n \in Slots : Claim(p, e, n))

-----------------------------------------------------------------------------
(* Properties *)

\* Every column and every thread has one of its values.
RunTypeOK ==
  /\ LeaseTypeOK /\ QueueTypeOK
  /\ status \in [Episodes -> Statuses]
  /\ retries \in [Episodes -> Nat] /\ retriesRead \in [Runs -> Nat]
  /\ canceled \in [Episodes -> BOOLEAN] /\ requested \in [Episodes -> BOOLEAN]
  /\ statusOld \in [Episodes -> BOOLEAN] /\ held \in BOOLEAN
  /\ pc \in [Runs -> {"none", "starting", "working", "fenced", "persisted", "published",
                      "failing", "publishedFailing", "requeueing", "leaving"}]
  /\ ask \in [Episodes -> {"idle", "resetting", "starting", "playing", "admitting", "queueing"}]
  /\ stop \in [Episodes -> {"idle", "running", "queued"}]
  /\ waiter \in [Runs -> {"none", "polling", "settling", "completed", "pending", "failed"}]
  /\ disp \in [Procs -> [at : {"idle", "joining", "claimed", "admitting", "rows",
                                "stuck", "resetting", "redriving"},
                         on : SUBSET Episodes, spent : SUBSET Episodes, live : SUBSET Episodes]]

\* Who answers for a claimed row: the dispatcher that has it in hand, the waiter of
\* its run, or a run about to reopen it under a rate-limit hold.
ClaimHolders(e) ==
  {p \in Procs : ClaimInHand(p, e)}
  \cup {r \in Runs : runEp[r] = e /\ (waiter[r] # "none" \/ pc[r] = "requeueing")}

\* Whoever answers for a claimed row gives the claim back before letting go of it,
\* on every way out of the dispatcher and of the waiter, short of a shutdown or a
\* crash.  The exception is the code's: a waiter that sees the episode pending under
\* a hold takes it that the run's failure handler has reopened the row.
ClaimsAreHeld ==
  [][\A e \in Episodes :
       ClaimHolders(e) # {} /\ ClaimHolders(e)' = {} /\ row'[e] = "processing" =>
         \/ status[e] = "pending" /\ held
         \/ \E p \in Procs : proc'[p] \in {"draining", "dead"}]_runVars

\* A rerun queued while a run is under way survives that run's verdict: only a
\* publication, a cancel request and the end of a deferral's TTL take an unclaimed
\* row out of the queue.
RerunKept ==
  [][\A e \in Episodes :
       row[e] = "pending" /\ row'[e] \in {"completed", "failed"} =>
         \/ stop[e] = "queued"
         \/ status[e] = "deferred" /\ status'[e] = "permanently_failed"
         \/ \E r \in Runs : pc[r] = "persisted" /\ runEp[r] = e]_runVars

\* A run publishes under its lease and as the only thread at work on the episode,
\* whatever recoveries and changes of leader came between its last check and the
\* write.
PublishesUnderLease ==
  [][\A r \in Runs :
       pc[r] = "fenced" /\ pc'[r] = "persisted" =>
         Active(r) /\ \A q \in Runs \ {r} : thread[q] => runEp[q] # runEp[r]]_runVars

\* The sweeps, which act on what they read some steps ago, reset no episode and no
\* row whose run is alive, as long as nobody else starts runs.
SweepsSpareRuns ==
  [][\A e \in Episodes, p \in Procs :
       /\ StuckSweepWrites(p) /\ status'[e] # status[e] => ~Processing(e)
       /\ RowSweepWrites(p) /\ row'[e] # row[e] => ~Processing(e)]_runVars

\* A process leads from some point on.
Led == <>[](\E p \in Procs : proc[p] = "leader")

\* An episode does not stay 'processing' for ever: its run ends, or its dead owner
\* is recovered, or the stuck sweep finds it.
ProcessingEnds ==
  Led => \A e \in Episodes : status[e] = "processing" ~> status[e] # "processing"

\* Nor does a row stay claimed, and the dispatcher that joins a waiter goes on.
ClaimsEnd ==
  Led => \A e \in Episodes : row[e] = "processing" ~> row[e] # "processing"

\* A cancelled run gives its slot up.
CancelsEnd ==
  Led => \A r \in Runs : runState[r] = "cancel_requested" ~> ~Active(r)

\* A dead owner is recovered, and its slot with it (docs/how-it-works.md:88, "A dead
\* owner is recovered at startup or before new work is admitted; its episode and queue
\* row return to pending").  Violated with Overlap: a successor that boots before the
\* owner has exited recovers nothing, and then waits for the slot the lease fills,
\* with a row to claim.
DeadOwnersRecovered ==
  Led => \A r \in Runs : Active(r) /\ OwnerProvenDead(r) ~> ~Active(r)

\* When the cancel handler has closed an episode's queue row no run works on the
\* episode uncancelled (api/episodes/runs.py:858-863, the window "in which the
\* worker could pick up the row and start processing it after the user clicked
\* Cancel").  Violated: a claimed episode is not 'processing' yet.
CancelReachesRun ==
  [][\A e \in Episodes :
       CancelClosesRow(e) =>
         \A r \in ActiveRuns : runEp[r] = e => runState[r] = "cancel_requested"]_runVars

=============================================================================
