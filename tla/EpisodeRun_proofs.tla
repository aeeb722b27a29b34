--------------------------- MODULE EpisodeRun_proofs ---------------------------
(***************************************************************************)
(* A run of the whole system is a run of the lease: whatever the           *)
(* dispatcher, the threads, the sweeps and the handlers do, they touch the *)
(* lease only by its own steps.  So every theorem about the lease holds of *)
(* the system; and what a run publishes it publishes under its lease.      *)
(*                                                                         *)
(* Then what the parts owe each other: the row that was queued meanwhile   *)
(* outlives a verdict, a claim is given back before it is let go of, and a *)
(* sweep spares the runs that are alive, by the invariant that one         *)
(* dispatcher works at a time (SweepInv).                                  *)
(***************************************************************************)
EXTENDS EpisodeRun, ProcessingLease_proofs

\* A step of a thread, a waiter, the dispatcher, a sweep, a handler or a process
\* changes the lease as one of its own actions does, or not at all.
LEMMA RunStepIsLeaseStep ==
  ASSUME [Next]_runVars
  PROVE  [LeaseNext]_leaseVars
<1>1. CASE ThreadNext
  <2>1. PICK r \in Runs :
          \/ Writes(r) \/ (\E hold \in BOOLEAN : RunIsHeld(r, hold)) \/ RunReleases(r)
    BY <1>1 DEF ThreadNext, RunStarts, RunFences, RunPersists, RunClosesRow, RunQueuesRerun,
                RunCompletes, RunRaises, RunFails, RunRequeues, RunCancelled, RunGivesUp
  <2>2. CASE Writes(r) \/ \E hold \in BOOLEAN : RunIsHeld(r, hold)
    BY <2>2 DEF Writes, RunIsHeld
  <2>3. CASE RunReleases(r)
    <3>1. \E terminal \in {"finished", "interrupted"} : Release(r, terminal)
      BY <2>3 DEF RunReleases
    <3> QED BY <3>1 DEF LeaseNext, RunNext
  <2> QED BY <2>1, <2>2, <2>3
<1>2. CASE WaiterNext
  BY <1>2 DEF WaiterNext, WaiterLeavesLoop, WaiterDecides, WaiterCloses
<1>3. CASE DispatcherNext
  <2>1. PICK p \in Procs, e \in Episodes :
          \/ \E n \in Slots : \/ Claim(p, e, n) \/ ClaimRefused(p, e, n)
                              \/ \E r \in Runs : ClaimStarts(p, e, n, r)
          \/ GateSkips(p, e) \/ ClaimPasses(p, e) \/ ClaimBounces(p, e)
    BY <1>3 DEF DispatcherNext
  <2>2. CASE \E n \in Slots : \E r \in Runs : ClaimStarts(p, e, n, r)
    BY <2>2 DEF ClaimStarts, LeaseNext, RunNext
  <2>3. CASE \E n \in Slots : ClaimRefused(p, e, n)
    BY <2>3 DEF ClaimRefused, LeaseNext, RunNext
  <2>4. CASE \/ \E n \in Slots : Claim(p, e, n)
             \/ GateSkips(p, e) \/ ClaimPasses(p, e) \/ ClaimBounces(p, e)
    BY <2>4 DEF Claim, GateSkips, ClaimPasses, ClaimBounces
  <2> QED BY <2>1, <2>2, <2>3, <2>4
<1>4. CASE SweepNext
  BY <1>4 DEF SweepNext, RowSweepReads, RowSweepWrites, RetryFailed, ClearCompleted,
              StuckSweepSelects, StuckSweepReads, StuckSweepWrites, DeferredRowQueued,
              DeferredGoesPending, DeferredExpires
<1>5. CASE RequestNext
  <2>1. PICK e \in Episodes :
          \/ \/ Discover(e) \/ ReprocessReads(e) \/ ReprocessResets(e) \/ PlayReads(e)
             \/ AskQueues(e) \/ PlayLeaves(e) \/ AskPasses(e) \/ CancelReads(e)
             \/ CancelClosesRow(e)
          \/ \E p \in Procs, n \in Slots :
               (\E r \in Runs : AskStarts(p, e, n, r)) \/ AskRefused(p, e, n)
          \/ CancelRequests(e)
    BY <1>5 DEF RequestNext
  <2>2. CASE \/ Discover(e) \/ ReprocessReads(e) \/ ReprocessResets(e) \/ PlayReads(e)
             \/ AskQueues(e) \/ PlayLeaves(e) \/ AskPasses(e) \/ CancelReads(e)
             \/ CancelClosesRow(e)
    BY <2>2 DEF Discover, ReprocessReads, ReprocessResets, PlayReads, AskQueues, PlayLeaves,
                AskPasses, CancelReads, CancelClosesRow
  <2>3. CASE \E p \in Procs, n \in Slots :
               (\E r \in Runs : AskStarts(p, e, n, r)) \/ AskRefused(p, e, n)
    BY <2>3 DEF AskStarts, AskRefused, LeaseNext, RunNext
  <2>4. CASE CancelRequests(e)
    BY <2>4 DEF CancelRequests, ActiveRuns, LeaseNext, RunNext
  <2> QED BY <2>1, <2>2, <2>3, <2>4
<1>6. CASE WorldNext
  <2>1. CASE (\E e \in Episodes : RowAges(e) \/ StatusAges(e)) \/ HoldBegins \/ HoldEnds
    BY <2>1 DEF RowAges, StatusAges, HoldBegins, HoldEnds
  <2>2. CASE \E p \in Procs : Boot(p) \/ Shutdown(p) \/ GivesUpFlock(p) \/ Dies(p)
    BY <2>2 DEF Boot, Shutdown, GivesUpFlock, Dies, LeaseNext, ProcNext
  <2> QED BY <1>6, <2>1, <2>2 DEF WorldNext
<1>7. CASE UNCHANGED runVars
  BY <1>7 DEF runVars
<1> QED BY <1>1, <1>2, <1>3, <1>4, <1>5, <1>6, <1>7 DEF Next

-----------------------------------------------------------------------------
(* Types, one lemma per group of variables. *)

PcPlaces == {"none", "starting", "working", "fenced", "persisted", "published",
             "failing", "publishedFailing", "requeueing", "leaving"}

EpisodeTypeOK ==
  /\ status \in [Episodes -> Statuses]
  /\ retries \in [Episodes -> Nat] /\ retriesRead \in [Runs -> Nat]
  /\ canceled \in [Episodes -> BOOLEAN] /\ requested \in [Episodes -> BOOLEAN]
  /\ statusOld \in [Episodes -> BOOLEAN]

\* Each statement on the queue table keeps its types.
LEMMA QueueStatements ==
  ASSUME QueueTypeOK, NEW e, NEW s \in RowStates, NEW E, NEW failed \in BOOLEAN,
         \/ QueueRow(e) \/ UpsertRow(e) \/ ClaimRow(e) \/ CloseClaimedRow(e, s, failed)
         \/ CloseRows(e) \/ FailRow(e) \/ RecoverRows(E) \/ ResetOrphanedRows(E)
         \/ ResetFailedRows(E) \/ ClearCompletedRows \/ UNCHANGED queueVars
         \/ (SetRow(e, s) /\ UNCHANGED attempts)
  PROVE  QueueTypeOK'
<1> USE QueueAssumption DEF QueueTypeOK, RowStates, SetRow, KeepRow, queueVars
<1>1. CASE QueueRow(e) \/ ClaimRow(e) \/ CloseRows(e) \/ FailRow(e)
  BY <1>1 DEF QueueRow, ClaimRow, CloseRows, FailRow
<1>2. CASE UNCHANGED queueVars \/ (SetRow(e, s) /\ UNCHANGED attempts)
  BY <1>2
<1>3. CASE UpsertRow(e)
  <2>1. row' \in [Episodes -> RowStates] /\ rowOld' \in [Episodes -> BOOLEAN]
    BY <1>3 DEF UpsertRow
  <2>2. attempts' = attempts \/ attempts' = [attempts EXCEPT ![e] = 0]
    BY <1>3 DEF UpsertRow
  <2>3. attempts' \in [Episodes -> 0..MaxAttempts]
    BY <2>2
  <2> QED BY <2>1, <2>3
<1>4. CASE CloseClaimedRow(e, s, failed)
  <2> DEFINE counted == failed /\ attempts[e] < MaxAttempts
  <2>1. counted => attempts[e] < MaxAttempts
    OBVIOUS
  <2>2. CASE row[e] = "processing"
    <3> HIDE DEF counted
    <3>1. /\ SetRow(e, s)
          /\ attempts' = IF counted THEN [attempts EXCEPT ![e] = @ + 1] ELSE attempts
      BY ONLY <1>4, <2>2, Zenon DEF CloseClaimedRow, counted
    <3>2. row' \in [Episodes -> RowStates] /\ rowOld' \in [Episodes -> BOOLEAN]
      BY <3>1
    <3>3. ASSUME counted, e \in Episodes
          PROVE  [attempts EXCEPT ![e] = @ + 1] \in [Episodes -> 0..MaxAttempts]
      BY <2>1, <3>3
    <3>4. ASSUME e \notin Episodes
          PROVE  [attempts EXCEPT ![e] = @ + 1] \in [Episodes -> 0..MaxAttempts]
      BY <3>4
    <3>5. attempts' \in [Episodes -> 0..MaxAttempts]
      BY <3>1, <3>3, <3>4
    <3> QED BY <3>2, <3>5
  <2>3. CASE row[e] # "processing"
    BY <1>4, <2>3 DEF CloseClaimedRow
  <2> QED BY <2>2, <2>3
<1>5. CASE RecoverRows(E)
  BY <1>5 DEF RecoverRows
<1>6. CASE ResetOrphanedRows(E)
  BY <1>6 DEF ResetOrphanedRows
<1>7. CASE ResetFailedRows(E)
  BY <1>7 DEF ResetFailedRows
<1>8. CASE ClearCompletedRows
  BY <1>8 DEF ClearCompletedRows
<1> QED BY <1>1, <1>2, <1>3, <1>4, <1>5, <1>6, <1>7, <1>8

\* Every step writes the queue by one of those statements, or leaves it alone.
LEMMA QueueTypes ==
  ASSUME QueueTypeOK, [Next]_runVars
  PROVE  QueueTypeOK'
<1>1. ASSUME UNCHANGED queueVars PROVE QueueTypeOK'
  BY <1>1 DEF QueueTypeOK, queueVars
<1>2. CASE ThreadNext
  <2>1. PICK r \in Runs :
          \/ RunClosesRow(r) \/ RunQueuesRerun(r) \/ RunRequeues(r) \/ UNCHANGED queueVars
    BY <1>2 DEF ThreadNext, RunStarts, RunFences, RunPersists, RunCompletes, RunRaises,
                RunFails, RunIsHeld, RunCancelled, RunGivesUp, RunReleases
  <2>2. CASE RunClosesRow(r)
    <3>1. CloseRows(runEp[r])
      BY <2>2 DEF RunClosesRow
    <3> QED BY <3>1, QueueStatements DEF RowStates
  <2>3. CASE RunQueuesRerun(r)
    <3>1. UpsertRow(runEp[r])
      BY <2>3 DEF RunQueuesRerun
    <3> QED BY <3>1, QueueStatements DEF RowStates
  <2>4. CASE RunRequeues(r)
    <3>1. \/ SetRow(runEp[r], "pending") /\ UNCHANGED attempts
          \/ UpsertRow(runEp[r])
      BY <2>4 DEF RunRequeues
    <3> QED BY <3>1, QueueStatements DEF RowStates
  <2> QED BY <1>1, <2>1, <2>2, <2>3, <2>4
<1>3. CASE WaiterNext
  <2>1. PICK r \in Runs : WaiterCloses(r) \/ UNCHANGED queueVars
    BY <1>3 DEF WaiterNext, WaiterLeavesLoop, WaiterDecides
  <2>2. CASE WaiterCloses(r)
    <3>1. /\ waiter[r] \in RowStates /\ (waiter[r] = "failed") \in BOOLEAN
          /\ CloseClaimedRow(runEp[r], waiter[r], waiter[r] = "failed")
      BY <2>2 DEF WaiterCloses, RowStates
    <3> QED BY <3>1, QueueStatements
  <2> QED BY <1>1, <2>1, <2>2
<1>4. CASE DispatcherNext
  <2>1. PICK p \in Procs, e \in Episodes :
          \/ \E n \in Slots : \/ Claim(p, e, n) \/ ClaimRefused(p, e, n)
                              \/ \E r \in Runs : ClaimStarts(p, e, n, r)
          \/ GateSkips(p, e) \/ ClaimPasses(p, e) \/ ClaimBounces(p, e)
    BY <1>4 DEF DispatcherNext
  <2>2. CASE \E n \in Slots : Claim(p, e, n)
    <3>1. ClaimRow(e)
      BY <2>2 DEF Claim
    <3> QED BY <3>1, QueueStatements DEF RowStates
  <2>3. CASE \E n \in Slots : ClaimRefused(p, e, n)
    <3>1. RecoverRows(Recovered \cup {e})
      BY <2>3 DEF ClaimRefused
    <3> QED BY <3>1, QueueStatements DEF RowStates
  <2>4. CASE \E n \in Slots : \E r \in Runs : ClaimStarts(p, e, n, r)
    <3>1. RecoverRows(Recovered)
      BY <2>4 DEF ClaimStarts
    <3> QED BY <3>1, QueueStatements DEF RowStates
  <2>5. CASE GateSkips(p, e)
    <3>1. CloseClaimedRow(e, "completed", TRUE)
      BY <2>5 DEF GateSkips
    <3> QED BY <3>1, QueueStatements DEF RowStates
  <2>6. CASE ClaimBounces(p, e)
    <3>1. CloseClaimedRow(e, "pending", FALSE)
      BY <2>6 DEF ClaimBounces
    <3> QED BY <3>1, QueueStatements DEF RowStates
  <2>7. CASE ClaimPasses(p, e)
    BY <1>1, <2>7 DEF ClaimPasses
  <2> QED BY <2>1, <2>2, <2>3, <2>4, <2>5, <2>6, <2>7
<1>5. CASE SweepNext
  <2>1. PICK p \in Procs :
          \/ RowSweepWrites(p) \/ RetryFailed(p) \/ ClearCompleted(p)
          \/ \E e \in Episodes : DeferredRowQueued(p, e) \/ DeferredExpires(p, e)
          \/ UNCHANGED queueVars
    BY <1>5 DEF SweepNext, RowSweepReads, StuckSweepSelects, StuckSweepReads,
                StuckSweepWrites, DeferredGoesPending
  <2>2. CASE RowSweepWrites(p)
    <3>1. ResetOrphanedRows(disp[p].live)
      BY <2>2 DEF RowSweepWrites
    <3> QED BY <3>1, QueueStatements DEF RowStates
  <2>3. CASE RetryFailed(p)
    <3>1. ResetFailedRows({e \in Episodes : status[e] = "failed" /\ retries[e] < MaxRetries})
      BY <2>3 DEF RetryFailed
    <3> QED BY <3>1, QueueStatements DEF RowStates
  <2>4. CASE ClearCompleted(p)
    <3>1. ClearCompletedRows
      BY <2>4 DEF ClearCompleted
    <3> QED BY <3>1, QueueStatements DEF RowStates
  <2>5. CASE \E e \in Episodes : DeferredRowQueued(p, e) \/ DeferredExpires(p, e)
    <3>1. PICK e \in Episodes : UpsertRow(e) \/ FailRow(e)
      BY <2>5 DEF DeferredRowQueued, DeferredExpires
    <3> QED BY <3>1, QueueStatements DEF RowStates
  <2> QED BY <1>1, <2>1, <2>2, <2>3, <2>4, <2>5
<1>6. CASE RequestNext
  <2>1. PICK e \in Episodes :
          QueueRow(e) \/ UpsertRow(e) \/ RecoverRows(Recovered) \/ CloseRows(e)
          \/ UNCHANGED queueVars
    BY <1>6 DEF RequestNext, Discover, ReprocessReads, ReprocessResets, PlayReads, AskQueues,
                PlayLeaves, AskPasses, AskStarts, AskRefused, CancelReads, CancelRequests,
                CancelClosesRow
  <2> QED BY <2>1, QueueStatements DEF RowStates
<1>7. CASE WorldNext
  <2>1. CASE \E e \in Episodes : RowAges(e)
    BY <2>1 DEF RowAges, QueueTypeOK
  <2>2. CASE \E p \in Procs : Boot(p)
    <3>1. RecoverRows(Recovered)
      BY <2>2 DEF Boot
    <3> QED BY <3>1, QueueStatements DEF RowStates
  <2>3. CASE (\E e \in Episodes : StatusAges(e)) \/ HoldBegins \/ HoldEnds
             \/ (\E p \in Procs : Shutdown(p) \/ GivesUpFlock(p) \/ Dies(p))
    BY <1>1, <2>3 DEF StatusAges, HoldBegins, HoldEnds, Shutdown, GivesUpFlock, Dies
  <2> QED BY <1>7, <2>1, <2>2, <2>3 DEF WorldNext
<1>8. CASE UNCHANGED runVars
  BY <1>1, <1>8 DEF runVars, queueVars
<1> QED BY <1>2, <1>3, <1>4, <1>5, <1>6, <1>7, <1>8 DEF Next

\* A status written with its message keeps the types of the columns it writes.
LEMMA SetStatusTypes ==
  ASSUME EpisodeTypeOK, NEW e, NEW s \in Statuses, NEW b \in BOOLEAN, SetStatus(e, s, b)
  PROVE  /\ status' \in [Episodes -> Statuses]
         /\ canceled' \in [Episodes -> BOOLEAN]
         /\ statusOld' \in [Episodes -> BOOLEAN]
BY DEF EpisodeTypeOK, SetStatus

\* So does the recovery of episodes.
LEMMA RecoverEpisodesTypes ==
  ASSUME EpisodeTypeOK, NEW E, RecoverEpisodes(E), retriesRead' = retriesRead
  PROVE  EpisodeTypeOK'
BY DEF EpisodeTypeOK, RecoverEpisodes, Statuses

\* Every step keeps the types of the episode rows and of what threads read of them.
LEMMA EpisodeTypes ==
  ASSUME LeaseTypeOK, EpisodeTypeOK, [Next]_runVars
  PROVE  EpisodeTypeOK'
<1> USE DEF EpisodeTypeOK
<1>1. ASSUME UNCHANGED episodeVars, UNCHANGED retriesRead PROVE EpisodeTypeOK'
  BY <1>1 DEF episodeVars
<1>2. CASE ThreadNext
  <2>1. PICK r \in Runs :
          \/ RunStarts(r) \/ RunPersists(r) \/ RunQueuesRerun(r) \/ RunRaises(r)
          \/ (\E kind \in FailKinds : RunFails(r, kind))
          \/ (\E hold \in BOOLEAN : RunIsHeld(r, hold))
          \/ RunRequeues(r) \/ RunCancelled(r) \/ RunReleases(r)
          \/ UNCHANGED episodeVars /\ UNCHANGED retriesRead
    BY <1>2 DEF ThreadNext, RunFences, RunClosesRow, RunCompletes, RunGivesUp
  <2> DEFINE e == runEp[r]
  <2>2. CASE RunStarts(r)
    <3>1. e \in Episodes
      BY <2>2 DEF RunStarts, Owned, LeaseTypeOK
    <3>2. SetStatus(e, "processing", canceled[e]) /\ UNCHANGED <<retries, requested>>
          /\ retriesRead' = [retriesRead EXCEPT ![r] = retries[e]]
      BY <2>2 DEF RunStarts
    <3>3. status' \in [Episodes -> Statuses] /\ canceled' \in [Episodes -> BOOLEAN]
          /\ statusOld' \in [Episodes -> BOOLEAN]
      BY <3>1, <3>2, SetStatusTypes DEF Statuses
    <3> QED BY <3>1, <3>2, <3>3
  <2>3. CASE RunPersists(r)
    <3>1. /\ SetStatus(e, "processed", FALSE)
          /\ retries' = [retries EXCEPT ![e] = 0]
          /\ requested' = [requested EXCEPT ![e] = FALSE]
          /\ UNCHANGED retriesRead
      BY <2>3 DEF RunPersists
    <3>2. status' \in [Episodes -> Statuses] /\ canceled' \in [Episodes -> BOOLEAN]
          /\ statusOld' \in [Episodes -> BOOLEAN]
      BY <3>1, SetStatusTypes DEF Statuses
    <3> QED BY <3>1, <3>2
  <2>4. CASE RunQueuesRerun(r)
    BY <2>4 DEF RunQueuesRerun
  <2>5. CASE RunRaises(r)
    <3>1. runEp[r] \in Episodes
      BY <2>5 DEF RunRaises, Owned, LeaseTypeOK
    <3>2. UNCHANGED episodeVars
          /\ (retriesRead' = [retriesRead EXCEPT ![r] = retries[runEp[r]]]
              \/ retriesRead' = retriesRead)
      BY <2>5 DEF RunRaises
    <3> QED BY <3>1, <3>2 DEF episodeVars
  <2>6. CASE \E kind \in FailKinds : RunFails(r, kind)
    <3>1. PICK kind \in FailKinds : RunFails(r, kind)
      BY <2>6
    <3> DEFINE n == IF kind = "transient" THEN retriesRead[r] + 1 ELSE retriesRead[r]
               s == CASE kind = "deferred" -> "deferred"
                      [] kind = "permanent" -> "permanently_failed"
                      [] kind = "throttled" -> "failed"
                      [] kind = "transient" -> IF n >= MaxRetries THEN "permanently_failed"
                                               ELSE "failed"
    <3>2. n \in Nat
      OBVIOUS
    <3>3. SetStatus(e, s, FALSE) /\ UNCHANGED <<requested, retriesRead>>
          /\ (retries' = retries \/ retries' = [retries EXCEPT ![e] = n])
      BY <3>1, Zenon DEF RunFails
    <3>4. s \in Statuses
      <4> HIDE DEF n
      <4>1. s \in {"deferred", "permanently_failed", "failed"}
        BY Zenon DEF FailKinds
      <4> QED BY <4>1 DEF Statuses
    <3>5. status' \in [Episodes -> Statuses] /\ canceled' \in [Episodes -> BOOLEAN]
          /\ statusOld' \in [Episodes -> BOOLEAN]
      <4> HIDE DEF s
      <4> QED BY <3>3, <3>4, SetStatusTypes
    <3> HIDE DEF n, s
    <3> QED BY <3>2, <3>3, <3>5
  <2>7. CASE (\E hold \in BOOLEAN : RunIsHeld(r, hold)) \/ RunCancelled(r)
    <3>1. CASE UNCHANGED episodeVars /\ UNCHANGED retriesRead
      BY <1>1, <3>1
    <3>2. CASE \E b \in BOOLEAN : SetStatus(e, "pending", b)
                                /\ UNCHANGED <<retries, requested, retriesRead>>
      <4>1. status' \in [Episodes -> Statuses] /\ canceled' \in [Episodes -> BOOLEAN]
            /\ statusOld' \in [Episodes -> BOOLEAN]
        BY <3>2, SetStatusTypes DEF Statuses
      <4> QED BY <3>2, <4>1
    <3> QED BY <2>7, <3>1, <3>2 DEF RunIsHeld, RunCancelled
  <2>8. CASE RunRequeues(r)
    BY <2>8 DEF RunRequeues
  <2>9. CASE RunReleases(r)
    BY <2>9 DEF RunReleases, episodeVars
  <2> QED BY <1>1, <2>1, <2>2, <2>3, <2>4, <2>5, <2>6, <2>7, <2>8, <2>9
<1>3. CASE WaiterNext
  BY <1>1, <1>3 DEF WaiterNext, WaiterLeavesLoop, WaiterDecides, WaiterCloses, threadVars
<1>4. CASE DispatcherNext
  <2>1. CASE RecoverEpisodes(Recovered) /\ UNCHANGED retriesRead
    BY <2>1, RecoverEpisodesTypes
  <2> QED BY <1>1, <1>4, <2>1 DEF DispatcherNext, Claim, GateSkips, ClaimPasses, ClaimBounces,
             ClaimStarts, ClaimRefused, threadVars
<1>5. CASE SweepNext
  <2>1. PICK p \in Procs :
          \/ StuckSweepWrites(p)
          \/ \E e \in Episodes : DeferredGoesPending(p, e) \/ DeferredExpires(p, e)
          \/ UNCHANGED episodeVars /\ UNCHANGED retriesRead
    BY <1>5 DEF SweepNext, RowSweepReads, RowSweepWrites, RetryFailed, ClearCompleted,
                StuckSweepSelects, StuckSweepReads, DeferredRowQueued, threadVars
  <2>2. CASE StuckSweepWrites(p)
    BY <2>2 DEF StuckSweepWrites, threadVars, Statuses
  <2>3. CASE \E e \in Episodes : DeferredGoesPending(p, e) \/ DeferredExpires(p, e)
    <3>1. PICK e \in Episodes, s \in {"pending", "permanently_failed"} :
            SetStatus(e, s, FALSE) /\ UNCHANGED <<retries, requested, retriesRead>>
      BY <2>3 DEF DeferredGoesPending, DeferredExpires, threadVars
    <3>2. status' \in [Episodes -> Statuses] /\ canceled' \in [Episodes -> BOOLEAN]
          /\ statusOld' \in [Episodes -> BOOLEAN]
      BY <3>1, SetStatusTypes DEF Statuses
    <3> QED BY <3>1, <3>2
  <2> QED BY <1>1, <2>1, <2>2, <2>3
<1>6. CASE RequestNext
  <2>1. PICK e \in Episodes :
          \/ ReprocessResets(e) \/ PlayReads(e) \/ AskQueues(e)
          \/ RecoverEpisodes(Recovered) /\ UNCHANGED retriesRead
          \/ UNCHANGED episodeVars /\ UNCHANGED retriesRead
    BY <1>6 DEF RequestNext, Discover, ReprocessReads, PlayLeaves, AskPasses, AskStarts,
                AskRefused, CancelReads, CancelRequests, CancelClosesRow, threadVars
  <2>2. CASE ReprocessResets(e)
    <3>1. /\ SetStatus(e, "pending", FALSE)
          /\ requested' = [requested EXCEPT ![e] = TRUE]
          /\ retries' = [retries EXCEPT ![e] = 0]
          /\ UNCHANGED retriesRead
      BY <2>2 DEF ReprocessResets, threadVars
    <3>2. status' \in [Episodes -> Statuses] /\ canceled' \in [Episodes -> BOOLEAN]
          /\ statusOld' \in [Episodes -> BOOLEAN]
      BY <3>1, SetStatusTypes DEF Statuses
    <3> QED BY <3>1, <3>2
  <2>3. CASE PlayReads(e)
    <3>1. UNCHANGED <<retries, requested, retriesRead>>
          /\ (UNCHANGED <<status, canceled, statusOld>>
              \/ SetStatus(e, "permanently_failed", canceled[e]))
      BY <2>3 DEF PlayReads, threadVars
    <3>2. status' \in [Episodes -> Statuses] /\ canceled' \in [Episodes -> BOOLEAN]
          /\ statusOld' \in [Episodes -> BOOLEAN]
      BY <3>1, SetStatusTypes DEF Statuses
    <3> QED BY <3>1, <3>2
  <2>4. CASE AskQueues(e)
    BY <2>4 DEF AskQueues, threadVars
  <2>5. CASE RecoverEpisodes(Recovered) /\ UNCHANGED retriesRead
    BY <2>5, RecoverEpisodesTypes
  <2> QED BY <1>1, <2>1, <2>2, <2>3, <2>4, <2>5
<1>7. CASE WorldNext
  <2>1. CASE \E e \in Episodes : StatusAges(e)
    BY <2>1 DEF StatusAges, threadVars
  <2>2. CASE \E p \in Procs : Boot(p)
    BY <2>2, RecoverEpisodesTypes DEF Boot, threadVars
  <2>3. CASE \E p \in Procs : Dies(p)
    BY <2>3 DEF Dies, episodeVars
  <2>4. CASE (\E e \in Episodes : RowAges(e)) \/ HoldBegins \/ HoldEnds
             \/ (\E p \in Procs : Shutdown(p) \/ GivesUpFlock(p))
    BY <1>1, <2>4 DEF RowAges, HoldBegins, HoldEnds, Shutdown, GivesUpFlock, threadVars
  <2> QED BY <1>7, <2>1, <2>2, <2>3, <2>4 DEF WorldNext
<1>8. CASE UNCHANGED runVars
  BY <1>1, <1>8 DEF runVars, threadVars
<1> QED BY <1>2, <1>3, <1>4, <1>5, <1>6, <1>7, <1>8 DEF Next

ThreadTypeOK ==
  /\ pc \in [Runs -> PcPlaces]
  /\ waiter \in [Runs -> {"none", "polling", "settling", "completed", "pending", "failed"}]
  /\ held \in BOOLEAN
  /\ ask \in [Episodes -> {"idle", "resetting", "starting", "playing", "admitting", "queueing"}]
  /\ stop \in [Episodes -> {"idle", "running", "queued"}]

\* Every step takes the run's thread, its waiter and the handlers to a known place.
LEMMA ThreadTypes ==
  ASSUME ThreadTypeOK, [Next]_runVars
  PROVE  ThreadTypeOK'
<1> USE DEF ThreadTypeOK, PcPlaces
<1>1. ASSUME UNCHANGED <<pc, waiter, held, ask, stop>> PROVE ThreadTypeOK'
  BY <1>1
<1>2. CASE ThreadNext
  <2>1. PICK r \in Runs, place \in PcPlaces, hold \in BOOLEAN :
          pc' = [pc EXCEPT ![r] = place] /\ held' = (held \/ hold)
          /\ UNCHANGED <<waiter, ask, stop>>
    <3>1. PICK r \in Runs :
            \/ RunRaises(r) \/ (\E hold \in BOOLEAN : RunIsHeld(r, hold)) \/ RunReleases(r)
            \/ /\ Writes(r)
               /\ \E place \in PcPlaces : GoTo(r, place)
      BY <1>2, Zenon DEF ThreadNext, RunStarts, RunFences, RunPersists, RunClosesRow, RunQueuesRerun,
                  RunCompletes, RunFails, RunRequeues, RunCancelled, RunGivesUp
    <3>2. CASE RunRaises(r)
      BY <3>2 DEF RunRaises, Writes, GoTo, handlerVars
    <3>3. CASE \E hold \in BOOLEAN : RunIsHeld(r, hold)
      BY <3>3 DEF RunIsHeld, GoTo, handlerVars
    <3>4. CASE RunReleases(r)
      BY <3>4 DEF RunReleases, GoTo, handlerVars
    <3>5. CASE Writes(r) /\ \E place \in PcPlaces : GoTo(r, place)
      BY <3>5 DEF Writes, GoTo, handlerVars
    <3> QED BY <3>1, <3>2, <3>3, <3>4, <3>5
  <2> QED BY <2>1
<1>3. CASE WaiterNext
  <2>1. PICK r \in Runs : \/ WaiterLeavesLoop(r) \/ WaiterCloses(r)
                        \/ WaiterDecides(r)
    BY <1>3 DEF WaiterNext
  <2>2. CASE WaiterLeavesLoop(r) \/ WaiterCloses(r)
    BY <2>2 DEF WaiterLeavesLoop, WaiterCloses, threadVars, handlerVars
  <2>3. CASE WaiterDecides(r)
    <3>1. \E v \in {"none", "completed", "pending", "failed"} :
            waiter' = [waiter EXCEPT ![r] = v]
      BY <2>3, Zenon DEF WaiterDecides
    <3>2. UNCHANGED <<pc, held, ask, stop>>
      BY <2>3, Zenon DEF WaiterDecides, threadVars, handlerVars
    <3> QED BY <3>1, <3>2
  <2> QED BY <2>1, <2>2, <2>3
<1>4. CASE DispatcherNext
  <2>1. PICK p \in Procs, e \in Episodes :
          \/ \E n \in Slots : \/ Claim(p, e, n) \/ ClaimRefused(p, e, n)
                              \/ \E r \in Runs : ClaimStarts(p, e, n, r)
          \/ GateSkips(p, e) \/ ClaimPasses(p, e) \/ ClaimBounces(p, e)
    BY <1>4 DEF DispatcherNext
  <2>2. CASE \E n \in Slots : \E r \in Runs : ClaimStarts(p, e, n, r)
    <3>1. PICK r \in Runs :
            /\ pc' = [pc EXCEPT ![r] = "starting"]
            /\ waiter' = [waiter EXCEPT ![r] = "polling"]
            /\ UNCHANGED <<held, ask, stop>>
      BY <2>2, Zenon DEF ClaimStarts, GoTo, handlerVars
    <3> QED BY <3>1
  <2>3. CASE \/ \E n \in Slots : Claim(p, e, n) \/ ClaimRefused(p, e, n)
             \/ GateSkips(p, e) \/ ClaimPasses(p, e) \/ ClaimBounces(p, e)
    <3>1. UNCHANGED <<pc, waiter, held, ask, stop>>
      BY <2>3, Zenon DEF Claim, ClaimRefused, GateSkips, ClaimPasses, ClaimBounces, threadVars,
                         handlerVars
    <3> QED BY <1>1, <3>1
  <2> QED BY <2>1, <2>2, <2>3
<1>5. CASE SweepNext
  <2>1. UNCHANGED <<pc, waiter, held, ask, stop>>
    BY <1>5, Zenon DEF SweepNext, RowSweepReads, RowSweepWrites, RetryFailed, ClearCompleted,
                StuckSweepSelects, StuckSweepReads, StuckSweepWrites, DeferredRowQueued,
                DeferredGoesPending, DeferredExpires, threadVars, handlerVars
  <2> QED BY <1>1, <2>1
<1>6. CASE RequestNext
  <2>1. PICK e \in Episodes :
          \/ Discover(e) \/ ReprocessReads(e) \/ ReprocessResets(e) \/ PlayReads(e)
          \/ AskQueues(e) \/ PlayLeaves(e) \/ AskPasses(e)
          \/ \E p \in Procs, n \in Slots :
               (\E r \in Runs : AskStarts(p, e, n, r)) \/ AskRefused(p, e, n)
          \/ CancelReads(e) \/ CancelRequests(e) \/ CancelClosesRow(e)
    BY <1>6 DEF RequestNext
  <2>2. CASE \E p \in Procs, n \in Slots : \E r \in Runs : AskStarts(p, e, n, r)
    BY <2>2 DEF AskStarts, GoTo
  <2>3. CASE \E p \in Procs, n \in Slots : AskRefused(p, e, n)
    BY <2>3 DEF AskRefused, threadVars
  <2>4. CASE \/ Discover(e) \/ ReprocessReads(e) \/ ReprocessResets(e) \/ PlayReads(e)
             \/ AskQueues(e) \/ PlayLeaves(e) \/ AskPasses(e)
    BY <2>4 DEF Discover, ReprocessReads, ReprocessResets, PlayReads, AskQueues, PlayLeaves,
                AskPasses, threadVars, handlerVars
  <2>5. CASE CancelReads(e) \/ CancelRequests(e) \/ CancelClosesRow(e)
    BY <2>5 DEF CancelReads, CancelRequests, CancelClosesRow, threadVars
  <2> QED BY <2>1, <2>2, <2>3, <2>4, <2>5
<1>7. CASE WorldNext
  <2>1. CASE \E e \in Episodes : RowAges(e) \/ StatusAges(e)
    BY <1>1, <2>1 DEF RowAges, StatusAges, threadVars, handlerVars
  <2>2. CASE HoldBegins \/ HoldEnds
    BY <2>2 DEF HoldBegins, HoldEnds, threadVars, handlerVars
  <2>3. CASE \E p \in Procs : Boot(p) \/ Shutdown(p) \/ GivesUpFlock(p)
    BY <1>1, <2>3 DEF Boot, Shutdown, GivesUpFlock, threadVars, handlerVars
  <2>4. CASE \E p \in Procs : Dies(p)
    BY <2>4 DEF Dies, handlerVars
  <2> QED BY <1>7, <2>1, <2>2, <2>3, <2>4 DEF WorldNext
<1>8. CASE UNCHANGED runVars
  BY <1>1, <1>8 DEF runVars, threadVars, handlerVars
<1> QED BY <1>2, <1>3, <1>4, <1>5, <1>6, <1>7, <1>8 DEF Next

DispRecord ==
  [at : {"idle", "joining", "claimed", "admitting", "rows", "stuck", "resetting", "redriving"},
   on : SUBSET Episodes, spent : SUBSET Episodes, live : SUBSET Episodes]

\* The episodes with an active run are episodes.
LEMMA CurrentTypes == Current \in SUBSET Episodes
BY DEF Current

\* Every step takes a dispatcher from one well-typed state to another.
LEMMA DispatcherTypes ==
  ASSUME disp \in [Procs -> DispRecord], [Next]_runVars
  PROVE  disp' \in [Procs -> DispRecord]
<1>1. ASSUME disp' = disp \/ \E p \in Procs, d \in DispRecord : disp' = [disp EXCEPT ![p] = d]
      PROVE  disp' \in [Procs -> DispRecord]
  BY <1>1
<1>2. /\ Idle \in DispRecord
      /\ [Idle EXCEPT !.at = "joining"] \in DispRecord
      /\ [Idle EXCEPT !.at = "rows", !.live = Current] \in DispRecord
      /\ \A e \in Episodes : /\ [Idle EXCEPT !.at = "claimed", !.on = {e}] \in DispRecord
                            /\ [Idle EXCEPT !.at = "redriving", !.on = {e}] \in DispRecord
  BY CurrentTypes DEF Idle, DispRecord
<1>3. CASE ThreadNext \/ WaiterNext
  <2>1. disp' = disp
    BY <1>3, Zenon DEF ThreadNext, WaiterNext, RunStarts, RunFences, RunPersists, RunClosesRow,
              RunQueuesRerun, RunCompletes, RunRaises, RunFails, RunIsHeld, RunRequeues,
              RunCancelled, RunGivesUp, RunReleases, Writes, WaiterLeavesLoop, WaiterDecides,
              WaiterCloses
  <2> QED BY <1>1, <2>1
<1>4. CASE DispatcherNext
  <2>1. PICK p \in Procs, e \in Episodes :
          \/ disp' = [disp EXCEPT ![p] = [Idle EXCEPT !.at = "claimed", !.on = {e}]]
          \/ disp' = [disp EXCEPT ![p] = Idle]
          \/ disp' = [disp EXCEPT ![p] = [Idle EXCEPT !.at = "joining"]]
          \/ disp' = [disp EXCEPT ![p] = [disp[p] EXCEPT !.at = "admitting"]]
    BY <1>4, Zenon DEF DispatcherNext, Claim, GateSkips, ClaimPasses, ClaimBounces, ClaimStarts,
              ClaimRefused, DispGoes
  <2>2. [disp[p] EXCEPT !.at = "admitting"] \in DispRecord
    BY DEF DispRecord
  <2> QED BY <1>1, <1>2, <2>1, <2>2
<1>5. CASE SweepNext
  <2>1. PICK p \in Procs :
          \/ disp' = disp \/ disp' = [disp EXCEPT ![p] = Idle]
          \/ disp' = [disp EXCEPT ![p] = [Idle EXCEPT !.at = "rows", !.live = Current]]
          \/ StuckSweepSelects(p)
          \/ disp' = [disp EXCEPT ![p] = [disp[p] EXCEPT !.at = "resetting", !.live = Current]]
          \/ \E e \in Episodes :
               disp' = [disp EXCEPT ![p] = [Idle EXCEPT !.at = "redriving", !.on = {e}]]
    BY <1>5, Zenon DEF SweepNext, RowSweepReads, RowSweepWrites, RetryFailed, ClearCompleted,
              StuckSweepReads, StuckSweepWrites, DeferredRowQueued, DeferredGoesPending,
              DeferredExpires, DispGoes
  <2>2. [disp[p] EXCEPT !.at = "resetting", !.live = Current] \in DispRecord
    BY CurrentTypes DEF DispRecord
  <2>3. CASE StuckSweepSelects(p)
    <3> DEFINE stuck == {e \in Episodes : status[e] = "processing" /\ statusOld[e]}
               spentOnes == {e \in stuck : retries[e] >= MaxRetries}
               d == [Idle EXCEPT !.at = "stuck", !.on = stuck, !.spent = spentOnes]
    <3>1. disp' = [disp EXCEPT ![p] = d]
      BY <2>3 DEF StuckSweepSelects, DispGoes
    <3>2. stuck \in SUBSET Episodes /\ spentOnes \in SUBSET Episodes
      OBVIOUS
    <3>3. d \in DispRecord
      <4> HIDE DEF stuck, spentOnes
      <4> QED BY <3>2 DEF Idle, DispRecord
    <3> HIDE DEF d
    <3> QED BY <1>1, <3>1, <3>3
  <2> QED BY <1>1, <1>2, <2>1, <2>2, <2>3
<1>6. CASE RequestNext
  <2>1. disp' = disp
    BY <1>6, Zenon DEF RequestNext, Discover, ReprocessReads, ReprocessResets, PlayReads,
              AskQueues, PlayLeaves, AskPasses, AskStarts, AskRefused, CancelReads,
              CancelRequests, CancelClosesRow
  <2> QED BY <1>1, <2>1
<1>7. CASE WorldNext
  <2>1. disp' = disp \/ \E p \in Procs : disp' = [disp EXCEPT ![p] = Idle]
    BY <1>7, Zenon DEF WorldNext, RowAges, StatusAges, HoldBegins, HoldEnds, Boot, Shutdown,
              GivesUpFlock, Dies, DispGoes
  <2> QED BY <1>1, <1>2, <2>1
<1>8. CASE UNCHANGED runVars
  BY <1>1, <1>8 DEF runVars
<1> QED BY <1>3, <1>4, <1>5, <1>6, <1>7, <1>8 DEF Next

\* The system implements the lease, so no behaviour of dispatcher, threads and
\* handlers breaks what the lease guarantees.
THEOREM RunImplementsLease == Spec => LeaseSpec
<1>1. RunInit => LeaseInit
  BY DEF RunInit
<1> QED BY <1>1, RunStepIsLeaseStep, PTL DEF Spec, LeaseSpec

\* Every reachable state of the system is well typed.
THEOREM RunTypeCorrect == Spec => []RunTypeOK
<1> DEFINE Types == LeaseTypeOK /\ QueueTypeOK /\ EpisodeTypeOK /\ ThreadTypeOK
                    /\ disp \in [Procs -> DispRecord]
<1>1. Types <=> RunTypeOK
  BY DEF RunTypeOK, EpisodeTypeOK, ThreadTypeOK, PcPlaces, DispRecord
<1>2. RunInit => Types
  <2> SUFFICES ASSUME RunInit PROVE Types
    OBVIOUS
  <2>1. LeaseTypeOK
    BY LeaseAssumption DEF RunInit, LeaseInit, LeaseTypeOK, RunStates
  <2>2. QueueTypeOK
    BY QueueAssumption DEF RunInit, QueueInit, QueueTypeOK, RowStates
  <2>3. EpisodeTypeOK
    BY DEF RunInit, EpisodeTypeOK, Statuses
  <2>4. ThreadTypeOK
    BY DEF RunInit, ThreadTypeOK, PcPlaces
  <2>5. disp \in [Procs -> DispRecord]
    BY DEF RunInit, Idle, DispRecord
  <2> QED BY <2>1, <2>2, <2>3, <2>4, <2>5
<1>3. Types /\ [Next]_runVars => Types'
  BY RunStepIsLeaseStep, LeaseTypes, QueueTypes, EpisodeTypes, ThreadTypes, DispatcherTypes
<1>4. Spec => []Types
  <2> HIDE DEF Types
  <2> QED BY <1>2, <1>3, PTL DEF Spec
<1> QED BY <1>1, <1>4, PTL

-----------------------------------------------------------------------------
(* Publication *)

\* Inside EpisodeRun no feed is deleted, so no lease is lost with one.
NoneGone == \A r \in Runs : runState[r] # "gone"

\* Of the lease's own steps only the deletion of a feed loses a lease.
LEMMA NoneGoneStep ==
  ASSUME NoneGone, LeaseTypeOK, [Next]_runVars
  PROVE  NoneGone'
<1>1. ASSUME runState' = runState PROVE NoneGone'
  BY <1>1 DEF NoneGone
<1>2. \A r \in Runs : Reconciled[r] # "gone"
  BY DEF NoneGone, Reconciled
<1>3. CASE ThreadNext
  <2>1. CASE \E r \in Runs : RunReleases(r)
    BY <2>1 DEF RunReleases, Release, NoneGone, LeaseTypeOK
  <2>2. CASE \E r \in Runs : Writes(r) \/ \E hold \in BOOLEAN : RunIsHeld(r, hold)
    BY <1>1, <2>2 DEF Writes, RunIsHeld, leaseVars
  <2> QED BY <1>3, <2>1, <2>2, Zenon DEF ThreadNext, RunStarts, RunFences, RunPersists,
            RunClosesRow, RunQueuesRerun, RunCompletes, RunRaises, RunFails, RunRequeues,
            RunCancelled, RunGivesUp
<1>4. CASE WaiterNext
  <2>1. runState' = runState
    BY <1>4, Zenon DEF WaiterNext, WaiterLeavesLoop, WaiterDecides, WaiterCloses, leaseVars
  <2> QED BY <1>1, <2>1
<1>5. CASE DispatcherNext \/ RequestNext \/ WorldNext
  <2>1. \/ runState' = runState \/ runState' = Reconciled
        \/ \E r \in Runs : \/ runState' = [Reconciled EXCEPT ![r] = "running"]
                          \/ runState' = [runState EXCEPT ![r] = "cancel_requested"]
    <3>1. CASE DispatcherNext
      <4>1. PICK p \in Procs, e \in Episodes :
              \/ \E n \in Slots : \/ Claim(p, e, n) \/ ClaimRefused(p, e, n)
                                  \/ \E r \in Runs : ClaimStarts(p, e, n, r)
              \/ GateSkips(p, e) \/ ClaimPasses(p, e) \/ ClaimBounces(p, e)
        BY <3>1 DEF DispatcherNext
      <4>2. CASE \E n \in Slots : \E r \in Runs : ClaimStarts(p, e, n, r)
        BY <4>2 DEF ClaimStarts, AcquireAdmitted
      <4>3. CASE \E n \in Slots : ClaimRefused(p, e, n)
        BY <4>3 DEF ClaimRefused, AcquireRefused
      <4>4. CASE \/ \E n \in Slots : Claim(p, e, n)
                 \/ GateSkips(p, e) \/ ClaimPasses(p, e) \/ ClaimBounces(p, e)
        BY <4>4 DEF Claim, GateSkips, ClaimPasses, ClaimBounces, leaseVars
      <4> QED BY <4>1, <4>2, <4>3, <4>4
    <3>2. CASE RequestNext
      <4>1. PICK e \in Episodes :
              \/ \/ Discover(e) \/ ReprocessReads(e) \/ ReprocessResets(e) \/ PlayReads(e)
                 \/ AskQueues(e) \/ PlayLeaves(e) \/ AskPasses(e) \/ CancelReads(e)
                 \/ CancelClosesRow(e)
              \/ \E p \in Procs, n \in Slots :
                   (\E r \in Runs : AskStarts(p, e, n, r)) \/ AskRefused(p, e, n)
              \/ CancelRequests(e)
        BY <3>2 DEF RequestNext
      <4>2. CASE \/ Discover(e) \/ ReprocessReads(e) \/ ReprocessResets(e) \/ PlayReads(e)
                 \/ AskQueues(e) \/ PlayLeaves(e) \/ AskPasses(e) \/ CancelReads(e)
                 \/ CancelClosesRow(e)
        BY <4>2 DEF Discover, ReprocessReads, ReprocessResets, PlayReads, AskQueues,
                    PlayLeaves, AskPasses, CancelReads, CancelClosesRow, leaseVars
      <4>3. CASE \E p \in Procs, n \in Slots :
                   (\E r \in Runs : AskStarts(p, e, n, r)) \/ AskRefused(p, e, n)
        BY <4>3 DEF AskStarts, AskRefused, AcquireAdmitted, AcquireRefused
      <4>4. CASE CancelRequests(e)
        BY <4>4 DEF CancelRequests, RequestCancellation, ActiveRuns, leaseVars
      <4> QED BY <4>1, <4>2, <4>3, <4>4
    <3>3. CASE WorldNext
      BY <3>3, Zenon DEF WorldNext, RowAges, StatusAges, HoldBegins, HoldEnds, Boot, Shutdown,
                GivesUpFlock, Dies, BootLeader, BeginShutdown, DrainEnds, Die, leaseVars
    <3> QED BY <1>5, <3>1, <3>2, <3>3
  <2> QED BY <1>1, <1>2, <2>1 DEF NoneGone, LeaseTypeOK, Reconciled
<1>6. CASE SweepNext
  <2>1. runState' = runState
    BY <1>6, Zenon DEF SweepNext, RowSweepReads, RowSweepWrites, RetryFailed, ClearCompleted,
              StuckSweepSelects, StuckSweepReads, StuckSweepWrites, DeferredRowQueued,
              DeferredGoesPending, DeferredExpires, leaseVars
  <2> QED BY <1>1, <2>1
<1>7. CASE UNCHANGED runVars
  BY <1>1, <1>7 DEF runVars, leaseVars
<1> QED BY <1>3, <1>4, <1>5, <1>6, <1>7 DEF Next

\* Only RunPersists, a step of the run's live thread, goes from the last check to
\* the published row.
LEMMA PublicationIsAThreadStep ==
  ASSUME ThreadTypeOK, [Next]_runVars, NEW r \in Runs, pc[r] = "fenced", pc'[r] = "persisted"
  PROVE  thread[r]
<1> USE DEF ThreadTypeOK
<1>1. CASE ThreadNext
  <2>1. PICK q \in Runs, place \in PcPlaces : thread[q] /\ pc' = [pc EXCEPT ![q] = place]
    <3>1. PICK q \in Runs :
            \/ RunRaises(q) \/ (\E hold \in BOOLEAN : RunIsHeld(q, hold)) \/ RunReleases(q)
            \/ Writes(q) /\ \E place \in PcPlaces : GoTo(q, place)
      BY <1>1, Zenon DEF ThreadNext, RunStarts, RunFences, RunPersists, RunClosesRow,
                RunQueuesRerun, RunCompletes, RunFails, RunRequeues, RunCancelled, RunGivesUp,
                PcPlaces
    <3>2. CASE RunRaises(q)
      BY <3>2 DEF RunRaises, Writes, GoTo, PcPlaces
    <3>3. CASE \E hold \in BOOLEAN : RunIsHeld(q, hold)
      BY <3>3 DEF RunIsHeld, GoTo, PcPlaces
    <3>4. CASE RunReleases(q)
      BY <3>4 DEF RunReleases, Release, GoTo, PcPlaces
    <3>5. CASE Writes(q) /\ \E place \in PcPlaces : GoTo(q, place)
      BY <3>5 DEF Writes, GoTo
    <3> QED BY <3>1, <3>2, <3>3, <3>4, <3>5
  <2> QED BY <2>1
<1>2. CASE WaiterNext \/ SweepNext
  <2>1. pc' = pc
    <3>1. CASE WaiterNext
      BY <3>1, Zenon DEF WaiterNext, WaiterLeavesLoop, WaiterDecides, WaiterCloses, threadVars
    <3>2. CASE SweepNext
      BY <3>2, Zenon DEF SweepNext, RowSweepReads, RowSweepWrites, RetryFailed, ClearCompleted,
                StuckSweepSelects, StuckSweepReads, StuckSweepWrites, DeferredRowQueued,
                DeferredGoesPending, DeferredExpires, threadVars
    <3> QED BY <1>2, <3>1, <3>2
  <2> QED BY <2>1
<1>3. CASE DispatcherNext \/ RequestNext
  <2>1. pc' = pc \/ \E q \in Runs : pc' = [pc EXCEPT ![q] = "starting"]
    <3>1. CASE DispatcherNext
      BY <3>1, Zenon DEF DispatcherNext, Claim, GateSkips, ClaimPasses, ClaimBounces,
                ClaimStarts, ClaimRefused, GoTo, threadVars
    <3>2. CASE RequestNext
      BY <3>2, Zenon DEF RequestNext, Discover, ReprocessReads, ReprocessResets, PlayReads,
                AskQueues, PlayLeaves, AskPasses, AskStarts, AskRefused, CancelReads,
                CancelRequests, CancelClosesRow, GoTo, threadVars
    <3> QED BY <1>3, <3>1, <3>2
  <2> QED BY <2>1
<1>4. CASE WorldNext
  <2>1. \/ pc' = pc
        \/ \E p \in Procs :
             pc' = [q \in Runs |-> IF runOwner[q] = p THEN "none" ELSE pc[q]]
    BY <1>4, Zenon DEF WorldNext, RowAges, StatusAges, HoldBegins, HoldEnds, Boot, Shutdown,
              GivesUpFlock, Dies, threadVars
  <2> QED BY <2>1
<1>5. CASE UNCHANGED runVars
  BY <1>5 DEF runVars, threadVars
<1> QED BY <1>1, <1>2, <1>3, <1>4, <1>5 DEF Next

\* A run publishes under its lease and alone, for any number of processes, runs and
\* slots: a live thread has a lease, and the leases of one episode exclude each other.
THEOREM PublicationIsExclusive == Spec => PublishesUnderLease
<1> DEFINE Inv == LeaseInv /\ RunTypeOK /\ NoneGone
<1>1. RunInit => NoneGone
  BY DEF RunInit, LeaseInit, NoneGone
<1>2. RunTypeOK /\ NoneGone /\ [Next]_runVars => NoneGone'
  BY NoneGoneStep DEF RunTypeOK
<1>3. Spec => []Inv
  BY <1>1, <1>2, RunTypeCorrect, RunImplementsLease, LeaseInvariant, PTL DEF Spec
<1>4. Inv /\ [Next]_runVars =>
        [\A r \in Runs :
           pc[r] = "fenced" /\ pc'[r] = "persisted" =>
             Active(r) /\ \A q \in Runs \ {r} : thread[q] => runEp[q] # runEp[r]]_runVars
  <2> SUFFICES ASSUME Inv, [Next]_runVars, NEW r \in Runs,
                      pc[r] = "fenced", pc'[r] = "persisted"
               PROVE  Active(r) /\ \A q \in Runs \ {r} : thread[q] => runEp[q] # runEp[r]
    OBVIOUS
  <2>1. ThreadTypeOK
    BY DEF RunTypeOK, ThreadTypeOK, PcPlaces
  <2>2. thread[r]
    BY <2>1, PublicationIsAThreadStep
  <2>3. \A q \in Runs : thread[q] => Active(q)
    BY DEF LeaseInv, ThreadLease, NoneGone
  <2>4. \A q \in Runs : Active(q) /\ runEp[q] = runEp[r] => q = r
    BY <2>2, <2>3 DEF LeaseInv, OneRunPerEpisode, ActiveRuns
  <2> QED BY <2>2, <2>3, <2>4
<1>5. Spec => [][Next]_runVars
  BY DEF Spec
<1> QED BY <1>3, <1>4, <1>5, PTL DEF PublishesUnderLease

-----------------------------------------------------------------------------
(* The row of an episode *)

\* No statement but the two that close whatever they find takes a pending row out of the
\* queue.
LEMMA PendingStays ==
  ASSUME QueueTypeOK, NEW e \in Episodes, row[e] = "pending",
         NEW d, NEW s, NEW failed, NEW E,
         \/ QueueRow(d) \/ UpsertRow(d) \/ ClaimRow(d) \/ CloseClaimedRow(d, s, failed)
         \/ RecoverRows(E) \/ ResetOrphanedRows(E) \/ ResetFailedRows(E)
         \/ ClearCompletedRows \/ UNCHANGED row \/ SetRow(d, "pending")
  PROVE  row'[e] \in {"pending", "processing"}
<1> USE DEF QueueTypeOK, SetRow, KeepRow, queueVars
<1>1. CASE QueueRow(d) \/ UpsertRow(d) \/ ClaimRow(d) \/ SetRow(d, "pending")
  BY <1>1 DEF QueueRow, UpsertRow, ClaimRow
<1>2. CASE CloseClaimedRow(d, s, failed)
  BY <1>2 DEF CloseClaimedRow
<1>3. CASE RecoverRows(E)
  BY <1>3 DEF RecoverRows
<1>4. CASE ResetOrphanedRows(E)
  BY <1>4 DEF ResetOrphanedRows
<1>5. CASE ResetFailedRows(E)
  BY <1>5 DEF ResetFailedRows
<1>6. CASE ClearCompletedRows
  BY <1>6 DEF ClearCompletedRows
<1> QED BY <1>1, <1>2, <1>3, <1>4, <1>5, <1>6

\* Those two are used by a publication, a cancel request and the end of a deferral.
LEMMA RowsAreClosed ==
  ASSUME RunTypeOK, [Next]_runVars, NEW e \in Episodes,
         row[e] = "pending", row'[e] \in {"completed", "failed"}
  PROVE  \/ stop[e] = "queued"
         \/ status[e] = "deferred" /\ status'[e] = "permanently_failed"
         \/ \E r \in Runs : pc[r] = "persisted" /\ runEp[r] = e
<1>0. QueueTypeOK /\ status \in [Episodes -> Statuses]
  BY DEF RunTypeOK
<1>1. CASE ThreadNext
  <2>1. PICK r \in Runs : \/ RunClosesRow(r) \/ RunQueuesRerun(r) \/ RunRequeues(r)
                          \/ UNCHANGED row
    BY <1>1, Zenon DEF ThreadNext, RunStarts, RunFences, RunPersists, RunCompletes, RunRaises,
              RunFails, RunIsHeld, RunCancelled, RunGivesUp, RunReleases, queueVars
  <2>2. CASE RunClosesRow(r)
    <3>1. CASE runEp[r] = e
      BY <2>2, <3>1 DEF RunClosesRow
    <3>2. CASE runEp[r] # e
      BY <1>0, <2>2, <3>2 DEF RunClosesRow, CloseRows, SetRow, KeepRow, queueVars, QueueTypeOK
    <3> QED BY <3>1, <3>2
  <2>3. CASE RunQueuesRerun(r)
    BY <1>0, <2>3, PendingStays DEF RunQueuesRerun
  <2>4. CASE RunRequeues(r)
    BY <1>0, <2>4, PendingStays DEF RunRequeues
  <2>5. CASE UNCHANGED row
    BY <2>5
  <2> QED BY <2>1, <2>2, <2>3, <2>4, <2>5
<1>2. CASE WaiterNext
  <2>1. UNCHANGED row \/ \E r \in Runs : CloseClaimedRow(runEp[r], waiter[r], waiter[r] = "failed")
    BY <1>2, Zenon DEF WaiterNext, WaiterLeavesLoop, WaiterDecides, WaiterCloses, queueVars
  <2> QED BY <1>0, <2>1, PendingStays
<1>3. CASE DispatcherNext
  <2>1. \/ UNCHANGED row \/ (\E d \in Episodes : ClaimRow(d)) \/ (\E E : RecoverRows(E))
        \/ \E d \in Episodes : \E s, failed : CloseClaimedRow(d, s, failed)
    BY <1>3, Zenon DEF DispatcherNext, Claim, GateSkips, ClaimPasses, ClaimBounces, ClaimStarts,
              ClaimRefused, queueVars
  <2> QED BY <1>0, <2>1, PendingStays
<1>4. CASE SweepNext
  <2>1. \/ UNCHANGED row \/ (\E E : ResetOrphanedRows(E)) \/ (\E E : ResetFailedRows(E))
        \/ ClearCompletedRows \/ (\E d \in Episodes : UpsertRow(d))
        \/ \E p \in Procs, d \in Episodes : DeferredExpires(p, d)
    BY <1>4, Zenon DEF SweepNext, RowSweepReads, RowSweepWrites, RetryFailed, ClearCompleted,
              StuckSweepSelects, StuckSweepReads, StuckSweepWrites, DeferredRowQueued,
              DeferredGoesPending, queueVars
  <2>2. ASSUME NEW p \in Procs, NEW d \in Episodes, DeferredExpires(p, d)
        PROVE  \/ status[e] = "deferred" /\ status'[e] = "permanently_failed"
               \/ row'[e] = row[e]
    BY <1>0, <2>2 DEF DeferredExpires, SetStatus, FailRow, SetRow, KeepRow, queueVars, QueueTypeOK
  <2> QED BY <1>0, <2>1, <2>2, PendingStays
<1>5. CASE RequestNext
  <2>1. \/ UNCHANGED row \/ (\E d \in Episodes : QueueRow(d) \/ UpsertRow(d))
        \/ (\E E : RecoverRows(E)) \/ \E d \in Episodes : CancelClosesRow(d)
    BY <1>5, Zenon DEF RequestNext, Discover, ReprocessReads, ReprocessResets, PlayReads,
              AskQueues, PlayLeaves, AskPasses, AskStarts, AskRefused, CancelReads,
              CancelRequests, queueVars
  <2>2. ASSUME NEW d \in Episodes, CancelClosesRow(d)
        PROVE  stop[e] = "queued" \/ row'[e] = row[e]
    BY <1>0, <2>2 DEF CancelClosesRow, CloseRows, SetRow, KeepRow, queueVars, QueueTypeOK
  <2> QED BY <1>0, <2>1, <2>2, PendingStays
<1>6. CASE WorldNext
  <2>1. UNCHANGED row \/ \E E : RecoverRows(E)
    BY <1>6, Zenon DEF WorldNext, RowAges, StatusAges, HoldBegins, HoldEnds, Boot, Shutdown,
              GivesUpFlock, Dies, queueVars
  <2> QED BY <1>0, <2>1, PendingStays
<1>7. CASE UNCHANGED runVars
  BY <1>7 DEF runVars, queueVars
<1> QED BY <1>1, <1>2, <1>3, <1>4, <1>5, <1>6, <1>7 DEF Next

\* A rerun queued while a run is under way survives that run's verdict.
THEOREM RerunSurvives == Spec => RerunKept
<1>1. RunTypeOK /\ [Next]_runVars =>
        [\A e \in Episodes :
           row[e] = "pending" /\ row'[e] \in {"completed", "failed"} =>
             \/ stop[e] = "queued"
             \/ status[e] = "deferred" /\ status'[e] = "permanently_failed"
             \/ \E r \in Runs : pc[r] = "persisted" /\ runEp[r] = e]_runVars
  BY RowsAreClosed
<1>2. Spec => [][Next]_runVars
  BY DEF Spec
<1> QED BY <1>1, <1>2, RunTypeCorrect, PTL DEF RerunKept

\* A claim nobody answers for any more is one the code gives up knowingly.
LetGo(e) ==
  \/ row'[e] # "processing"
  \/ status[e] = "pending" /\ held
  \/ \E p \in Procs : proc'[p] \in {"draining", "dead"}

\* A thread answers for the claim until it has reopened the row.
LEMMA ThreadAnswers ==
  ASSUME RunTypeOK, ThreadNext, NEW e \in Episodes, ClaimHolders(e) # {}, ClaimHolders(e)' = {}
  PROVE  LetGo(e)
<1>0. ThreadTypeOK /\ QueueTypeOK
  BY DEF RunTypeOK, ThreadTypeOK, PcPlaces
<1>1. disp' = disp /\ waiter' = waiter /\ runEp' = runEp
  BY Zenon DEF ThreadNext, RunStarts, RunFences, RunPersists, RunClosesRow, RunQueuesRerun,
     RunCompletes, RunRaises, RunFails, RunIsHeld, RunRequeues, RunCancelled, RunGivesUp,
     RunReleases, Release, Writes, leaseVars
<1>2. PICK r \in Runs, place \in PcPlaces :
        pc' = [pc EXCEPT ![r] = place] /\ (pc[r] = "requeueing" => RunRequeues(r))
  <2>1. PICK r \in Runs :
          \/ RunRaises(r) \/ RunRequeues(r) \/ RunCancelled(r)
          \/ pc[r] # "requeueing" /\ \E place \in PcPlaces : GoTo(r, place)
    BY Zenon DEF ThreadNext, RunStarts, RunFences, RunPersists, RunClosesRow, RunQueuesRerun,
       RunCompletes, RunFails, RunIsHeld, RunGivesUp, RunReleases, PcPlaces
  <2>2. CASE RunRaises(r)
    BY <2>2 DEF RunRaises, GoTo, PcPlaces
  <2>3. CASE RunRequeues(r)
    BY <2>3 DEF RunRequeues, GoTo, PcPlaces
  <2>4. CASE RunCancelled(r)
    BY <2>4 DEF RunCancelled, GoTo, PcPlaces
  <2> QED BY <2>1, <2>2, <2>3, <2>4 DEF GoTo
<1>3. CASE pc[r] = "requeueing" /\ runEp[r] = e
  BY <1>0, <1>2, <1>3 DEF RunRequeues, UpsertRow, SetRow, QueueTypeOK, LetGo
<1>4. CASE ~(pc[r] = "requeueing" /\ runEp[r] = e)
  <2>1. ClaimHolders(e) \subseteq ClaimHolders(e)'
    BY <1>0, <1>1, <1>2, <1>4 DEF ClaimHolders, ClaimInHand, ThreadTypeOK
  <2> QED BY <2>1
<1> QED BY <1>3, <1>4

\* A waiter answers until it has closed the row, or has seen a hold.
LEMMA WaiterAnswers ==
  ASSUME RunTypeOK, WaiterNext, NEW e \in Episodes, ClaimHolders(e) # {}, ClaimHolders(e)' = {}
  PROVE  LetGo(e)
<1>0. ThreadTypeOK /\ QueueTypeOK
  BY DEF RunTypeOK, ThreadTypeOK, PcPlaces
<1>1. disp' = disp /\ pc' = pc /\ runEp' = runEp /\ proc' = proc
  BY Zenon DEF WaiterNext, WaiterLeavesLoop, WaiterDecides, WaiterCloses, leaseVars, threadVars
<1>2. PICK r \in Runs : WaiterLeavesLoop(r) \/ WaiterDecides(r) \/ WaiterCloses(r)
  BY DEF WaiterNext
<1>3. \A q \in Runs \ {r} : waiter'[q] = waiter[q]
  BY <1>0, <1>2 DEF WaiterLeavesLoop, WaiterDecides, WaiterCloses, ThreadTypeOK
<1>4. runEp[r] = e /\ waiter'[r] = "none"
  <2> SUFFICES ASSUME ~(runEp[r] = e /\ waiter'[r] = "none") PROVE FALSE
    OBVIOUS
  <2>1. ClaimHolders(e) \subseteq ClaimHolders(e)'
    BY <1>1, <1>3 DEF ClaimHolders, ClaimInHand
  <2> QED BY <2>1
<1>5. CASE WaiterLeavesLoop(r)
  BY <1>0, <1>4, <1>5 DEF WaiterLeavesLoop, ThreadTypeOK
<1>6. CASE WaiterDecides(r)
  BY <1>0, <1>4, <1>6 DEF WaiterDecides, ThreadTypeOK, LetGo
<1>7. CASE WaiterCloses(r)
  BY <1>0, <1>4, <1>7 DEF WaiterCloses, CloseClaimedRow, SetRow, KeepRow, queueVars,
                           QueueTypeOK, LetGo
<1> QED BY <1>2, <1>5, <1>6, <1>7

\* The dispatcher answers until it has put the row back or started a waiter.
LEMMA DispatcherAnswers ==
  ASSUME RunTypeOK, DispatcherNext, NEW e \in Episodes,
         ClaimHolders(e) # {}, ClaimHolders(e)' = {}
  PROVE  LetGo(e)
<1>0. /\ ThreadTypeOK /\ QueueTypeOK /\ LeaseTypeOK
      /\ disp \in [Procs -> DispRecord]
  BY DEF RunTypeOK, ThreadTypeOK, PcPlaces, DispRecord
<1>1. PICK p \in Procs, d \in Episodes :
        \/ \E n \in Slots : \/ Claim(p, d, n) \/ ClaimRefused(p, d, n)
                            \/ \E r \in Runs : ClaimStarts(p, d, n, r)
        \/ GateSkips(p, d) \/ ClaimPasses(p, d) \/ ClaimBounces(p, d)
  BY DEF DispatcherNext
<1>2. ASSUME d # e, UNCHANGED <<pc, waiter, runEp>>,
             disp[p].on = {d} \/ disp[p].at \in {"idle", "joining"},
             NEW x, disp' = [disp EXCEPT ![p] = x]
      PROVE  ClaimHolders(e) \subseteq ClaimHolders(e)'
  BY <1>0, <1>2 DEF ClaimHolders, ClaimInHand
<1>3. CASE \E n \in Slots : Claim(p, d, n)
  BY <1>0, <1>3 DEF Claim, DispatcherRests, DispGoes, ClaimHolders, ClaimInHand, Idle,
                    threadVars, leaseVars, DispRecord
<1>4. CASE ClaimPasses(p, d)
  BY <1>0, <1>4 DEF ClaimPasses, DispGoes, ClaimHolders, ClaimInHand, Idle, threadVars,
                    leaseVars, DispRecord
<1>5. CASE GateSkips(p, d) \/ ClaimBounces(p, d)
  <2>1. CASE d = e
    BY <1>0, <1>5, <2>1 DEF GateSkips, ClaimBounces, CloseClaimedRow, SetRow, KeepRow,
                            queueVars, QueueTypeOK, LetGo
  <2>2. CASE d # e
    <3>1. ClaimHolders(e) \subseteq ClaimHolders(e)'
      BY <1>2, <1>5, <2>2 DEF GateSkips, ClaimBounces, DispGoes, threadVars, leaseVars
    <3> QED BY <3>1
  <2> QED BY <2>1, <2>2
<1>6. CASE \E n \in Slots : ClaimRefused(p, d, n)
  <2>1. CASE d = e
    BY <1>0, <1>6, <2>1 DEF ClaimRefused, RecoverRows, QueueTypeOK, LetGo
  <2>2. CASE d # e
    <3>1. ClaimHolders(e) \subseteq ClaimHolders(e)'
      BY <1>2, <1>6, <2>2 DEF ClaimRefused, AcquireRefused, DispGoes, threadVars
    <3> QED BY <3>1
  <2> QED BY <2>1, <2>2
<1>7. ASSUME NEW n \in Slots, NEW r \in Runs, ClaimStarts(p, d, n, r) PROVE LetGo(e)
  <2>1. /\ runEp[r] = NoEpisode /\ NoEpisode # e
        /\ runEp' = [runEp EXCEPT ![r] = d] /\ pc' = [pc EXCEPT ![r] = "starting"]
        /\ waiter' = [waiter EXCEPT ![r] = "polling"]
        /\ disp[p].on = {d}
        /\ \E x : disp' = [disp EXCEPT ![p] = x]
    BY <1>0, <1>7, LeaseAssumption DEF ClaimStarts, AcquireAdmitted, GoTo, DispGoes, LeaseTypeOK
  <2>2. CASE d = e
    BY <1>0, <2>1, <2>2 DEF ClaimHolders, LeaseTypeOK, ThreadTypeOK
  <2>3. CASE d # e
    <3>1. \A q \in Procs : ClaimInHand(q, e) => ClaimInHand(q, e)'
      BY <1>0, <2>1, <2>3 DEF ClaimInHand
    <3>2. \A q \in Runs : runEp[q] = e => /\ runEp'[q] = e /\ waiter'[q] = waiter[q]
                                          /\ pc'[q] = pc[q]
      BY <1>0, <2>1 DEF LeaseTypeOK, ThreadTypeOK
    <3>3. ClaimHolders(e) \subseteq ClaimHolders(e)'
      BY <3>1, <3>2 DEF ClaimHolders
    <3> QED BY <3>3
  <2> QED BY <2>2, <2>3
<1> QED BY <1>1, <1>3, <1>4, <1>5, <1>6, <1>7

\* Sweeps, requests and the world leave whoever answers where he is, but for the death of
\* a process.
LEMMA OthersAnswer ==
  ASSUME RunTypeOK, SweepNext \/ RequestNext \/ WorldNext \/ UNCHANGED runVars,
         NEW e \in Episodes, ClaimHolders(e) # {}, ClaimHolders(e)' = {}
  PROVE  LetGo(e)
<1>0. /\ ThreadTypeOK /\ LeaseTypeOK /\ disp \in [Procs -> DispRecord]
  BY DEF RunTypeOK, ThreadTypeOK, PcPlaces, DispRecord
<1>1. ASSUME UNCHANGED <<pc, waiter, runEp>>,
             \/ disp' = disp
             \/ \E p \in Procs : \E x :
                  disp' = [disp EXCEPT ![p] = x] /\ disp[p].at \notin {"claimed", "admitting"}
      PROVE  FALSE
  <2>1. ClaimHolders(e) \subseteq ClaimHolders(e)'
    BY <1>0, <1>1 DEF ClaimHolders, ClaimInHand
  <2> QED BY <2>1
<1>2. CASE SweepNext
  <2>1. UNCHANGED <<pc, waiter, runEp>>
    BY <1>2, Zenon DEF SweepNext, RowSweepReads, RowSweepWrites, RetryFailed, ClearCompleted,
              StuckSweepSelects, StuckSweepReads, StuckSweepWrites, DeferredRowQueued,
              DeferredGoesPending, DeferredExpires, threadVars, leaseVars
  <2>2. PICK p \in Procs :
          \/ disp' = disp
          \/ /\ \E x : disp' = [disp EXCEPT ![p] = x]
             /\ \/ disp[p].at = "idle" \/ disp[p].at = "joining" \/ disp[p].at = "rows"
                \/ disp[p].at = "stuck" \/ disp[p].at = "resetting" \/ disp[p].at = "redriving"
    BY <1>2, Zenon DEF SweepNext, RowSweepReads, RowSweepWrites, RetryFailed, ClearCompleted,
              StuckSweepSelects, StuckSweepReads, StuckSweepWrites, DeferredRowQueued,
              DeferredGoesPending, DeferredExpires, DispatcherRests, Dispatching, DispGoes
  <2> QED BY <1>1, <2>1, <2>2
<1>3. CASE RequestNext
  <2>1. disp' = disp /\ waiter' = waiter
    BY <1>3, Zenon DEF RequestNext, Discover, ReprocessReads, ReprocessResets, PlayReads,
              AskQueues, PlayLeaves, AskPasses, AskStarts, AskRefused, CancelReads,
              CancelRequests, CancelClosesRow
  <2>2. \/ UNCHANGED <<pc, runEp>>
        \/ \E p \in Procs, d \in Episodes, n \in Slots, r \in Runs : AskStarts(p, d, n, r)
    BY <1>3, Zenon DEF RequestNext, Discover, ReprocessReads, ReprocessResets, PlayReads,
              AskQueues, PlayLeaves, AskPasses, AskRefused, AcquireRefused, CancelReads,
              CancelRequests, RequestCancellation, CancelClosesRow, threadVars, leaseVars
  <2>3. ASSUME NEW p \in Procs, NEW d \in Episodes, NEW n \in Slots, NEW r \in Runs,
               AskStarts(p, d, n, r)
        PROVE  FALSE
    <3>1. /\ runEp[r] = NoEpisode /\ NoEpisode # e
          /\ runEp' = [runEp EXCEPT ![r] = d] /\ pc' = [pc EXCEPT ![r] = "starting"]
      BY <1>0, <2>3, LeaseAssumption DEF AskStarts, AcquireAdmitted, GoTo, LeaseTypeOK
    <3>2. ClaimHolders(e) \subseteq ClaimHolders(e)'
      BY <1>0, <2>1, <3>1 DEF ClaimHolders, ClaimInHand, LeaseTypeOK, ThreadTypeOK
    <3> QED BY <3>2
  <2> QED BY <1>1, <2>1, <2>2, <2>3
<1>4. CASE WorldNext
  <2>1. CASE \E p \in Procs : Dies(p)
    BY <1>0, <2>1 DEF Dies, Die, LetGo, LeaseTypeOK
  <2>2. CASE ~\E p \in Procs : Dies(p)
    <3>1. UNCHANGED <<pc, waiter, runEp, disp>>
      BY <1>4, <2>2, Zenon DEF WorldNext, RowAges, StatusAges, HoldBegins, HoldEnds, Boot, BootLeader,
                Shutdown, BeginShutdown, GivesUpFlock, DrainEnds, threadVars, leaseVars
    <3> QED BY <1>1, <3>1
  <2> QED BY <2>1, <2>2
<1>5. CASE UNCHANGED runVars
  BY <1>1, <1>5 DEF runVars, threadVars, leaseVars
<1> QED BY <1>2, <1>3, <1>4, <1>5

\* Whoever answers for a claimed row gives the claim back before letting go of it.
THEOREM ClaimsAreAnswered == Spec => ClaimsAreHeld
<1>1. RunTypeOK /\ [Next]_runVars =>
        [\A e \in Episodes :
           ClaimHolders(e) # {} /\ ClaimHolders(e)' = {} /\ row'[e] = "processing" =>
             \/ status[e] = "pending" /\ held
             \/ \E p \in Procs : proc'[p] \in {"draining", "dead"}]_runVars
  <2> SUFFICES ASSUME RunTypeOK, [Next]_runVars, NEW e \in Episodes,
                      ClaimHolders(e) # {}, ClaimHolders(e)' = {}, row'[e] = "processing"
               PROVE  \/ status[e] = "pending" /\ held
                      \/ \E p \in Procs : proc'[p] \in {"draining", "dead"}
    OBVIOUS
  <2>1. LetGo(e)
    BY ThreadAnswers, WaiterAnswers, DispatcherAnswers, OthersAnswer DEF Next
  <2> QED BY <2>1 DEF LetGo
<1>2. Spec => [][Next]_runVars
  BY DEF Spec
<1> QED BY <1>1, <1>2, RunTypeCorrect, PTL DEF ClaimsAreHeld

-----------------------------------------------------------------------------
(* The sweeps, while nobody asks for runs *)

\* The dispatcher of p is between two of its transactions.
AtIt(p) == disp[p].at \notin {"idle", "joining"}

\* One dispatcher is at work at a time, and while it sweeps no run begins that it has not
\* seen: there is no other dispatcher to claim, and no handler to ask.
SweepInv ==
  /\ \A p \in Procs : proc[p] = "leader" => flock = p
  /\ \A p \in Procs : AtIt(p) => /\ proc[p] \in {"leader", "draining"}
                                 /\ \A q \in Procs \ {p} : ~AtIt(q) /\ proc[q] # "leader"
  /\ \A p \in Procs : disp[p].at \in {"rows", "resetting"} => Current \subseteq disp[p].live
  /\ asks = 0 /\ \A e \in Episodes : ask[e] = "idle"

\* Episodes with an active run become more only by an admission.
LEMMA CurrentStep ==
  ASSUME LeaseTypeOK, [Next]_runVars,
         \A e \in Episodes : ask[e] = "idle",
         ~\E p \in Procs, e \in Episodes, n \in Slots, r \in Runs : ClaimStarts(p, e, n, r)
  PROVE  Current' \subseteq Current
<1>1. ASSUME runEp' = runEp, \A r \in Runs : Active(r)' => Active(r)
      PROVE  Current' \subseteq Current
  BY <1>1 DEF Current, Processing, ActiveRuns
<1>2. \A r \in Runs : Reconciled[r] \in ActiveStates => Active(r)
  BY DEF Reconciled, Active, ActiveStates
<1>3. runEp' = runEp
  <2>1. CASE ThreadNext
    BY <2>1, Zenon DEF ThreadNext, RunStarts, RunFences, RunPersists, RunClosesRow,
              RunQueuesRerun, RunCompletes, RunRaises, RunFails, RunIsHeld, RunRequeues,
              RunCancelled, RunGivesUp, RunReleases, Release, Writes, leaseVars
  <2>2. CASE WaiterNext \/ SweepNext
    BY <2>2, Zenon DEF WaiterNext, WaiterLeavesLoop, WaiterDecides, WaiterCloses, SweepNext,
              RowSweepReads, RowSweepWrites, RetryFailed, ClearCompleted, StuckSweepSelects,
              StuckSweepReads, StuckSweepWrites, DeferredRowQueued, DeferredGoesPending,
              DeferredExpires, leaseVars
  <2>3. CASE DispatcherNext
    BY <2>3, Zenon DEF DispatcherNext, Claim, GateSkips, ClaimPasses, ClaimBounces,
              ClaimRefused, AcquireRefused, leaseVars
  <2>4. CASE RequestNext
    <3>1. \A p, n, r : \A e \in Episodes : ~AskStarts(p, e, n, r)
      BY DEF AskStarts
    <3> QED BY <2>4, <3>1, Zenon DEF RequestNext, Discover, ReprocessReads, ReprocessResets,
              PlayReads, AskQueues, PlayLeaves, AskPasses, AskRefused, AcquireRefused,
              CancelReads, CancelRequests, RequestCancellation, CancelClosesRow, leaseVars
  <2>5. CASE WorldNext
    BY <2>5, Zenon DEF WorldNext, RowAges, StatusAges, HoldBegins, HoldEnds, Boot, BootLeader,
              Shutdown, BeginShutdown, GivesUpFlock, DrainEnds, Dies, Die, leaseVars
  <2>6. CASE UNCHANGED runVars
    BY <2>6 DEF runVars, leaseVars
  <2> QED BY <2>1, <2>2, <2>3, <2>4, <2>5, <2>6 DEF Next
<1>4. \/ runState' = runState \/ runState' = Reconciled
      \/ \E r \in Runs : RequestCancellation(r)
      \/ \E r \in Runs, t \in {"finished", "interrupted"} : Release(r, t)
  <2>1. CASE ThreadNext
    <3>1. ASSUME NEW r \in Runs, RunReleases(r)
          PROVE  \E t \in {"finished", "interrupted"} : Release(r, t)
      BY <3>1 DEF RunReleases
    <3> QED BY <2>1, <3>1, Zenon DEF ThreadNext, RunStarts, RunFences, RunPersists,
              RunClosesRow, RunQueuesRerun, RunCompletes, RunRaises, RunFails, RunIsHeld,
              RunRequeues, RunCancelled, RunGivesUp, Writes, leaseVars
  <2>2. CASE WaiterNext \/ SweepNext
    BY <2>2, Zenon DEF WaiterNext, WaiterLeavesLoop, WaiterDecides, WaiterCloses, SweepNext,
              RowSweepReads, RowSweepWrites, RetryFailed, ClearCompleted, StuckSweepSelects,
              StuckSweepReads, StuckSweepWrites, DeferredRowQueued, DeferredGoesPending,
              DeferredExpires, leaseVars
  <2>3. CASE DispatcherNext
    BY <2>3, Zenon DEF DispatcherNext, Claim, GateSkips, ClaimPasses, ClaimBounces,
              ClaimRefused, AcquireRefused, leaseVars
  <2>4. CASE RequestNext
    <3>1. \A p, n, r : \A e \in Episodes : ~AskStarts(p, e, n, r)
      BY DEF AskStarts
    <3>2. ASSUME NEW e \in Episodes, CancelRequests(e)
          PROVE  UNCHANGED runState \/ \E r \in Runs : RequestCancellation(r)
      BY <3>2 DEF CancelRequests, ActiveRuns, leaseVars
    <3> QED BY <2>4, <3>1, <3>2, Zenon DEF RequestNext, Discover, ReprocessReads,
              ReprocessResets, PlayReads, AskQueues, PlayLeaves, AskPasses, AskRefused,
              AcquireRefused, CancelReads, CancelClosesRow, leaseVars
  <2>5. CASE WorldNext
    BY <2>5, Zenon DEF WorldNext, RowAges, StatusAges, HoldBegins, HoldEnds, Boot, BootLeader,
              Shutdown, BeginShutdown, GivesUpFlock, DrainEnds, Dies, Die, leaseVars
  <2>6. CASE UNCHANGED runVars
    BY <2>6 DEF runVars, leaseVars
  <2> QED BY <2>1, <2>2, <2>3, <2>4, <2>5, <2>6 DEF Next
<1>5. \A r \in Runs : Active(r)' => Active(r)
  <2>1. CASE runState' = runState \/ runState' = Reconciled
    BY <1>2, <2>1 DEF Active
  <2>2. CASE \E r \in Runs : RequestCancellation(r)
    BY <2>2 DEF RequestCancellation, Active, LeaseTypeOK
  <2>3. CASE \E r \in Runs, t \in {"finished", "interrupted"} : Release(r, t)
    BY <2>3 DEF Release, Active, ActiveStates, LeaseTypeOK
  <2> QED BY <1>4, <2>1, <2>2, <2>3
<1> QED BY <1>1, <1>3, <1>5

\* One dispatcher at a time.
LEMMA OneDispatcherStep ==
  ASSUME RunTypeOK, SweepInv, [Next]_runVars
  PROVE  /\ \A p \in Procs : (proc[p] = "leader" => flock = p)'
         /\ \A p \in Procs : AtIt(p)' =>
              /\ proc'[p] \in {"leader", "draining"}
              /\ \A q \in Procs \ {p} : ~AtIt(q)' /\ proc'[q] # "leader"
<1>0. LeaseTypeOK /\ disp \in [Procs -> DispRecord] /\ NoProc \notin Procs
  BY LeaseAssumption DEF RunTypeOK, DispRecord
<1> USE DEF AtIt, SweepInv
<1>1. CASE disp' = disp /\ proc' = proc /\ flock' = flock
  BY <1>1
<1>2. ASSUME NEW p \in Procs, NEW x, disp' = [disp EXCEPT ![p] = x],
             proc' = proc, flock' = flock,
             proc[p] = "leader" \/ (AtIt(p) /\ proc[p] = "draining")
      PROVE  /\ \A q \in Procs : (proc[q] = "leader" => flock = q)'
             /\ \A q \in Procs : AtIt(q)' =>
                  /\ proc'[q] \in {"leader", "draining"}
                  /\ \A s \in Procs \ {q} : ~AtIt(s)' /\ proc'[s] # "leader"
  <2>1. \A q \in Procs \ {p} : disp'[q] = disp[q] /\ ~AtIt(q) /\ proc[q] # "leader"
    BY <1>0, <1>2
  <2> QED BY <1>0, <1>2, <2>1
<1>3. CASE ThreadNext \/ WaiterNext \/ RequestNext
  <2>1. ThreadNext \/ WaiterNext => disp' = disp /\ proc' = proc /\ flock' = flock
    BY Zenon DEF ThreadNext, RunStarts, RunFences, RunPersists, RunClosesRow,
              RunQueuesRerun, RunCompletes, RunRaises, RunFails, RunIsHeld, RunRequeues,
              RunCancelled, RunGivesUp, RunReleases, Release, Writes, WaiterNext,
              WaiterLeavesLoop, WaiterDecides, WaiterCloses, leaseVars
  <2>2. ASSUME RequestNext PROVE disp' = disp /\ proc' = proc /\ flock' = flock
    <3>1. PICK e \in Episodes :
            \/ \/ Discover(e) \/ ReprocessReads(e) \/ ReprocessResets(e) \/ PlayReads(e)
               \/ AskQueues(e) \/ PlayLeaves(e) \/ AskPasses(e) \/ CancelReads(e)
               \/ CancelClosesRow(e)
            \/ CancelRequests(e)
            \/ \E p \in Procs, n \in Slots :
                 (\E r \in Runs : AskStarts(p, e, n, r)) \/ AskRefused(p, e, n)
      BY <2>2 DEF RequestNext
    <3>2. CASE \/ Discover(e) \/ ReprocessReads(e) \/ ReprocessResets(e) \/ PlayReads(e)
               \/ AskQueues(e) \/ PlayLeaves(e) \/ AskPasses(e) \/ CancelReads(e)
               \/ CancelClosesRow(e)
      BY <3>2 DEF Discover, ReprocessReads, ReprocessResets, PlayReads, AskQueues, PlayLeaves,
                  AskPasses, CancelReads, CancelClosesRow, leaseVars
    <3>3. CASE CancelRequests(e)
      BY <3>3 DEF CancelRequests, RequestCancellation, leaseVars
    <3>4. CASE \E p \in Procs, n \in Slots :
                 (\E r \in Runs : AskStarts(p, e, n, r)) \/ AskRefused(p, e, n)
      BY <3>4 DEF AskStarts, AskRefused, AcquireAdmitted, AcquireRefused
    <3> QED BY <3>1, <3>2, <3>3, <3>4
  <2> QED BY <1>1, <1>3, <2>1, <2>2
<1>4. CASE DispatcherNext
  <2>1. PICK p \in Procs :
          /\ \E x : disp' = [disp EXCEPT ![p] = x]
          /\ proc' = proc /\ flock' = flock
          /\ \/ proc[p] = "leader"
             \/ proc[p] \in {"leader", "draining"} /\ disp[p].at \in {"claimed", "admitting"}
    <3>1. PICK p \in Procs, d \in Episodes :
            \/ \E n \in Slots : \/ Claim(p, d, n) \/ ClaimRefused(p, d, n)
                                \/ \E r \in Runs : ClaimStarts(p, d, n, r)
            \/ GateSkips(p, d) \/ ClaimPasses(p, d) \/ ClaimBounces(p, d)
      BY <1>4 DEF DispatcherNext
    <3>2. CASE \/ \E n \in Slots : Claim(p, d, n)
               \/ GateSkips(p, d) \/ ClaimPasses(p, d) \/ ClaimBounces(p, d)
      BY <3>2 DEF Claim, DispatcherRests, GateSkips, ClaimPasses, ClaimBounces, Dispatching,
                  DispGoes, leaseVars
    <3>3. CASE \E n \in Slots : ClaimRefused(p, d, n) \/ \E r \in Runs : ClaimStarts(p, d, n, r)
      BY <3>3 DEF ClaimRefused, ClaimStarts, AcquireAdmitted, AcquireRefused, Dispatching, DispGoes
    <3> QED BY <3>1, <3>2, <3>3
  <2> QED BY <1>2, <2>1
<1>5. CASE SweepNext
  <2>1. proc' = proc /\ flock' = flock
    BY <1>5, Zenon DEF SweepNext, RowSweepReads, RowSweepWrites, RetryFailed, ClearCompleted,
              StuckSweepSelects, StuckSweepReads, StuckSweepWrites, DeferredRowQueued,
              DeferredGoesPending, DeferredExpires, leaseVars
  <2>2. PICK p \in Procs :
          \/ disp' = disp
          \/ /\ \E x : disp' = [disp EXCEPT ![p] = x]
             /\ \/ DispatcherRests(p)
                \/ Dispatching(p, "rows") \/ Dispatching(p, "stuck")
                \/ Dispatching(p, "resetting") \/ Dispatching(p, "redriving")
    BY <1>5, Zenon DEF SweepNext, RowSweepReads, RowSweepWrites, RetryFailed, ClearCompleted,
              StuckSweepSelects, StuckSweepReads, StuckSweepWrites, DeferredRowQueued,
              DeferredGoesPending, DeferredExpires, DispGoes
  <2>3. \/ disp' = disp
        \/ /\ \E x : disp' = [disp EXCEPT ![p] = x]
           /\ proc[p] = "leader" \/ (AtIt(p) /\ proc[p] = "draining")
    BY <2>2 DEF DispatcherRests, Dispatching
  <2> QED BY <1>1, <1>2, <2>1, <2>3
<1>6. CASE WorldNext
  <2>1. CASE \E p \in Procs : Boot(p)
    <3>1. PICK p \in Procs : Boot(p)
      BY <2>1
    <3>2. /\ flock = NoProc /\ flock' = p /\ proc' = [proc EXCEPT ![p] = "leader"]
          /\ disp' = disp
          /\ \A q \in Procs : proc[q] = "draining" => ~AtIt(q)
      BY <3>1 DEF Boot, BootLeader
    <3>3. \A q \in Procs : proc[q] # "leader" /\ ~AtIt(q)
      BY <1>0, <3>2
    <3> QED BY <1>0, <3>2, <3>3 DEF LeaseTypeOK
  <2>2. CASE \E p \in Procs : Shutdown(p) \/ GivesUpFlock(p)
    BY <1>0, <2>2 DEF Shutdown, BeginShutdown, GivesUpFlock, DrainEnds, LeaseTypeOK
  <2>3. CASE \E p \in Procs : Dies(p)
    BY <1>0, <2>3 DEF Dies, Die, DispGoes, Idle, LeaseTypeOK
  <2>4. CASE ~\E p \in Procs : Boot(p) \/ Shutdown(p) \/ GivesUpFlock(p) \/ Dies(p)
    BY <1>1, <1>6, <2>4, Zenon DEF WorldNext, RowAges, StatusAges, HoldBegins, HoldEnds, leaseVars
  <2> QED BY <2>1, <2>2, <2>3, <2>4
<1>7. CASE UNCHANGED runVars
  BY <1>1, <1>7 DEF runVars, leaseVars
<1> QED BY <1>3, <1>4, <1>5, <1>6, <1>7 DEF Next

\* What a sweep has seen stays all there is.
LEMMA SweepInvStep ==
  ASSUME RunTypeOK, SweepInv, [Next]_runVars, MaxAsks = 0
  PROVE  SweepInv'
<1>0. LeaseTypeOK /\ ThreadTypeOK /\ disp \in [Procs -> DispRecord]
  BY DEF RunTypeOK, ThreadTypeOK, PcPlaces, DispRecord
<1>1. asks' = 0 /\ \A e \in Episodes : ask'[e] = "idle"
  <2>1. CASE RequestNext
    <3>1. PICK e \in Episodes :
            \/ \/ Discover(e) \/ ReprocessReads(e) \/ ReprocessResets(e) \/ PlayReads(e)
               \/ AskQueues(e) \/ PlayLeaves(e) \/ AskPasses(e) \/ CancelReads(e)
               \/ CancelRequests(e) \/ CancelClosesRow(e)
            \/ \E p \in Procs, n \in Slots :
                 (\E r \in Runs : AskStarts(p, e, n, r)) \/ AskRefused(p, e, n)
      BY <2>1 DEF RequestNext
    <3>2. ask[e] = "idle" /\ ~(asks < MaxAsks)
      BY DEF SweepInv
    <3>3. ask' = ask /\ asks' = asks
      BY <3>1, <3>2 DEF Discover, ReprocessReads, ReprocessResets, PlayReads, AskQueues,
                PlayLeaves, AskPasses, AskStarts, AskRefused, CancelReads, CancelRequests,
                CancelClosesRow, handlerVars
    <3> QED BY <3>3 DEF SweepInv
  <2>2. CASE ThreadNext \/ WaiterNext \/ DispatcherNext \/ SweepNext \/ WorldNext
    <3>1. ask' = ask /\ asks' = asks
      <4>1. CASE ThreadNext \/ WaiterNext
        BY <4>1, Zenon DEF ThreadNext, RunStarts, RunFences, RunPersists, RunClosesRow,
              RunQueuesRerun, RunCompletes, RunRaises, RunFails, RunIsHeld, RunRequeues,
              RunCancelled, RunGivesUp, RunReleases, Writes, WaiterNext, WaiterLeavesLoop,
              WaiterDecides, WaiterCloses, handlerVars
      <4>2. CASE DispatcherNext \/ SweepNext
        BY <4>2, Zenon DEF DispatcherNext, Claim, GateSkips, ClaimPasses, ClaimBounces,
              ClaimStarts, ClaimRefused, SweepNext, RowSweepReads, RowSweepWrites, RetryFailed,
              ClearCompleted, StuckSweepSelects, StuckSweepReads, StuckSweepWrites,
              DeferredRowQueued, DeferredGoesPending, DeferredExpires, handlerVars
      <4>3. CASE WorldNext
        BY <4>3, Zenon DEF WorldNext, RowAges, StatusAges, HoldBegins, HoldEnds, Boot, Shutdown,
              GivesUpFlock, Dies, handlerVars
      <4> QED BY <2>2, <4>1, <4>2, <4>3
    <3> QED BY <3>1 DEF SweepInv
  <2>3. CASE UNCHANGED runVars
    BY <2>3 DEF runVars, handlerVars, SweepInv
  <2> QED BY <2>1, <2>2, <2>3 DEF Next
<1>2. ASSUME NEW p \in Procs, disp'[p].at \in {"rows", "resetting"}
      PROVE  Current' \subseteq disp'[p].live
  <2>1. CASE \E q \in Procs, e \in Episodes, n \in Slots, r \in Runs : ClaimStarts(q, e, n, r)
    <3>1. PICK q \in Procs, e \in Episodes, n \in Slots, r \in Runs : ClaimStarts(q, e, n, r)
      BY <2>1
    <3>2. /\ AtIt(q) /\ disp'[q].at \in {"idle", "joining"}
          /\ \A s \in Procs \ {q} : disp'[s] = disp[s]
      BY <1>0, <3>1 DEF ClaimStarts, Dispatching, DispGoes, AtIt, Idle
    <3>3. ~AtIt(p) \/ p = q
      BY <3>2 DEF SweepInv
    <3> QED BY <1>2, <3>2, <3>3 DEF AtIt
  <2>2. CASE ~\E q \in Procs, e \in Episodes, n \in Slots, r \in Runs : ClaimStarts(q, e, n, r)
    <3>1. Current' \subseteq Current
      BY <1>0, <2>2, CurrentStep DEF SweepInv
    <3>2. CASE disp'[p] = disp[p]
      BY <1>2, <3>1, <3>2 DEF SweepInv
    <3>3. CASE disp'[p] # disp[p]
      <4>1. RowSweepReads(p) \/ StuckSweepReads(p)
        <5>1. ASSUME NEW q \in Procs, NEW d, disp' = [disp EXCEPT ![q] = d],
                     d.at \notin {"rows", "resetting"}
              PROVE  FALSE
          BY <1>0, <1>2, <3>3, <5>1
        <5>2. CASE DispatcherNext
          <6>1. PICK q \in Procs, e \in Episodes :
                  \/ disp' = [disp EXCEPT ![q] = [Idle EXCEPT !.at = "claimed", !.on = {e}]]
                  \/ disp' = [disp EXCEPT ![q] = Idle]
                  \/ disp' = [disp EXCEPT ![q] = [Idle EXCEPT !.at = "joining"]]
                  \/ disp' = [disp EXCEPT ![q] = [disp[q] EXCEPT !.at = "admitting"]]
            BY <5>2, Zenon DEF DispatcherNext, Claim, GateSkips, ClaimPasses, ClaimBounces,
                      ClaimStarts, ClaimRefused, DispGoes
          <6>2. [disp[q] EXCEPT !.at = "admitting"].at = "admitting"
            BY <1>0 DEF DispRecord
          <6> QED BY <5>1, <6>1, <6>2 DEF Idle
        <5>3. CASE SweepNext
          <6>1. PICK q \in Procs :
                  \/ disp' = disp \/ disp' = [disp EXCEPT ![q] = Idle]
                  \/ RowSweepReads(q) \/ StuckSweepSelects(q) \/ StuckSweepReads(q)
                  \/ \E e \in Episodes :
                       disp' = [disp EXCEPT ![q] = [Idle EXCEPT !.at = "redriving", !.on = {e}]]
            BY <5>3, Zenon DEF SweepNext, RowSweepWrites, RetryFailed, ClearCompleted,
                      StuckSweepWrites, DeferredRowQueued, DeferredGoesPending,
                      DeferredExpires, DispGoes
          <6>2. CASE RowSweepReads(q) \/ StuckSweepReads(q)
            BY <1>0, <3>3, <6>2 DEF RowSweepReads, StuckSweepReads, DispGoes
          <6>3. CASE StuckSweepSelects(q)
            BY <5>1, <6>3 DEF StuckSweepSelects, DispGoes, Idle
          <6> QED BY <3>3, <5>1, <6>1, <6>2, <6>3 DEF Idle
        <5>4. CASE ThreadNext \/ WaiterNext
          BY <3>3, <5>4, Zenon DEF ThreadNext, WaiterNext, RunStarts, RunFences, RunPersists,
              RunClosesRow, RunQueuesRerun, RunCompletes, RunRaises, RunFails, RunIsHeld,
              RunRequeues, RunCancelled, RunGivesUp, RunReleases, Writes, WaiterLeavesLoop,
              WaiterDecides, WaiterCloses
        <5>5. CASE RequestNext
          BY <3>3, <5>5, Zenon DEF RequestNext, Discover, ReprocessReads, ReprocessResets,
              PlayReads, AskQueues, PlayLeaves, AskPasses, AskStarts, AskRefused, CancelReads,
              CancelRequests, CancelClosesRow
        <5>6. CASE WorldNext
          <6>1. disp' = disp \/ \E q \in Procs : disp' = [disp EXCEPT ![q] = Idle]
            BY <5>6, Zenon DEF WorldNext, RowAges, StatusAges, HoldBegins, HoldEnds, Boot,
                      Shutdown, GivesUpFlock, Dies, DispGoes
          <6> QED BY <3>3, <5>1, <6>1 DEF Idle
        <5>7. CASE UNCHANGED runVars
          BY <3>3, <5>7 DEF runVars
        <5> QED BY <5>2, <5>3, <5>4, <5>5, <5>6, <5>7 DEF Next
      <4>2. disp'[p].live = Current
        <5>1. CASE RowSweepReads(p)
          BY <1>0, <5>1 DEF RowSweepReads, DispGoes, Idle
        <5>2. CASE StuckSweepReads(p)
          <6>1. [disp[p] EXCEPT !.at = "resetting", !.live = Current].live = Current
            BY <1>0 DEF DispRecord
          <6> QED BY <1>0, <5>2, <6>1 DEF StuckSweepReads, DispGoes
        <5> QED BY <4>1, <5>1, <5>2
      <4> QED BY <3>1, <4>2
    <3> QED BY <3>2, <3>3
  <2> QED BY <2>1, <2>2
<1>3. /\ \A p \in Procs : (proc[p] = "leader" => flock = p)'
      /\ \A p \in Procs : AtIt(p)' =>
           /\ proc'[p] \in {"leader", "draining"}
           /\ \A q \in Procs \ {p} : ~AtIt(q)' /\ proc'[q] # "leader"
  BY OneDispatcherStep
<1> QED BY <1>1, <1>2, <1>3 DEF SweepInv

\* While nobody asks for runs, the sweeps reset no episode and no row whose run is alive,
\* for any number of processes, slots and runs, and for shutdowns that overlap with boots.
THEOREM SweepsSpareTheLiving ==
  ASSUME MaxAsks = 0
  PROVE  Spec => SweepsSpareRuns
<1>1. RunInit => SweepInv
  BY LeaseAssumption DEF RunInit, LeaseInit, SweepInv, AtIt, Idle
<1>2. RunTypeOK /\ SweepInv /\ [Next]_runVars => SweepInv'
  BY SweepInvStep
<1>3. RunTypeOK /\ SweepInv /\ [Next]_runVars =>
        [\A e \in Episodes, p \in Procs :
           /\ StuckSweepWrites(p) /\ status'[e] # status[e] => ~Processing(e)
           /\ RowSweepWrites(p) /\ row'[e] # row[e] => ~Processing(e)]_runVars
  <2> SUFFICES ASSUME RunTypeOK, SweepInv, NEW e \in Episodes, NEW p \in Procs, Processing(e)
               PROVE  /\ StuckSweepWrites(p) => status'[e] = status[e]
                      /\ RowSweepWrites(p) => row'[e] = row[e]
    OBVIOUS
  <2>1. e \in Current
    BY DEF Current
  <2>2. disp[p].at \in {"rows", "resetting"} => e \in disp[p].live
    BY <2>1 DEF SweepInv
  <2>3. StuckSweepWrites(p) => status'[e] = status[e]
    BY <2>2 DEF StuckSweepWrites, Dispatching
  <2>4. RowSweepWrites(p) => row'[e] = row[e]
    BY <2>2 DEF RowSweepWrites, Dispatching, ResetOrphanedRows
  <2> QED BY <2>3, <2>4
<1>4. Spec => [](RunTypeOK /\ SweepInv)
  BY <1>1, <1>2, RunTypeCorrect, PTL DEF Spec
<1>5. Spec => [][Next]_runVars
  BY DEF Spec
<1> QED BY <1>3, <1>4, <1>5, PTL DEF SweepsSpareRuns
=============================================================================
