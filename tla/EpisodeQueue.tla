----------------------------- MODULE EpisodeQueue ------------------------------
(***************************************************************************)
(* The table auto_process_queue of src/src/database/queue.py: one row per  *)
(* episode.  Each operator below is one committed UPDATE or INSERT and     *)
(* says what it does to the row; the dispatcher, the waiters, the sweeps   *)
(* and the handlers that call them are the actions of EpisodeRun.          *)
(***************************************************************************)
EXTENDS ProcessingLease

CONSTANTS
  MaxAttempts    \* attempts after which an orphaned row is failed

ASSUME QueueAssumption == MaxAttempts \in Nat

VARIABLES
  row,        \* status of the episode's row, none when there is no row
  attempts,   \* attempts, counted up to MaxAttempts
  rowOld      \* updated_at is older than the age the sweeps ask for

queueVars == <<row, attempts, rowOld>>

RowStates == {"none", "pending", "processing", "completed", "failed"}

QueueInit ==
  /\ row = [e \in Episodes |-> "none"]
  /\ attempts = [e \in Episodes |-> 0]
  /\ rowOld = [e \in Episodes |-> FALSE]

\* Every write stamps updated_at.
SetRow(e, s) ==
  /\ row' = [row EXCEPT ![e] = s]
  /\ rowOld' = [rowOld EXCEPT ![e] = FALSE]

KeepRow == UNCHANGED queueVars

\* queue_episode_for_processing: ON CONFLICT DO NOTHING.
QueueRow(e) ==
  IF row[e] = "none" THEN SetRow(e, "pending") /\ UNCHANGED attempts ELSE KeepRow

\* upsert_episode_for_processing: reopens the row whatever became of it.
UpsertRow(e) ==
  /\ SetRow(e, "pending")
  /\ attempts' = IF row[e] = "pending" THEN attempts ELSE [attempts EXCEPT ![e] = 0]

\* claim_next_queued_episode
ClaimRow(e) ==
  /\ row[e] = "pending"
  /\ SetRow(e, "processing")
  /\ UNCHANGED attempts

\* Mutant: the row is written by its id, whatever became of the claim.
Mut_CloseClaimedRow(e, s, failed) ==
  IF row[e] # "none"
  THEN /\ SetRow(e, s)
       /\ attempts' = IF failed /\ attempts[e] < MaxAttempts
                      THEN [attempts EXCEPT ![e] = @ + 1] ELSE attempts
  ELSE KeepRow

\* close_claimed_queue_row: only a row still claimed is written, and an error
\* message counts an attempt.
CloseClaimedRow(e, s, failed) ==
  IF row[e] = "processing"
  THEN /\ SetRow(e, s)
       /\ attempts' = IF failed /\ attempts[e] < MaxAttempts
                      THEN [attempts EXCEPT ![e] = @ + 1] ELSE attempts
  ELSE KeepRow

\* close_queue_rows_for_episode
CloseRows(e) ==
  IF row[e] \in {"pending", "processing", "failed"}
  THEN SetRow(e, "completed") /\ UNCHANGED attempts ELSE KeepRow

\* The queue half of expire_deferred_episodes.
FailRow(e) ==
  IF row[e] \in {"pending", "processing", "failed"}
  THEN SetRow(e, "failed") /\ UNCHANGED attempts ELSE KeepRow

\* The queue half of _reconcile_dead_owners.
RecoverRows(E) ==
  LET back == {e \in E : row[e] = "processing"}
  IN  /\ row' = [e \in Episodes |-> IF e \in back THEN "pending" ELSE row[e]]
      /\ rowOld' = [e \in Episodes |-> rowOld[e] /\ e \notin back]
      /\ UNCHANGED attempts

\* Mutant: the exclusion of the running episodes is inverted.
Mut_ResetOrphanedRows(live) ==
  LET orphans == {e \in live : row[e] = "processing" /\ rowOld[e]}
  IN  /\ row' = [e \in Episodes |->
                   IF e \notin orphans THEN row[e]
                   ELSE IF attempts[e] >= MaxAttempts THEN "failed" ELSE "pending"]
      /\ rowOld' = [e \in Episodes |-> rowOld[e] /\ e \notin orphans]
      /\ UNCHANGED attempts

\* reset_orphaned_queue_items: live is what get_current returned earlier.
ResetOrphanedRows(live) ==
  LET orphans == {e \in Episodes \ live : row[e] = "processing" /\ rowOld[e]}
  IN  /\ row' = [e \in Episodes |->
                   IF e \notin orphans THEN row[e]
                   ELSE IF attempts[e] >= MaxAttempts THEN "failed" ELSE "pending"]
      /\ rowOld' = [e \in Episodes |-> rowOld[e] /\ e \notin orphans]
      /\ UNCHANGED attempts

\* reset_failed_queue_items: retriable are the episodes whose own row is failed
\* with retries left.
ResetFailedRows(retriable) ==
  LET due == {e \in retriable : row[e] = "failed" /\ rowOld[e]}
  IN  /\ row' = [e \in Episodes |-> IF e \in due THEN "pending" ELSE row[e]]
      /\ rowOld' = [e \in Episodes |-> rowOld[e] /\ e \notin due]
      /\ UNCHANGED attempts

\* clear_completed_queue_items: the row and its counters go.
ClearCompletedRows ==
  LET done == {e \in Episodes : row[e] = "completed" /\ rowOld[e]}
  IN  /\ row' = [e \in Episodes |-> IF e \in done THEN "none" ELSE row[e]]
      /\ rowOld' = [e \in Episodes |-> rowOld[e] /\ e \notin done]
      /\ attempts' = [e \in Episodes |-> IF e \in done THEN 0 ELSE attempts[e]]

\* The table keeps the values of its CHECK constraint.
QueueTypeOK ==
  /\ row \in [Episodes -> RowStates]
  /\ attempts \in [Episodes -> 0..MaxAttempts]
  /\ rowOld \in [Episodes -> BOOLEAN]

=============================================================================
