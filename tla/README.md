# MinusPod: a TLA+ model of the processing core

MinusPod downloads podcast episodes, finds the advertisements in them and
publishes cut audio.  Several gunicorn workers share one SQLite database and one
data directory; one of them, the leader, runs the background threads.  What is
hard in this program is not the detection, which is data in, data out.  It is
deciding **which episode is processed, by which thread of which process, and what
becomes of it**, its row, its files and its markers, while requests, sweeps, rate
limits, uploads, cancellations, deletions and restarts interleave; and it is the
arithmetic of **which audio is cut and where what is left is found**, on which
everything shown to the listener relies.  That is what these modules model.

Paths below are relative to the repository; `src/main_app/...` is the Python
package, so its files are `src/src/main_app/...` in `PROJECT.json`.

- [1. The system](#1-the-system)
- [2. The modules and the code](#2-the-modules-and-the-code)
- [3. What the runs check](#3-what-the-runs-check)
- [4. What is proved](#4-what-is-proved)
- [5. Where the code and its documents disagree](#5-where-the-code-and-its-documents-disagree)
- [6. What is abstracted, and what is not
modelled](#6-what-is-abstracted-and-what-is-not-modelled)
- [7. Plan](#7-plan)
- [8. Running it](#8-running-it)

## 1. The system

### Actors

| actor | where | how many |
|---|---|---|
| gunicorn worker process | `main_app/__init__.py` | several; restarts get a new pid and start time |
| leader | `_acquire_leader_lock`, flock on `.background_leader.lock` | at most one process, decided at its boot |
| dispatcher thread | `background_queue_processor` in `main_app/background.py` | one, in the leader; it also runs the maintenance sweeps |
| run thread | `_process_episode_background`, `process_episode` in `main_app/processing.py` | one per admitted run |
| waiter thread | `_wait_for_claimed_episode`, `_run_claimed_episode` | one per run that was claimed from the queue |
| request handlers | `api/episodes/runs.py`, `main_app/routes.py`, `api/feeds.py` | any number, on any worker |
| RSS refresh, Podping, offline prober, upload import | background threads and handlers | leader, or any worker |

### Components, their state, operations and correctness

| component | state | operations | what makes it correct |
|---|---|---|---|
| **Processing lease** `processing_queue.py`, `cancel.py` | table `processing_runs` (state, owner pid and start time), the pause switch | `acquire`, `request_cancellation`, `release`, `reconcile_dead_owners`, `is_processing`, `get_current`, `slot_count` | one run per episode, never more runs than slots, a lease is recovered only from a dead owner, cancellation is never forgotten |
| **Episode queue** `database/queue.py` | table `auto_process_queue` (status, attempts, updated_at) | queue, upsert, claim, close a claim, close, reset failed, reset orphaned, clear completed, defer, expire, re-drive | a claim is always given back; a rerun queued meanwhile is not lost; failed rows are retried a bounded number of times |
| **Dispatcher, waiters, maintenance** `main_app/background.py` | local variables of the threads, read in one transaction and used in the next | claim, gates, start, wait, close, sweeps every five minutes | the verdict written is the run's; a sweep never resets what is alive; nothing stands still |
| **Episode run** `main_app/processing.py`, `main_app/pipeline/*.py` | `episodes.status`, `retry_count`, `error_message`, `reprocess_requested_at` | start, ownership checks, publish, post-completion actions, failure branches, release | publication only under the lease and alone; each failure settles the episode; the lease is always released |
| **Process lifecycle** `main_app/__init__.py` | role, flock, `shutdown_event` | boot, boot-time recovery, graceful shutdown (drain, give up the flock, terminate), death | one leader; what a dead process left is recovered |
| **Cancel and reprocess API**, **play** | the values handlers read before they act | cancel, reprocess, just-in-time start | a request reaches the run it means, or reports that there is none |
| **Offline queue** `offline_queue.py` | `deferred` episodes | defer, expire, re-drive | nothing waits for ever, nothing settled is resurrected |
| **Rate-limit hold** `rate_limit_hold.py` | a marker per provider account, with an expiry | record, probe, lift | no admission under a hold; held episodes are queued again |
| **Uploads and local import** `database/upload_reservations.py`, `api/local_episodes.py`, `local_import.py` | a reservation per target with its owner, temporary file, backup and state; the staging directory, its generation file and flock | reserve, prepare, publish, undo, fail, reap and recover; scan, commit, sweep, clear staging | an upload and a run exclude each other; a dead uploader blocks nobody; audio and row belong together; no file is lost or left behind |
| **Deletion** `api/feeds.py`, `database/episodes.py`, `database/maintenance.py` | `deletion_requested_at` of feeds and episodes, files | mark, cancel the runs, wait, delete rows and files, clear the mark; retention | no run is admitted behind a mark; no stale worker publishes into a deleted feed |
| **Audio versions, markers, recut stamps** `pipeline/publish.py`, `pipeline/recut.py`, `pipeline/finalize.py`, `storage.py`, `api/patterns.py` | versioned files, `processed_version`, `ad_markers_json`, `pattern_corrections`, `pending_recut_at` | publish, prune, roll markers back, decide, stamp, apply, clear | the version served has its file; markers match the audio; a decision made during a run survives it |
| **Provider admission and spend** `database/provider_admission.py`, `processing.py` | `provider_spend_reservations`, the ledger of calls | reserve, refuse, release, reconcile, expire | slots and the daily limit hold; what was spent stays charged, as far as the ledger knows of it; nothing leaks |
| **Failover** `failover.py`, `utils/llm_call.py` | a switch, a generation, a probe lease and a record of results per target; `provider_config_revision` | trigger, cancel, probe, record, change settings | no stale result counts; a failed provider is left, and taken up again |
| **Cut timeline** `audio_processor.py`, `pipeline/verify.py`, `pipeline/recut.py`, `utils/time.py` | the applied cuts of each pass, the file, the chapters | render, verify and render again, recut, map timestamps | the list of applied cuts is what was cut; what was kept is heard; timestamps and chapters find their audio |
| status service, run logs, watchdog, feeds and parsing, patterns, detection, audio and transcription, settings, e-mail, webhooks, front end | | | display, data or I/O: see section 6 |

### How they interact

* **Shared tables.**  Every component above acts through single SQLite
  transactions (`BEGIN IMMEDIATE`, or one guarded `UPDATE`); SQLite has one
  writer.  Anything may happen *between* two transactions of a thread, and most
  threads read in one and write in the next.  This is where the hazards are.
* **Queue to lease.**  The dispatcher reads `slot_count`, claims a row
  (`claim_next_queued_episode`), then checks the gates and admits the run
  (`start_background_processing` and `acquire`): four transactions.
* **Run to waiter.**  The run's thread writes `episodes.status`; the waiter polls
  it every ten seconds, and closes the queue row only if it is still claimed
  (`close_claimed_queue_row`).
* **Reruns.**  A degraded run, a reprocess and a held run reopen the row
  (`upsert_episode_for_processing`) while the previous run's waiter is still there.
* **Recovery.**  `reconcile_dead_owners` runs when a leader boots and inside each
  `acquire` that passes its first checks.  It interrupts the runs of dead owners and
  puts their episodes and claimed rows back to pending.  Two sweeps repair what has
  become old: `reset_stuck_processing_episodes` and `reset_orphaned_queue_items`.
* **Shutdown.**  `graceful_shutdown` waits for the runs it owns (300 s by default, then
  no longer), gives up the flock, terminates children and raises `SystemExit`.

* **Files and rows.**  Renames and unlinks are not part of any transaction.  An upload
  renames inside one and undoes the files itself; a dead uploader's files are put right by
  the next process that reaps.  A run writes a new version beside the old one, saves its
  markers, points the row at the new file, clears the stamp and prunes, in five steps.
* **Decisions and runs.**  A decision is inserted in one transaction and stamped in a
  second; a run loads the decisions some time after it began and clears the stamps of the
  second it began in and before; an apply hands chapter-only decisions to a thread.
* **Probes.**  A prober reads the switch's generation and the configuration, waits for
  the network holding nothing but a lease that may run out, and then records.
* **Spend.**  A run reserves at its first LLM phase and settles at its end; between the
  two only the database, and the two-hour expiry, know of the reservation.
* **Timelines.**  Detection of the first pass speaks of the original audio, verification
  of the cut one; the list of applied cuts is the only bridge.

### Hard behaviours

`PROJECT.json` lists 40 hazards with their lines.  They are of eight sorts: admission
races across workers; values read before a transaction, a network call or an unlock and
used after it (waiter, sweeps, cancel and reprocess handlers, probers, the retry count of
a failing run); several writers of one row or status whose order nobody fixed (waiter
against rerun, expiry against play, re-drive against run, decision against run);
processes dying between two writes or two renames; one of several writes failing;
slots, marks, reservations and leadership that nobody gives back; stamps and evidence
that are stale when used; and edges where two rules about the same audio meet.

## 2. The modules and the code

| module | stands for | state |
|---|---|---|
| `SlotPool` | the promise of `ProcessingQueue` to its callers: fresh tickets, one holder per key, a bounded number of slots | `held`, `spent` |
| `ProcessingLease` | `processing_queue.py`, the leader flock, process life, upload reservations, deletion marks and row deletions as admission sees them | `podcast episode runState runEp runOwner thread proc flock paused upload` |
| `EpisodeQueue` | the statements of `database/queue.py`, one operator per `UPDATE` or `INSERT` | `row attempts rowOld` |
| `EpisodeRun` | dispatcher, run thread, waiter, sweeps, handlers, shutdown and crash, composed over the lease and the queue | the two above and `status retries canceled requested statusOld held pc retriesRead waiter disp ask stop asks cancels` |
| `UploadPublication` | a reservation from request to last unlink: single and staging uploads, the bulk import, the reaper, the staging sweep | `row final part backup episode at req rec job lock generation live strayed stranded` |
| `EpisodeFiles` | one episode's row, files, markers and decisions: run, own recut, requested recut, apply, chapter rebuild, deletion, retention | `row fence audio markers decided stamped lease th rebuild sweep now` and history |
| `StandbySwitch` | what health probing promises of one provider | `mode about good bad` |
| `Failover` | `failover.py`: switch, generation, probe lease, record and probers of every target, and the settings they depend on | `source generation standby closing setting revision owed record lease check health events` |
| `ProviderBudget` | `provider_admission.py`, and how `process_episode` reserves and settles | `status day aged actual lease thread held todo ledger unpriced lost cost today` |
| `CutTimeline` | the cuts a render applies, the render, the maps between the timelines, the second pass, the recut | `phase audio cuts vcuts hard holds chapters` and history |
| `ProcessingLease_proofs`, `EpisodeRun_proofs`, `Failover_proofs`, `ProviderBudget_proofs`, `UploadPublication_proofs`, `EpisodeFiles_proofs`, `CutTimeline_proofs` | theorems | |
| `SumTheorems` | the lemmas about sums over sets that `ProviderBudget_proofs` needs | |
| `MC_...` | the instances for TLC | |

`EpisodeRun` EXTENDS `EpisodeQueue`, which EXTENDS `ProcessingLease`: the run's
actions are written with the lease's own actions (`AcquireAdmitted`,
`AcquireRefused`, `RequestCancellation`, `Release`, `BootLeader`, `BeginShutdown`,
`DrainEnds`, `Die`), so that nothing about leases is modelled twice.  `UploadPublication`,
`EpisodeFiles` and `ProviderBudget` look at the same actors from the side of what they
write, and take of the lease only what they need (one run of an episode at a time;
whether the lease of a run is active).  `Failover` and `CutTimeline` share no state with
the rest.

**Correspondence.**  Everywhere, one action is one committed transaction, rename or
unlink, with what the same thread does before it next reads shared state.  A value read
in one and used in a later one is kept in a variable.  Variables called history in their
comment decide nothing; they record what has happened, for the properties.

*Lease, queue and run.*

* The kept values are `retriesRead` (the retry count in `episode_data`), `waiter`
  (the verdict), `disp` (the claimed episode, the sweep's candidates, those out of
  retries, the live runs), `ask` and `stop` (how far each handler is).
* A process is an *incarnation*: pid and start time, as `_owner_proven_dead` compares
  them.  A restart is another element of `Procs`.  `draining` is a process whose
  shutdown has begun: alive, though no longer dispatching.
* `runState` has two values the table does not: `unused` (not inserted yet) and
  `gone` (the row went with its podcast by `ON DELETE CASCADE`, while a thread may
  still be at work for it).
* `row` is the queue row's status, `none` without a row.  `rowOld` and
  `statusOld` say that `updated_at` is older than the age the sweeps ask for (30 min and
  more); every write of the row resets them.  `attempts` is counted up to `MaxAttempts`, the
  one value it is compared with.
* `canceled` is `error_message = 'Canceled by user'`, which the waiter distinguishes.
* `pc` gives a run's thread: `starting` (admitted, before the first check),
  `working` (status written), `fenced` (past `_require_publication_owner`), `persisted`
  (episode row processed), `published` (queue row closed), `failing` and
  `publishedFailing` (in `_handle_processing_failure`), `requeueing` (the hold's second
  transaction), `leaving` (the `finally` block that releases the lease).

*Uploads* (`UploadPublication`).

* `final`, `part` and `backup` are the files at a target, at a reservation's temporary
  name and at its backup name; their contents are identities, so that a file in the
  wrong place is seen.  `row` is the table; `was` is `recovery_state`, the marker of a row a
  reaper has claimed.
* `at` is where the handler is: `BeginPublication`, `BackUp`, `MoveIn`, `Bump` (an import's
  generation file) and `Commit` are the inside of `publish_...`; `UndoMove`, `UndoBackup`,
  `Unlink` and `Fail` its exception path, which `HandlerFails` enters from any of them.
* `WriterFree` is SQLite's write lock: between the ownership check and the commit of a
  publication no other write happens, though files are renamed.
* `rec` is a recovery: which rows it has claimed, which one it is at, which of its renames
  comes next.  It decides by which files exist, as `_recover_upload_files` does.
* `strayed` and `stranded` are history: the targets whose file a recovery took or put back
  wrongly, and the episodes without a row where one left the file of a dead import, because
  a file of the same name had been staged again.
* `job` is the importing thread with the plan the operator reviewed; `lock` the per-feed flock.

*Files* (`EpisodeFiles`).

* A file and the markers are identified by the run that rendered them, and whether in its
  own recut; a file also has the decisions its cut honours.
* `th` has the locals of `process_episode`: the row and the markers read at its start
  (`snap`, `was`), when it began, the decisions loaded by the run (`cut`) and by its recut
  (`more`), the version it renders to, and whether it has saved and published its markers.
* `Move`, `SaveMarkers`, `CheckOwner`, `Persist`, `ClearStamp`, `CleanStale` and `Complete`
  are the publication in order; a requested recut goes the same way from `Begin`.  `Fail`,
  `Cancelled`, `LeaderDies` end a run anywhere.
* `now` is the clock of the stamps, in their resolution of a second.

*Failover.*  A prober's `check` has the generation and configuration it captured, and its
answer; a prober that is `Ticks` is the leader's, any other waits in `ensure_fresh_probes`.
`Config(t)` is what `_probe_config_identity` hashes: the target's own settings and, for LLM
targets, `provider_config_revision`.  `owed` counts the `invalidate_provider_cache` calls
that follow a commit and have not happened yet; `closing` the cancels that follow a settings
save. The streaks are counted up to the thresholds they are compared with.

*Spend* (`ProviderBudget`).  A reservation is identified by its run and provider.  `Swept`
is the expiry that every admission, and the status page, applies first.  `thread` follows
`_reserve_provider` (`reserving`, `refused`), the run (`working`),
`_reconcile_provider_actuals` and `_settle_provider_reservations`; `broken` is a thread
whose database call raised where nobody settles any more.  A `Call` has the three outcomes
its row in the ledger can have: priced; billable without a price, which makes the run
incomplete; or finalized without any usage, as a timed-out or lost one is, which neither the
sum nor the check of `_reconcile_provider_actuals` looks at (`_ledger_row_is_billable`).
`cost` and `lost` are history: what all calls have cost, and those of the third kind.

*Audio* (`CutTimeline`).  Time is in ticks; audio is the sequence of ticks of the original
it plays, and fillers (the replacement sound).  What detection, users and reviewers ask for
is left open: any spans, of any of the kinds in `Kinds`.  Everything from there on is
translated: `Applied` is `_applied_cuts_with_locks`, `Render` is the filter graph, `Adjust`
and `Unadjust` are `adjust_timestamp` and `_unadjust_timestamp`, `MapToOriginal` and
`MapToProcessed` the second pass's own maps, `Candidates`, `CrossPlan` and `Rerender` its
reconciliation.

## 3. What the runs check

| run | instance | what it shows |
|---|---|---|
| `lease_safety` | 1 feed, 2 episodes (one auto-numbered), 2 processes, 2 run ids, slots 1 or 2 | no episode has two active runs or two live threads; uploads and runs exclude each other; the lease implements `SlotPool` |
| `run_control` | 1 process, 2 runs, 2 reprocess or play requests, holds begun anywhere | `ClaimsAreHeld`: every way out of dispatcher and waiter gives the claim back. `RerunKept`: a row reopened during a run survives that run's verdict |
| `run_recovery` | a process and a successor that may overlap, 2 runs | `PublishesUnderLease`: no recovery takes the lease from a run between its last check and its write. `SweepsSpareRuns`: the sweeps act on stale reads and still reset no live run |
| `run_progress` | a process and its successor, 1 run, 1 cancel, with fairness | no episode stays processing, no row stays claimed, no cancelled run keeps its slot |
| `upload_recovery` | 1 episode, 1 staged file of that episode, 2 processes, 2 reservations, 1 change of generation | `AudioMatchesRow`: a publication that fails or whose worker dies at any rename leaves the old pair of row and audio, and no audio where there is no row, but for what is `strayed` or `stranded`. `LeftoversNamed`: no file is left behind unknown. `ImportsWhatWasPlanned`, `SweepSparesNewUploads`: an import commits what was reviewed, and its sweep spares what came later |
| `files_served` | any 3 among 2 runs, 2 decisions (one chapter-only) and a deletion; 2 seconds, 3 versions | `PublishedAudioExists`, `MarkersMatchAudio`: whatever fails or dies, the row names a file that is there and its markers are that file's. `StampedDecisionsSurvive`, `DecisionsStayApplied`: a decision made during a run is in the audio or still stamped, and no later publication goes back on it |
| `failover_probes` | 2 targets, the leader's tick and a pre-run check of one, 3 outside events, with fairness | `EvidenceIsFresh`, `ImplementsSwitch`: no stale result counts, and the whole does what `StandbySwitch` promises. `TripsInTheEnd`, `RecoversInTheEnd`: a failover begins and ends in the end |
| `budget_limits` | 3 runs, 2 providers, 1 slot, a limit of 2 reservations, calls of up to twice the estimate, a midnight | `SlotsHold`, `WithinDailyLimit`: slots and limit hold across crashes, expiries and days. `CostsStayCharged`: nothing spent is forgotten but the lost calls of a run that is reconciled (section 5). `NothingLeaks`: a run that ended by itself leaves no slot taken |
| `cut_timeline` | 5 ticks, 3 spans asked for, kept or held, 4 kinds of request, up to three renders | the applied cuts describe the file (`CutsAreCut`), the maps agree with it (`TimelineIsExact`), chapters follow (`ChaptersFollow`), and nothing is lost that was kept, held, firm or not asked for |
| `run_cancel_claimed`, `upload_stray`, `files_decision_lost` | expected violations | section 5 |

**Why these bounds are enough.**  Nearly every hazard here is about two parties: two
admissions, a run and its successor, a thread and a sweep, a process and the one that
replaces it, an upload and a reaper, a decision and a run, two probers.

* *Lease and run.*  Two processes give a leader and a follower, or a leader and its
  successor; two run ids give a run and the one that follows or meets it; two episodes give
  an admission that meets the capacity and not the duplicate check.  In `EpisodeRun` one
  episode is enough, since rows and statuses of two episodes never meet except in the slot
  count, which the lease run covers with two.  The runs of `EpisodeRun` split the requests
  (`run_control`) from the changes of process (`run_recovery`), which keeps each under a
  million states; a rerun across a restart is therefore not covered by a run. `MaxRetries =
  1` and `MaxAttempts = 1` put both counters at their limit after one failure; `throttled`
  failures, which do not count, keep the retry ladder reachable below it.  Named bounds:
  `MaxAsks`, `MaxCancels` (requests made), `OtherHolds` (whether holds begin outside the
  runs), `Overlap` (whether a successor may boot before its predecessor exits), and the
  number of run ids, which `Claim` leaves one of unused. `OtherHolds` and `Overlap` leave
  behaviour out of a run where they are FALSE; each is TRUE in a passing run.  With
  `Overlap` a successor boots while its predecessor's run threads and waiters are still at
  work, but not while its dispatcher is inside a claim or a sweep: a boot takes seconds, the
  dispatcher's steps milliseconds.
* *Uploads.*  One episode and one staged file that stands for it let a single upload, a
  staging upload, an import and a clearing meet on the same target; two reservations
  let each of them follow or meet another (a dead import and an upload that stages its source
  anew among them); two processes give a worker and the one that reaps it, and the last never
  dies.  `MaxGeneration` bounds imports and clears.
* *Files.*  `MCBound` allows any three among runs, decisions and deletions, in 2 seconds (the
  clock has to be able to stand still and to move) and three versions.  It also leaves out
  what follows once a run has overtaken a retention sweep, about which no property speaks
  (`raced`, section 5).
* *Failover.*  The second target is there for its effect on the first: its transitions renew
  the revision the LLM configuration includes.  Two probers give one in flight and one that
  overtakes it.  Three outside events (`MaxEvents`) are an outage with two more: a recovery,
  a lost lease, a death, an edit, an operator's switch.
* *Spend.*  Three runs give one at work, one refused and one that comes the day after.  A
  second provider, which only one run needs, is what a refusal has to be undone at;
  `MCCalls` keeps calls away from it, which the second provider already covers.  `MCView`
  identifies states that differ only in what nothing reads any more, such as the locals of
  an ended run.
* *Audio.*  Five ticks are the least in which a cut, a gap narrower and one wider than
  `MergeGap`, a short cut and a tail shorter than `PostRoll` fit side by side.  Three spans
  are the least for two passes to meet around something kept.  The run also passes with the
  sound off, with requests that are trusted and not locked, with fragments of one tick, and
  on six ticks with longer joins; TLC takes minutes on those, so they are not listed.  A
  sound longer than the shortest cut is left
  out: the processed file is then longer than the audio it stands for, and the maps between
  the timelines run backwards in places (section 5, `cut_filler.cfg`); the proofs name the
  same condition, `FillersFit`.  `MaxItems` bounds the requests of a pass together with what is
  kept and held; any order in which a bound on the first is spent on the others occurs.

**Symmetry** is used over run ids, processes and reservations where all properties are
state or step predicates that treat them alike, and never with liveness.  `CHECK_DEADLOCK FALSE`
is right everywhere: with all processes dead, all ids or events used, the system stops.

**Fairness** of `EpisodeRun` (`FairSpec`):

* weak, for each run's thread and each waiter: they are OS threads.  A pipeline hung for ever
  in a call of its own is outside what the liveness properties claim.  `RunQueuesRerun`,
  `RunIsHeld` and `RunGivesUp` are choices of the environment and get none;
* weak, for the dispatcher's steps that follow a decision it has taken: the same thread
  goes on;
* weak, for time passing (`RowAges`, `StatusAges`), for booting a process (the container
  restarts the server), and for a draining process to die (`graceful_shutdown` ends in
  `SystemExit`, and gunicorn kills what outlives its grace period);
* strong, for the first steps of the two sweeps: the dispatcher comes back to its
  maintenance block every five minutes, but claims in between may disable the step for a while.
  It is the least that says "every five minutes": the sweeps' reads are not continuously
  enabled;
* strong, for claims, only in `ClaimingSpec`, the specification of `run_dead_owner.cfg`: the
  violation found there is not a dispatcher that never tries;
* none for requests, holds ending, shutdowns, deaths or the flock's release.

`Led` is the antecedent of every liveness property of `EpisodeRun`: some process leads from
some point on.  Without it a system whose leader is gone for good would refute everything;
leadership is decided once, at boot, and a follower never takes over (a hazard of its own).

**Fairness** of `Failover`, all of it weak: the leader's tick claims again and again
(`background.py` calls `probe_tick` at every interval, and the lease is free again after at
most 30 seconds); a thread that has begun to probe goes on; leases expire; the calls that
follow a commit happen.  None for requests, edits, outages, deaths or stalls, which
`MaxEvents` bounds: the liveness properties are about what happens once things are left
alone.

## 4. What is proved

All theorems hold for every value of the constants under the named assumptions of the
modules (`LeaseAssumption`, `QueueAssumption`, `RunAssumption`, `UploadAssumption`,
`FilesAssumption`, `RenderAssumption`, `FailoverAssumption`, `BudgetAssumption`,
`CutAssumption`), which TLC evaluates in the runs.  They say what kinds of values the
constants are, that the names of different kinds of things differ, and which sets are finite;
none bounds a set.  Where a theorem needs more, the table says so.

| properties | of all runs | proved |
|---|---|---|
| types | 7 | 7 |
| safety invariants | 15 | 13 |
| action properties | 11 | 10 |
| refinements | 2 | 2 |
| liveness | 5 | out of the prover's reach |

**`ProcessingLease_proofs`**, for any feeds, episodes, processes, finite set of run ids and
slot settings:

| theorem | says |
|---|---|
| `LeaseTypeCorrect` | `LeaseSpec => []LeaseTypeOK` |
| `LeaseIsExclusive` | no episode has two active runs |
| `LeaseBoundsSlots` | active runs never outnumber the largest `max_episodes` |
| `LeaseExcludesUploads` | an upload and a run never both hold an episode that is not auto-numbered |
| `LeaseSeparatesThreads` | two live threads work on an episode only if one's lease was deleted with its feed |
| `LeaseImplementsSlotPool` | the lease implements `SlotPool` under the refinement mapping of `Pool` |

`LeaseInv` joins the checked invariants with two strengthenings.
`ThreadLease`: a live thread belongs to a live process and its lease is active or went with its
feed.  It is what makes `ThreadsExclusive` follow from `OneRunPerEpisode`, and it is
inductive because recovery looks at the owner's life and not at its role.  `NoOrphans`:
an active run's podcast exists; it is what keeps the orphan branch of the recovery from
interrupting a live thread.  The proof then turns on one observation.  Every
action except an admitted `acquire` can only shrink the set of active runs (`Shrinking`,
lemma `OthersShrink`), and the exclusion invariants are preserved by shrinking; so each
needs one real case, the admission, whose duplicate and capacity checks and
`INSERT` are one transaction (`AdmissionAdds`).  The refinement has the same shape:
an admission maps to `Admit` with the recovered runs as `D`, every other step to
`Drop` or a stutter.

**`EpisodeRun_proofs`**, for any values of its constants:

| theorem | says |
|---|---|
| `RunImplementsLease` | `Spec => LeaseSpec`: dispatcher, threads, waiters, sweeps and handlers touch the lease only by its own steps |
| `RunTypeCorrect` | `Spec => []RunTypeOK` |
| `PublicationIsExclusive` | `Spec => PublishesUnderLease` |
| `RerunSurvives` | `Spec => RerunKept` |
| `ClaimsAreAnswered` | `Spec => ClaimsAreHeld` |
| `SweepsSpareTheLiving` | if nobody asks for runs (`MaxAsks = 0`), `Spec => SweepsSpareRuns` |

`RunImplementsLease` goes through the actions once (`RunStepIsLeaseStep`) and carries the
six theorems above over to the system.  `RunTypeCorrect` is one lemma per group of variables;
for the queue table the lemma `QueueStatements` says that each SQL statement keeps the
types, and each action is shown to use one of them.  `PublicationIsExclusive` needs no
invariant about where threads are: only a live thread takes the step to the published
row (`PublicationIsAThreadStep`), a live thread has an active lease (`ThreadLease`, and
`NoneGone`, since no feed is deleted inside `EpisodeRun`), and active leases of one episode are
equal (`OneRunPerEpisode`).

`RerunSurvives` and `ClaimsAreAnswered` need no invariant but the types, which is what the
guards of the SQL statements are for.  A pending row with a rerun in it changes only by a
claim or a cancel (`PendingStays`), because a waiter closes only a claimed one
(`RowsAreClosed`).  Whoever lets go of a claim (`LetGo`) has just run the statement that
answers for it, one lemma per actor.

`SweepsSpareTheLiving` needs more.  `SweepInv`: a leader has the flock; one process at most is
at its dispatcher, and if it is, no other leads; and a dispatcher in the middle of a sweep knows
every episode with an active run, because the set can only have shrunk since it looked
(`CurrentStep`: a run starts by a request or by a dispatcher, and the only one is busy
sweeping).  The overlap of a boot with a draining predecessor is what endangers the second
part: the flock is free before the old process has gone.  That its dispatcher has finished
what it was at by then is the timing `Boot` assumes (section 3, bounds).  The hypothesis is part
of the truth: a play or reprocess that starts a run between a sweep's read and its write has
its row reset (section 5).

**`Failover_proofs`**, for any targets, probers and number of recovery probes:

| theorem | says |
|---|---|
| `FailoverTypeCorrect` | `Spec => []FailoverTypeOK` |
| `EvidenceIsAlwaysFresh` | `Spec => EvidenceIsFresh` |
| `FailoverImplementsSwitch` | `Spec => ImplementsSwitch`: for every target, the whole implements `StandbySwitch` |

`FailoverInv` has three parts.  `ProberInv`: a prober that has begun holds a generation no
newer than the switch's, and an older one if the switch has moved since (`crossed`); and one
that another has followed (`later`) no longer holds the lease, so that its token is refused
(`overtaken`).  A record's generation is no newer than the switch's: this is what makes the
streaks of an older generation count as none in the refinement mapping, and a transition a
fresh start.  Types are the third part.  Each transition increments the generation, so "the
generation is still mine" means "nothing has crossed"; the configuration is compared
directly, and need not be unique: an edit undone in time is no edit.

**`ProviderBudget_proofs`**, for any providers, finite set of runs, limits and estimates:

| theorem | says |
|---|---|
| `BudgetTypeCorrect` | `Spec => []BudgetTypeOK` |
| `CostsAreKept` | `Spec => []CostsStayCharged` |
| `NothingIsLeaked` | `Spec => []NothingLeaks` |
| `SlotsAreHeld` | `Spec => []SlotsHold` |
| `LimitIsKept` | `Spec => []WithinDailyLimit` |

`BudgetInv` says where a reservation can be for each place of the thread that made it
(`PairInv`), what the thread knows of its own reservations (`ThreadInv`), and that the
ledger, the lost calls and the unpriced flag together account for the cost (`LedgerCounts`):
a reservation is reconciled only without a call that is billable and unpriced, and then the
ledger is the cost less what the lost calls have cost.  That difference is the code's
(`budget_lost_call.cfg`, section 5), and both `CostsAreKept` and `LimitIsKept` say so: the first
has it in the amount a run was reconciled at, the second counts the lost calls of a run until
it is reconciled, and not after.
`SlotsTaken`, on top of it, is the number of reserved rows; an expiry takes a row out of it
only if its run is not active, and only an admission, which counts in the same transaction,
adds one.

`LimitIsKept` turns on the sum a provider has `Granted` on a day: the reserved amount while a
run's row is open, and no more than that once it is reconciled.  Only an admission raises it
(`GrantedStep`), and an admission compares what is charged, which is no less, with the limit in
the same transaction; so no day grants more than the limit (`DayKept`, `DayStep`), whatever
expires, is released or crosses midnight.  What a run has spent, up to its reservation, was
granted (`SpentWasGranted`).  `SumTheorems` has what this needs of the community
module's `SumFunctionOnSet`, which is a recursion over subsets: that a sum exists, splits off a
member, grows with its terms, and is 0 when they are.  Each is proved from a smallest
counterexample (`SmallestSubset`, from the well-foundedness of strict inclusion on finite
sets): the induction theorems of the library take an operator as a parameter, and no prover
here can instantiate them.

**`UploadPublication_proofs`**, for any feed, reservations, processes and bound:

| theorem | says |
|---|---|
| `UploadInvariant` | `UploadSpec => []UploadInv` |
| `UploadTypeCorrect` | `UploadSpec => []UploadTypeOK` |
| `LeftoversAreNamed` | `UploadSpec => []LeftoversNamed` |
| `AudioMatches` | `UploadSpec => []AudioMatchesRow` |
| `PublishesThePlan` | `UploadSpec => ImportsWhatWasPlanned` |
| `SweepsSpareUploads` | `UploadSpec => SweepSparesNewUploads` |

`UploadInv` has parts, each of which survives a step with the help of those before it.

1. Types, and `Shape`: what a row's state says of its handler and of its recovery
   (`RowInv`, `HandlerInv`, `RecoveryInv`), and that leftovers have names (`Named`).  Its centre
   is that no one recovers a row whose handler is at work, although a recovery takes several
   steps, may fail at any of them, and is taken up again by a later reap or another process.
2. `OneHolder`: one active reservation of a target.
3. `LockInv`: who may have the import lock.  A staging upload has it from its publication on, an
   import from its start to its end.
4. `Apart`, `Awaited`: no audio is in two places, so that a file found at a target is
   known by what it is.
5. `HeldInv`: the audio that an active reservation is going to replace is in place (`Intact`)
   or set aside (`Aside`), and in place once a recovery is about to free the target.  With
   `OneHolder` this is what makes the first half of `AudioMatchesRow` (`RowHasAudio`) survive
   the moment the reservation goes.
6. `FreshInv`: where an active reservation of an episode finds no row, nothing is set aside,
   there is no file in place before the move, after its undoing, and once a recovery is about
   to free the target, and the file is either the upload's temporary one or in place, not
   both.  It gives the other half (`NoRowNoAudio`).
7. `PlannedInv`: from the comparison on, the file an import moves is the one in its plan.  It
   rests on the lock, since only its holder publishes in staging, and on `OneHolder`.

`strayed` excuses the targets a recovery has guessed wrong about, `stranded` the episodes
without a row where it left an import's file (section 5), and the proof shows that nothing
else has to be excused.  `ScanInv`, beside it, says that a plan of the
current generation has seen every upload staged so far: a staging upload changes the
generation before it commits, and nobody scans while it has the lock.

The proof changed the model in three places.  A plan does not commit two files that stand for
one episode (`SoleFile`, `build_import_plan`): without it one entry's publication took the
place of another's.  Reservations and processes have different names
(`UploadAssumption`), since the lock is held by either.  And `SweepSparesNewUploads` speaks of
staging uploads, as its comment always did: the audio of a single upload can be carried into
the staging directory only by a recovery that has strayed.

**`EpisodeFiles_proofs`**, for any runs, decisions, deletions and clock:

| theorem | says |
|---|---|
| `FilesInvariant` | `FilesSpec => []FilesInv` |
| `FilesTypeCorrect` | `FilesSpec => []FilesTypeOK` |
| `PublishedAudioIsThere` | `FilesSpec => []PublishedAudioExists` |
| `DecisionsSurvive` | `FilesSpec => []StampedDecisionsSurvive` |
| `MarkersAgree` | `FilesSpec => []MarkersMatchAudio` |
| `DecisionsAreKept` | `FilesSpec => DecisionsStayApplied` |

`FilesInv` says that one thread works at a time and, unless a sweep has been overtaken, none
beside a deletion (`Exclusive`); what a thread knows at each place (`ThreadInv`); what it has
made by then (`WorkInv`): a file of its own from the rename on, which nobody else's prune
takes, the version it is going to replace still there, and the decisions it loaded in what it
renders; and what stamps and the chapter rebuild owe to decisions (`StampInv`): a decision
stamped and not exposed is among those the rebuild saw, or the audio has it.  `WorkInv` is
claimed only while no sweep has been overtaken (`raced`): the two ways in which one can be are
in section 5, and no property speaks after them.  `PublishedAudioExists` then follows from the
order move, row, prune (`ServedStep`); `MarkersMatchAudio` from what each exit of a thread puts
back (`MarkersAtEnd`), with the exits that put back nothing listed as `Tears`; and
`DecisionsStayApplied` from what a run loads: all that the published audio and a rebuild under
way have.

**`CutTimeline_proofs`**, for audio of any length, any thresholds, any requests and any
number of renders:

| theorem | says | where |
|---|---|---|
| `CutInvHolds` | `Spec /\ []FillersFit => []CutInv` | requests of different actions do not overlap |
| `CutTypes` | `Spec /\ []FillersFit => []CutTypeOK` | the same |
| `CutsAreCutHolds` | `Spec /\ []FillersFit => []CutsAreCut` | the same |
| `ShortFillersCutTypes`, `ShortFillersCutsAreCut` | `Spec => []CutTypeOK`, `Spec => []CutsAreCut` | also, the sound is one tick long |
| `FirmEdgesHolds` | `Spec => FirmEdgesHold` | requests of different actions do not overlap |
| `KeptStays` | `Spec /\ []FillersFit => KeptStaysOnAir` | the same |
| `HeldIsKept` | `Spec /\ []FillersFit => []HeldIsAsked`, the part of `NothingUnasked` about holds | the same |
| `ShortFillersKeptStays`, `ShortFillersHeldIsKept` | `Spec => KeptStaysOnAir`, `Spec => []HeldIsAsked` | also, the sound is one tick long |

Both conditions are part of the truth, and section 5 has what happens without each.
`FillersFit` says of the first render that no filler is longer than its cut; with a sound of one
tick, as in the run, every behaviour meets it (`ShortFillersHold`).

`CutInv` says that the cuts of a render from the original are a *row*: not empty, in order,
apart and inside; that those of a second render, mapped back, lie in the original; and that the
file plays, in order, exactly the ticks that neither list has (`FileOf`).  It survives a step
because of what four stages of the code do, one after the other, each with a lemma that says
what it does whatever its input:

1. *What is applied* (`AppliedDoes`).  The walls leave parts of the requests (`PiecesCarve`:
   together they are what the request has outside the walls).  Sorting keeps them, joining makes
   a row of them (`MergedDoes`), and `Explained` says what every applied cut is made of: each of
   its ticks is in a part, in a gap narrower than `MergeGap` between two parts that no wall or
   hold crosses and no confirmed or pinned edge bounds, or in the tail after the last part.
2. *What is rendered* (`RenderDoes`).  A render of a row plays the audio before each cut, the
   filler, and the audio after the last, at places given by the cuts' running offset (`Laid`);
   so it plays what is outside the cuts (`PlayedIsKept`), in order (`OrderIsKept`).
3. *The way back* (`MapsBack`).  If fillers fit their cuts, `_map_to_original` increases
   strictly, and takes the place of every tick played to that tick (`Exact`).  The cuts of a
   second render therefore take, mapped back, exactly what was played inside them
   (`CutoutMaps`, `TwoRenders`).  This is where a longer filler breaks the list of cuts.
4. *The candidates and the plan* (`CandidatesAre`, `CrossPlanDoes`).  What reaches the second
   render is in the file and its twin in the original; a union of both passes starts no earlier
   and ends no later than its members, and no two of different actions overlap.

`FirmEdgesHolds` needs only the first stage: the tick beside a firm edge is in no gap, as the
edge is the end of a part that keeps its pin or confirmation (`NoGapBeside`), and in no tail
(`NoTailBeside`), so only a request can have it cut.  The proof changed the model in one place: a
short cut that a user confirmed is not applied *whatever its neighbours are* (section 5), and
`Beside`, which says what firm edges are, has learnt that (`Sure`).

`KeptStays` has one case per render.  A render from the original gets what is kept as walls,
and no cut that `Explained` accounts for reaches into a wall (`WallsStay`): a part does not, a
gap is not closed across one, and the tail is not trimmed over one.  A render of the processed
file gets the walls as `_map_to_processed` gives them, so the proof needs where that puts a tick
that is kept and played: moving the ends of the span out of the cuts does not lose it
(`SnapKeeps`), the groups of a row of cuts take out and put in, group by group, what the cuts do
(`RowGroups`, `ShiftTo`), `adjust_timestamp` takes exactly that off (`AdjustOver`) and keeps the
order of places (`AdjustedUp`).  The span therefore holds the place where the tick is played
(`KeptMaps`), no cut of the second render has it, and the render plays it (`KeptInProcessed`).

`HeldIsKept` is about the same places.  A hold does not keep a request from being cut, but no gap
is closed across one and no end trimmed over one (`HeldIsRequested`), so a held tick that is lost
lies in a request of that render.  On the processed timeline that is a candidate, which lies in
what the second pass asks for (`CandidateIsAsked`); in a render of both plans it is a cut of the
first pass, which had asked for it, or the twin of a candidate (`TwinIsAsked`), as everything
else counts as bridged.  Its inductive invariant adds that only a second pass bridges (`HeldInv`).

Sorting and selecting are written out in the model (`InOrder`) rather than taken from the
community modules, whose definitions go through a recursion or a choice of permutation that no
prover here unfolds.  Each fold is unrolled once to a function on `0 .. n` (`FoldExists`,
`EmptiesExists` for sets), and what follows is an induction with an invariant over lists
(`CountUp`, from a smallest counterexample): `MergeRun`, `RenderRun`, `SeekRun`, `SnapRun`,
`GroupRun`, `UniteRun`.

**Only model-checked.**  All liveness (`ProcessingEnds`, `ClaimsEnd`, `CancelsEnd`,
`RecoversInTheEnd`, `TripsInTheEnd`): fairness and ENABLED are out of the prover's reach.
Of `CutTimeline`, `TimelineIsExact`, `ChaptersFollow` and the rest of `NothingUnasked`: the first
two follow a tick through the groups of two lists of cuts at once, and not only where it is
played; the width of what is lost traces what joins the requests of both passes across the two
timelines.
TLC checked each proved property before its proof was tried.

## 5. Where the code and its documents disagree

Three disagreements have a run of their own:

* **`run_cancel_claimed`**.  The comment at `src/api/episodes/runs.py:858-863` says there is
  no window in which a worker picks a row up after the user clicked Cancel.  The
  status becomes `processing` some transactions after the claim; a cancel in between
  closes the row, reports success and leaves the run going.
* **`upload_stray`**.  `docs/local-feeds.md:73` and
  `tests/unit/test_upload_reservations.py:242-267` have the recovery of an upload leave
  alone a file that is not the upload's.  The recovery infers from which files exist how far
  a publication got; when the handler has already undone its renames and unlinked its
  temporary file, the older file at the target looks like the upload's own, and is moved
  away and deleted.
* **`files_decision_lost`**.  `_start_chapter_rebuilds` says a stamp is cleared only once its
  episode is rebuilt.  `rebuild_ad_chapters` never raises; its `False` is not looked at.

The others were met on the way and have a configuration to run by hand, or follow
from the text:

* **A dead owner's lease** (`run_dead_owner.cfg`, `DeadOwnersRecovered`).
  `docs/how-it-works.md:88` says a dead owner is recovered at startup or before new work is
  admitted.  The flock is given up before the process exits.  A successor that boots in that
  gap finds the owner alive; once the owner is dead its lease fills the only slot, and the
  dispatcher, which asks for a free slot first, never gets to the `acquire` that would
  recover it.  The property needs the overlap to fail: `run_progress`, without it, shows
  that every episode left processing by a dead owner is moved on.
* **Lost calls** (`budget_lost_call.cfg`, `LostCallsStayCharged`).
  `docs/security-and-storage.md:130` says "A timed-out or lost response stays charged as
  uncertain until a later result reconciles it", and `CHANGELOG.md:1762` that uncertain charges
  stay accounted for after a lost response.  The row of such a call is finalized as a failure
  without tokens or cost (`utils/llm_call.py:274-280`), which is not billable
  (`stats.py:71-81`): it counts neither in the run's spend (`stats.py:985-992`) nor in the check
  for missing prices (`stats.py:1021-1027`).  A run that goes on and publishes is therefore
  reconciled at the sum of its other calls, and what the lost one has cost counts against no
  limit: the shortest behaviour has one call, lost, and a reservation reconciled at 0.  A run
  that fails is settled at its estimate, lost calls or not.
* **Audio without a row.**  An import of a new episode dies between its move and its commit,
  and before anybody reaps it a file of the same basename is staged.  The recovery
  (`upload_reservations.py:71-74`) moves the file at the target back only if nothing is at
  the source, so it leaves it, marks the reservation failed, and the episode has audio and no
  row, though `docs/local-feeds.md:73` has the recovery remove or restore it.  It stays
  until an upload or import of that episode replaces it.  `stranded` in
  `UploadPublication` has exactly these episodes, and `AudioMatchesRow` excepts them.
* **Permanently failed episodes.**  `CHANGELOG.md:9226` says the queue skips them.  A row
  recovered from a dead owner, whose episode had just failed for good, is claimed and
  processed again.
* **Cuts that overlap with different actions** (`cut_overlap.cfg`, `CutsAreCut`).  A beep
  inside a removed span (a SponsorBlock mute, `main_app/pipeline/sponsorblock.py:171-187`,
  kept apart by `keep_rules.py:250-256`, or boundaries adjusted in a recut) is not merged
  with it, and the renderer goes on from the end of the *last* cut, which lies before the
  end of the removal: audio listed as cut is published, and every timestamp after it is off.
  The docstring at `audio_processor.py:281` says the list holds the cuts applied, and
  `CHANGELOG.md:1204` that a marker shows as cut only when the rendered audio removed it.
  `cut_timeline` has `Overlaps` FALSE for this reason.
* **Firm edges in the second pass** (`cut_edges.cfg`, `FirmEdges`).  `CHANGELOG.md:1232` and
  `:1292` say that edges set by a reviewer or confirmed by the user survive joining and
  end-of-episode extension.  They do in the first pass and in a recut (`FirmEdgesHold`), but
  the second pass only has the applied cuts, without locks or confirmations: its render of
  the union joins across such an edge, and its cut of the processed audio extends over one.
* **A confirmed short cut that another one touches.**  A cut below
  `MIN_AD_DURATION_FOR_REMOVAL` is applied if the user confirmed it, and the comment at
  `audio_processor.py:351-352` says that joining cuts carries the strongest trust signal of
  their members.  Where the later of two touching or overlapping requests ends later, line 347
  takes its confirmation, or the lack of one, for both: together, still short, they are dropped,
  and the confirmed one is heard.  `Sure` in `CutTimeline` leaves these edges out of
  `FirmEdgesHold`.
* **A sound longer than its cut** (`cut_filler.cfg`, `CutsAreCut`).  `_map_to_original` takes a
  place in a filler as far inside the cut as it is inside the filler, which goes past the cut
  where the filler is the longer.  A second cut beside it gets no span in the original, or the
  span of other audio: what it took is off the air and in no list, though the docstring at
  `audio_processor.py:281` says the list holds the cuts applied.
* **Two failed probes.**  `docs/failover.md` says two consecutive failed probes trigger a
  failover.  A transition of *any* target calls `invalidate_provider_cache`, which renews
  `provider_config_revision`; that is part of every LLM target's configuration, so a
  transition of the transcriber in between starts the count again.  Conversely, settings
  changed and changed back take the old count up again (`TripsInTheEnd` holds: in the end
  the count is reached).
* **Markers of a failed run.**  `CHANGELOG.md` says a failed or cancelled run leaves no new
  markers beside the old audio. `Tears` in `EpisodeFiles` lists where it does: a requested
  recut cancelled at its last ownership check, an exception after the row was written and
  before the run notes it, an own recut published and then cancelled, a requested rerun,
  whose start cleared the markers it would put back, and the leader's death.
* **The stamp's windows.**  A decision stamped in the second a run began in, between the
  run's row and its clear, or beside a chapter rebuild is cleared without having been
  applied (`exposed` in `EpisodeFiles`).
* **Retention.**  `cleanup_old_episodes` does not mark the episodes it has selected; a run
  admitted between its selection and its reset loses its files, or is reset after it
  published.  `clear_episode_deletion_requests` takes away the mark of another deletion.
  Both are `raced` in `EpisodeFiles`, and no property speaks after them.
* **Free admission.**  `docs/security-and-storage.md:130` says that with unknown costs
  allowed a run is admitted without a reservation; `reserve_provider_spend` inserts one of
  amount 0, which takes a slot, for up to two hours after a crash.

`SweepsSpareRuns` has a limit that is no disagreement with a document: with a play or a
reprocess that starts a run between a sweep's read and its write the sweep resets the row of
a live run; the run instance has no such request.

## 6. What is abstracted, and what is not modelled

In `ProcessingLease`: heartbeats (read only for a warning), `clear_all` (a helper of the
tests), read-only queries, and a failed recovery transaction (it rolls back, a stutter).
Rows are deleted and marked in any order.

In `EpisodeRun`:

* pause, deletion, uploads and row insertion stay as they begin: their effect on admission
  is the lease module's subject.  An `acquire` refused for capacity or a duplicate is
  modelled;
* which worker serves a request is not tracked: `AskPasses` needs some leader, and
  `AskQueues` is the follower's refusal as well as any other.  A handler survives the death of
  the leader, as one on another worker does;
* reprocess modes are not told apart: they choose what the pipeline recomputes
  (`EpisodeFiles` tells them apart).  The batch routes repeat the single one;
* the hold is one flag for all accounts.  A run may set it, and so may others (`OtherHolds`);
* play cooldown, HEAD requests and feed filters decide only *when* a request arrives or a gate
  skips; both stay open.  A local feed's play stamps `reprocess_requested_at` a
  transaction earlier than modelled;
* `RunRequeues` and `RunQueuesRerun` join two adjacent writes of one thread;
* `RowAges` does not fire while a dispatcher has the claim in hand, nor `StatusAges` while a
  request is in flight: both ages are at least half an hour, the steps they would race
  take milliseconds;
* left out: the SponsorBlock step-aside of a run, a waiter thread that cannot be started, an
  exception inside `_run_claimed_episode`, and database errors other than those `RunGivesUp` and
  `ReleaseFails` stand for.

In `UploadPublication`: the empty file `mkstemp` makes before its name is recorded; the
job's report file, which the status route may read while it is replaced; chapters and
artwork; the wide legacy ids an import replaces; `delete_processed_file` and
`remove_episode_artwork` inside the transaction, which a rollback does not undo; imports
from a directory other than staging; the pre-check of the staging routes on the job's
status.  A target whose file a recovery took wrongly (`strayed`) is left out of the other
properties, and an episode where it left an import's file (`stranded`) may have audio and no
row.

In `EpisodeFiles`: one episode, one run of it at a time, a transcript and a retained original
always there; the degraded re-detect; edits of single markers; the chapters file and
transcripts; the pass-through of an episode without ads. A requested rerun comes only while no
run is active; the route refuses only the status `processing` (`api/episodes/runs.py:1148`),
and what a request does that arrives in the seconds before a run has written it is
`EpisodeRun`'s subject. A rerun for a low yield is always `llm`, as in the code. The recovery
of a dead leader is one step with its death.

In `Failover`: what a probe sends; the bump of `provider_config_revision` is one step
(`llm_client.py:453-468` reads and then writes; of two at once one may be lost, which leaves a
value that differs from the one before all the same); claim and capture are one step (a move
between them is seen like one before the claim); the outcome of local transcriptions and the
`deferred` probe end a probe like any other abandonment; the comparison of `observed_at` with
`since`, which the generation check implies; probe requests handed to the leader, the age of a
cached verdict, probes of the standby providers, disabling the secondary provider; the circuit
breaker, events and webhooks.

In `ProviderBudget`: the pipeline gives no estimate, so the amount is the one for unknown
costs; the branch of `_settle_provider_reservations` that releases is unreachable
(`provider_attempted` is set right after reserving) and left out; limits do not change; what a
standby provider costs after a failover in mid-run is charged to no reservation; rows and
prices of the ledger are three numbers per run and provider, and a call is finalized when it
ends. Costs count for the day of the reservation, as in the code. After a crash the
reservation of a dead run keeps its slot for up to two hours, and its estimate stays charged
on every later day until somebody settles it (`docs/configuration.md:271`).

In `CutTimeline`: stream copy, fades, encoding and levels; markers and their `was_cut`;
splitting, gating and review of what the second pass found before it reaches `Candidates`, and
pins on it; quote and word pins, which are taken for reviewer locks; rounding of chapter
starts, the minimum length of a chapter other than none, the one-second floor; cuts saved
before replacement durations were recorded; holds that a second pass adds. A merged cut keeps
the trust of all of its members, where the code does not hand on that of a cue match that
comes later (`audio_processor.py:354-359`): short cuts the code drops may be applied in the
model. A second pass with a plan always renders from the original; the code cuts the processed
file again when the original is gone (`verify.py:1119-1135`). `TimelineIsExact` is late by
`Eaten` ticks after a second render that cut into a filler of the first, and `FirmEdgesHold`
excuses a request whose edge coincides with that of another: the lock of the later one is
dropped when it does not reach further.

**Not modelled**, with the reason in `PROJECT.json`: detection (a transcript and some model
calls in, spans out; most of the repository's lines, with its prompts, parsers and
heuristics), audio and transcription (external programs), patterns, sponsors and community
data (catalogue data read once a run), the LLM clients (one request, its retries and
parsing), settings and the other API routes (one write each), statistics, e-mail, webhooks,
feed parsing and caches, the YouTube watcher, the schema's migrations, status display and
run logs (nothing reads them back), the maintenance lock, the front end, benchmarks.  They
are single-actor code whose hard part is data, formats or external behaviour; this is also
why the modelled share of the implementation's lines is small: the protocols between actors,
which the modules do cover, are a few thousand lines of it.

## 7. Plan

Done, the most important behaviour first:

1. `SlotPool`, `ProcessingLease`; `EpisodeQueue`, `EpisodeRun`; their runs and proofs.
2. `UploadPublication`: the life of a reservation with its files.
3. `EpisodeFiles`: versions, markers, decisions, deletion and retention.
4. `StandbySwitch`, `Failover`; `ProviderBudget`; their proofs.
5. `CutTimeline`.

6. The proofs about `UploadPublication` and `EpisodeFiles`, the action properties of
   `EpisodeRun`, and the daily limit of `ProviderBudget`.

7. `CutTimeline`: types, that the list of cuts says what the file plays, firm edges, and that
   kept and held audio stays on the air.

Next, more proofs:

8. The rest of `CutTimeline`: `TimelineIsExact` and `ChaptersFollow`, from `AdjustOver`; and
   the lemmas about `SwitchSpec` that a reader would ask for: a manual failover ends only
   manually.

And, as runs of their own: `EpisodeRun` with two slots, where a waiter polls a later run's
status, and with requests across a restart; the order of the feed deletion's waits;
rate-limit holds per account.

## 8. Running it

    tlc -workers 2 -config run_control.cfg MC_EpisodeRun.tla
    tlapm ProcessingLease_proofs.tla

| configurations | module |
|---|---|
| `lease_*.cfg` | `MC_ProcessingLease.tla` |
| `run_*.cfg` | `MC_EpisodeRun.tla` |
| `upload_*.cfg` | `MC_UploadPublication.tla` |
| `files_*.cfg` | `MC_EpisodeFiles.tla` |
| `failover_probes.cfg` | `MC_Failover.tla` |
| `budget_*.cfg` | `MC_ProviderBudget.tla` |
| `cut_*.cfg` | `MC_CutTimeline.tla` |

Expect up to three minutes for a run.  `run_dead_owner.cfg`, `budget_lost_call.cfg`,
`cut_overlap.cfg`, `cut_edges.cfg` and `cut_filler.cfg` find the violations section 5 describes.  Definitions named `Mut_X` are
mutated forms of `X`, kept beside it: with the mutant in the place of `X` the property
`PROJECT.json` names must fail, which is how the properties are tested.
