------------------------ MODULE ProcessingLease_proofs -------------------------
(***************************************************************************)
(* The safety of the processing lease for any number of podcasts,          *)
(* episodes, processes, runs and slots.  The inductive invariant LeaseInv  *)
(* adds to the checked invariants that a live thread's lease is active or  *)
(* was deleted with its feed, and that its owner lives (ThreadLease).      *)
(*                                                                         *)
(* Every action but an admitted acquire can only take runs out of the      *)
(* active set (Shrinking); the three exclusion invariants follow from that *)
(* fact and from the one admission.                                        *)
(***************************************************************************)
EXTENDS ProcessingLease, FiniteSetTheorems, TLAPS

\* A live thread belongs to a live process and holds an active lease, or one
\* that went with its feed.
ThreadLease ==
  \A r \in Runs : thread[r] =>
    Alive(runOwner[r]) /\ (Active(r) \/ runState[r] = "gone")

\* The cascade leaves no active run without its podcast, so the orphan branch of
\* the recovery never fires under enforced foreign keys.
NoOrphans == \A r \in Runs : Active(r) => ~Orphaned(r)

LeaseInv ==
  /\ LeaseTypeOK
  /\ NoOrphans
  /\ OneRunPerEpisode
  /\ SlotBound
  /\ ThreadLease
  /\ UploadExclusive

\* No run becomes active, and the runs keep their episodes.
Shrinking == ActiveRuns' \subseteq ActiveRuns /\ runEp' = runEp

SomeAdmission ==
  \E p \in Procs, e \in Episodes, n \in Slots, r \in Runs : AcquireAdmitted(p, e, n, r)

-----------------------------------------------------------------------------
\* Recovery only moves active runs to interrupted.
LEMMA ReconciledFacts ==
  ASSUME LeaseTypeOK
  PROVE  /\ Reconciled \in [Runs -> RunStates]
         /\ \A r \in Runs : Reconciled[r] # runState[r] =>
              Active(r) /\ Reconciled[r] = "interrupted"
         /\ \A r \in Runs : Reconciled[r] # runState[r] =>
              ~Alive(runOwner[r]) \/ Orphaned(r)
         /\ ActiveAfter(Reconciled) \subseteq ActiveRuns
  BY DEF LeaseTypeOK, Reconciled, RunStates, ActiveStates, Active, ActiveRuns, ActiveAfter,
         OwnerProvenDead

\* Every step keeps the types.
LEMMA LeaseTypes ==
  ASSUME LeaseTypeOK, [LeaseNext]_leaseVars
  PROVE  LeaseTypeOK'
<1> USE LeaseAssumption DEF LeaseTypeOK, RunStates
<1>1. CASE RunNext
  <2>1. ASSUME NEW p \in Procs, NEW e \in Episodes, NEW n \in Slots, NEW r \in Runs,
               AcquireAdmitted(p, e, n, r)
        PROVE  LeaseTypeOK'
    BY <2>1, ReconciledFacts DEF AcquireAdmitted, ActiveStates, Active
  <2>2. ASSUME NEW p \in Procs, NEW e \in Episodes, NEW n \in Slots, AcquireRefused(p, e, n)
        PROVE  LeaseTypeOK'
    BY <2>2, ReconciledFacts DEF AcquireRefused, ActiveStates, Active
  <2>3. ASSUME NEW r \in Runs, RequestCancellation(r) PROVE LeaseTypeOK'
    BY <2>3 DEF RequestCancellation, Active, ActiveStates
  <2>4. ASSUME NEW r \in Runs, NEW t \in {"finished", "interrupted"}, Release(r, t)
        PROVE  LeaseTypeOK'
    BY <2>4 DEF Release, Active, ActiveStates
  <2>5. ASSUME NEW r \in Runs, ReleaseFails(r) PROVE LeaseTypeOK'
    BY <2>5 DEF ReleaseFails
  <2> QED BY <1>1, <2>1, <2>2, <2>3, <2>4, <2>5 DEF RunNext
<1>2. CASE ProcNext
  <2>1. ASSUME NEW p \in Procs, BootLeader(p) PROVE LeaseTypeOK'
    BY <2>1, ReconciledFacts DEF BootLeader, Active, ActiveStates
  <2>2. ASSUME NEW p \in Procs, BootFollower(p) \/ BeginShutdown(p) \/ DrainEnds(p)
        PROVE  LeaseTypeOK'
    BY <2>2 DEF BootFollower, BeginShutdown, DrainEnds
  <2>3. ASSUME NEW p \in Procs, Die(p) PROVE LeaseTypeOK'
    BY <2>3 DEF Die
  <2>4. ASSUME NEW b \in BOOLEAN, SetPaused(b) PROVE LeaseTypeOK'
    BY <2>4 DEF SetPaused
  <2> QED BY <1>2, <2>1, <2>2, <2>3, <2>4 DEF ProcNext
<1>3. CASE UploadNext
  <2>1. ASSUME NEW p \in Procs, ReapUploads(p) PROVE LeaseTypeOK'
    BY <2>1 DEF ReapUploads
  <2>2. ASSUME NEW p \in Procs, NEW e \in Episodes, ReserveUpload(p, e) \/ ReserveNextUpload(p, e)
        PROVE  LeaseTypeOK'
    BY <2>2 DEF ReserveUpload, ReserveNextUpload
  <2>3. ASSUME NEW e \in Episodes, NEW b \in BOOLEAN, FinishUpload(e, b) PROVE LeaseTypeOK'
    BY <2>3 DEF FinishUpload
  <2> QED BY <1>3, <2>1, <2>2, <2>3 DEF UploadNext
<1>4. CASE RowNext
  <2>1. ASSUME NEW e \in Episodes,
               InsertEpisode(e) \/ MarkEpisode(e) \/ ClearEpisodeMark(e) \/ DropEpisode(e)
        PROVE  LeaseTypeOK'
    BY <2>1 DEF InsertEpisode, MarkEpisode, ClearEpisodeMark, DropEpisode
  <2>2. ASSUME NEW f \in Podcasts, MarkFeed(f) \/ ClearFeedMark(f) \/ AddFeed(f)
        PROVE  LeaseTypeOK'
    BY <2>2 DEF MarkFeed, ClearFeedMark, AddFeed
  <2>3. ASSUME NEW f \in Podcasts, DropFeed(f) PROVE LeaseTypeOK'
    BY <2>3 DEF DropFeed
  <2> QED BY <1>4, <2>1, <2>2, <2>3 DEF RowNext
<1>5. CASE UNCHANGED leaseVars
  BY <1>5 DEF leaseVars
<1> QED BY <1>1, <1>2, <1>3, <1>4, <1>5 DEF LeaseNext

\* Whatever is not an admission leaves no new run active.
LEMMA OthersShrink ==
  ASSUME LeaseTypeOK, [LeaseNext]_leaseVars, ~SomeAdmission
  PROVE  Shrinking
<1> USE DEF Shrinking, ActiveRuns, Active, ActiveStates
<1>1. CASE RunNext
  <2>1. ASSUME NEW p \in Procs, NEW e \in Episodes, NEW n \in Slots, AcquireRefused(p, e, n)
        PROVE  Shrinking
    BY <2>1, ReconciledFacts DEF AcquireRefused
  <2>2. ASSUME NEW r \in Runs, RequestCancellation(r) PROVE Shrinking
    BY <2>2 DEF RequestCancellation, LeaseTypeOK
  <2>3. ASSUME NEW r \in Runs, NEW t \in {"finished", "interrupted"}, Release(r, t)
        PROVE  Shrinking
    BY <2>3 DEF Release, LeaseTypeOK
  <2>4. ASSUME NEW r \in Runs, ReleaseFails(r) PROVE Shrinking
    BY <2>4 DEF ReleaseFails
  <2> QED BY <1>1, <2>1, <2>2, <2>3, <2>4 DEF RunNext, SomeAdmission
<1>2. CASE ProcNext
  <2>1. ASSUME NEW p \in Procs, BootLeader(p) PROVE Shrinking
    BY <2>1, ReconciledFacts DEF BootLeader
  <2>2. ASSUME NEW p \in Procs,
               BootFollower(p) \/ BeginShutdown(p) \/ DrainEnds(p) \/ Die(p)
        PROVE  Shrinking
    BY <2>2 DEF BootFollower, BeginShutdown, DrainEnds, Die
  <2>3. ASSUME NEW b \in BOOLEAN, SetPaused(b) PROVE Shrinking
    BY <2>3 DEF SetPaused
  <2> QED BY <1>2, <2>1, <2>2, <2>3 DEF ProcNext
<1>3. CASE UploadNext
  BY <1>3 DEF UploadNext, ReapUploads, ReserveUpload, ReserveNextUpload, FinishUpload
<1>4. CASE RowNext
  <2>1. ASSUME NEW f \in Podcasts, DropFeed(f) PROVE Shrinking
    BY <2>1 DEF DropFeed
  <2> QED
    BY <1>4, <2>1 DEF RowNext, InsertEpisode, MarkEpisode, ClearEpisodeMark, DropEpisode,
       MarkFeed, ClearFeedMark, AddFeed
<1>5. CASE UNCHANGED leaseVars
  BY <1>5 DEF leaseVars
<1> QED BY <1>1, <1>2, <1>3, <1>4, <1>5 DEF LeaseNext

\* An admission adds one run to those that recovery leaves.
LEMMA AdmissionAdds ==
  ASSUME LeaseTypeOK,
         NEW p \in Procs, NEW e \in Episodes, NEW n \in Slots, NEW r \in Runs,
         AcquireAdmitted(p, e, n, r)
  PROVE  /\ ActiveRuns' = ActiveAfter(Reconciled) \cup {r}
         /\ ActiveAfter(Reconciled) \subseteq ActiveRuns
         /\ r \notin ActiveRuns
         /\ runEp'[r] = e
         /\ \A q \in Runs \ {r} : runEp'[q] = runEp[q]
BY ReconciledFacts
   DEF AcquireAdmitted, LeaseTypeOK, ActiveRuns, Active, ActiveStates, ActiveAfter

-----------------------------------------------------------------------------
\* The lease of an episode stays exclusive.
LEMMA OneRunStep ==
  ASSUME LeaseTypeOK, OneRunPerEpisode, [LeaseNext]_leaseVars
  PROVE  OneRunPerEpisode'
<1>1. CASE SomeAdmission
  <2>1. PICK p \in Procs, e \in Episodes, n \in Slots, r \in Runs :
          AcquireAdmitted(p, e, n, r)
    BY <1>1 DEF SomeAdmission
  <2>2. \A q \in ActiveAfter(Reconciled) : runEp[q] # e
    BY <2>1 DEF AcquireAdmitted, Duplicate
  <2>3. ActiveRuns \subseteq Runs
    BY DEF ActiveRuns
  <2> QED BY <2>1, <2>2, <2>3, AdmissionAdds DEF OneRunPerEpisode
<1>2. CASE ~SomeAdmission
  BY <1>2, OthersShrink DEF OneRunPerEpisode, Shrinking
<1> QED BY <1>1, <1>2

\* An admission is only made below the limit, and the limit below MaxSlots.
LEMMA SlotStep ==
  ASSUME LeaseTypeOK, SlotBound, [LeaseNext]_leaseVars
  PROVE  SlotBound'
<1>1. IsFiniteSet(ActiveRuns) /\ Cardinality(ActiveRuns) \in Nat
  <2>1. ActiveRuns \in SUBSET Runs
    BY DEF ActiveRuns
  <2> QED BY <2>1, LeaseAssumption, FS_Subset, FS_CardinalityType
<1>2. CASE SomeAdmission
  <2>1. PICK p \in Procs, e \in Episodes, n \in Slots, r \in Runs :
          AcquireAdmitted(p, e, n, r)
    BY <1>2 DEF SomeAdmission
  <2> DEFINE S == ActiveAfter(Reconciled)
  <2>2. S \in SUBSET ActiveRuns /\ ActiveRuns' = S \cup {r} /\ r \notin S
    BY <2>1, AdmissionAdds
  <2>3. IsFiniteSet(S) /\ Cardinality(S) \in Nat
    BY <1>1, <2>2, FS_Subset, FS_CardinalityType
  <2>4. Cardinality(ActiveRuns') = Cardinality(S) + 1
    <3> HIDE DEF S
    <3> QED BY <2>2, <2>3, FS_AddElement
  <2>5. Cardinality(S) < Limit(n)
    <3>1. ~(Cardinality(S) >= Limit(n))
      BY <2>1 DEF AcquireAdmitted, Full
    <3>2. Limit(n) \in Int
      BY LeaseAssumption DEF Limit
    <3> HIDE DEF S
    <3> QED BY <2>3, <3>1, <3>2
  <2>6. Limit(n) \in Int /\ Limit(n) <= MaxSlots
    BY LeaseAssumption DEF Limit
  <2> HIDE DEF S
  <2> QED BY <2>3, <2>4, <2>5, <2>6, LeaseAssumption DEF SlotBound
<1>3. CASE ~SomeAdmission
  <2>1. ActiveRuns' \in SUBSET ActiveRuns
    BY <1>3, OthersShrink DEF Shrinking
  <2>2. Cardinality(ActiveRuns') <= Cardinality(ActiveRuns) /\ IsFiniteSet(ActiveRuns')
    BY <1>1, <2>1, FS_Subset
  <2>3. Cardinality(ActiveRuns') \in Nat
    BY <2>2, FS_CardinalityType
  <2> QED BY <1>1, <2>2, <2>3, LeaseAssumption DEF SlotBound
<1> QED BY <1>2, <1>3

\* A podcast row goes only together with the runs of its episodes.
LEMMA OrphanStep ==
  ASSUME LeaseTypeOK, NoOrphans, [LeaseNext]_leaseVars
  PROVE  NoOrphans'
<1> USE LeaseAssumption DEF NoOrphans, Orphaned
<1>1. CASE SomeAdmission
  <2>1. PICK p \in Procs, e \in Episodes, n \in Slots, r \in Runs :
          AcquireAdmitted(p, e, n, r)
    BY <1>1 DEF SomeAdmission
  <2>2. ActiveRuns' \subseteq ActiveRuns \cup {r}
    <3>1. ActiveAfter(Reconciled) \subseteq ActiveRuns
      BY ReconciledFacts
    <3>2. ActiveRuns' = ActiveAfter(Reconciled) \cup {r}
      BY <2>1, AdmissionAdds
    <3> QED BY <3>1, <3>2
  <2>3. podcast' = podcast /\ podcast[PodcastOf[e]] = "present"
    BY <2>1 DEF AcquireAdmitted, MayAsk
  <2> QED BY <2>1, <2>2, <2>3, AdmissionAdds DEF ActiveRuns
<1>2. CASE ~SomeAdmission
  <2>1. ActiveRuns' \subseteq ActiveRuns /\ runEp' = runEp
    BY <1>2, OthersShrink DEF Shrinking
  <2>2. CASE \E f \in Podcasts : DropFeed(f)
    <3>1. PICK f \in Podcasts : DropFeed(f)
      BY <2>2
    <3>2. ASSUME NEW r \in Runs, Active(r)' PROVE ~Orphaned(r)'
      <4>1. Active(r) /\ runEp[r] \in Episodes
        BY <2>1, <3>2 DEF ActiveRuns, LeaseTypeOK, Active, ActiveStates
      <4>2. PodcastOf[runEp[r]] # f
        BY <3>1, <3>2, <4>1 DEF DropFeed, Active, ActiveStates, LeaseTypeOK
      <4> QED BY <2>1, <3>1, <4>1, <4>2 DEF DropFeed, LeaseTypeOK
    <3> QED BY <3>2
  <2>3. CASE ~\E f \in Podcasts : DropFeed(f)
    <3>1. \A f \in Podcasts : podcast'[f] = "gone" => podcast[f] = "gone"
      BY <1>2, <2>3 DEF LeaseNext, RunNext, ProcNext, UploadNext, RowNext, SomeAdmission,
         AcquireRefused, RequestCancellation, Release, ReleaseFails, BootLeader,
         BootFollower, BeginShutdown, DrainEnds, Die, SetPaused, ReapUploads,
         ReserveUpload, ReserveNextUpload, FinishUpload, InsertEpisode, MarkEpisode,
         ClearEpisodeMark, DropEpisode, MarkFeed, ClearFeedMark, AddFeed, leaseVars,
         LeaseTypeOK
    <3>2. \A r \in Runs : Active(r) => PodcastOf[runEp[r]] \in Podcasts
      BY DEF LeaseTypeOK, Active, ActiveStates
    <3> QED BY <2>1, <3>1, <3>2 DEF ActiveRuns
  <2> QED BY <2>2, <2>3
<1> QED BY <1>1, <1>2

\* Only the death of its owner takes a lease from a thread, and the thread dies
\* with it; a feed's cascade marks the lease as gone.
LEMMA ThreadLeaseStep ==
  ASSUME LeaseTypeOK, NoOrphans, ThreadLease, [LeaseNext]_leaseVars
  PROVE  ThreadLease'
<1> USE DEF ThreadLease, Active, ActiveStates, Alive
<1>0. \A r \in Runs : thread[r] => Reconciled[r] = runState[r]
  BY ReconciledFacts DEF NoOrphans
<1>1. CASE RunNext
  <2>1. ASSUME NEW p \in Procs, NEW e \in Episodes, NEW n \in Slots, NEW r \in Runs,
               AcquireAdmitted(p, e, n, r)
        PROVE  ThreadLease'
    BY <1>0, <2>1, ReconciledFacts DEF AcquireAdmitted, MayAsk, LeaseTypeOK
  <2>2. ASSUME NEW p \in Procs, NEW e \in Episodes, NEW n \in Slots, AcquireRefused(p, e, n)
        PROVE  ThreadLease'
    BY <1>0, <2>2 DEF AcquireRefused
  <2>3. ASSUME NEW r \in Runs, RequestCancellation(r) PROVE ThreadLease'
    BY <2>3 DEF RequestCancellation, LeaseTypeOK
  <2>4. ASSUME NEW r \in Runs, NEW t \in {"finished", "interrupted"}, Release(r, t)
        PROVE  ThreadLease'
    BY <2>4 DEF Release, LeaseTypeOK
  <2>5. ASSUME NEW r \in Runs, ReleaseFails(r) PROVE ThreadLease'
    BY <2>5 DEF ReleaseFails, LeaseTypeOK
  <2> QED BY <1>1, <2>1, <2>2, <2>3, <2>4, <2>5 DEF RunNext
<1>2. CASE ProcNext
  <2>1. ASSUME NEW p \in Procs, BootLeader(p) PROVE ThreadLease'
    BY <1>0, <2>1 DEF BootLeader, LeaseTypeOK
  <2>2. ASSUME NEW p \in Procs, BootFollower(p) \/ BeginShutdown(p) \/ DrainEnds(p)
        PROVE  ThreadLease'
    BY <2>2 DEF BootFollower, BeginShutdown, DrainEnds, LeaseTypeOK
  <2>3. ASSUME NEW p \in Procs, Die(p) PROVE ThreadLease'
    BY <2>3 DEF Die, LeaseTypeOK
  <2>4. ASSUME NEW b \in BOOLEAN, SetPaused(b) PROVE ThreadLease'
    BY <2>4 DEF SetPaused
  <2> QED BY <1>2, <2>1, <2>2, <2>3, <2>4 DEF ProcNext
<1>3. CASE UploadNext
  BY <1>3 DEF UploadNext, ReapUploads, ReserveUpload, ReserveNextUpload, FinishUpload
<1>4. CASE RowNext
  <2>1. ASSUME NEW f \in Podcasts, DropFeed(f) PROVE ThreadLease'
    BY <2>1 DEF DropFeed, LeaseTypeOK
  <2> QED
    BY <1>4, <2>1 DEF RowNext, InsertEpisode, MarkEpisode, ClearEpisodeMark, DropEpisode,
       MarkFeed, ClearFeedMark, AddFeed
<1>5. CASE UNCHANGED leaseVars
  BY <1>5 DEF leaseVars
<1> QED BY <1>1, <1>2, <1>3, <1>4, <1>5 DEF LeaseNext

\* Each of the two admissions looks at what the other one writes.
LEMMA UploadStep ==
  ASSUME LeaseTypeOK, UploadExclusive, [LeaseNext]_leaseVars
  PROVE  UploadExclusive'
<1> USE DEF UploadExclusive
<1>1. CASE SomeAdmission
  <2>1. PICK p \in Procs, e \in Episodes, n \in Slots, r \in Runs :
          AcquireAdmitted(p, e, n, r)
    BY <1>1 DEF SomeAdmission
  <2>2. upload' = upload /\ upload[e] = NoProc
    BY <2>1 DEF AcquireAdmitted, Blocked
  <2>3. ActiveRuns \subseteq Runs
    BY DEF ActiveRuns
  <2> QED BY <2>1, <2>2, <2>3, AdmissionAdds
<1>2. CASE ~SomeAdmission
  <2>1. ActiveRuns' \subseteq ActiveRuns /\ runEp' = runEp
    BY <1>2, OthersShrink DEF Shrinking
  <2>2. CASE \E p \in Procs, e \in Episodes : ReserveUpload(p, e)
    BY <2>1, <2>2 DEF ReserveUpload, LeaseTypeOK
  <2>3. CASE \E p \in Procs, e \in Episodes : ReserveNextUpload(p, e)
    BY <2>1, <2>3 DEF ReserveNextUpload, LeaseTypeOK
  <2>4. CASE ~\E p \in Procs, e \in Episodes : ReserveUpload(p, e) \/ ReserveNextUpload(p, e)
    <3>1. \A e \in Episodes : upload'[e] # NoProc => upload[e] # NoProc
      BY <1>2, <2>4 DEF LeaseNext, RunNext, ProcNext, UploadNext, RowNext, SomeAdmission,
         AcquireRefused, RequestCancellation, Release, ReleaseFails, BootLeader,
         BootFollower, BeginShutdown, DrainEnds, Die, SetPaused, ReapUploads,
         FinishUpload, InsertEpisode, MarkEpisode, ClearEpisodeMark, DropEpisode,
         MarkFeed, ClearFeedMark, DropFeed, AddFeed, leaseVars, LeaseTypeOK
    <3> QED BY <2>1, <3>1
  <2> QED BY <2>2, <2>3, <2>4
<1> QED BY <1>1, <1>2

-----------------------------------------------------------------------------
\* LeaseInv holds in every behaviour of the lease.
LEMMA LeaseInvariant == LeaseSpec => []LeaseInv
<1>1. LeaseInit => LeaseInv
  <2> SUFFICES ASSUME LeaseInit PROVE LeaseInv
    OBVIOUS
  <2>1. ActiveRuns = {}
    BY DEF LeaseInit, ActiveRuns, Active, ActiveStates
  <2>2. LeaseTypeOK
    BY LeaseAssumption DEF LeaseInit, LeaseTypeOK, RunStates
  <2>3. SlotBound
    BY <2>1, FS_EmptySet, LeaseAssumption DEF SlotBound
  <2>4. NoOrphans /\ OneRunPerEpisode /\ ThreadLease /\ UploadExclusive
    BY <2>1 DEF LeaseInit, NoOrphans, OneRunPerEpisode, ThreadLease, UploadExclusive, ActiveRuns
  <2> QED BY <2>2, <2>3, <2>4 DEF LeaseInv
<1>2. LeaseInv /\ [LeaseNext]_leaseVars => LeaseInv'
  BY LeaseTypes, OrphanStep, OneRunStep, SlotStep, ThreadLeaseStep, UploadStep DEF LeaseInv
<1> QED BY <1>1, <1>2, PTL DEF LeaseSpec

\* The lease table keeps its types and links.
THEOREM LeaseTypeCorrect == LeaseSpec => []LeaseTypeOK
BY LeaseInvariant, PTL DEF LeaseInv

\* At most one active run per episode, for any number of processes and crashes.
THEOREM LeaseIsExclusive == LeaseSpec => []OneRunPerEpisode
BY LeaseInvariant, PTL DEF LeaseInv

\* The pool of slots never overflows, whatever max_episodes is changed to.
THEOREM LeaseBoundsSlots == LeaseSpec => []SlotBound
BY LeaseInvariant, PTL DEF LeaseInv

\* An explicit upload and a run never share an episode.
THEOREM LeaseExcludesUploads == LeaseSpec => []UploadExclusive
BY LeaseInvariant, PTL DEF LeaseInv

\* Two live threads share an episode only across the deletion of its feed.
THEOREM LeaseSeparatesThreads == LeaseSpec => []ThreadsExclusive
<1>1. LeaseInv => ThreadsExclusive
  BY DEF LeaseInv, ThreadLease, OneRunPerEpisode, ThreadsExclusive, ActiveRuns
<1> QED BY <1>1, LeaseInvariant, PTL

-----------------------------------------------------------------------------
(* Refinement: every step of the lease is a step of the slot pool, or leaves *)
(* its variables alone.                                                      *)

\* Admission: the recovered runs are dropped in the step that admits r.
LEMMA AdmissionRefines ==
  ASSUME LeaseTypeOK,
         NEW p \in Procs, NEW e \in Episodes, NEW n \in Slots, NEW r \in Runs,
         AcquireAdmitted(p, e, n, r)
  PROVE  Pool!PoolNext
<1> DEFINE S == ActiveAfter(Reconciled)
           D == ActiveRuns \ S
<1>1. Pool!Holders = ActiveRuns
  BY LeaseAssumption DEF Pool!Holders, ActiveRuns, LeaseTypeOK, Active, ActiveStates
<1>2. S \subseteq ActiveRuns /\ ActiveRuns' = S \cup {r} /\ r \notin ActiveRuns
  BY AdmissionAdds
<1>3. D \in SUBSET Pool!Holders /\ Pool!Holders \ D = S
  BY <1>1, <1>2
<1>4. r \notin {q \in Runs : runState[q] # "unused"}
  BY DEF AcquireAdmitted
<1>5. \A u \in S : IF Active(u) THEN runEp[u] # e ELSE NoEpisode # e
  BY <1>2 DEF AcquireAdmitted, Duplicate, ActiveRuns
<1>6. Cardinality(S) < MaxSlots
  <2>1. IsFiniteSet(S)
    <3>1. S \in SUBSET Runs
      BY DEF ActiveAfter
    <3> QED BY <3>1, LeaseAssumption, FS_Subset
  <2>2. Cardinality(S) \in Nat
    BY <2>1, FS_CardinalityType
  <2>3. ~(Cardinality(S) >= Limit(n))
    BY DEF AcquireAdmitted, Full
  <2>4. Limit(n) \in Int /\ Limit(n) <= MaxSlots
    BY LeaseAssumption DEF Limit
  <2> HIDE DEF S
  <2> QED BY <2>2, <2>3, <2>4, LeaseAssumption
<1>7. [q \in Runs |-> IF Active(q) THEN runEp[q] ELSE NoEpisode]' =
        [u \in Runs |-> IF u = r THEN e ELSE IF u \in D THEN NoEpisode
                         ELSE IF Active(u) THEN runEp[u] ELSE NoEpisode]
  <2>1. ASSUME NEW u \in Runs
        PROVE  (IF Active(u) THEN runEp[u] ELSE NoEpisode)' =
               IF u = r THEN e ELSE IF u \in D THEN NoEpisode
               ELSE IF Active(u) THEN runEp[u] ELSE NoEpisode
    <3>1. Active(u)' <=> u \in ActiveRuns'
      BY DEF ActiveRuns
    <3>2. Active(u) <=> u \in ActiveRuns
      BY DEF ActiveRuns
    <3>3. runEp'[r] = e /\ (u # r => runEp'[u] = runEp[u])
      BY AdmissionAdds
    <3> HIDE DEF S
    <3> QED BY <1>2, <3>1, <3>2, <3>3
  <2> HIDE DEF D
  <2> QED BY <2>1
<1>8. {q \in Runs : runState[q] # "unused"}' = {q \in Runs : runState[q] # "unused"} \cup {r}
  BY ReconciledFacts DEF AcquireAdmitted, LeaseTypeOK, Active, ActiveStates
<1>9. \A u \in S : [q \in Runs |-> IF Active(q) THEN runEp[q] ELSE NoEpisode][u] # e
  <2>1. S \subseteq Runs
    BY DEF ActiveAfter
  <2> HIDE DEF S
  <2> QED BY <1>5, <2>1
<1>10. Pool!Admit(r, e, D)
  <2>1. Pool!Cardinality(S) = Cardinality(S)
    BY DEF Pool!Cardinality, Cardinality, Pool!IsFiniteSet, IsFiniteSet
  <2> HIDE DEF D, S
  <2> QED BY <1>3, <1>4, <1>6, <1>7, <1>8, <1>9, <2>1 DEF Pool!Admit
<1> QED
  <2>1. \E t \in Runs, k \in Episodes : Pool!Admit(t, k, D)
    BY <1>10
  <2> HIDE DEF D
  <2> QED BY ONLY <1>3, <2>1 DEF Pool!PoolNext, Pool!Admit, Pool!Drop, Pool!Holders

\* Every other step hands out no run id.
LEMMA OthersSpendNothing ==
  ASSUME LeaseTypeOK, [LeaseNext]_leaseVars, ~SomeAdmission
  PROVE  \A r \in Runs : runState'[r] = "unused" <=> runState[r] = "unused"
<1> USE DEF LeaseTypeOK, Active, ActiveStates
<1>1. CASE RunNext
  BY <1>1, ReconciledFacts DEF RunNext, SomeAdmission, AcquireRefused, RequestCancellation,
     Release, ReleaseFails
<1>2. CASE ProcNext
  BY <1>2, ReconciledFacts DEF ProcNext, BootLeader, BootFollower, BeginShutdown, DrainEnds,
     Die, SetPaused
<1>3. CASE UploadNext
  BY <1>3 DEF UploadNext, ReapUploads, ReserveUpload, ReserveNextUpload, FinishUpload
<1>4. CASE RowNext
  <2>1. ASSUME NEW f \in Podcasts, DropFeed(f)
        PROVE  \A r \in Runs : runState'[r] = "unused" <=> runState[r] = "unused"
    BY <2>1, LeaseAssumption DEF DropFeed
  <2> QED
    BY <1>4, <2>1 DEF RowNext, InsertEpisode, MarkEpisode, ClearEpisodeMark, DropEpisode,
       MarkFeed, ClearFeedMark, AddFeed
<1>5. CASE UNCHANGED leaseVars
  BY <1>5 DEF leaseVars
<1> QED BY <1>1, <1>2, <1>3, <1>4, <1>5 DEF LeaseNext

\* A step without an admission gives slots back, perhaps none.
LEMMA OthersRefine ==
  ASSUME LeaseTypeOK, [LeaseNext]_leaseVars, ~SomeAdmission
  PROVE  Pool!PoolNext
<1> DEFINE D == ActiveRuns \ ActiveRuns'
<1>1. Pool!Holders = ActiveRuns
  BY LeaseAssumption DEF Pool!Holders, ActiveRuns, LeaseTypeOK, Active, ActiveStates
<1>2. ActiveRuns' \subseteq ActiveRuns /\ runEp' = runEp
  BY OthersShrink DEF Shrinking
<1>3. [q \in Runs |-> IF Active(q) THEN runEp[q] ELSE NoEpisode]' =
        [u \in Runs |-> IF u \in D THEN NoEpisode
                         ELSE IF Active(u) THEN runEp[u] ELSE NoEpisode]
  BY <1>2 DEF ActiveRuns
<1>4. {q \in Runs : runState[q] # "unused"}' = {q \in Runs : runState[q] # "unused"}
  BY OthersSpendNothing
<1>5. Pool!Drop(D)
  <2> HIDE DEF D
  <2> QED BY <1>3, <1>4 DEF Pool!Drop
<1>6. D \in SUBSET Pool!Holders
  BY <1>1
<1> HIDE DEF D
<1> QED BY ONLY <1>5, <1>6 DEF Pool!PoolNext, Pool!Admit, Pool!Drop, Pool!Holders

\* The lease implements the slot pool for every number of processes and runs.
THEOREM LeaseImplementsSlotPool == LeaseSpec => ImplementsSlotPool
<1>1. LeaseInit => Pool!PoolInit
  BY DEF LeaseInit, Pool!PoolInit, Active, ActiveStates
<1>2. LeaseInv /\ [LeaseNext]_leaseVars => [Pool!PoolNext]_Pool!poolVars
  <2> SUFFICES ASSUME LeaseInv, [LeaseNext]_leaseVars PROVE Pool!PoolNext
    OBVIOUS
  <2>1. LeaseTypeOK
    BY DEF LeaseInv
  <2>2. CASE SomeAdmission
    <3>1. PICK p \in Procs, e \in Episodes, n \in Slots, r \in Runs :
            AcquireAdmitted(p, e, n, r)
      BY <2>2 DEF SomeAdmission
    <3> QED BY <2>1, <3>1, AdmissionRefines
  <2>3. CASE ~SomeAdmission
    BY <2>1, <2>3, OthersRefine
  <2> QED BY <2>2, <2>3
<1> QED BY <1>1, <1>2, LeaseInvariant, PTL DEF LeaseSpec, ImplementsSlotPool, Pool!PoolSpec

=============================================================================
