-------------------------- MODULE MC_ProcessingLease ---------------------------
(***************************************************************************)
(* The lease on a small instance: one feed with two episodes, the second   *)
(* of which may be numbered automatically, two processes (a leader with a  *)
(* follower, or with a successor) and two run ids.                         *)
(***************************************************************************)
EXTENDS ProcessingLease, TLC

CONSTANTS f1, e1, e2, w1, w2, r1, r2

MCPodcasts == {f1}
MCEpisodes == {e1, e2}
MCPodcastOf == [e \in MCEpisodes |-> f1]
MCAutoNumbered == {e2}
MCProcs == {w1, w2}
MCRuns == {r1, r2}

\* Processes and run ids are interchangeable; the two episodes are not.
MCSymmetry == Permutations(Procs) \cup Permutations(Runs)

=============================================================================
