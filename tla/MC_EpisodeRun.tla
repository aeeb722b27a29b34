---------------------------- MODULE MC_EpisodeRun ------------------------------
EXTENDS EpisodeRun, TLC

CONSTANTS f1, e1, w1, w2, r1, r2

MCPodcasts == {f1}
MCEpisodes == {e1}
MCPodcastOf == [e \in MCEpisodes |-> f1]

MCSymmetry == Permutations(Procs) \cup Permutations(Runs)

=============================================================================
