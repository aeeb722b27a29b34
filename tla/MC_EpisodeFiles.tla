--------------------------- MODULE MC_EpisodeFiles ---------------------------
(* A small instance of EpisodeFiles for TLC.                                   *)
EXTENDS EpisodeFiles, TLC

CONSTANTS r1, r2, d1, d2, w1

MCRuns == {r1, r2}
MCDecisions == {d1, d2}
MCChapterOnly == {d2}
MCSweepers == {w1}

\* At most three among runs, decisions and deletions; and no property says anything once
\* a run has overtaken a retention sweep.
MCBound ==
  /\ Cardinality({r \in Runs : lease[r] # "unused"}) + Cardinality(decided)
       + Cardinality({w \in Sweepers : sweep[w].at # "idle"}) <= 3
  /\ ~raced

MCSymmetry == Permutations(MCRuns)
=============================================================================
