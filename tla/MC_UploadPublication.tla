-------------------------- MODULE MC_UploadPublication --------------------------
(* A small instance of UploadPublication for TLC.                             *)
EXTENDS UploadPublication, TLC

CONSTANTS e1, s1, p1, p2, r1, r2

MCEpisodes == {e1}
MCStaged == {s1}
MCEntryOf == s1 :> e1
MCStocked == {s1}
MCProcs == {p1, p2}
MCIds == {r1, r2}
MCSymmetry == Permutations(MCProcs) \cup Permutations(MCIds)
=============================================================================
