---------------------------- MODULE MC_CutTimeline -----------------------------
(***************************************************************************)
(* Five ticks of audio, cut up to three times.  A request is plain,        *)
(* confirmed by the user, a beep, or trusted and locked at both edges by a *)
(* reviewer.                                                               *)
(***************************************************************************)
EXTENDS CutTimeline

Plain == [beep |-> FALSE, trusted |-> FALSE, confirmed |-> FALSE, pins |-> {}]
MCKinds == {Plain, [Plain EXCEPT !.confirmed = TRUE], [Plain EXCEPT !.beep = TRUE],
            [Plain EXCEPT !.trusted = TRUE, !.pins = {"start", "end"}]}
MCChapters == {0, 2, 3}
MCSilent == {1, 2, 4}
MCKeepable == {[start |-> 1, end |-> 2], [start |-> 2, end |-> 4], [start |-> 4, end |-> 5]}

=============================================================================
