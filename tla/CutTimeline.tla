------------------------------ MODULE CutTimeline ------------------------------
(***************************************************************************)
(* What a run does to the audio, and the maps between the timelines that   *)
(* everything else relies on.  The first pass renders the requested cuts   *)
(* from the original (AudioProcessor.remove_ads); the verification pass    *)
(* looks at the result and either cuts that once more, or renders the      *)
(* union of both passes from the original; a recut renders a new list from *)
(* the retained original and moves the chapters along.  Only the list of   *)
(* cuts that was applied is kept, and transcripts, chapters, markers and   *)
(* the second pass find their places by it.                                *)
(*                                                                         *)
(* Audio is a sequence of the ticks of the original it plays, and of       *)
(* fillers (the replacement sound).  What is found, and who found it, is   *)
(* left open: a pass may ask for any spans.                                *)
(***************************************************************************)
EXTENDS Integers, Sequences, FiniteSets, SequencesExt, FiniteSetsExt

CONSTANTS
  Duration,      \* ticks of the original
  MergeGap,      \* MERGE_GAP_SECONDS: cuts closer than this are joined
  MinAd,         \* MIN_AD_DURATION_FOR_REMOVAL: shorter cuts need trust
  PostRoll,      \* POST_ROLL_TRIM_THRESHOLD: less than this is not left at the end
  MaxMerged,     \* MAX_MERGED_DURATION of a cut joined across the passes
  MinFragment,   \* MIN_SPLIT_FRAGMENT_SECONDS
  Beep,          \* length of the replacement sound
  Sound,         \* replacement_sound_enabled
  ChapterTicks,  \* where the chapters of the original begin
  Silent,        \* ticks of the original without speech
  Keepable,      \* spans that may be kept or held
  Kinds,         \* what may be said of a requested cut: see AdKinds
  Overlaps,      \* may requests of different actions overlap?
  MaxItems       \* bound on the spans asked for, kept and held together

AdKinds == [beep : BOOLEAN, trusted : BOOLEAN, confirmed : BOOLEAN, pins : SUBSET {"start", "end"}]

ASSUME CutAssumption ==
  /\ {Duration, MergeGap, MinAd, PostRoll, MaxMerged, MinFragment, Beep} \subseteq Nat \ {0}
  /\ Sound \in BOOLEAN
  /\ ChapterTicks \cup Silent \subseteq 0 .. Duration - 1
  /\ Keepable \subseteq [start : 0 .. Duration, end : 0 .. Duration]
  /\ \A s \in Keepable : s.start < s.end
  /\ Kinds \subseteq AdKinds
  /\ Overlaps \in BOOLEAN
  /\ MaxItems \in Nat

VARIABLES
  phase,     \* "new", "first" (pass 1 rendered), "published"
  audio,     \* the processed file
  cuts,      \* pass1_cuts: the cuts applied to the original
  vcuts,     \* v_cuts_for_assets: those applied after, mapped back to the original
  hard,      \* kept audio, original coordinates: every cut is clipped at it
  holds,     \* pending holds: never bridged
  chapters,  \* positions of the chapters in the published file
  asked,     \* history: the ticks some request of this rendering covered
  firm,      \* history: the ticks beside confirmed and pinned edges of requests
  locks,     \* edges a reviewer has locked on requests of the first pass
  bridged,   \* history: the silence a join across the passes took
  items

vars == <<phase, audio, cuts, vcuts, hard, holds, chapters, asked, firm, locks, bridged,
          items>>

Filler == -1
Original == [i \in 1 .. Duration |-> i - 1]
Spans(n) == {s \in [start : 0 .. n, end : 0 .. n] : s.start < s.end}
Ticks(S) == UNION {s.start .. s.end - 1 : s \in S}
OnAir(a) == ToSet(a) \ {Filler}
Length(s) == s.end - s.start
Meet(s, t) == s.start < t.end /\ t.start < s.end
Larger(m, n) == IF m > n THEN m ELSE n
Lesser(m, n) == IF m < n THEN m ELSE n

\* What s has at the places I, sorted by their key, which is stable.
InOrder(s, I, key) ==
  LET Before(i) == {j \in I : key[j] < key[i] \/ (key[j] = key[i] /\ j < i)}
  IN  [k \in 1 .. Cardinality(I) |-> s[CHOOSE i \in I : Cardinality(Before(i)) = k - 1]]

ByStart(ads) == InOrder(ads, DOMAIN ads, [i \in DOMAIN ads |-> ads[i].start])
Those(s, I) == InOrder(s, I, [i \in I |-> i])
Nonempty(s) == Those(s, {i \in DOMAIN s : s[i].start < s[i].end})

\* subtract_spans: the parts of a span outside the walls, in order.
Pieces(span, walls) ==
  LET Parts(w, s) == <<[s EXCEPT !.end = Lesser(@, w.start)], [s EXCEPT !.start = Larger(@, w.end)]>>
      Cut(w, ps) == Nonempty(FlattenSeq([i \in DOMAIN ps |-> Parts(w, ps[i])]))
  IN  FoldSet(Cut, <<[start |-> span.start, end |-> span.end]>>, walls)
-----------------------------------------------------------------------------
(* The cuts a render applies. *)

\* A piece keeps the pin of an edge it did not lose.
Piece(ad, p) ==
  [ad EXCEPT !.start = p.start, !.end = p.end,
             !.pins = {e \in @ : ad[e] = p[e]}]

Clipped(ads, total) ==
  Nonempty([i \in DOMAIN ads |-> [ads[i] EXCEPT !.end = Lesser(@, total)]])

Carved(ads, walls) ==
  FlattenSeq([i \in DOMAIN ads |->
    LET ps == Pieces(ads[i], walls) IN [j \in DOMAIN ps |-> Piece(ads[i], ps[j])]])

Crosses(from, to, walls) == from < to /\ \E w \in walls : Meet(w, [start |-> from, end |-> to])

\* Mutant: a narrow gap is closed whoever set its edges.
Mut_Joins(cut, ad, walls) ==
  /\ ad.start - cut.end < MergeGap
  /\ ~ Crosses(cut.end, ad.start, walls)
  /\ ad.beep = cut.beep

Joins(cut, ad, walls) ==
  /\ ad.start - cut.end < MergeGap
  /\ ~ Crosses(cut.end, ad.start, walls)
  /\ \/ ad.start <= cut.end
     \/ ~ (ad.confirmed \/ cut.confirmed \/ cut.pinned \/ "start" \in ad.pins)
  /\ ad.beep = cut.beep

Opened(ad) ==
  [start |-> ad.start, end |-> ad.end, beep |-> ad.beep, trusted |-> ad.trusted,
   confirmed |-> ad.confirmed, pinned |-> "end" \in ad.pins]

Joined(cut, ad) ==
  IF ad.end > cut.end
  THEN [Opened(ad) EXCEPT !.start = cut.start, !.trusted = @ \/ cut.trusted]
  ELSE [cut EXCEPT !.trusted = @ \/ ad.trusted]

Merged(ads, walls) ==
  LET Take(done, ad) ==
        IF done # <<>> /\ Joins(Last(done), ad, walls)
        THEN Append(Front(done), Joined(Last(done), ad))
        ELSE Append(done, Opened(ad))
  IN  FoldLeft(Take, <<>>, ads)

LongEnough(cut) == Length(cut) >= MinAd \/ cut.confirmed \/ cut.trusted

\* Mutant: the end is trimmed over whatever is held there.
Mut_Extended(done, total, walls) ==
  IF \/ done = <<>>
     \/ Last(done).confirmed \/ Last(done).pinned
     \/ total - Last(done).end >= PostRoll
  THEN done
  ELSE Append(Front(done), [Last(done) EXCEPT !.end = total])

\* Less than PostRoll is not left after the last cut.
Extended(done, total, walls) ==
  IF \/ done = <<>>
     \/ Crosses(Last(done).end, total, walls)
     \/ Last(done).confirmed \/ Last(done).pinned
     \/ total - Last(done).end >= PostRoll
  THEN done
  ELSE Append(Front(done), [Last(done) EXCEPT !.end = total])

Fill(cut) ==
  IF cut.beep THEN Larger(Length(cut), Beep) ELSE IF Sound THEN Beep ELSE 0

Stamped(cut) == [start |-> cut.start, end |-> cut.end, beep |-> cut.beep, fill |-> Fill(cut)]

\* _applied_cuts_with_locks
Applied(ads, total, barriers, walls) ==
  LET all == barriers \cup walls
      merged == Merged(ByStart(Carved(Clipped(ads, total), walls)), all)
      long == Those(merged, {i \in DOMAIN merged : LongEnough(merged[i])})
      done == Extended(long, total, all)
  IN  [i \in DOMAIN done |-> Stamped(done[i])]

\* remove_ads: content up to the cut, its filler, on from its end.
Render(a, applied) ==
  LET Step(r, cut) ==
        [at  |-> cut.end,
         out |-> r.out \o SubSeq(a, r.at + 1, cut.start) \o [i \in 1 .. cut.fill |-> Filler]]
      r == FoldLeft(Step, [at |-> 0, out |-> <<>>], applied)
  IN  r.out \o SubSeq(a, r.at + 1, Len(a))
-----------------------------------------------------------------------------
(* The maps between the timelines. *)

\* Mutant: one filler per group, whatever was rendered.
Mut_Groups(applied) ==
  LET Step(gs, c) ==
        IF gs # <<>> /\ c.start <= Last(gs).end
        THEN Append(Front(gs), [Last(gs) EXCEPT !.end = Larger(@, c.end)])
        ELSE Append(gs, [start |-> c.start, end |-> c.end, fill |-> c.fill])
  IN  FoldLeft(Step, <<>>, Nonempty(ByStart(applied)))

\* merge_cut_spans: touching cuts are one, with the fillers of both.
Groups(applied) ==
  LET Step(gs, c) ==
        IF gs # <<>> /\ c.start <= Last(gs).end
        THEN Append(Front(gs), [Last(gs) EXCEPT !.end = Larger(@, c.end), !.fill = @ + c.fill])
        ELSE Append(gs, [start |-> c.start, end |-> c.end, fill |-> c.fill])
  IN  FoldLeft(Step, <<>>, Nonempty(ByStart(applied)))

Shift(gs, which) == MapThenSumSet(LAMBDA i : Length(gs[i]) - gs[i].fill, which)

\* adjust_timestamp: original to processed; inside a cut, where its filler begins.
Adjusted(t, gs) ==
  LET around == {i \in DOMAIN gs : gs[i].start < t /\ t < gs[i].end}
      base == IF around = {} THEN t ELSE gs[CHOOSE i \in around : TRUE].start
  IN  Larger(0, base - Shift(gs, {i \in DOMAIN gs : gs[i].end <= t}))

Adjust(t, applied) == Adjusted(t, Groups(applied))

\* Mutants: a place in a filler is taken for one behind it; the fillers are forgotten.
Mut_Unadjust(t, applied) ==
  LET gs == Groups(applied)
      block == [i \in DOMAIN gs |-> gs[i].start - Shift(gs, 1 .. i - 1)]
  IN  t + Shift(gs, {i \in DOMAIN gs : block[i] <= t})
Mut_MapToOriginal(t, applied) ==
  LET Step(m, c) ==
        IF m.done \/ t < c.start - m.offset THEN [m EXCEPT !.done = TRUE]
        ELSE [m EXCEPT !.offset = @ + Length(c)]
  IN  t + FoldLeft(Step, [done |-> FALSE, offset |-> 0], applied).offset

\* _unadjust_timestamp: processed to original; inside a filler, where the cut begins.
Unadjust(t, applied) ==
  LET gs == Groups(applied)
      block == [i \in DOMAIN gs |-> gs[i].start - Shift(gs, 1 .. i - 1)]
      inside == {i \in DOMAIN gs : block[i] <= t /\ t < block[i] + gs[i].fill}
      before == {i \in DOMAIN gs : block[i] + gs[i].fill <= t}
  IN  IF inside # {} THEN gs[CHOOSE i \in inside : TRUE].start ELSE t + Shift(gs, before)

\* _map_to_original, of the second pass: inside a filler, as far inside the cut.
MapToOriginal(t, applied) ==
  LET Step(m, c) ==
        IF m.done \/ t < c.start - m.offset + c.fill THEN [m EXCEPT !.done = TRUE]
        ELSE [m EXCEPT !.offset = @ + Length(c) - c.fill]
  IN  t + FoldLeft(Step, [done |-> FALSE, offset |-> 0], applied).offset

\* Mutant: kept audio stays in original coordinates.
Mut_MapToProcessed(span, applied) == {span}

\* _map_correction_to_processed: what is left of a span, or nothing.
MapToProcessed(span, applied) ==
  LET Snap(s, c) ==
        [start |-> IF c.start <= s.start /\ s.start < c.end THEN c.end ELSE s.start,
         end   |-> IF c.start < s.end /\ s.end <= c.end THEN c.start ELSE s.end]
      kept == {s \in {FoldLeft(Snap, span, applied)} : s.start < s.end}
      left == {[start |-> Adjust(s.start, applied), end |-> Adjust(s.end, applied)] : s \in kept}
  IN  {s \in left : s.start < s.end}

InProcessed(spans, applied) == UNION {MapToProcessed(s, applied) : s \in spans}

\* Mutant: a chapter of no length stays, at the end of the file.
Mut_Remapped(places, applied, total) == {Adjust(p, applied) : p \in places}

\* remap_chapters and _remap_chapters_for_recut, from places in the original: a
\* chapter all of whose span is cut goes, and one that would last no time.
Remapped(places, applied, total) ==
  LET Until(p) == LET later == {q \in places : q > p}
                  IN  IF later = {} THEN Duration ELSE Min(later)
      gs == Groups(applied)
      Gone(p) == \E i \in DOMAIN gs : gs[i].start <= p /\ Until(p) <= gs[i].end
  IN  {Adjust(p, applied) : p \in {q \in places : ~ Gone(q)}} \cap 0 .. total - 1
-----------------------------------------------------------------------------
(* The second pass: candidates on the processed timeline, each with its twin    *)
(* (from, to) in the original.                                                  *)

Paired(ad, applied) ==
  [ad |-> ad, from |-> MapToOriginal(ad.start, applied), to |-> MapToOriginal(ad.end, applied)]

Whole(c, ps) == Len(ps) = 1 /\ ps[1].start = c.ad.start /\ ps[1].end = c.ad.end

\* _split_pass2_candidates_around_spans: fragments keep the trust of what was
\* long enough; slivers go.
SplitAround(found, walls, applied) ==
  LET Fragment(c, p) ==
        Paired([Piece(c.ad, p) EXCEPT !.trusted = @ \/ Length(c.ad) >= MinAd], applied)
      Lasts(f) == Length(f.ad) >= MinFragment /\ f.to - f.from >= MinFragment
      Parts(c) ==
        LET ps == Pieces(c.ad, walls)
        IN  IF Whole(c, ps) THEN <<c>>
            ELSE LET fs == [j \in DOMAIN ps |-> Fragment(c, ps[j])]
                 IN  Those(fs, {j \in DOMAIN fs : Lasts(fs[j])})
  IN  FlattenSeq([i \in DOMAIN found |-> Parts(found[i])])

\* _reconcile_pass2_cut_actions: beeps stay, and the removals go around them.
Reconciled(found, applied) ==
  LET removes == Those(found, {i \in DOMAIN found : ~ found[i].ad.beep})
      Contested(c) == \E i \in DOMAIN removes : Meet(c.ad, removes[i].ad)
      sel == Those(found, {i \in DOMAIN found : found[i].ad.beep})
      beeps == [i \in DOMAIN sel |-> IF Contested(sel[i])
                                     THEN [sel[i] EXCEPT !.ad.trusted = TRUE] ELSE sel[i]]
      around == {[start |-> beeps[i].ad.start, end |-> beeps[i].ad.end] : i \in DOMAIN beeps}
      both == beeps \o SplitAround(removes, around, applied)
  IN  IF beeps = <<>> THEN found
      ELSE InOrder(both, DOMAIN both, [i \in DOMAIN both |-> both[i].ad.start])

Candidates(found, walls, applied) ==
  SplitAround(Reconciled([i \in DOMAIN found |-> Paired(found[i], applied)], applied),
              InProcessed(walls, applied), applied)
-----------------------------------------------------------------------------
(* A cut of one pass joined with one of the other: the union, from the original. *)

FromFirst(cut) ==
  [start |-> cut.start, end |-> cut.end, beep |-> cut.beep, trusted |-> TRUE,
   confirmed |-> FALSE, pins |-> {}, passes |-> {1}]

FromSecond(c) ==
  [start |-> c.from, end |-> c.to, beep |-> c.ad.beep, trusted |-> c.ad.trusted,
   confirmed |-> FALSE, pins |-> {}, passes |-> {2}]

Union(done, ad) ==
  [done EXCEPT !.end = Larger(@, ad.end), !.passes = @ \cup ad.passes,
               !.trusted = @ \/ ad.trusted]

\* locked: edges a reviewer has locked on a cut of the first pass.
MayUnite(done, ad, protected, locked) ==
  /\ done.beep = ad.beep
  /\ done.passes # ad.passes
  /\ ad.start <= done.end \/ /\ done.end .. ad.start - 1 \subseteq Silent
                              /\ <<"end", done.end>> \notin locked
                              /\ <<"start", ad.start>> \notin locked
  /\ Larger(done.end, ad.end) - done.start <= MaxMerged
  /\ \A w \in protected : ~ Meet(w, [start |-> done.start, end |-> Larger(done.end, ad.end)])

\* _crosspass_cut_plan: what to render from the original, nothing if no two join.
CrossPlan(first, second, protected, locked) ==
  LET ads == [i \in DOMAIN first |-> FromFirst(first[i])]
             \o [i \in DOMAIN second |-> FromSecond(second[i])]
      Unite(plan, ad) ==
        IF plan # <<>> /\ MayUnite(Last(plan), ad, protected, locked)
        THEN Append(Front(plan), Union(Last(plan), ad))
        ELSE Append(plan, ad)
      clash == \E i, j \in DOMAIN ads : ads[i].beep # ads[j].beep /\ Meet(ads[i], ads[j])
      plan == FoldLeft(Unite, <<>>, ByStart(ads))
  IN  IF clash \/ \A i \in DOMAIN plan : plan[i].passes # {1, 2} THEN <<>> ELSE plan

Restore(plan) ==
  [i \in DOMAIN plan |->
    [start |-> plan[i].start, end |-> plan[i].end, beep |-> plan[i].beep,
     trusted |-> plan[i].trusted, confirmed |-> FALSE, pins |-> {}]]
-----------------------------------------------------------------------------
Ads(n, kinds) ==
  {[start |-> s.start, end |-> s.end, beep |-> k.beep, trusted |-> k.trusted,
    confirmed |-> k.confirmed, pins |-> k.pins] : s \in Spans(n), k \in kinds}

Compatible(ads) ==
  \A i, j \in DOMAIN ads : i < j =>
    /\ ads[i].start <= ads[j].start
    /\ Overlaps \/ ads[i].beep = ads[j].beep \/ ~ Meet(ads[i], ads[j])

\* What a pass may ask for: as many spans as the bound has room for.
Requests(n, kinds, others) ==
  {ads \in UNION {[1 .. k -> Ads(n, kinds)] :
                    k \in {m \in 0 .. MaxItems : m + others + items <= MaxItems}} :
     Compatible(ads)}

\* Nobody has confirmed or reviewed what the second pass has just found.
FoundKinds == {k \in Kinds : ~ k.confirmed /\ k.pins = {}}
Walls == {{}} \cup {{s} : s \in Keepable}
AllCuts == cuts \o vcuts

\* A request that is applied whatever its neighbours are: what touches a confirmed one
\* and ends later takes the confirmation from both.
Sure(ad, ads) ==
  \/ Length(ad) >= MinAd \/ ad.trusted
  \/ ad.confirmed /\ \A x \in ToSet(ads) \ {ad} : x.end < ad.start \/ ad.end < x.start

\* Edges that every request with an edge there has confirmed or pinned.
Beside(ads) ==
  LET Firm(ad, e) == Sure(ad, ads) /\ (ad.confirmed \/ e \in ad.pins)
      At(e) == {ad[e] : ad \in ToSet(ads)} \ {ad[e] : ad \in {a \in ToSet(ads) : ~ Firm(a, e)}}
  IN  (At("end") \cup {t - 1 : t \in At("start")}) \cap 0 .. Duration - 1

Init ==
  /\ phase = "new"
  /\ audio = Original
  /\ cuts = <<>> /\ vcuts = <<>>
  /\ hard = {} /\ holds = {}
  /\ chapters = {} /\ asked = {} /\ firm = {} /\ locks = {} /\ bridged = {}
  /\ items = 0

\* Whatever is rendered from the original takes the place of all that was.
FromOriginal(ads, barriers, walls) ==
  LET applied == Applied(ads, Duration, barriers, walls)
  IN  /\ Render(Original, applied) # <<>>
      /\ cuts' = applied /\ vcuts' = <<>>
      /\ audio' = Render(Original, applied)

Publish(applied) ==
  /\ phase' = "published"
  /\ chapters' = Remapped(ChapterTicks, applied, Len(audio'))

FirstPass ==
  /\ phase = "new" /\ phase' = "first"
  /\ \E walls, barriers \in Walls :
       \E ads \in Requests(Duration, Kinds, Cardinality(walls) + Cardinality(barriers)) :
         /\ FromOriginal(ads, barriers, walls)
         /\ hard' = walls /\ holds' = barriers
         /\ asked' = Ticks(ToSet(ads)) /\ firm' = Beside(ads)
         /\ locks' = UNION {{<<e, ad[e]>> : e \in ad.pins} : ad \in ToSet(ads)}
         /\ items' = Len(ads) + Cardinality(walls) + Cardinality(barriers)
  /\ UNCHANGED <<chapters, bridged>>

\* The second pass is off, finds nothing, or its render fails.
KeepFirst ==
  /\ phase = "first"
  /\ UNCHANGED audio
  /\ Publish(AllCuts)
  /\ UNCHANGED <<cuts, vcuts, hard, holds, asked, firm, locks, bridged, items>>

\* _recut_processed_audio, and _pass2_cuts_in_original of what it applied.
RecutProcessed(second, walls) ==
  \E applied \in {Applied([i \in DOMAIN second |-> second[i].ad], Len(audio),
                         InProcessed(holds, cuts), InProcessed(walls, cuts))} :
    /\ Render(audio, applied) # <<>>
    /\ audio' = Render(audio, applied)
    /\ vcuts' = [i \in DOMAIN applied |->
         [applied[i] EXCEPT !.start = MapToOriginal(@, cuts), !.end = MapToOriginal(@, cuts)]]
    /\ Publish(cuts \o vcuts')
    /\ UNCHANGED <<cuts, bridged>>

\* _rerender_crosspass_from_original
Rerender(plan, second, walls) ==
  LET twins == {[start |-> second[i].from, end |-> second[i].to] : i \in DOMAIN second}
  IN  /\ FromOriginal(Restore(plan), holds, walls)
      /\ bridged' = Ticks(ToSet(plan)) \ (Ticks(ToSet(cuts)) \cup Ticks(twins))
      /\ Publish(cuts')

\* The second pass found spans of the processed audio, and possibly more to keep.
SecondPass ==
  /\ phase = "first"
  /\ \E more \in Walls : \E found \in Requests(Len(audio), FoundKinds, Cardinality(more)) :
       LET walls == hard \cup more
           played == UNION {ToSet(SubSeq(audio, ad.start + 1, ad.end)) : ad \in ToSet(found)}
       IN  /\ \E second \in {Candidates(found, walls, cuts)} \ {<<>>} :
                \E plan \in {CrossPlan(cuts, second, walls \cup holds, locks)} :
                  \/ plan = <<>> /\ RecutProcessed(second, walls)
                  \/ plan # <<>> /\ Rerender(plan, second, walls)
           /\ hard' = walls
           /\ asked' = asked \cup (played \ {Filler})
           /\ items' = items + Len(found) + Cardinality(more)
  /\ UNCHANGED <<holds, firm, locks>>

\* _remap_chapters_for_recut: back to the original, and on to the new file.
RecutChapters(applied, total) == Remapped({Unadjust(p, AllCuts) : p \in chapters}, applied, total)

\* A recut of the retained original with a new list; the chapters move along.
Recut ==
  /\ phase = "published"
  /\ \E more \in Walls : \E ads \in Requests(Duration, Kinds, Cardinality(more)) :
       /\ FromOriginal(ads, holds, hard \cup more)
       /\ hard' = hard \cup more
       /\ asked' = Ticks(ToSet(ads)) /\ firm' = Beside(ads)
       /\ items' = items + Len(ads) + Cardinality(more)
  /\ chapters' = RecutChapters(cuts', Len(audio'))
  /\ bridged' = {} /\ locks' = {}
  /\ UNCHANGED <<phase, holds>>

Next == FirstPass \/ KeepFirst \/ SecondPass \/ Recut
Spec == Init /\ [][Next]_vars
-----------------------------------------------------------------------------
AppliedCuts(s) ==
  /\ s \in Seq([start : 0 .. Duration, end : 0 .. Duration, beep : BOOLEAN, fill : Nat])
  /\ \A i \in DOMAIN s : s[i].start < s[i].end

\* Types: cuts lie in the original, and chapters in the file.
CutTypeOK ==
  /\ phase \in {"new", "first", "published"}
  /\ audio \in Seq(0 .. Duration - 1 \cup {Filler})
  /\ AppliedCuts(cuts) /\ AppliedCuts(vcuts)
  /\ hard \subseteq Spans(Duration) /\ holds \subseteq Spans(Duration)
  /\ chapters \subseteq 0 .. Len(audio) - 1
  /\ asked \cup firm \cup bridged \subseteq 0 .. Duration - 1
  /\ items \in 0 .. MaxItems

\* The list of applied cuts says what the file plays: what it lists is off the air,
\* all else is on, once and in order, however many renders it took.
CutsAreCut ==
  /\ OnAir(audio) = (0 .. Duration - 1) \ Ticks(ToSet(AllCuts))
  /\ \A i, j \in DOMAIN audio :
       i < j /\ Filler \notin {audio[i], audio[j]} => audio[i] < audio[j]

Fillers(a) == Cardinality({i \in DOMAIN a : a[i] = Filler})
Eaten == MapThenSumSet(LAMBDA i : AllCuts[i].fill, DOMAIN AllCuts) - Fillers(audio)

\* adjust_timestamp finds what is on the air where it is played.  Only after a second
\* render that cut into fillers of the first is it late, and by no more than it took.
TimelineIsExact ==
  \A i \in DOMAIN audio : audio[i] # Filler =>
    Adjust(audio[i], AllCuts) - (i - 1) \in 0 .. Eaten

\* Kept audio is never cut; what was on the air when it came to be kept stays there,
\* whichever pass, on whichever timeline, has to go around it.
KeptStaysOnAir ==
  [][\A t \in Ticks(hard') :
       phase # "first" \/ t \in OnAir(audio) => t \in OnAir(audio')]_vars

\* What lies right beside an edge the user confirmed or a reviewer or the transcript
\* pinned is not cut unless a request covers it.
FirmEdges == firm \subseteq OnAir(audio) \cup asked

\* That is so of every render that is given the edges: the first and a recut, but not
\* the second pass, which has only the cuts that were applied.
FirmEdgesHold == [][phase # "first" => FirmEdges']_vars

Unasked == (0 .. Duration - 1) \ (OnAir(audio) \cup asked \cup bridged)
Short(s) ==
  \/ Length(s) < MergeGap
  \/ Length(s) < PostRoll /\ OnAir(audio) \cap s.end .. Duration - 1 = {}

\* What is held is not lost unless a request covered it.
HeldIsAsked == Unasked \cap Ticks(holds) = {}

\* What no request covered is lost only in the narrow gaps between cuts, at the very
\* end, and in the silence between the cuts of two passes; and none of it was held.
NothingUnasked ==
  /\ HeldIsAsked
  /\ \A s \in Spans(Duration) :
       /\ s.start .. s.end - 1 \subseteq Unasked
       /\ s.start - 1 \notin Unasked /\ s.end \notin Unasked
       => Short(s)

\* Where in the original a position of the file begins: fillers stand for what comes
\* after the tick before them.
Origin(p) ==
  LET before == {audio[i] : i \in 1 .. p} \ {Filler}
  IN  IF audio[p + 1] # Filler THEN audio[p + 1]
      ELSE IF before = {} THEN 0 ELSE Max(before) + 1

\* A chapter of which anything is left after a recut begins there, or at the fillers
\* just before, also when the recut brings back the audio its start was cut from.
ChaptersFollow ==
  [][phase = "published" /\ Eaten = 0 =>
      \A p \in chapters :
        LET later == {Origin(q) : q \in {q \in chapters : q > p}}
            until == IF later = {} THEN Duration ELSE Min(later)
            left == {i \in DOMAIN audio' : audio'[i] # Filler /\ audio'[i] \in Origin(p) .. until - 1}
        IN  left # {} => \E q \in chapters' :
              q < Min(left) /\ \A i \in q + 1 .. Min(left) - 1 : audio'[i] = Filler]_vars
=============================================================================
