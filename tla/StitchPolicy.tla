---------------------------- MODULE StitchPolicy ----------------------------
(***************************************************************************)
(* src/recon/stitch_policy.py: which part of a day is served by Crypto     *)
(* Lake, which part is filled from CoinAPI, and which samples a label or a *)
(* feature may use.  Time is counted in steps of the sample grid: sample i *)
(* is at time i, the day is [0, Len), and the policy's durations are       *)
(* numbers of steps.  A mask is a function from 0..n-1 to BOOLEAN.         *)
(***************************************************************************)
EXTENDS Integers, Sequences, FiniteSets, FiniteSetsExt, SequencesExt, Positions

CONSTANTS FillMin,            \* fill_min_s: a shorter invalid run is not worth a fill
          WarmupConsecutive,  \* warmup_consecutive
          MinLakeSegment,     \* min_lake_segment_s
          SpanInvalidPct,     \* span_invalid_max, in percent
          SeamGuard           \* seam_guard_s

ASSUME StitchAssumption ==
    /\ FillMin \in Nat \ {0} /\ WarmupConsecutive \in Nat \ {0}
    /\ MinLakeSegment \in Nat /\ SpanInvalidPct \in 0..99 /\ SeamGuard \in Nat

Lake == "lake"
Coinapi == "coinapi"
Uncovered == "uncovered"
ExcludedSpan == "excluded"

LakeOnly == "lake_only"
FullDayFill == "full_day_fill"
PartialFillProfiles == {"leading_partial_fill", "trailing_partial_fill",
                        "internal_gap_fill", "mixed_partial_fill"}

CrossedSource == "crossed_seed_source"
NoTs == -1                    \* the None of an optional timestamp

Segment(source, start, end) == [source |-> source, start |-> start, end |-> end]

-----------------------------------------------------------------------------
(* The maximal runs [a, b) on which a set of indices is dense. *)
Runs(set) ==
    {r \in {<<a, b>> : a \in set, b \in {i + 1 : i \in set}} :
        /\ r[1] < r[2] /\ r[1] - 1 \notin set /\ r[2] \notin set
        /\ \A i \in r[1]..(r[2] - 1) : i \in set}

Invalid(valid) == {i \in DOMAIN valid : ~valid[i]}

\* invalid_runs: the report's list of invalid spans.
InvalidRuns(valid) == Runs(Invalid(valid))

\* Mutant of QualifiedIn: the samples before the seed count.
QualifiedInUnseeded(valid, seed, from, to) ==
    LET at == {i \in from..(to - 1) : \A j \in (i - WarmupConsecutive + 1)..i :
                  j \in from..(to - 1) /\ valid[j]}
    IN  IF seed = NoTs \/ at = {} THEN NoTs ELSE Min(at)

(* The first sample of [from, to) that ends WarmupConsecutive consecutive
   valid samples, counting only samples of that span at or after the seed. *)
QualifiedIn(valid, seed, from, to) ==
    LET sustains(i) == \A j \in (i - WarmupConsecutive + 1)..i :
                          j \in from..(to - 1) /\ j >= seed /\ valid[j]
        at == {i \in from..(to - 1) : sustains(i)}
    IN  IF seed = NoTs \/ at = {} THEN NoTs ELSE Min(at)

WarmupQualifiedTs(valid, seed) ==
    QualifiedIn(valid, seed, 0, Cardinality(DOMAIN valid))

-----------------------------------------------------------------------------
(* A plan: the segments in order, the seams between different sources, the
   profile, and the bounds of the Lake coverage that survives. *)
FullDayPlan(n, reason) ==
    [profile |-> FullDayFill, reason |-> reason,
     segments |-> <<Segment(Coinapi, 0, n)>>, seams |-> <<>>,
     trustedStart |-> NoTs, trustedEnd |-> NoTs]

\* Invalid runs long enough for a fill window of their own.
LongFill(valid) ==
    UNION {r[1]..(r[2] - 1) : r \in {s \in InvalidRuns(valid) : s[2] - s[1] >= FillMin}}

\* Every remaining span qualifies anew; its prefix joins the fill before it.
QualifiedSpans(valid, seed) ==
    {q \in {<<QualifiedIn(valid, seed, r[1], r[2]), r[2]>> :
                r \in Runs(DOMAIN valid \ LongFill(valid))} : q[1] # NoTs}

LakeSamples(valid, seed) ==
    UNION {q[1]..(q[2] - 1) :
        q \in {s \in QualifiedSpans(valid, seed) : s[2] - s[1] >= MinLakeSegment}}

\* The day cut wherever Lake coverage begins or ends.
Cuts(n, lake) == InOrder({i \in 0..(n - 1) : i = 0 \/ (i \in lake) # (i - 1 \in lake)})

Segments(n, lake) ==
    LET cuts == Cuts(n, lake)
        end(k) == IF k = Len(cuts) THEN n ELSE cuts[k + 1]
        source(k) == IF cuts[k] \in lake THEN Lake
                     ELSE IF end(k) - cuts[k] >= FillMin THEN Coinapi ELSE ExcludedSpan
    IN  [k \in DOMAIN cuts |-> Segment(source(k), cuts[k], end(k))]

\* Every boundary between segments of different sources.
SeamsOf(segments) ==
    LET right == InOrder({k \in 2..Len(segments) : segments[k].source # segments[k - 1].source})
    IN  [i \in DOMAIN right |-> segments[right[i]].start]

ProfileOf(n, segments) ==
    LET kind(s) == IF s.start = 0 THEN "leading_partial_fill"
                   ELSE IF s.end = n THEN "trailing_partial_fill" ELSE "internal_gap_fill"
        kinds == {kind(s) : s \in {t \in Range(segments) : t.source = Coinapi}}
    IN  CASE kinds = {} -> LakeOnly
          [] Cardinality(kinds) = 1 -> CHOOSE k \in kinds : TRUE
          [] OTHER -> "mixed_partial_fill"

(* plan_day_stitch.  seed is NoTs when no snapshot was accepted; trusted is
   FALSE when the seed source itself is crossed too often. *)
PlanDayStitch(valid, seed, trusted) ==
    LET n    == Cardinality(DOMAIN valid)
        lake == LakeSamples(valid, seed)
        segs == Segments(n, lake)
    IN  CASE seed = NoTs -> FullDayPlan(n, "no_accepted_seed")
          [] seed # NoTs /\ ~trusted -> FullDayPlan(n, CrossedSource)
          [] seed # NoTs /\ trusted /\ lake = {} ->
               FullDayPlan(n, IF QualifiedSpans(valid, seed) = {}
                              THEN "lake_never_warmup_qualified"
                              ELSE "lake_trusted_span_too_short")
          [] OTHER ->
               IF 100 * Cardinality(lake \intersect Invalid(valid))
                    > SpanInvalidPct * Cardinality(lake)
               THEN FullDayPlan(n, "quality_over_trusted_span")
               ELSE [profile |-> ProfileOf(n, segs), reason |-> "none",
                     segments |-> segs, seams |-> SeamsOf(segs),
                     trustedStart |-> Min(lake), trustedEnd |-> Max(lake) + 1]

-----------------------------------------------------------------------------
(* What the consumers of a plan ask it. *)
SeamGuardMask(t, seams, guard) ==
    \E s \in Range(seams) : s - guard <= t /\ t < s + guard

WindowCrossesSeam(start, end, seams) ==
    \E s \in Range(seams) : start < s /\ s <= end

\* Mutant of LabelValid: the window may end within the guard of the next seam.
LabelValidToTheSeam(t, seams, horizon, guard) ==
    \A s \in Range(seams) : t + horizon < s \/ t >= s + guard

LabelValid(t, seams, horizon, guard) ==
    \A s \in Range(seams) : t + horizon < s - guard \/ t >= s + guard

FeatureValid(t, seams, lookback, guard) ==
    \A s \in Range(seams) : t < s - guard \/ t - lookback >= s + guard

VendorSourceAt(t, segments) ==
    segments[Max({i \in DOMAIN segments : segments[i].start <= t})].source

WindowVendorSources(start, end, segments) ==
    {s.source : s \in {g \in Range(segments) : g.start <= end /\ start < g.end}}
    \union (IF start < Head(segments).start \/ end >= Last(segments).end
            THEN {Uncovered} ELSE {})
=============================================================================
