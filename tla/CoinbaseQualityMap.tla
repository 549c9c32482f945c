------------------------- MODULE CoinbaseQualityMap -------------------------
(***************************************************************************)
(* src/scripts/run_coinbase_quality_map.py: the verdict on one day of      *)
(* Coinbase book data, the fill it asks for, the report of a batch and the *)
(* quota gate in front of a download.  What Lake holds for a day is a      *)
(* record:                                                                 *)
(*   rows      whether book_delta_v2 has a partition for the day           *)
(*   seed      when a snapshot of the `book` product is accepted, or NoTs  *)
(*   unreliable whether too many of those snapshots are crossed            *)
(*   crossed, missing  the samples whose reconstructed book is crossed, or *)
(*             lacks a side                                                *)
(*   thin      whether the depth is under the bar                          *)
(***************************************************************************)
EXTENDS StitchPolicy

CONSTANTS GridLen,                     \* samples of a day
          CrossedPct, MissingPct,      \* Thresholds, in percent of the samples
          DeltaGb, BookGb,             \* LAKE_GB_PER_DAY of the two products
          QuotaGb, HeadroomGb, MaxAutoGb

\* plan_day_stitch refuses an empty grid.
ASSUME SampleAssumption == GridLen \in Nat \ {0}

\* A full day can always be pulled in a fresh month.
ASSUME QuotaAssumption ==
    /\ {DeltaGb, BookGb, QuotaGb, HeadroomGb} \subseteq Nat
    /\ 0 < DeltaGb + BookGb /\ DeltaGb + BookGb <= QuotaGb - HeadroomGb

LakeUsable == "lake_usable"
LakePresentDegraded == "lake_present_degraded"
MissingNeedsCoinapi == "missing_needs_coinapi"
ExcludedDay == "excluded"
Inconclusive == "inconclusive"

SeedSourceUnreliable == "seed_accepted_but_source_unreliable"
ThinDepthOverBar == "thin_depth_over_bar"
LoadFailed == "lake_load_failed"

Samples == 0..(GridLen - 1)
ValidMask(c) == [i \in Samples |-> i \notin c.crossed \union c.missing]

-----------------------------------------------------------------------------
\* Conservative: what the runner will be charged at most for n days.
EstimateLakeGb(n) == n * (DeltaGb + BookGb)

(* The monthly cap is hard; a large pull also needs --allow-broad. *)
QuotaDecision(est, used, allowBroad) ==
    CASE est <= 0 -> "ok"
      [] est > 0 /\ est > QuotaGb - used - HeadroomGb -> "quota_headroom"
      [] est > 0 /\ est <= QuotaGb - used - HeadroomGb ->
           IF est > MaxAutoGb /\ ~allowBroad THEN "exceeds_auto_cap" ELSE "ok"

(* A verdict from Lake needs an accepted seed of a trustworthy source: a cold
   book may look uncrossed for the wrong reason. *)
ClassifyDay(c, seed) ==
    LET over(samples, pct) == 100 * Cardinality(samples) > pct * GridLen
        codes == (IF over(c.crossed, CrossedPct) THEN {"crossed_over_bar"} ELSE {})
                 \union (IF over(c.missing, MissingPct) THEN {"missing_over_bar"} ELSE {})
                 \union (IF c.thin THEN {ThinDepthOverBar} ELSE {})
    IN  CASE ~c.rows -> [cls |-> MissingNeedsCoinapi, reasons |-> {"lake_book_delta_v2_absent"}]
          [] c.rows /\ seed = NoTs -> [cls |-> Inconclusive, reasons |-> {"no_accepted_seed"}]
          [] c.rows /\ seed # NoTs /\ c.unreliable ->
               [cls |-> Inconclusive, reasons |-> {SeedSourceUnreliable}]
          [] OTHER -> [cls |-> IF codes = {} THEN LakeUsable ELSE LakePresentDegraded,
                       reasons |-> {"seed_accepted"} \union codes]

(* needs_fill is "yes", "no" or, where there is no decision, "none". *)
FillDecision(verdict) ==
    CASE verdict.cls = MissingNeedsCoinapi ->
           [needs |-> "yes", why |-> "lake_book_delta_v2_absent"]
      [] verdict.cls = LakePresentDegraded ->
           [needs |-> "yes", why |-> "quality_over_usable_bar"]
      [] verdict.cls = Inconclusive /\ SeedSourceUnreliable \in verdict.reasons ->
           [needs |-> "yes", why |-> "crossed_seed_source_cross_validated"]
      [] verdict.cls = LakeUsable -> [needs |-> "no", why |-> "lake_usable"]
      [] verdict.cls = ExcludedDay -> [needs |-> "none", why |-> "excluded_not_in_scope"]
      [] OTHER -> [needs |-> "none", why |-> "no_verdict"]

NoPlan == [profile |-> "none", reason |-> "none", segments |-> <<>>, seams |-> <<>>,
           trustedStart |-> NoTs, trustedEnd |-> NoTs]

FallbackReason(why) == IF why = "crossed_seed_source_cross_validated" THEN CrossedSource ELSE why

(* The plan of a day that needs a fill: the stitch plan where it supports a
   partial or a full-day fill, the whole day where the masks show nothing to
   fill or cannot see what failed. *)
FillPlan(verdict, stitch) ==
    LET decision == FillDecision(verdict)
        narrower == \/ stitch.profile = LakeOnly
                    \/ stitch.profile # FullDayFill /\ ThinDepthOverBar \in verdict.reasons
    IN  IF decision.needs # "yes" THEN NoPlan
        ELSE IF stitch = NoPlan \/ narrower
        THEN FullDayPlan(GridLen, FallbackReason(decision.why))
        ELSE stitch

-----------------------------------------------------------------------------
(* A day's record in a report; calendar is the context it was judged under. *)
DayRecord(verdict, stitch, calendar) ==
    LET decision == FillDecision(verdict)
    IN  [cls |-> verdict.cls, reasons |-> verdict.reasons, calendar |-> calendar,
         fill |-> [needs |-> decision.needs, why |-> decision.why,
                   plan |-> FillPlan(verdict, stitch)]]

\* Mutant of AssessLakeDay: a book without an accepted seed is replayed cold.
AssessLakeDayCold(c, snaps, calendar) ==
    LET seed == IF snaps /\ c.seed # NoTs THEN c.seed ELSE 0
        stitch == IF c.rows THEN PlanDayStitch(ValidMask(c), seed, ~c.unreliable) ELSE NoPlan
    IN  DayRecord(ClassifyDay(c, seed), stitch, calendar)

\* assess_lake_day: snaps is whether the seed snapshots could be loaded.
AssessLakeDay(c, snaps, calendar) ==
    LET seed == IF snaps THEN c.seed ELSE NoTs
        verdict == ClassifyDay(c, seed)
        stitch == IF c.rows THEN PlanDayStitch(ValidMask(c), seed, ~c.unreliable) ELSE NoPlan
    IN  DayRecord(verdict, stitch, calendar)

ExcludedResult(calendar) ==
    DayRecord([cls |-> ExcludedDay, reasons |-> {"calendar_excluded"}], NoPlan, calendar)

InconclusiveLoadFailure(calendar) ==
    DayRecord([cls |-> Inconclusive, reasons |-> {LoadFailed}], NoPlan, calendar)

\* The records of a batch, with one day more.
WithDay(days, d, rec) == [x \in DOMAIN days \union {d} |-> IF x = d THEN rec ELSE days[x]]

(* The summary counts every class and every outcome of the fill decision. *)
Classes == {LakeUsable, LakePresentDegraded, MissingNeedsCoinapi, ExcludedDay, Inconclusive}

Summary(days) ==
    LET of(k, field(_)) == Cardinality({d \in DOMAIN days : field(days[d]) = k})
    IN  [nDays  |-> Cardinality(DOMAIN days),
         counts |-> [k \in Classes |-> of(k, LAMBDA r : r.cls)],
         fills  |-> [k \in {"yes", "no", "none"} |-> of(k, LAMBDA r : r.fill.needs)],
         profiles |-> [k \in PartialFillProfiles \union {FullDayFill} |->
                          of(k, LAMBDA r : r.fill.plan.profile)]]

BuildReport(days, meta) == [meta |-> meta, summary |-> Summary(days), days |-> days]
=============================================================================
