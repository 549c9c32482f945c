--------------------------- MODULE BackfillReview ---------------------------
(***************************************************************************)
(* src/scripts/review_coinbase_backfill_manifest.py turns the reports of   *)
(* the batches into the manifest of what to buy from CoinAPI, and the      *)
(* planning gate of src/ingest/coinapi_backfill.py turns a manifest into   *)
(* the units to download.  Both are functions of documents: this module    *)
(* has no action.  A list of blockers is the set of the kinds that are not *)
(* empty.  A document that has not the shape its writer gives it is left   *)
(* out, except a file cut short; a hash is the document it was taken of.   *)
(***************************************************************************)
EXTENDS QualityMapBatches

CONSTANTS LocalParquet     \* days whose CoinAPI book is on disk already

NoVerdict(rec) == rec.fill.needs = "none" /\ rec.fill.why = "no_verdict"

-----------------------------------------------------------------------------
(* The calendar, as the reviewer reads it: exclusion wins over every fill. *)
BookGapDays(cal) == cal.bookGap \ cal.excluded
TradeFillDays(cal) == cal.tradeGap \ cal.excluded
CalendarBatchDays(cal) == SelectDays(cal).batch

\* Verified by a probe; and, the other way round, known to be unavailable.
IsFillable(cal, d, product) ==
    IF product = "book" THEN d \in cal.bookOk ELSE d \in cal.tradeOk
BookUnavailable(cal, d) == d \in cal.bookBad /\ ~IsFillable(cal, d, "book")

-----------------------------------------------------------------------------
(* One day's record. *)
FillContract(rec) ==
    CASE rec.cls = Inconclusive ->
           \/ NoVerdict(rec)
           \/ /\ rec.fill.needs = "yes" /\ rec.fill.why = "crossed_seed_source_cross_validated"
              /\ SeedSourceUnreliable \in rec.reasons
      [] OTHER -> /\ rec.fill.needs = FillDecision(rec).needs
                  /\ rec.fill.why = FillDecision(rec).why

\* The segments partition the day and the seams are its changes of source.
FillSegmentsOk(segments, seams) ==
    /\ segments # <<>>
    /\ Head(segments).start = 0 /\ Last(segments).end = GridLen
    /\ \A i \in DOMAIN segments :
          /\ segments[i].start < segments[i].end
          /\ segments[i].source \in {Lake, Coinapi, ExcludedSpan}
          /\ i > 1 => segments[i].start = segments[i - 1].end
    /\ seams = SeamsOf(segments)

Sources(segments) == {s.source : s \in Range(segments)}

DayRecordOk(rec) ==
    LET p == rec.fill.plan
    IN  /\ rec.cls \in Classes
        /\ FillContract(rec)
        /\ rec.fill.needs = "yes" <=> p.profile \in PartialFillProfiles \union {FullDayFill}
        /\ (p.profile = FullDayFill) <=> (p.reason # "none")
        /\ p.profile = FullDayFill => p.trustedStart = NoTs /\ p.trustedEnd = NoTs
        /\ rec.fill.needs = "yes" =>
              /\ rec.cls = MissingNeedsCoinapi => p.profile = FullDayFill
              /\ FillSegmentsOk(p.segments, p.seams)
              /\ Coinapi \in Sources(p.segments)
              /\ p.profile = FullDayFill => Sources(p.segments) = {Coinapi}

SummaryOk(rep) == rep.summary = Summary(rep.days)

-----------------------------------------------------------------------------
(* The reports of a plan's batches: those that exist, in the plan's order, and
   the record of every day, the first batch winning. *)
Present(p, reps) == {b \in DOMAIN p.batches : reps[b] # None}

DayIndex(p, reps) ==
    LET mapped == UNION {DOMAIN reps[b].days : b \in Present(p, reps)}
        first(d) == Min({b \in Present(p, reps) : d \in DOMAIN reps[b].days})
    IN  [d \in mapped |-> reps[first(d)].days[d]]

DuplicateBatchDays(p, reps) ==
    {d \in Days : Cardinality({b \in Present(p, reps) : d \in DOMAIN reps[b].days}) > 1}

MissingBatchReports(p, reps) == DOMAIN p.batches \ Present(p, reps)

BatchRan(rep) ==
    /\ rep.meta.quota \in {"ok", "no_days_to_load"}
    /\ rep.summary.nDays = Cardinality(DOMAIN rep.days)

\* The batch's row and its days file, which must be there, give the report's days.
MatchesPlan(rep, row, planned) ==
    LET days == DOMAIN rep.days
    IN  /\ row.nDays = Cardinality(days)
        /\ days # {} => row.first = Min(days) /\ row.last = Max(days)
        /\ planned # {} /\ planned = days

(* check_completeness: nothing the calendar maps is missing, nothing is there
   that it does not, and the classes agree with the calendar of today. *)
CompletenessBlockers(p, reps, files, index, cal) ==
    LET gap == BookGapDays(cal)
        mapped == DOMAIN index
        outstanding == UNION {files[b] : b \in MissingBatchReports(p, reps)}
        gaps == \/ MissingBatchReports(p, reps) # {}
                \/ DuplicateBatchDays(p, reps) # {}
                \/ (CalendarBatchDays(cal) \ mapped) \ outstanding # {}
                \/ (mapped \ CalendarBatchDays(cal)) \ gap # {}
                \/ \E d \in gap : IF d \in mapped THEN index[d].cls # MissingNeedsCoinapi
                                  ELSE d \notin p.withheld
                \/ \E d \in mapped \ gap : index[d].cls = MissingNeedsCoinapi
                \/ \E d \in mapped \ cal.excluded : index[d].cls = ExcludedDay
                \/ p.dropped # {}
        incomplete == \E b \in Present(p, reps) :
                          \/ ~BatchRan(reps[b])
                          \/ ~MatchesPlan(reps[b], p.batches[b], files[b])
    IN  (IF gaps THEN {"coverage_gaps"} ELSE {})
        \union (IF incomplete THEN {"batch_incomplete"} ELSE {})

\* The parameters every report must share: those of the first batch.
ReferenceParams(p, reps) ==
    IF Present(p, reps) = {} THEN None ELSE reps[Min(Present(p, reps))].meta.params

ConsistencyBlockers(p, reps) ==
    IF \E b \in Present(p, reps) :
          \/ \E d \in DOMAIN reps[b].days : ~DayRecordOk(reps[b].days[d])
          \/ ~SummaryOk(reps[b])
          \/ reps[b].meta.params # ReferenceParams(p, reps)
    THEN {"inconsistencies"} ELSE {}

UnresolvedDays(p, reps) ==
    UNION {{d \in DOMAIN reps[b].days : NoVerdict(reps[b].days[d])} : b \in Present(p, reps)}

CalendarAgrees(days, cal) == \A d \in DOMAIN days : days[d].calendar = CalendarContext(cal, d)

CalendarDriftBlockers(p, reps, cal) ==
    IF \A b \in Present(p, reps) : CalendarAgrees(reps[b].days, cal)
    THEN {} ELSE {"calendar_drift"}

\* Every fill the calendar asks for was probed; skip is what a decision excludes.
FillAvailabilityBlockers(cal, skip) ==
    (IF \E d \in BookGapDays(cal) \ skip : ~IsFillable(cal, d, "book")
     THEN {"book_fill_unavailable"} ELSE {})
    \union (IF \E d \in TradeFillDays(cal) \ skip : ~IsFillable(cal, d, "trades")
            THEN {"trade_fill_unavailable"} ELSE {})

\* A fill a report asks for is blocked by evidence against it, not by its absence.
ReportFillBlockers(index, cal) ==
    IF \E d \in DOMAIN index : /\ index[d].fill.needs = "yes"
                               /\ d \notin LocalParquet /\ BookUnavailable(cal, d)
    THEN {"book_fill_unavailable"} ELSE {}

-----------------------------------------------------------------------------
(* Targeted resolutions.  An entry names a day nobody could judge, what its
   author saw in the report (cls, reasons), and the action: "rerun", with the
   report of a rerun, or one of the two policy decisions. *)
Duplicated(entries) ==
    {d \in Days : Cardinality({e \in entries : e.day = d}) > 1}

RerunReportOk(rep, claimed, params, cal) ==
    /\ BatchRan(rep) /\ SummaryOk(rep)
    /\ params # None => rep.meta.params = params
    /\ \A d \in DOMAIN rep.days : DayRecordOk(rep.days[d])
    /\ DOMAIN rep.days \subseteq claimed
    /\ CalendarAgrees(rep.days, cal)

\* A batch's own report is the evidence at issue, never a rerun of it.
RerunUsable(rep, entries, p, reps, cal) ==
    /\ rep # None
    /\ \A b \in Present(p, reps) : reps[b] # rep
    /\ RerunReportOk(rep, {e.day : e \in {x \in entries : x.action = "rerun"}},
                     ReferenceParams(p, reps), cal)

\* Mutant of Applies: a decision as its author saw the day applies to any day.
AppliesToAnyDay(e, entries, rerun, index, p, reps, cal) ==
    /\ e.day \notin Duplicated(entries) /\ e.day \in DOMAIN index
    /\ e.cls = index[e.day].cls /\ e.reasons = index[e.day].reasons
    /\ e.action = "rerun" => /\ RerunUsable(rerun, entries, p, reps, cal)
                             /\ e.day \in DOMAIN rerun.days

\* Only a day without a verdict, and only as its author saw it.
Applies(e, entries, rerun, index, p, reps, cal) ==
    /\ e.day \notin Duplicated(entries)
    /\ e.day \in DOMAIN index
    /\ NoVerdict(index[e.day])
    /\ e.cls = index[e.day].cls /\ e.reasons = index[e.day].reasons
    /\ e.action = "rerun" => /\ RerunUsable(rerun, entries, p, reps, cal)
                             /\ e.day \in DOMAIN rerun.days

Applied(entries, rerun, index, p, reps, cal) ==
    {e \in entries : Applies(e, entries, rerun, index, p, reps, cal)}

\* A rerun's record takes the place of the original.
Superseded(index, applied, rerun) ==
    LET days == {e.day : e \in {x \in applied : x.action = "rerun"}}
    IN  [d \in DOMAIN index |-> IF d \in days THEN rerun.days[d] ELSE index[d]]

ResolvedDays(applied, rerun) ==
    {e.day : e \in {x \in applied : x.action = "rerun" => ~NoVerdict(rerun.days[x.day])}}

DaysDecided(applied, action) == {e.day : e \in {x \in applied : x.action = action}}

ResolutionBlockers(entries, applied, rerun, p, reps, cal) ==
    (IF \/ applied # entries
        \/ /\ \E e \in entries : e.action = "rerun"
           /\ ~RerunUsable(rerun, entries, p, reps, cal)
     THEN {"resolution_issues"} ELSE {})
    \union (IF \E d \in DaysDecided(applied, "fill") : BookUnavailable(cal, d)
            THEN {"book_fill_unavailable"} ELSE {})

-----------------------------------------------------------------------------
(* The manifest. *)
NoFill == [needed |-> FALSE, kind |-> "none", plan |-> NoPlan]
WholeDay(reason) == [needed |-> TRUE, kind |-> "full_day", plan |-> FullDayPlan(GridLen, reason)]

(* build_day_record: exclusion wins, then the report's fill with its plan as it
   is, then a book gap of the calendar. *)
BuildDayRecord(d, index, cal) ==
    LET mapped == d \in DOMAIN index
        excluded == d \in cal.excluded \/ (mapped /\ index[d].cls = ExcludedDay)
        reported == mapped /\ index[d].fill.needs = "yes"
        plan_ == index[d].fill.plan
    IN  [cls   |-> IF mapped THEN index[d].cls ELSE "unmapped",
         book  |-> CASE excluded -> NoFill
                     [] ~excluded /\ reported ->
                          [needed |-> TRUE, plan |-> plan_,
                           kind |-> IF plan_.profile \in PartialFillProfiles
                                    THEN "partial" ELSE "full_day"]
                     [] ~excluded /\ ~reported ->
                          IF d \in BookGapDays(cal) THEN WholeDay("calendar_book_gap") ELSE NoFill,
         trade |-> ~excluded /\ d \in TradeFillDays(cal),
         excluded |-> excluded,
         unresolved |-> mapped /\ NoVerdict(index[d])]

ApplyPolicyDecision(rec, action) ==
    IF action = "fill" THEN [rec EXCEPT !.book = WholeDay("policy_decision"), !.unresolved = FALSE]
    ELSE [rec EXCEPT !.excluded = TRUE, !.book = NoFill, !.trade = FALSE, !.unresolved = FALSE]

Universe(index, cal) == DOMAIN index \union BookGapDays(cal) \union TradeFillDays(cal)
                        \union cal.excluded

ManifestDays(index, cal, applied) ==
    [d \in Universe(index, cal) |->
        LET rec == BuildDayRecord(d, index, cal)
            decision == {e.action : e \in {x \in applied : x.day = d /\ x.action # "rerun"}}
        IN  IF decision = {} THEN rec
            ELSE ApplyPolicyDecision(rec, CHOOSE a \in decision : TRUE)]

SectionsOf(days) ==
    LET pick(P(_)) == {d \in DOMAIN days : P(days[d])}
    IN  [full |-> pick(LAMBDA r : r.book.needed /\ r.book.kind = "full_day"),
         partial |-> pick(LAMBDA r : r.book.needed /\ r.book.kind = "partial"),
         trades |-> pick(LAMBDA r : r.trade),
         usable |-> pick(LAMBDA r : r.cls = LakeUsable),
         degraded |-> pick(LAMBDA r : r.cls = LakePresentDegraded),
         excluded |-> pick(LAMBDA r : r.excluded),
         unresolved |-> pick(LAMBDA r : r.unresolved)]

\* Book and trade units are priced alike here: what counts is how many.
CostSummary(days) ==
    LET s == SectionsOf(days)
    IN  [full |-> Cardinality(s.full), partial |-> Cardinality(s.partial),
         trades |-> Cardinality(s.trades)]

(* build_manifest_readiness on the documents it loaded.  The resolutions are
   applied first, so the checks judge the superseding records. *)
ReadinessVerdict(p, cal, reps, files, entries, rerun) ==
    LET original == DayIndex(p, reps)
        applied == Applied(entries, rerun, original, p, reps, cal)
        index == Superseded(original, applied, rerun)
        unresolved == UnresolvedDays(p, reps) \ ResolvedDays(applied, rerun)
        blockers == ResolutionBlockers(entries, applied, rerun, p, reps, cal)
                    \union CompletenessBlockers(p, reps, files, index, cal)
                    \union ConsistencyBlockers(p, reps)
                    \union (IF unresolved = {} THEN {} ELSE {"unresolved_days"})
                    \union CalendarDriftBlockers(p, reps, cal)
                    \union FillAvailabilityBlockers(cal, DaysDecided(applied, "exclude"))
                    \union ReportFillBlockers(index, cal)
        days == ManifestDays(index, cal, applied)
    IN  [days |-> days, blockers |-> blockers, sections |-> SectionsOf(days),
         cost |-> CostSummary(days)]

-----------------------------------------------------------------------------
(* The gate of the executor. *)
AcceptanceOk(m) == m.verdict.blockers = {} /\ DOMAIN m.verdict.days # {}

UnitOk(book) ==
    /\ FillSegmentsOk(book.plan.segments, book.plan.seams)
    /\ Coinapi \in Sources(book.plan.segments)
    /\ book.kind = "full_day" => Sources(book.plan.segments) = {Coinapi}

DeriveUnits(days) ==
    LET live == {d \in DOMAIN days : ~days[d].excluded /\ ~days[d].unresolved}
    IN  ({"book"} \X {d \in live : days[d].book.needed})
        \union ({"trades"} \X {d \in live : days[d].trade})

UnitsOk(days) ==
    \A d \in DOMAIN days :
        /\ ~days[d].unresolved
        /\ days[d].excluded => ~days[d].book.needed /\ ~days[d].trade
        /\ days[d].book.needed /\ ~days[d].excluded => UnitOk(days[d].book)

\* The sections and the cost a human read are those of the units.
SectionsAgree(v) == v.sections = SectionsOf(v.days)

CostAgrees(v, units) ==
    LET book(kind) == Cardinality({u \in units : u[1] = "book" /\ v.days[u[2]].book.kind = kind})
    IN  /\ v.cost.full = book("full_day") /\ v.cost.partial = book("partial")
        /\ v.cost.trades = Cardinality({u \in units : u[1] = "trades"})

SelectWindow(units, window) == {u \in units : u[2] \in window}

\* pinned is whether every input the review hashed is still what is on disk.
PlanAccepted(m, pinned) ==
    /\ AcceptanceOk(m) /\ pinned
    /\ UnitsOk(m.verdict.days) /\ SectionsAgree(m.verdict)
    /\ CostAgrees(m.verdict, DeriveUnits(m.verdict.days))
=============================================================================
