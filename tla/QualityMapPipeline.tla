------------------------ MODULE QualityMapPipeline ------------------------
(***************************************************************************)
(* From the calendar to an approved purchase: the batches of the quality   *)
(* map (QualityMapBatches), the targeted rerun and the hand-written        *)
(* resolutions for the days nobody could judge, the review of the reports, *)
(* the operator's approval of one manifest and the gate of the executor    *)
(* (BackfillReview).  The review first reads its inputs and hashes the     *)
(* files again when it assembles the manifest, so both are kept.           *)
(***************************************************************************)
EXTENDS BackfillReview

CONSTANTS MaxReviews,        \* bound on reviews
          Windows            \* the --pilot windows an operator may select

VARIABLES entries,   \* the entries of the resolutions file
          rerun,     \* the report of the targeted rerun
          review,    \* the review in progress: what it read and concluded
          reviews,   \* how many reviews were started
          manifest,  \* the backfill manifest on disk
          approved,  \* the manifest whose hash the operator pins
          accepted   \* the plan the gate last accepted

pipelineVars == <<batchVars, entries, rerun, review, reviews, manifest, approved, accepted>>

-----------------------------------------------------------------------------
(* meta.inputs: what is on disk now, of the batches whose report was read. *)
Pins(present) ==
    [plan |-> plan, calendar |-> calendar, entries |-> entries,
     rerun |-> IF \E e \in entries : e.action = "rerun" THEN rerun ELSE None,
     reports |-> [b \in present |-> reports[b]],
     files |-> [b \in present |-> dayFiles[b]]]

(* The operator sees to a day nobody could judge once the map is there. *)
MapIsThere ==
    /\ plan \notin {None, Torn} /\ orch.pc = "idle"
    /\ \A b \in DOMAIN plan.batches : ReadReport(b) # None

(* Somebody reruns one day by hand, through the gate of the runner, perhaps
   with other parameters than the batches were run with. *)
TargetedRerun ==
    /\ MapIsThere
    /\ \E d \in Days \ calendar.excluded, params \in {"default", "other"} :
          /\ \E b \in Names : /\ ReadReport(b) # None /\ d \in DOMAIN reports[b].days
                              /\ NoVerdict(reports[b].days[d])
          /\ QuotaGate({d}, used) = "ok"
          /\ \E o \in DayOutcomes(d, calendar) :
                LET cost == o.fault + (IF params = "default" THEN 0 ELSE 1)
                IN  /\ faults + cost <= MaxFaults
                    /\ faults' = faults + cost
                    /\ used' = used + o.gb
                    /\ rerun' = BuildReport(WithDay(<<>>, d, o.rec),
                                            [quota |-> "ok", params |-> params])
    /\ rerun' # rerun
    /\ UNCHANGED <<content, calendar, plan, dayFiles, reports, planner, orch, child,
                   hurried, entries, review, reviews, manifest, approved, accepted>>

\* The file is written by hand.  It may name a day that needs no decision, and
\* pins what the reports say of a day when the entry is written.
WriteResolution ==
    /\ entries = {} /\ MapIsThere
    /\ LET index == DayIndex(plan, reports)
       IN  \E d \in DOMAIN index :
             \E a \in IF NoVerdict(index[d]) THEN {"rerun", "fill", "exclude"} ELSE {"fill"} :
             entries' = {[day |-> d, cls |-> index[d].cls, reasons |-> index[d].reasons,
                          action |-> a]}
    /\ UNCHANGED <<batchVars, rerun, review, reviews, manifest, approved, accepted>>

-----------------------------------------------------------------------------
(* The review, begun when no planner runs.  A file that cannot be parsed ends it
   with nothing written. *)
ReviewLoad ==
    /\ review.pc = "idle" /\ reviews < MaxReviews /\ planner.pc = "idle"
    /\ plan \notin {None, Torn}
    /\ \A b \in DOMAIN plan.batches : reports[b] # Torn
    /\ review' = [pc |-> "assemble", read |-> Pins(Present(plan, reports)),
                  verdict |-> ReadinessVerdict(plan, calendar, reports, dayFiles, entries, rerun)]
    /\ reviews' = reviews + 1
    /\ UNCHANGED <<batchVars, entries, rerun, manifest, approved, accepted>>

\* The hashes are taken of the files as they are by now.
ReviewPublish ==
    /\ review.pc = "assemble"
    /\ manifest' = [verdict |-> review.verdict, read |-> review.read,
                    inputs |-> Pins(DOMAIN review.read.reports)]
    /\ review' = [pc |-> "idle", read |-> None, verdict |-> None]
    /\ UNCHANGED <<batchVars, entries, rerun, reviews, approved, accepted>>

\* The manifest is written in place.
ReviewDies ==
    /\ review.pc = "assemble" /\ faults < MaxFaults
    /\ manifest' \in {manifest, Torn}
    /\ review' = [pc |-> "idle", read |-> None, verdict |-> None]
    /\ faults' = faults + 1
    /\ UNCHANGED <<content, calendar, plan, dayFiles, reports, planner, orch, child,
                   used, hurried, entries, rerun, reviews, approved, accepted>>

-----------------------------------------------------------------------------
\* The operator reads a manifest that is ready and pins its hash.
Approve ==
    /\ manifest \notin {None, Torn, approved}
    /\ manifest.verdict.blockers = {}
    /\ approved' = manifest
    /\ UNCHANGED <<batchVars, entries, rerun, review, reviews, manifest, accepted>>

\* build_plan: refused unless the manifest is the approved one, passes every
\* check and selects something.
Gate ==
    /\ manifest \notin {None, Torn} /\ manifest = approved
    /\ PlanAccepted(manifest, manifest.inputs = Pins(DOMAIN manifest.inputs.reports))
    /\ \E window \in Windows :
          LET units == SelectWindow(DeriveUnits(manifest.verdict.days), window)
          IN  /\ units # {}
              /\ accepted' = [manifest |-> manifest, units |-> units, window |-> window]
    /\ UNCHANGED <<batchVars, entries, rerun, review, reviews, manifest, approved>>

-----------------------------------------------------------------------------
Init ==
    /\ BatchInit
    /\ entries = {} /\ rerun = None /\ reviews = 0
    /\ review = [pc |-> "idle", read |-> None, verdict |-> None]
    /\ manifest = None /\ approved = None /\ accepted = None

BatchStep ==
    /\ BatchNext
    /\ UNCHANGED <<entries, rerun, review, reviews, manifest, approved, accepted>>

Next == BatchStep \/ TargetedRerun \/ WriteResolution
        \/ ReviewLoad \/ ReviewPublish \/ ReviewDies \/ Approve \/ Gate

(* A planner that was started goes on until it ends, the batches are executed
   again and again, a new month comes, and an orchestrator goes on: one of its
   steps is possible whenever it is not idle, and a step of its own is one that
   moves it or its child without a fault. *)
Fairness ==
    /\ WF_batchVars(PlannerStep) /\ WF_batchVars(Execute) /\ WF_batchVars(MonthRolls)
    /\ []<>(orch.pc = "idle") \/ []<><<faults' = faults>>_<<orch, child>>

Spec == Init /\ [][Next]_pipelineVars /\ Fairness

-----------------------------------------------------------------------------
Decided(m, d) == \E e \in m.read.entries : e.day = d

Buys(a, product) == {d \in Days : <<product, d>> \in a.units}

ReallyUsable(d) == ClassifyDay(content[d], content[d].seed).cls = LakeUsable

(* What is bought is what is needed.  A day of the accepted plan's window that
   the calendar has in scope for books and that nobody decided by hand is
   bought unless Lake really holds it in usable quality; a book is bought only
   where Lake has none or really is not usable; trades are bought exactly for
   the gaps of the calendar the plan was judged under.  Everything in between
   may have been torn, replaced by a later plan or judged under another
   calendar. *)
AcceptedPlanIsNeeded ==
    accepted # None =>
      LET m   == accepted.manifest
          cal == m.read.calendar
          open == {d \in accepted.window \ cal.excluded : ~Decided(m, d)}
          scope == cal.lakeAll \union cal.bookGap
      IN  /\ \A d \in open \intersect scope :
                d \in Buys(accepted, "book") \/ ReallyUsable(d)
          /\ \A d \in open \intersect Buys(accepted, "book") :
                d \in cal.bookGap \/ ~ReallyUsable(d)
          /\ Buys(accepted, "trades") \intersect open = cal.tradeGap \intersect open
          /\ Buys(accepted, "book") \intersect cal.excluded = {}
          /\ Buys(accepted, "trades") \intersect cal.excluded = {}

(* What costs is justified: pulls for the map stay clear of the month's cap,
   and what the map says to buy is needed. *)
DownloadsAreJustified == QuotaHeld /\ AcceptedPlanIsNeeded

(* A resolution never rewrites a verdict: a day the batches could judge is in
   the accepted plan as it would be without the resolutions file, however stale
   the file is by then. *)
VerdictsAreNotOverridden ==
    accepted # None =>
      LET m == accepted.manifest
          index == DayIndex(m.read.plan, m.read.reports)
      IN  \A d \in DOMAIN index :
             ~NoVerdict(index[d]) =>
                m.verdict.days[d] = BuildDayRecord(d, index, m.read.calendar)

-----------------------------------------------------------------------------
(* The plan of a day in any report on disk. *)
PlansOf(d) == {reports[b].days[d].fill.plan : b \in {x \in Names :
                  ReadReport(x) # None /\ d \in DOMAIN reports[x].days
                  /\ reports[x].days[d].fill.needs = "yes"}}

(* A stitched day never trusts Lake too early: its segments partition the day,
   every Lake segment begins on a valid sample, after the accepted seed and
   after WarmupConsecutive valid samples in a row that the same stretch
   contributed, it holds no invalid run long enough to be filled, and its share
   of invalid samples is within the policy's.  The reviewer's independent check
   of the record accepts every such day. *)
StitchIsSound ==
    \A d \in Days : \A p \in PlansOf(d) :
      LET c == content[d]
          valid == ValidMask(c)
          in(s) == s.start..(s.end - 1)
          lake == {s \in Range(p.segments) : s.source = Lake}
          trusted == UNION {in(s) : s \in lake}
      IN  /\ FillSegmentsOk(p.segments, p.seams)
          /\ Coinapi \in Sources(p.segments)
          /\ \A s \in lake :
                /\ c.seed # NoTs /\ ~c.unreliable /\ c.rows
                /\ \A i \in (s.start - WarmupConsecutive + 1)..s.start :
                      i \in Samples /\ i >= c.seed /\ valid[i]
                /\ s.end - s.start >= MinLakeSegment
                /\ ~ \E i \in in(s) : \A j \in i..(i + FillMin - 1) : j \in in(s) /\ ~valid[j]
          /\ 100 * Cardinality({i \in trusted : ~valid[i]})
                <= SpanInvalidPct * Cardinality(trusted)
          /\ \A b \in Names : ReadReport(b) # None =>
                \A x \in DOMAIN reports[b].days : DayRecordOk(reports[b].days[x])

(* What a consumer may use around a seam: a label or a feature the policy calls
   valid has its whole window, and the guard around it, within one vendor; and
   a sample outside the guard of every seam has such a neighbourhood. *)
ValidWindowsStayWithinOneVendor ==
    \A d \in Days : \A p \in PlansOf(d) : \A t, w \in Samples :
      LET one(a, b) == a >= 0 /\ b < GridLen =>
                          Cardinality(WindowVendorSources(a, b, p.segments)) = 1
      IN  /\ t + w < GridLen /\ LabelValid(t, p.seams, w, SeamGuard) =>
                /\ ~WindowCrossesSeam(t, t + w, p.seams)
                /\ one(t - SeamGuard, t + w + SeamGuard)
          /\ t >= w /\ FeatureValid(t, p.seams, w, SeamGuard) =>
                one(t - w - SeamGuard, t + SeamGuard)
          /\ ~SeamGuardMask(t, p.seams, SeamGuard) =>
                \A u \in Samples : u \in (t - SeamGuard)..(t + SeamGuard) =>
                   VendorSourceAt(u, p.segments) = VendorSourceAt(t, p.segments)
=============================================================================
