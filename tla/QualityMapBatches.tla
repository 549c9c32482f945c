-------------------------- MODULE QualityMapBatches --------------------------
(***************************************************************************)
(* The broad Coinbase quality map, in batches that fit the Lake quota:     *)
(*   src/scripts/plan_coinbase_quality_map_batches.py    the planner       *)
(*   src/scripts/run_coinbase_quality_map_batches.py     the orchestrator  *)
(*   src/scripts/run_coinbase_quality_map.py (main)      its child, which  *)
(*                                         downloads and judges one batch  *)
(* The three talk through files: the usable calendar, a days file per      *)
(* batch, the plan manifest and a report per batch.  Batch names are       *)
(* reused by the next plan.                                                *)
(***************************************************************************)
EXTENDS CoinbaseQualityMap

CONSTANTS Days,            \* a finite set of day numbers
          Contents,          \* what Lake may hold: functions from Days to day contents
          Calendars,         \* the usable calendars the verifier may write
          GbPerDay, MaxGbPerBatch,   \* the planner's options
          MaxBatchesPerRun,  \* --max-batches
          MaxPlans, MaxFaults, \* bounds
          None, Torn         \* no value; a file cut short

\* days_per_batch refuses a budget that does not allow one day.
ASSUME BatchAssumption ==
    /\ Days \subseteq Nat /\ IsFiniteSet(Days)
    /\ {GbPerDay, MaxGbPerBatch} \subseteq Nat \ {0} /\ GbPerDay <= MaxGbPerBatch
    /\ \A cal \in Calendars : cal.lakeAll \union cal.bookGap \union cal.tradeGap \subseteq Days

VARIABLES content,   \* what Lake holds
          calendar,  \* the usable calendar on disk
          plan,      \* the plan manifest on disk
          dayFiles,  \* the days file of every batch name, {} where there is none
          reports,   \* the report in the directory of every batch name
          planner, orch, child,  \* the three programs' control state
          used,      \* GB pulled this month
          hurried,   \* history: some load of this month began on a lagging reading
          faults     \* how many faults have happened

batchVars == <<content, calendar, plan, dayFiles, reports, planner, orch, child,
               used, hurried, faults>>

MaxBatches == Cardinality(Days)
Names == 1..MaxBatches

\* A calendar: the days of the Lake product, the fill days by what they lack,
\* the excluded days, and what the CoinAPI probes found.
FillDays(cal) == cal.bookGap \union cal.tradeGap

CalendarContext(cal, d) ==
    [lake |-> d \in cal.lakeAll, fill |-> d \in FillDays(cal), excluded |-> d \in cal.excluded]

\* The programs that are not running.
NoPlanner(gen) == [pc |-> "idle", gen |-> gen, batches |-> <<>>, manifest |-> None]
NoOrchestrator == [pc |-> "idle", plan |-> None, batch |-> 0, ran |-> 0]
NoChild == [pc |-> "idle", todo |-> {}, calendar |-> None, quota |-> "ok", done |-> <<>>]

-----------------------------------------------------------------------------
(* The planner. *)
SelectDays(cal) ==
    LET tradeOnly == FillDays(cal) \ cal.bookGap
    IN  [batch    |-> ((cal.lakeAll \union tradeOnly) \ cal.bookGap) \ cal.excluded,
         withheld |-> cal.bookGap,
         dropped  |-> cal.lakeAll \intersect (cal.bookGap \union cal.excluded)]

\* Mutant of DaysPerBatch: the planner's budget alone.
DaysPerBatchUncapped == MaxGbPerBatch \div GbPerDay

\* The budget, capped at what the runner's own gate can ever accept.
DaysPerBatch == Min({MaxGbPerBatch \div GbPerDay,
                     (QuotaGb - HeadroomGb) \div (DeltaGb + BookGb)})

PlanBatches(days) ==
    LET rank(d) == Cardinality({x \in days : x < d})
        n == (Cardinality(days) + DaysPerBatch - 1) \div DaysPerBatch
    IN  [i \in 1..n |-> {d \in days : rank(d) \div DaysPerBatch = i - 1}]

\* A batch's row of the manifest.
BatchRow(days) == [nDays |-> Cardinality(days), first |-> Min(days), last |-> Max(days)]

BuildManifest(gen, sel, batches) ==
    [gen |-> gen, batches |-> [i \in DOMAIN batches |-> BatchRow(batches[i])],
     withheld |-> sel.withheld, dropped |-> sel.dropped]

\* load_calendar, select_days, plan_batches, build_manifest; then the old days
\* files go.  A calendar with nothing to map is refused.
StartPlan ==
    /\ planner.pc = "idle" /\ planner.gen < MaxPlans
    /\ LET sel == SelectDays(calendar)
           batches == PlanBatches(sel.batch)
       IN  /\ sel.batch # {}
           /\ planner' = [planner EXCEPT !.pc = "files", !.gen = @ + 1, !.batches = batches,
                             !.manifest = BuildManifest(planner.gen + 1, sel, batches)]
    /\ dayFiles' = [b \in Names |-> {}]
    /\ UNCHANGED <<content, calendar, plan, reports, orch, child, used, hurried, faults>>

WriteDayFiles ==
    /\ planner.pc = "files"
    /\ dayFiles' = [b \in Names |-> IF b \in DOMAIN planner.batches
                                    THEN planner.batches[b] ELSE {}]
    /\ planner' = [planner EXCEPT !.pc = "manifest"]
    /\ UNCHANGED <<content, calendar, plan, reports, orch, child, used, hurried, faults>>

WritePlanManifest ==
    /\ planner.pc = "manifest"
    /\ plan' = planner.manifest
    /\ planner' = NoPlanner(planner.gen)
    /\ UNCHANGED <<content, calendar, dayFiles, reports, orch, child, used, hurried, faults>>

\* The planner dies with some of the new days files written, or in the middle
\* of the manifest.
PlannerDies ==
    /\ planner.pc # "idle" /\ faults < MaxFaults
    /\ planner' = NoPlanner(planner.gen)
    /\ faults' = faults + 1
    /\ \/ /\ planner.pc = "files"
          /\ \E k \in 0..Len(planner.batches) :
                dayFiles' = [b \in Names |-> IF b \in 1..k THEN planner.batches[b] ELSE {}]
          /\ plan' = plan
       \/ /\ planner.pc = "manifest"
          /\ plan' \in {plan, Torn}
          /\ dayFiles' = dayFiles
    /\ UNCHANGED <<content, calendar, reports, orch, child, used, hurried>>

-----------------------------------------------------------------------------
(* The orchestrator's reading of the disk. *)
ReadReport(b) == IF reports[b] = None \/ reports[b] = Torn THEN None ELSE reports[b]

\* The report covers the planned days: the row's count, and the days file where
\* it is readable (agreeing with the row's bounds), else the row's bounds.
ReportMatchesBatch(rep, row, planned) ==
    LET days == DOMAIN rep.days
    IN  /\ rep.summary.nDays = row.nDays /\ Cardinality(days) = row.nDays
        /\ IF planned # {}
           THEN days = planned /\ Min(planned) = row.first /\ Max(planned) = row.last
           ELSE days # {} => Min(days) = row.first /\ Max(days) = row.last

\* What an incomplete batch's last attempt came to is reported, and decides nothing.
BatchStatus(p, b) ==
    LET rep == ReadReport(b)
    IN  IF rep = None THEN "pending"
        ELSE IF ReportMatchesBatch(rep, p.batches[b], dayFiles[b]) THEN "complete" ELSE "stale"

\* aggregate_quality: the days of the batches whose report matches.
AggregateQuality(p) ==
    LET complete == {b \in DOMAIN p.batches :
                        /\ ReadReport(b) # None
                        /\ ReportMatchesBatch(reports[b], p.batches[b], dayFiles[b])}
    IN  [batches |-> Cardinality(complete),
         nDays   |-> MapThenSumSet(LAMBDA b : reports[b].summary.nDays, complete)]

-----------------------------------------------------------------------------
(* The orchestrator: one batch after the other, at most MaxBatchesPerRun. *)
Execute ==
    /\ orch.pc = "idle" /\ plan \notin {None, Torn}
    /\ orch' = [pc |-> "next", plan |-> plan, batch |-> 1, ran |-> 0]
    /\ UNCHANGED <<content, calendar, plan, dayFiles, reports, planner, child, used, hurried, faults>>

EndExecute == orch' = NoOrchestrator

SkipComplete ==
    /\ orch.pc = "next" /\ orch.batch \in DOMAIN orch.plan.batches
    /\ BatchStatus(orch.plan, orch.batch) = "complete"
    /\ orch' = [orch EXCEPT !.batch = @ + 1]
    /\ UNCHANGED <<content, calendar, plan, dayFiles, reports, planner, child, used, hurried, faults>>

BudgetSpent ==
    /\ orch.pc = "next"
    /\ \/ orch.batch \notin DOMAIN orch.plan.batches
       \/ /\ orch.batch \in DOMAIN orch.plan.batches
          /\ BatchStatus(orch.plan, orch.batch) # "complete"
          /\ orch.ran >= MaxBatchesPerRun
    /\ EndExecute
    /\ UNCHANGED <<content, calendar, plan, dayFiles, reports, planner, child, used, hurried, faults>>

\* The attempt is over: on to the next batch unless the quota refused.
Record(code) ==
    orch' = IF code = "quota" THEN NoOrchestrator
            ELSE [orch EXCEPT !.pc = "next", !.batch = @ + 1, !.ran = @ + 1]

-----------------------------------------------------------------------------
(* The child.  It reads the days file and the calendar as they are now; a
   missing days file fails it. *)
DueNow ==
    /\ orch.pc = "next" /\ orch.batch \in DOMAIN orch.plan.batches
    /\ BatchStatus(orch.plan, orch.batch) # "complete"
    /\ orch.ran < MaxBatchesPerRun

Toload(days) == days \ calendar.excluded

LaunchFails ==
    /\ DueNow /\ dayFiles[orch.batch] = {}
    /\ Record("failed")
    /\ UNCHANGED <<content, calendar, plan, dayFiles, reports, planner, child, used, hurried, faults>>

\* The gate in front of the download; a used_data that cannot be read counts
\* as a month already spent.
QuotaGate(days, seen) ==
    IF Toload(days) = {} THEN "no_days_to_load"
    ELSE QuotaDecision(EstimateLakeGb(Cardinality(Toload(days))), seen, TRUE)

LaunchRefused ==
    /\ DueNow /\ dayFiles[orch.batch] # {}
    /\ \E readable \in BOOLEAN :
          /\ readable \/ faults < MaxFaults
          /\ QuotaGate(dayFiles[orch.batch], IF readable THEN used ELSE QuotaGb)
                \notin {"ok", "no_days_to_load"}
          /\ faults' = IF readable THEN faults ELSE faults + 1
    /\ Record("quota")
    /\ UNCHANGED <<content, calendar, plan, dayFiles, reports, planner, child, used, hurried>>

\* used_data lags: what it says may be any earlier amount of the month.
Launch ==
    /\ DueNow /\ dayFiles[orch.batch] # {}
    /\ \E seen \in 0..used :
          LET days == dayFiles[orch.batch]
              gate == QuotaGate(days, seen)
              lagging == gate = "ok" /\ seen # used
          IN  /\ gate \in {"ok", "no_days_to_load"}
              /\ lagging => faults < MaxFaults
              /\ faults' = IF lagging THEN faults + 1 ELSE faults
              /\ hurried' = (hurried \/ lagging)
              /\ child' = [pc |-> "load", todo |-> Toload(days), calendar |-> calendar,
                           quota |-> gate,
                           done |-> [d \in days \intersect calendar.excluded |->
                                        ExcludedResult(CalendarContext(calendar, d))]]
    /\ orch' = [orch EXCEPT !.pc = "child"]
    /\ UNCHANGED <<content, calendar, plan, dayFiles, reports, planner, used>>

\* What one day can come to, and what it costs: an absent partition, a load
\* that raised, or a replay with or without its seed snapshots.
DayOutcomes(d, cal) ==
    LET c == content[d]
        context == CalendarContext(cal, d)
    IN  IF ~c.rows THEN {[rec |-> AssessLakeDay(c, FALSE, context), gb |-> 0, fault |-> 0]}
        ELSE {[rec |-> AssessLakeDay(c, TRUE, context), gb |-> DeltaGb + BookGb, fault |-> 0],
              [rec |-> AssessLakeDay(c, FALSE, context), gb |-> DeltaGb, fault |-> 1],
              [rec |-> InconclusiveLoadFailure(context), gb |-> 0, fault |-> 1]}

LoadDay ==
    /\ orch.pc = "child" /\ child.pc = "load" /\ child.todo # {}
    /\ LET d == Min(child.todo)
       IN  \E o \in DayOutcomes(d, child.calendar) :
              /\ faults + o.fault <= MaxFaults
              /\ faults' = faults + o.fault
              /\ used' = used + o.gb
              /\ child' = [child EXCEPT !.todo = @ \ {d}, !.done = WithDay(@, d, o.rec)]
    /\ UNCHANGED <<content, calendar, plan, dayFiles, reports, planner, orch,
                   hurried>>

\* write_report truncates the file it replaces.
TruncateReport ==
    /\ orch.pc = "child" /\ child.pc = "load" /\ child.todo = {}
    /\ reports' = [reports EXCEPT ![orch.batch] = Torn]
    /\ child' = [child EXCEPT !.pc = "write"]
    /\ UNCHANGED <<content, calendar, plan, dayFiles, planner, orch, used, hurried, faults>>

WriteReport ==
    /\ orch.pc = "child" /\ child.pc = "write"
    /\ reports' = [reports EXCEPT ![orch.batch] =
                      BuildReport(child.done, [quota |-> child.quota, params |-> "default"])]
    /\ child' = [child EXCEPT !.pc = "exited"]
    /\ UNCHANGED <<content, calendar, plan, dayFiles, planner, orch, used, hurried, faults>>

RecordOk ==
    /\ orch.pc = "child" /\ child.pc = "exited"
    /\ Record("ok")
    /\ child' = NoChild
    /\ UNCHANGED <<content, calendar, plan, dayFiles, reports, planner, used, hurried,
                   faults>>

\* The child dies and the orchestrator records the failure, or both die.
ChildDies ==
    /\ orch.pc = "child" /\ child.pc # "exited" /\ faults < MaxFaults
    /\ Record("failed")
    /\ child' = NoChild
    /\ faults' = faults + 1
    /\ UNCHANGED <<content, calendar, plan, dayFiles, reports, planner, used, hurried>>

OrchestratorDies ==
    /\ orch.pc # "idle" /\ faults < MaxFaults
    /\ EndExecute
    /\ child' = NoChild
    /\ faults' = faults + 1
    /\ UNCHANGED <<content, calendar, plan, dayFiles, reports, planner, used, hurried>>

-----------------------------------------------------------------------------
(* The world: the month, the calendar verifier. *)
\* A new month matters once a full batch would be refused in this one.
MonthRolls ==
    /\ used + EstimateLakeGb(DaysPerBatch) > QuotaGb - HeadroomGb
    /\ used' = 0 /\ hurried' = FALSE
    /\ UNCHANGED <<content, calendar, plan, dayFiles, reports, planner, orch, child,
                   faults>>

ReverifyCalendar ==
    /\ faults < MaxFaults
    /\ \E cal \in Calendars \ {calendar} : calendar' = cal
    /\ faults' = faults + 1
    /\ UNCHANGED <<content, plan, dayFiles, reports, planner, orch, child, used, hurried>>

BatchInit ==
    /\ content \in Contents /\ calendar \in Calendars
    /\ plan = None /\ dayFiles = [b \in Names |-> {}]
    /\ reports = [b \in Names |-> None]
    /\ \E g \in 0..(MaxPlans - 1) :
          planner = NoPlanner(g)
    /\ orch = NoOrchestrator /\ child = NoChild
    /\ used = 0 /\ hurried = FALSE /\ faults \in 0..MaxFaults

PlannerStep == WriteDayFiles \/ WritePlanManifest
OrchestratorStep ==
    \/ SkipComplete \/ BudgetSpent \/ LaunchFails \/ LaunchRefused \/ Launch
    \/ LoadDay \/ TruncateReport \/ WriteReport \/ RecordOk

BatchNext ==
    \/ StartPlan \/ PlannerStep \/ PlannerDies
    \/ Execute \/ OrchestratorStep \/ ChildDies \/ OrchestratorDies
    \/ MonthRolls \/ ReverifyCalendar

-----------------------------------------------------------------------------
(* While used_data is up to date whenever a load begins, a month's pulls
   stay clear of the cap, headroom included: the estimate of the gate covers
   what the child is charged, whatever dies or is run again. *)
QuotaHeld == ~hurried => used <= QuotaGb - HeadroomGb

(* As long as the plan on disk is intact, executing it again and again maps
   every batch: a batch the quota refuses this month fits the next one, and a
   torn report or a dead child is run again. *)
PlanIntact ==
    /\ plan \notin {None, Torn} /\ planner.pc = "idle" /\ planner.gen = plan.gen
    /\ \A b \in DOMAIN plan.batches : dayFiles[b] # {}

AllMapped ==
    \A b \in DOMAIN plan.batches :
        /\ ReadReport(b) # None /\ ReportMatchesBatch(reports[b], plan.batches[b], dayFiles[b])

EveryBatchIsMapped == PlanIntact ~> (~PlanIntact \/ AllMapped)
=============================================================================
