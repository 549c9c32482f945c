--------------------------- MODULE QualityMapProofs ---------------------------
(***************************************************************************)
(* Theorems about the Coinbase quality map, the stitching of a day, the    *)
(* review and the gate of the executor, for any days, calendars, contents, *)
(* masks, stitch policy, quota and number of plans.                        *)
(***************************************************************************)
EXTENDS QualityMapPipeline, SumTheorems

-----------------------------------------------------------------------------
(* Numbers *)

LEMMA DivBound ==
    ASSUME NEW n \in Nat \ {0}, NEW k \in Nat \ {0}
    PROVE  (n + k - 1) \div k \in 0..n
  <1> DEFINE q == (n + k - 1) \div k
  <1>1. q \in Int /\ k * q <= n + k - 1 /\ n + k - 1 < k * q + k
    OBVIOUS
  <1> HIDE DEF q
  <1>2. q >= 0
    BY <1>1
  <1>3. q <= n
    BY <1>1
  <1> QED BY <1>1, <1>2, <1>3 DEF q

LEMMA DaysPerBatchPositive == DaysPerBatch \in Nat \ {0}
  <1> DEFINE a == MaxGbPerBatch \div GbPerDay
             b == (QuotaGb - HeadroomGb) \div (DeltaGb + BookGb)
  <1>1. a \in Nat \ {0}
    BY BatchAssumption
  <1>2. b \in Nat \ {0}
    BY QuotaAssumption
  <1> HIDE DEF a, b
  <1>3. Min({a, b}) \in {a, b}
    BY <1>1, <1>2, MinOfNat
  <1> QED BY <1>1, <1>2, <1>3 DEF DaysPerBatch, a, b

\* One more day costs what a day costs.
LEMMA EstimateStep ==
    ASSUME NEW n \in Nat \ {0}
    PROVE  /\ EstimateLakeGb(n) \in Nat /\ EstimateLakeGb(n - 1) \in Nat
           /\ EstimateLakeGb(n) = EstimateLakeGb(n - 1) + (DeltaGb + BookGb)
  <1> DEFINE c == DeltaGb + BookGb
  <1>1. c \in Nat
    BY QuotaAssumption
  <1> HIDE DEF c
  <1>2. /\ n * c \in Nat /\ (n - 1) * c \in Nat /\ n * c = (n - 1) * c + c
    BY <1>1
  <1> QED BY <1>2 DEF c, EstimateLakeGb
-----------------------------------------------------------------------------
(* The invariant of the batches *)

\* What a batch can say of a day: an outcome of loading what Lake holds, or
\* that the calendar of then excluded it.
TrueRecord(lake, d, rec) ==
    \E context :
        \/ \E snaps \in BOOLEAN : rec = AssessLakeDay(lake[d], snaps, context)
        \/ rec = InconclusiveLoadFailure(context)
        \/ rec = ExcludedResult(context)

TrueDays(lake, days) == \A d \in DOMAIN days : TrueRecord(lake, d, days[d])

PlannedBatches(p) == DOMAIN p.batches \subseteq Names

PlannerShape ==
    \E batches \in Seq(SUBSET Days) : \E pc, gen, m :
        /\ planner = [pc |-> pc, gen |-> gen, batches |-> batches, manifest |-> m]
        /\ DOMAIN batches \subseteq Names
        /\ pc # "idle" => PlannedBatches(m)

BatchType ==
    /\ calendar \in Calendars
    /\ dayFiles \in [Names -> SUBSET Days]
    /\ DOMAIN reports = Names
    /\ PlannerShape
    /\ plan \notin {None, Torn} => PlannedBatches(plan)
    /\ used \in Nat /\ hurried \in BOOLEAN

OrchShape ==
    \E pc, p, b, n :
        /\ orch = [pc |-> pc, plan |-> p, batch |-> b, ran |-> n]
        /\ pc # "idle" => PlannedBatches(p)

ChildShape ==
    \E todo \in SUBSET Days : \E pc, cal, quota, done :
        child = [pc |-> pc, todo |-> todo, calendar |-> cal, quota |-> quota, done |-> done]

OrchType ==
    /\ OrchShape /\ ChildShape
    /\ orch.pc # "child" => child = NoChild

\* Whatever a report on disk says of a day was so.
ReportsInv ==
    /\ TrueDays(content, child.done)
    /\ \A b \in Names : reports[b] \notin {None, Torn} => TrueDays(content, reports[b].days)

\* A load in progress still fits this month, and the next.
QuotaInv ==
    /\ QuotaHeld
    /\ child.todo # {} =>
          EstimateLakeGb(Cardinality(child.todo)) + (IF hurried THEN 0 ELSE used)
             <= QuotaGb - HeadroomGb

BatchInv == BatchType /\ OrchType /\ ReportsInv /\ QuotaInv
-----------------------------------------------------------------------------
(* Steps of the planner *)

LEMMA BatchesInNames ==
    ASSUME NEW days, days \subseteq Days, days # {}
    PROVE  /\ PlanBatches(days) \in Seq(SUBSET Days)
           /\ DOMAIN PlanBatches(days) \subseteq Names
  <1> DEFINE k == DaysPerBatch
             n == (Cardinality(days) + k - 1) \div k
             rank(d) == Cardinality({x \in days : x < d})
             batch(i) == {d \in days : rank(d) \div k = i - 1}
  <1>1. IsFiniteSet(days) /\ Cardinality(days) \in Nat \ {0} /\ Cardinality(days) <= Cardinality(Days)
    BY BatchAssumption, FS_Subset, FS_CardinalityType, FS_EmptySet
  <1>2. k \in Nat \ {0}
    BY DaysPerBatchPositive
  <1> HIDE DEF k
  <1>3. n \in 0..Cardinality(days)
    BY <1>1, <1>2, DivBound
  <1>4. n \in Nat /\ 1..n \subseteq Names
    BY <1>1, <1>3, BatchAssumption, FS_CardinalityType DEF Names, MaxBatches
  <1>5. \A i \in 1..n : batch(i) \in SUBSET Days
    OBVIOUS
  <1>6. PlanBatches(days) = [i \in 1..n |-> batch(i)]
    BY DEF PlanBatches, k
  <1> HIDE DEF n, batch
  <1> QED BY <1>4, <1>5, <1>6

LEMMA SelectedDays ==
    ASSUME NEW cal \in Calendars
    PROVE  SelectDays(cal).batch \subseteq Days
  BY BatchAssumption DEF SelectDays, FillDays

\* What the planner touches is of no report and no load.
LEMMA PlannerInv ==
    ASSUME BatchInv, StartPlan \/ WriteDayFiles \/ WritePlanManifest \/ PlannerDies
    PROVE  BatchInv'
  <1>1. UNCHANGED <<content, calendar, reports, orch, child, used, hurried>>
    BY DEF StartPlan, WriteDayFiles, WritePlanManifest, PlannerDies
  <1>2. PICK batches \in Seq(SUBSET Days) : \E pc, gen, m :
           /\ planner = [pc |-> pc, gen |-> gen, batches |-> batches, manifest |-> m]
           /\ DOMAIN batches \subseteq Names
           /\ pc # "idle" => PlannedBatches(m)
    BY DEF BatchInv, BatchType, PlannerShape
  <1>3. PICK pc, gen, m :
           /\ planner = [pc |-> pc, gen |-> gen, batches |-> batches, manifest |-> m]
           /\ DOMAIN batches \subseteq Names
           /\ pc # "idle" => PlannedBatches(m)
    BY <1>2
  <1> DEFINE Ok == /\ PlannerShape'
                   /\ dayFiles' \in [Names -> SUBSET Days]
                   /\ plan' \notin {None, Torn} => PlannedBatches(plan')
  <1>4. ASSUME NEW g, planner' = NoPlanner(g) PROVE PlannerShape'
    <2>1. << >> \in Seq(SUBSET Days) /\ DOMAIN << >> \subseteq Names
      OBVIOUS
    <2> QED BY <1>4, <2>1 DEF NoPlanner, PlannerShape
  <1>5. ASSUME StartPlan PROVE Ok
    <2> DEFINE bs == PlanBatches(SelectDays(calendar).batch)
               d == BuildManifest(planner.gen + 1, SelectDays(calendar), bs)
    <2>1. SelectDays(calendar).batch # {} /\ SelectDays(calendar).batch \subseteq Days
      BY <1>5, SelectedDays DEF StartPlan, BatchInv, BatchType
    <2>2. bs \in Seq(SUBSET Days) /\ DOMAIN bs \subseteq Names
      BY <2>1, BatchesInNames
    <2>3. planner' = [planner EXCEPT !.pc = "files", !.gen = @ + 1, !.batches = bs, !.manifest = d]
      BY <1>5 DEF StartPlan
    <2>4. DOMAIN d.batches = DOMAIN bs
      BY DEF BuildManifest
    <2> HIDE DEF bs, d
    <2>5. planner' = [pc |-> "files", gen |-> gen + 1, batches |-> bs, manifest |-> d]
      BY <1>3, <2>3
    <2>6. PlannerShape'
      <3>1. PlannedBatches(d)
        BY <2>2, <2>4 DEF PlannedBatches
      <3> QED BY <2>2, <2>5, <3>1 DEF PlannerShape
    <2>7. dayFiles' \in [Names -> SUBSET Days] /\ plan' = plan
      BY <1>5 DEF StartPlan
    <2> QED BY <2>6, <2>7 DEF BatchInv, BatchType
  <1>6. ASSUME WriteDayFiles PROVE Ok
    <2>1. planner' = [pc |-> "manifest", gen |-> gen, batches |-> batches, manifest |-> m]
      BY <1>3, <1>6 DEF WriteDayFiles
    <2>2. PlannedBatches(m)
      BY <1>3, <1>6 DEF WriteDayFiles
    <2>3. dayFiles' \in [Names -> SUBSET Days]
      BY <1>3, <1>6 DEF WriteDayFiles
    <2>4. PlannerShape'
      BY <1>3, <2>1, <2>2 DEF PlannerShape
    <2>5. plan' = plan
      BY <1>6 DEF WriteDayFiles
    <2> QED BY <2>3, <2>4, <2>5 DEF BatchInv, BatchType
  <1>7. ASSUME WritePlanManifest PROVE Ok
    <2>1. PlannedBatches(plan')
      BY <1>3, <1>7 DEF WritePlanManifest
    <2>2. PlannerShape'
      BY <1>4, <1>7 DEF WritePlanManifest
    <2>3. dayFiles' = dayFiles
      BY <1>7 DEF WritePlanManifest
    <2> QED BY <2>1, <2>2, <2>3 DEF BatchInv, BatchType
  <1>8. ASSUME PlannerDies PROVE Ok
    <2>1. PlannerShape'
      BY <1>4, <1>8 DEF PlannerDies
    <2>2. dayFiles' \in [Names -> SUBSET Days]
      <3>1. CASE dayFiles' = dayFiles
        BY <3>1 DEF BatchInv, BatchType
      <3>2. ASSUME NEW k \in 0..Len(batches),
                   dayFiles' = [b \in Names |-> IF b \in 1..k THEN batches[b] ELSE {}]
            PROVE  dayFiles' \in [Names -> SUBSET Days]
        <4>1. ASSUME NEW b \in 1..k PROVE batches[b] \subseteq Days
          OBVIOUS
        <4> QED BY <3>2, <4>1
      <3>3. \/ dayFiles' = dayFiles
            \/ \E k \in 0..Len(batches) :
                  dayFiles' = [b \in Names |-> IF b \in 1..k THEN batches[b] ELSE {}]
        BY <1>3, <1>8 DEF PlannerDies
      <3> QED BY <3>1, <3>2, <3>3
    <2>3. plan' \notin {None, Torn} => PlannedBatches(plan')
      BY <1>8 DEF PlannerDies, BatchInv, BatchType
    <2> QED BY <2>1, <2>2, <2>3
  <1> HIDE DEF Ok
  <1>9. Ok
    BY <1>5, <1>6, <1>7, <1>8
  <1>10. BatchType'
    BY <1>1, <1>9 DEF Ok, BatchInv, BatchType
  <1>11. OrchType'
    BY <1>1 DEF BatchInv, OrchType, OrchShape, ChildShape
  <1>12. ReportsInv'
    BY <1>1 DEF BatchInv, ReportsInv, TrueDays, TrueRecord
  <1>13. QuotaInv'
    BY <1>1 DEF BatchInv, QuotaInv, QuotaHeld
  <1> QED BY <1>10, <1>11, <1>12, <1>13 DEF BatchInv
-----------------------------------------------------------------------------
(* Steps of the orchestrator *)

\* A step between batches, or one that ends the batch in progress.
LEMMA BetweenBatches ==
    ASSUME BatchInv, UNCHANGED <<content, calendar, plan, dayFiles, reports, planner, used, hurried>>,
           OrchShape', child' = NoChild
    PROVE  BatchInv'
  <1>1. BatchType'
    BY DEF BatchInv, BatchType, PlannerShape
  <1>2. OrchType'
    BY DEF OrchType, ChildShape, NoChild
  <1>3. ReportsInv'
    <2>1. DOMAIN child'.done = {}
      BY DEF NoChild
    <2> QED BY <2>1 DEF BatchInv, ReportsInv, TrueDays, TrueRecord
  <1>4. QuotaInv'
    BY DEF BatchInv, QuotaInv, QuotaHeld, NoChild
  <1> QED BY <1>1, <1>2, <1>3, <1>4 DEF BatchInv

\* Where an orchestrator can go from a batch.
LEMMA NextBatch ==
    ASSUME OrchShape, orch.pc # "idle",
           \/ orch' = NoOrchestrator
           \/ \E c \in {"next", "child"} : orch' = [orch EXCEPT !.pc = c]
           \/ orch' = [orch EXCEPT !.batch = @ + 1]
           \/ orch' = [orch EXCEPT !.pc = "next", !.batch = @ + 1, !.ran = @ + 1]
    PROVE  OrchShape'
  <1>0. PICK pc, p, b, n : /\ orch = [pc |-> pc, plan |-> p, batch |-> b, ran |-> n]
                           /\ pc # "idle" => PlannedBatches(p)
    BY DEF OrchShape
  <1> orch = [pc |-> pc, plan |-> p, batch |-> b, ran |-> n] /\ PlannedBatches(p)
    BY <1>0
  <1>1. CASE orch' = NoOrchestrator
    BY <1>1 DEF OrchShape, NoOrchestrator
  <1>2. ASSUME NEW c, orch' = [orch EXCEPT !.pc = c] PROVE OrchShape'
    <2>1. orch' = [pc |-> c, plan |-> p, batch |-> b, ran |-> n]
      BY <1>2
    <2> QED BY <2>1 DEF OrchShape
  <1>3. CASE orch' = [orch EXCEPT !.batch = @ + 1]
    <2>1. orch' = [pc |-> pc, plan |-> p, batch |-> b + 1, ran |-> n]
      BY <1>3
    <2> QED BY <2>1 DEF OrchShape
  <1>4. CASE orch' = [orch EXCEPT !.pc = "next", !.batch = @ + 1, !.ran = @ + 1]
    <2>1. orch' = [pc |-> "next", plan |-> p, batch |-> b + 1, ran |-> n + 1]
      BY <1>4
    <2> QED BY <2>1 DEF OrchShape
  <1> QED BY <1>1, <1>2, <1>3, <1>4

LEMMA QuietOrchestratorInv ==
    ASSUME BatchInv,
           \/ Execute \/ SkipComplete \/ BudgetSpent \/ LaunchFails \/ LaunchRefused
           \/ RecordOk \/ ChildDies \/ OrchestratorDies
    PROVE  BatchInv'
  <1>1. UNCHANGED <<content, calendar, plan, dayFiles, reports, planner, used, hurried>>
    BY DEF Execute, SkipComplete, BudgetSpent, LaunchFails, LaunchRefused, RecordOk, ChildDies,
           OrchestratorDies
  <1>2. OrchShape /\ (orch.pc # "child" => child = NoChild)
    BY DEF BatchInv, OrchType
  <1>3. CASE Execute
    <2>1. child' = NoChild
      BY <1>2, <1>3 DEF Execute
    <2>2. PlannedBatches(plan) /\ orch' = [pc |-> "next", plan |-> plan, batch |-> 1, ran |-> 0]
      BY <1>3 DEF Execute, BatchInv, BatchType
    <2>3. OrchShape'
      BY <2>2 DEF OrchShape
    <2> QED BY <1>1, <2>1, <2>3, BetweenBatches
  <1>4. CASE SkipComplete
    <2>1. child' = NoChild
      BY <1>2, <1>4 DEF SkipComplete
    <2>2. OrchShape'
      BY <1>2, <1>4, NextBatch DEF SkipComplete
    <2> QED BY <1>1, <2>1, <2>2, BetweenBatches
  <1>5. CASE BudgetSpent
    <2>1. child' = NoChild
      BY <1>2, <1>5 DEF BudgetSpent
    <2>2. OrchShape'
      BY <1>2, <1>5, NextBatch DEF BudgetSpent, EndExecute
    <2> QED BY <1>1, <2>1, <2>2, BetweenBatches
  <1>6. ASSUME orch.pc # "idle", child' = NoChild, NEW code, Record(code)
        PROVE  BatchInv'
    <2>1. OrchShape'
      BY <1>2, <1>6, NextBatch DEF Record
    <2> QED BY <1>1, <1>6, <2>1, BetweenBatches
  <1>7. CASE LaunchFails
    BY <1>2, <1>6, <1>7 DEF LaunchFails, DueNow
  <1>8. CASE LaunchRefused
    BY <1>2, <1>6, <1>8 DEF LaunchRefused, DueNow
  <1>9. CASE RecordOk
    BY <1>6, <1>9 DEF RecordOk
  <1>10. CASE ChildDies
    BY <1>6, <1>10 DEF ChildDies
  <1>11. CASE OrchestratorDies
    <2>1. OrchShape'
      BY <1>2, <1>11, NextBatch DEF OrchestratorDies, EndExecute
    <2> QED BY <1>1, <1>11, <2>1, BetweenBatches DEF OrchestratorDies
  <1> QED BY <1>3, <1>4, <1>5, <1>7, <1>8, <1>9, <1>10, <1>11

\* A new month has room for what is still to load; a calendar is of no load.
LEMMA WorldInv ==
    ASSUME BatchInv, MonthRolls \/ ReverifyCalendar
    PROVE  BatchInv'
  <1>1. UNCHANGED <<content, plan, dayFiles, reports, planner, orch, child>>
    BY DEF MonthRolls, ReverifyCalendar
  <1>2. calendar' \in Calendars /\ used' \in Nat /\ hurried' \in BOOLEAN
    <2>1. CASE MonthRolls
      BY <2>1 DEF MonthRolls, BatchInv, BatchType
    <2>2. CASE ReverifyCalendar
      BY <2>2 DEF ReverifyCalendar, BatchInv, BatchType
    <2> QED BY <2>1, <2>2
  <1>3. BatchType'
    BY <1>1, <1>2 DEF BatchInv, BatchType, PlannerShape
  <1>4. OrchType'
    BY <1>1 DEF BatchInv, OrchType, OrchShape, ChildShape
  <1>5. ReportsInv'
    BY <1>1 DEF BatchInv, ReportsInv, TrueDays, TrueRecord
  <1>6. QuotaInv'
    <2>1. CASE ReverifyCalendar
      BY <1>1, <2>1 DEF ReverifyCalendar, BatchInv, QuotaInv, QuotaHeld
    <2>2. CASE MonthRolls
      <3>1. used' = 0 /\ hurried' = FALSE
        BY <2>2 DEF MonthRolls
      <3>2. QuotaHeld'
        BY <3>1, QuotaAssumption DEF QuotaHeld
      <3>3. ASSUME child.todo # {}
            PROVE  /\ EstimateLakeGb(Cardinality(child.todo)) \in Nat
                   /\ EstimateLakeGb(Cardinality(child.todo)) <= QuotaGb - HeadroomGb
        <4>1. Cardinality(child.todo) \in Nat \ {0}
          BY <3>3, BatchAssumption, FS_Subset, FS_CardinalityType, FS_EmptySet
             DEF BatchInv, OrchType, ChildShape
        <4>2. EstimateLakeGb(Cardinality(child.todo)) \in Nat
          BY <4>1, EstimateStep
        <4>3. used \in Nat /\ {QuotaGb, HeadroomGb} \subseteq Nat
          BY QuotaAssumption DEF BatchInv, BatchType
        <4> QED BY <3>3, <4>2, <4>3 DEF BatchInv, QuotaInv
      <3> QED BY <1>1, <3>1, <3>2, <3>3 DEF QuotaInv
    <2> QED BY <2>1, <2>2
  <1> QED BY <1>3, <1>4, <1>5, <1>6 DEF BatchInv
-----------------------------------------------------------------------------
(* Steps of the child *)

LEMMA TodoIsFinite ==
    ASSUME NEW days, days \subseteq Days, days # {}
    PROVE  /\ IsFiniteSet(days) /\ Cardinality(days) \in Nat \ {0}
           /\ EstimateLakeGb(Cardinality(days)) \in Nat
           /\ 0 < EstimateLakeGb(Cardinality(days))
  <1>1. IsFiniteSet(days) /\ Cardinality(days) \in Nat \ {0}
    BY BatchAssumption, FS_Subset, FS_CardinalityType, FS_EmptySet
  <1>2. /\ EstimateLakeGb(Cardinality(days)) \in Nat /\ EstimateLakeGb(Cardinality(days) - 1) \in Nat
        /\ EstimateLakeGb(Cardinality(days)) = EstimateLakeGb(Cardinality(days) - 1) + (DeltaGb + BookGb)
    BY <1>1, EstimateStep
  <1> QED BY <1>1, <1>2, QuotaAssumption

\* A pull the gate lets through fits beside what used_data said.
LEMMA GateFits ==
    ASSUME NEW days, NEW seen \in Nat, Toload(days) \subseteq Days, Toload(days) # {},
           QuotaGate(days, seen) \in {"ok", "no_days_to_load"}
    PROVE  /\ QuotaGate(days, seen) = "ok"
           /\ EstimateLakeGb(Cardinality(Toload(days))) + seen <= QuotaGb - HeadroomGb
  <1> DEFINE est == EstimateLakeGb(Cardinality(Toload(days)))
  <1>1. est \in Nat /\ 0 < est
    BY TodoIsFinite
  <1>2. QuotaDecision(est, seen, TRUE) \in {"ok", "no_days_to_load"}
    BY DEF QuotaGate
  <1> HIDE DEF est
  <1>3. ~(est > QuotaGb - seen - HeadroomGb)
    <2>1. ASSUME est > QuotaGb - seen - HeadroomGb
          PROVE  QuotaDecision(est, seen, TRUE) = "quota_headroom"
      BY <1>1, <2>1, QuotaAssumption DEF QuotaDecision
    <2> QED BY <1>2, <2>1
  <1>4. est + seen <= QuotaGb - HeadroomGb
    BY <1>1, <1>3, QuotaAssumption
  <1>5. QuotaDecision(est, seen, TRUE) = "ok"
    BY <1>1, <1>3, QuotaAssumption DEF QuotaDecision
  <1> QED BY <1>4, <1>5 DEF est, QuotaGate

LEMMA LaunchInv ==
    ASSUME BatchInv, Launch
    PROVE  BatchInv'
  <1> DEFINE days == dayFiles[orch.batch]
  <1>1. UNCHANGED <<content, calendar, plan, dayFiles, reports, planner, used>>
    BY DEF Launch
  <1>2. /\ orch.pc = "next" /\ orch.batch \in DOMAIN orch.plan.batches
        /\ orch' = [orch EXCEPT !.pc = "child"]
    BY DEF Launch, DueNow
  <1>3. PICK seen \in 0..used :
           LET gate == QuotaGate(days, seen)
               lagging == gate = "ok" /\ seen # used
           IN  /\ gate \in {"ok", "no_days_to_load"}
               /\ hurried' = (hurried \/ lagging)
               /\ child' = [pc |-> "load", todo |-> Toload(days), calendar |-> calendar,
                            quota |-> gate,
                            done |-> [d \in days \intersect calendar.excluded |->
                                         ExcludedResult(CalendarContext(calendar, d))]]
    BY DEF Launch
  <1>4. days \subseteq Days
    <2>1. PlannedBatches(orch.plan)
      BY <1>2 DEF BatchInv, OrchType, OrchShape
    <2> QED BY <1>2, <2>1 DEF BatchInv, BatchType, PlannedBatches
  <1>5. /\ child'.todo = Toload(days) /\ Toload(days) \subseteq Days
        /\ child'.done = [d \in days \intersect calendar.excluded |->
                             ExcludedResult(CalendarContext(calendar, d))]
    BY <1>3, <1>4 DEF Toload
  <1>6. BatchType'
    BY <1>1, <1>3 DEF BatchInv, BatchType, PlannerShape
  <1>7. OrchType'
    <2>1. OrchShape'
      BY <1>2, NextBatch DEF BatchInv, OrchType
    <2>2. orch'.pc = "child"
      BY <1>2 DEF BatchInv, OrchType, OrchShape
    <2>3. ChildShape'
      BY <1>3, <1>5 DEF ChildShape
    <2> QED BY <2>1, <2>2, <2>3 DEF OrchType
  <1>8. ReportsInv'
    <2>1. ASSUME NEW d \in DOMAIN child'.done
          PROVE  child'.done[d] = ExcludedResult(CalendarContext(calendar, d))
      BY <1>5
    <2> QED BY <1>1, <2>1 DEF BatchInv, ReportsInv, TrueDays, TrueRecord
  <1>9. QuotaInv'
    <2>1. used \in Nat /\ seen \in Nat /\ seen <= used /\ used' = used
      BY <1>1 DEF BatchInv, BatchType
    <2>2. QuotaHeld'
      BY <1>1, <1>3 DEF BatchInv, QuotaInv, QuotaHeld, BatchType
    <2>3. ASSUME child'.todo # {}
          PROVE  EstimateLakeGb(Cardinality(child'.todo)) + (IF hurried' THEN 0 ELSE used')
                    <= QuotaGb - HeadroomGb
      <3> DEFINE est == EstimateLakeGb(Cardinality(child'.todo))
      <3>1. /\ QuotaGate(days, seen) = "ok"
            /\ est + seen <= QuotaGb - HeadroomGb
        BY <1>3, <1>5, <2>1, <2>3, GateFits
      <3>2. est \in Nat
        BY <1>5, <2>3, TodoIsFinite
      <3>3. hurried' = (hurried \/ seen # used)
        BY <1>3, <3>1
      <3> HIDE DEF est
      <3>4. CASE hurried'
        BY <2>1, <3>1, <3>2, <3>4, QuotaAssumption DEF est
      <3>5. CASE ~hurried'
        BY <2>1, <3>1, <3>2, <3>3, <3>5 DEF est
      <3> QED BY <3>4, <3>5
    <2> QED BY <2>2, <2>3 DEF QuotaInv
  <1> QED BY <1>6, <1>7, <1>8, <1>9 DEF BatchInv

LEMMA OutcomeOfDay ==
    ASSUME NEW d, NEW cal, NEW o \in DayOutcomes(d, cal)
    PROVE  TrueRecord(content, d, o.rec) /\ o.gb \in Nat /\ o.gb <= DeltaGb + BookGb
  <1> DEFINE context == CalendarContext(cal, d)
             seeded == AssessLakeDay(content[d], TRUE, context)
             cold == AssessLakeDay(content[d], FALSE, context)
             lost == InconclusiveLoadFailure(context)
             n == DeltaGb + BookGb
  <1>1. /\ TrueRecord(content, d, seeded) /\ TrueRecord(content, d, cold) /\ TrueRecord(content, d, lost)
    BY Zenon DEF TrueRecord
  <1>2. DayOutcomes(d, cal) =
          IF ~content[d].rows THEN {[rec |-> cold, gb |-> 0, fault |-> 0]}
          ELSE {[rec |-> seeded, gb |-> n, fault |-> 0],
                [rec |-> cold, gb |-> DeltaGb, fault |-> 1],
                [rec |-> lost, gb |-> 0, fault |-> 1]}
    BY Zenon DEF DayOutcomes
  <1>3. {0, DeltaGb, n} \subseteq 0..n
    BY QuotaAssumption
  <1> HIDE DEF context, seeded, cold, lost, n
  <1>4. \/ o = [rec |-> cold, gb |-> 0, fault |-> 0]
        \/ o = [rec |-> seeded, gb |-> n, fault |-> 0]
        \/ o = [rec |-> cold, gb |-> DeltaGb, fault |-> 1]
        \/ o = [rec |-> lost, gb |-> 0, fault |-> 1]
    <2>1. CASE ~content[d].rows
      BY <1>2, <2>1
    <2>2. CASE content[d].rows
      BY <1>2, <2>2
    <2> QED BY <2>1, <2>2
  <1>5. TrueRecord(content, d, o.rec)
    <2>1. o.rec \in {seeded, cold, lost}
      BY <1>4
    <2> QED BY <1>1, <2>1, Zenon
  <1>6. o.gb \in 0..n
    BY <1>3, <1>4
  <1> QED BY <1>5, <1>6, QuotaAssumption DEF n

LEMMA LoadDayInv ==
    ASSUME BatchInv, LoadDay
    PROVE  BatchInv'
  <1> DEFINE d == Min(child.todo)
  <1>1. /\ UNCHANGED <<content, calendar, plan, dayFiles, reports, planner, orch, hurried>>
        /\ orch.pc = "child" /\ child.todo # {}
    BY DEF LoadDay
  <1>2. PICK o \in DayOutcomes(d, child.calendar) :
           /\ used' = used + o.gb
           /\ child' = [child EXCEPT !.todo = @ \ {d}, !.done = WithDay(@, d, o.rec)]
    BY DEF LoadDay
  <1>3. PICK todo \in SUBSET Days : \E pc, cal, quota, done :
           child = [pc |-> pc, todo |-> todo, calendar |-> cal, quota |-> quota, done |-> done]
    BY DEF BatchInv, OrchType, ChildShape
  <1>4. PICK pc, cal, quota, done :
           child = [pc |-> pc, todo |-> todo, calendar |-> cal, quota |-> quota, done |-> done]
    BY <1>3
  <1>5. d \in todo
    BY <1>1, <1>4, MinOfNat, BatchAssumption
  <1> HIDE DEF d
  <1>6. child' = [pc |-> pc, todo |-> todo \ {d}, calendar |-> cal, quota |-> quota,
                  done |-> WithDay(done, d, o.rec)]
    BY <1>2, <1>4
  <1>7. TrueRecord(content, d, o.rec) /\ o.gb \in Nat /\ o.gb <= DeltaGb + BookGb
    BY <1>2, OutcomeOfDay, Zenon
  <1>8. BatchType'
    <2>1. used' \in Nat
      BY <1>2, <1>7 DEF BatchInv, BatchType
    <2>2. PlannerShape'
      BY <1>1 DEF BatchInv, BatchType, PlannerShape
    <2> QED BY <1>1, <2>1, <2>2 DEF BatchInv, BatchType
  <1>9. OrchType'
    <2>1. OrchShape' /\ orch'.pc = "child"
      BY <1>1 DEF BatchInv, OrchType, OrchShape
    <2>2. ChildShape'
      BY <1>6 DEF ChildShape
    <2> QED BY <2>1, <2>2 DEF OrchType
  <1>10. ReportsInv'
    <2>1. TrueDays(content, done)
      BY <1>4 DEF BatchInv, ReportsInv
    <2>2. ASSUME NEW e \in DOMAIN WithDay(done, d, o.rec)
          PROVE  TrueRecord(content, e, WithDay(done, d, o.rec)[e])
      BY <1>7, <2>1 DEF TrueDays, WithDay
    <2>3. TrueDays(content, WithDay(done, d, o.rec))
      BY <2>2 DEF TrueDays
    <2>4. child'.done = WithDay(done, d, o.rec)
      BY <1>6
    <2> QED BY <1>1, <2>3, <2>4 DEF BatchInv, ReportsInv, TrueDays, TrueRecord
  <1>11. QuotaInv'
    <2> DEFINE est == EstimateLakeGb(Cardinality(todo))
               rest == EstimateLakeGb(Cardinality(todo \ {d}))
               limit == QuotaGb - HeadroomGb
    <2>1. IsFiniteSet(todo) /\ Cardinality(todo) \in Nat \ {0}
      BY <1>5, TodoIsFinite
    <2>2. Cardinality(todo \ {d}) = Cardinality(todo) - 1
      BY <1>5, <2>1, FS_RemoveElement
    <2>3. est \in Nat /\ rest \in Nat /\ est = rest + (DeltaGb + BookGb)
      BY <2>1, <2>2, EstimateStep
    <2>4. est + (IF hurried THEN 0 ELSE used) <= limit
      BY <1>1, <1>4 DEF BatchInv, QuotaInv
    <2>5. used \in Nat /\ hurried' = hurried
      BY <1>1 DEF BatchInv, BatchType
    <2>6. child'.todo = todo \ {d}
      BY <1>6
    <2> HIDE DEF est, rest
    <2>7. /\ ~hurried => used' <= limit
          /\ rest + (IF hurried THEN 0 ELSE used') <= limit
      BY <1>2, <1>7, <2>3, <2>4, <2>5, QuotaAssumption
    <2> QED BY <2>5, <2>6, <2>7 DEF QuotaInv, QuotaHeld, rest
  <1> QED BY <1>8, <1>9, <1>10, <1>11 DEF BatchInv

\* A report is written from the records of the child; every other one stays.
LEMMA ReportInv ==
    ASSUME BatchInv, TruncateReport \/ WriteReport
    PROVE  BatchInv'
  <1>1. UNCHANGED <<content, calendar, plan, dayFiles, planner, orch, used, hurried>>
    BY DEF TruncateReport, WriteReport
  <1>2. PICK c : child' = [child EXCEPT !.pc = c]
    BY DEF TruncateReport, WriteReport
  <1>3. PICK todo \in SUBSET Days : \E pc, cal, quota, done :
           child = [pc |-> pc, todo |-> todo, calendar |-> cal, quota |-> quota, done |-> done]
    BY DEF BatchInv, OrchType, ChildShape
  <1>4. PICK pc, cal, quota, done :
           child = [pc |-> pc, todo |-> todo, calendar |-> cal, quota |-> quota, done |-> done]
    BY <1>3
  <1>5. child' = [pc |-> c, todo |-> todo, calendar |-> cal, quota |-> quota, done |-> done]
    BY <1>2, <1>4
  <1>6. orch.pc = "child"
    BY DEF TruncateReport, WriteReport
  <1>7. BatchType'
    <2>1. DOMAIN reports' = Names
      BY DEF TruncateReport, WriteReport, BatchInv, BatchType
    <2>2. PlannerShape'
      BY <1>1 DEF BatchInv, BatchType, PlannerShape
    <2> QED BY <1>1, <2>1, <2>2 DEF BatchInv, BatchType
  <1>8. OrchType'
    <2>1. OrchShape' /\ orch'.pc = "child"
      BY <1>1, <1>6 DEF BatchInv, OrchType, OrchShape
    <2>2. ChildShape'
      BY <1>5 DEF ChildShape
    <2> QED BY <2>1, <2>2 DEF OrchType
  <1>9. ReportsInv'
    <2>1. TrueDays(content, done) /\ child'.done = done
      BY <1>4, <1>5 DEF BatchInv, ReportsInv
    <2>2. ASSUME NEW b \in Names, reports'[b] \notin {None, Torn}
          PROVE  TrueDays(content, reports'[b].days)
      <3>1. CASE reports'[b] = reports[b]
        BY <2>2, <3>1 DEF BatchInv, ReportsInv
      <3>2. CASE reports'[b] # reports[b]
        <4>1. WriteReport
          BY <2>2, <3>2 DEF TruncateReport, BatchInv, BatchType
        <4>2. reports'[b] = BuildReport(child.done, [quota |-> child.quota, params |-> "default"])
          BY <2>2, <3>2, <4>1 DEF WriteReport, BatchInv, BatchType
        <4>3. reports'[b].days = done
          BY <1>4, <4>2 DEF BuildReport
        <4> QED BY <2>1, <4>3
      <3> QED BY <3>1, <3>2
    <2> QED BY <1>1, <2>1, <2>2 DEF ReportsInv, TrueDays, TrueRecord
  <1>10. QuotaInv'
    BY <1>1, <1>4, <1>5 DEF BatchInv, QuotaInv, QuotaHeld
  <1> QED BY <1>7, <1>8, <1>9, <1>10 DEF BatchInv

LEMMA BatchesInv ==
    ASSUME BatchInv, BatchNext
    PROVE  BatchInv'
  BY PlannerInv, QuietOrchestratorInv, WorldInv, LaunchInv, LoadDayInv, ReportInv
     DEF BatchNext, PlannerStep, OrchestratorStep

\* A rerun by hand passes the same gate, and no batch is being loaded then.
LEMMA TargetedRerunInv ==
    ASSUME BatchInv, TargetedRerun
    PROVE  BatchInv'
  <1>1. UNCHANGED <<content, calendar, plan, dayFiles, reports, planner, orch, child, hurried>>
    BY DEF TargetedRerun
  <1>2. child = NoChild /\ child.todo = {}
    BY DEF TargetedRerun, MapIsThere, BatchInv, OrchType, NoChild
  <1>3. PICK d \in Days : /\ d \notin calendar.excluded
                         /\ QuotaGate({d}, used) = "ok"
                         /\ \E o \in DayOutcomes(d, calendar) : used' = used + o.gb
    BY DEF TargetedRerun
  <1>4. PICK o \in DayOutcomes(d, calendar) : used' = used + o.gb
    BY <1>3
  <1>5. o.gb \in Nat /\ o.gb <= DeltaGb + BookGb
    BY OutcomeOfDay, Zenon
  <1>6. used \in Nat
    BY DEF BatchInv, BatchType
  <1>7. Toload({d}) = {d}
    BY <1>3 DEF Toload
  <1>8. EstimateLakeGb(1) + used <= QuotaGb - HeadroomGb
    <2>1. Cardinality({d}) = 1
      BY FS_Singleton
    <2> QED BY <1>3, <1>6, <1>7, <2>1, GateFits
  <1>9. EstimateLakeGb(1) = DeltaGb + BookGb
    BY QuotaAssumption DEF EstimateLakeGb
  <1>10. BatchType'
    <2>1. PlannerShape'
      BY <1>1 DEF BatchInv, BatchType, PlannerShape
    <2>2. used' \in Nat
      BY <1>4, <1>5, <1>6
    <2> QED BY <1>1, <2>1, <2>2 DEF BatchInv, BatchType
  <1>11. OrchType'
    BY <1>1 DEF BatchInv, OrchType, OrchShape, ChildShape
  <1>12. ReportsInv'
    BY <1>1 DEF BatchInv, ReportsInv, TrueDays, TrueRecord
  <1>13. QuotaInv'
    <2>1. used' <= QuotaGb - HeadroomGb
      BY <1>4, <1>5, <1>6, <1>8, <1>9, QuotaAssumption
    <2> QED BY <1>1, <1>2, <2>1 DEF QuotaInv, QuotaHeld
  <1> QED BY <1>10, <1>11, <1>12, <1>13 DEF BatchInv

LEMMA BatchesStart ==
    ASSUME BatchInit
    PROVE  BatchInv
  <1>1. PICK g \in 0..(MaxPlans - 1) : planner = NoPlanner(g)
    BY DEF BatchInit
  <1>2. PlannerShape
    <2>1. << >> \in Seq(SUBSET Days) /\ DOMAIN << >> \subseteq Names
      OBVIOUS
    <2> QED BY <1>1, <2>1 DEF NoPlanner, PlannerShape
  <1>3. BatchType
    BY <1>2 DEF BatchInit, BatchType
  <1>4. OrchType
    BY DEF BatchInit, OrchType, OrchShape, ChildShape, NoOrchestrator, NoChild
  <1>5. ReportsInv
    <2>1. DOMAIN child.done = {}
      BY DEF BatchInit, NoChild
    <2>2. \A b \in Names : reports[b] = None
      BY DEF BatchInit
    <2> QED BY <2>1, <2>2 DEF ReportsInv, TrueDays
  <1>6. QuotaInv
    BY QuotaAssumption DEF BatchInit, QuotaInv, QuotaHeld, NoChild
  <1> QED BY <1>3, <1>4, <1>5, <1>6 DEF BatchInv
-----------------------------------------------------------------------------
(* What a day's record says of what Lake holds *)

\* A fill is asked for only where Lake is not usable; a day that needs none
\* really is, unless nobody could judge it or it was excluded.
LEMMA RecordsAreHonest ==
    ASSUME NEW d, NEW rec, TrueRecord(content, d, rec)
    PROVE  /\ rec.fill.needs = "yes" => ~ReallyUsable(d)
           /\ rec.fill.needs = "yes" \/ ReallyUsable(d) \/ NoVerdict(rec) \/ rec.cls = ExcludedDay
           /\ rec.cls = MissingNeedsCoinapi => rec.fill.needs = "yes"
  <1> USE DEF LakeUsable, LakePresentDegraded, MissingNeedsCoinapi, ExcludedDay, Inconclusive,
              SeedSourceUnreliable, ThinDepthOverBar, LoadFailed
  <1>1. ASSUME NEW verdict, NEW stitch, NEW context, rec = DayRecord(verdict, stitch, context)
        PROVE  /\ rec.cls = verdict.cls
               /\ rec.fill.needs = FillDecision(verdict).needs
               /\ rec.fill.why = FillDecision(verdict).why
    BY <1>1 DEF DayRecord
  <1>2. ASSUME NEW context, rec = InconclusiveLoadFailure(context)
        PROVE  rec.cls = Inconclusive /\ rec.fill.needs = "none" /\ rec.fill.why = "no_verdict"
    BY <1>1, <1>2 DEF InconclusiveLoadFailure, FillDecision
  <1>3. ASSUME NEW context, rec = ExcludedResult(context)
        PROVE  rec.cls = ExcludedDay /\ rec.fill.needs = "none"
    BY <1>1, <1>3 DEF ExcludedResult, FillDecision
  <1>4. ASSUME NEW snaps \in BOOLEAN, NEW context, rec = AssessLakeDay(content[d], snaps, context)
        PROVE  /\ rec.fill.needs = "yes" => ~ReallyUsable(d)
               /\ rec.fill.needs = "yes" \/ ReallyUsable(d) \/ NoVerdict(rec)
               /\ rec.cls = MissingNeedsCoinapi => rec.fill.needs = "yes"
    <2> DEFINE c == content[d]
               seed == IF snaps THEN c.seed ELSE NoTs
               verdict == ClassifyDay(c, seed)
    <2>1. /\ rec.cls = verdict.cls
          /\ rec.fill.needs = FillDecision(verdict).needs
          /\ rec.fill.why = FillDecision(verdict).why
      BY <1>1, <1>4 DEF AssessLakeDay
    <2>2. CASE ~c.rows
      <3>1. verdict = [cls |-> MissingNeedsCoinapi, reasons |-> {"lake_book_delta_v2_absent"}]
        BY <2>2 DEF ClassifyDay
      <3>2. ClassifyDay(c, c.seed).cls = MissingNeedsCoinapi
        BY <2>2 DEF ClassifyDay
      <3> QED BY <2>1, <3>1, <3>2 DEF FillDecision, ReallyUsable
    <2>3. CASE c.rows /\ seed = NoTs
      <3>1. verdict = [cls |-> Inconclusive, reasons |-> {"no_accepted_seed"}]
        BY <2>3 DEF ClassifyDay
      <3> QED BY <2>1, <3>1 DEF FillDecision, NoVerdict
    <2>4. CASE c.rows /\ seed # NoTs
      <3>1. seed = c.seed
        BY <2>4
      <3>2. CASE c.unreliable
        <4>1. verdict = [cls |-> Inconclusive, reasons |-> {SeedSourceUnreliable}]
          BY <2>4, <3>2 DEF ClassifyDay
        <4> QED BY <2>1, <3>1, <4>1 DEF FillDecision, ReallyUsable
      <3>3. CASE ~c.unreliable
        <4>1. verdict.cls \in {LakeUsable, LakePresentDegraded}
          BY <2>4, <3>3 DEF ClassifyDay
        <4>2. FillDecision(verdict).needs = IF verdict.cls = LakeUsable THEN "no" ELSE "yes"
          BY <4>1 DEF FillDecision
        <4>3. ReallyUsable(d) <=> verdict.cls = LakeUsable
          BY <3>1 DEF ReallyUsable
        <4> QED BY <2>1, <4>1, <4>2, <4>3
      <3> QED BY <3>2, <3>3
    <2> QED BY <2>2, <2>3, <2>4
  <1> QED BY <1>2, <1>3, <1>4 DEF TrueRecord, NoVerdict
-----------------------------------------------------------------------------
(* The review: what its documents say of a day *)

LEMMA IndexIsHonest ==
    ASSUME NEW p, NEW reps, PlannedBatches(p),
           \A b \in Present(p, reps) : TrueDays(content, reps[b].days)
    PROVE  \A d \in DOMAIN DayIndex(p, reps) : TrueRecord(content, d, DayIndex(p, reps)[d])
  <1> DEFINE with(d) == {b \in Present(p, reps) : d \in DOMAIN reps[b].days}
  <1> SUFFICES ASSUME NEW d \in DOMAIN DayIndex(p, reps)
               PROVE  TrueRecord(content, d, DayIndex(p, reps)[d])
    OBVIOUS
  <1>1. d \in UNION {DOMAIN reps[b].days : b \in Present(p, reps)}
    BY DEF DayIndex
  <1>2. with(d) # {} /\ with(d) \subseteq Nat
    <2>1. Present(p, reps) \subseteq Names
      BY DEF Present, PlannedBatches
    <2>2. Names \subseteq Nat
      BY BatchAssumption, FS_CardinalityType DEF Names, MaxBatches
    <2> QED BY <1>1, <2>1, <2>2
  <1>3. Min(with(d)) \in with(d)
    BY <1>2, MinOfNat
  <1>4. DayIndex(p, reps)[d] = reps[Min(with(d))].days[d]
    BY <1>1 DEF DayIndex
  <1> HIDE DEF with
  <1>5. PICK b \in Present(p, reps) : /\ d \in DOMAIN reps[b].days
                                     /\ DayIndex(p, reps)[d] = reps[b].days[d]
    BY <1>3, <1>4 DEF with
  <1> QED BY <1>5 DEF TrueDays

\* The reports a review keeps are those it judged.
LEMMA IndexOfReports ==
    ASSUME NEW p, NEW reps, PlannedBatches(p), Present(p, reps) = DOMAIN p.batches
    PROVE  DayIndex(p, [b \in Present(p, reps) |-> reps[b]]) = DayIndex(p, reps)
  <1> DEFINE kept == [b \in Present(p, reps) |-> reps[b]]
             present == Present(p, reps)
  <1>0. present \subseteq Nat
    BY BatchAssumption, FS_CardinalityType DEF Names, MaxBatches, PlannedBatches
  <1>1. \A b \in present : kept[b] = reps[b]
    OBVIOUS
  <1>2. Present(p, kept) = present
    BY DEF Present
  <1> HIDE DEF kept, present
  <1>3. UNION {DOMAIN kept[b].days : b \in present} = UNION {DOMAIN reps[b].days : b \in present}
    BY <1>1
  <1>4. \A d : {b \in present : d \in DOMAIN kept[b].days} = {b \in present : d \in DOMAIN reps[b].days}
    BY <1>1
  <1> DEFINE mapped == UNION {DOMAIN reps[b].days : b \in present}
             first(d) == Min({b \in present : d \in DOMAIN reps[b].days})
             rec(k, d) == k[first(d)].days[d]
  <1>5. ASSUME NEW d \in mapped PROVE rec(kept, d) = rec(reps, d)
    <2>1. {b \in present : d \in DOMAIN reps[b].days} # {}
      OBVIOUS
    <2>2. first(d) \in present
      BY <1>0, <2>1, MinOfNat
    <2> QED BY <1>1, <2>2
  <1>6. DayIndex(p, kept) = [d \in mapped |-> rec(kept, d)]
    BY <1>2, <1>3, <1>4, Zenon DEF DayIndex
  <1>7. DayIndex(p, reps) = [d \in mapped |-> rec(reps, d)]
    BY Zenon DEF DayIndex, present
  <1> HIDE DEF mapped, rec
  <1> QED BY <1>5, <1>6, <1>7 DEF kept, present

\* A manifest without blockers is of a complete map: every batch has its
\* report, every day the calendar maps has a record, and the records' classes
\* are those the calendar expects.
LEMMA ReadyMapIsComplete ==
    ASSUME NEW p, NEW cal, NEW reps, NEW files, NEW index,
           CompletenessBlockers(p, reps, files, index, cal) = {}
    PROVE  /\ Present(p, reps) = DOMAIN p.batches
           /\ CalendarBatchDays(cal) \subseteq DOMAIN index
           /\ \A d \in DOMAIN index \cap BookGapDays(cal) : index[d].cls = MissingNeedsCoinapi
           /\ \A d \in DOMAIN index \ BookGapDays(cal) : index[d].cls # MissingNeedsCoinapi
           /\ \A d \in DOMAIN index \ cal.excluded : index[d].cls # ExcludedDay
  <1>1. /\ MissingBatchReports(p, reps) = {}
        /\ (CalendarBatchDays(cal) \ DOMAIN index)
              \ UNION {files[b] : b \in MissingBatchReports(p, reps)} = {}
        /\ ~ \E d \in BookGapDays(cal) : IF d \in DOMAIN index THEN index[d].cls # MissingNeedsCoinapi
                                         ELSE d \notin p.withheld
        /\ ~ \E d \in DOMAIN index \ BookGapDays(cal) : index[d].cls = MissingNeedsCoinapi
        /\ ~ \E d \in DOMAIN index \ cal.excluded : index[d].cls = ExcludedDay
    BY DEF CompletenessBlockers
  <1>2. Present(p, reps) = DOMAIN p.batches
    BY <1>1 DEF MissingBatchReports, Present
  <1>3. CalendarBatchDays(cal) \subseteq DOMAIN index
    BY <1>1
  <1> QED BY <1>1, <1>2, <1>3

\* A day that no entry of the resolutions decides is in the manifest as the
\* report has it.
LEMMA UndecidedDay ==
    ASSUME NEW original, NEW applied, NEW rer, NEW cal, NEW d \in Universe(original, cal),
           \A e \in applied : e.day # d
    PROVE  LET index == Superseded(original, applied, rer)
           IN  /\ d \in DOMAIN original => index[d] = original[d]
               /\ ManifestDays(index, cal, applied)[d] = BuildDayRecord(d, original, cal)
  <1> DEFINE index == Superseded(original, applied, rer)
             decision == {e.action : e \in {x \in applied : x.day = d /\ x.action # "rerun"}}
  <1>1. DOMAIN index = DOMAIN original
    BY DEF Superseded
  <1>2. d \in DOMAIN original => index[d] = original[d]
    BY DEF Superseded
  <1>3. decision = {}
    OBVIOUS
  <1> HIDE DEF index
  <1>4. Universe(index, cal) = Universe(original, cal)
    BY <1>1 DEF Universe
  <1>5. ManifestDays(index, cal, applied)[d] = BuildDayRecord(d, index, cal)
    BY <1>3, <1>4 DEF ManifestDays
  <1>6. BuildDayRecord(d, index, cal) = BuildDayRecord(d, original, cal)
    BY <1>1, <1>2 DEF BuildDayRecord
  <1> QED BY <1>2, <1>5, <1>6 DEF index
-----------------------------------------------------------------------------
(* The invariant of the review *)

\* A verdict is the review's of documents it read, whose reports were true.
Reviewed(lake, v, read) ==
    \E reps, files, rer :
        /\ v = ReadinessVerdict(read.plan, read.calendar, reps, files, read.entries, rer)
        /\ read.reports = [b \in Present(read.plan, reps) |-> reps[b]]
        /\ read.calendar \in Calendars /\ PlannedBatches(read.plan)
        /\ \A b \in Present(read.plan, reps) : TrueDays(lake, reps[b].days)

ReviewInv ==
    /\ review.pc = "assemble" => Reviewed(content, review.verdict, review.read)
    /\ manifest \notin {None, Torn} => Reviewed(content, manifest.verdict, manifest.read)
    /\ accepted # None =>
          /\ Reviewed(content, accepted.manifest.verdict, accepted.manifest.read)
          /\ AcceptanceOk(accepted.manifest) /\ UnitsOk(accepted.manifest.verdict.days)
          /\ accepted.units = SelectWindow(DeriveUnits(accepted.manifest.verdict.days), accepted.window)

QualityInv == BatchInv /\ ReviewInv

LEMMA ReviewLoads ==
    ASSUME BatchInv, ReviewLoad
    PROVE  Reviewed(content, review'.verdict, review'.read)
  <1> DEFINE read == Pins(Present(plan, reports))
  <1>1. /\ review'.read = read
        /\ review'.verdict = ReadinessVerdict(plan, calendar, reports, dayFiles, entries, rerun)
    BY DEF ReviewLoad
  <1>2. /\ read.plan = plan /\ read.calendar = calendar /\ read.entries = entries
        /\ read.reports = [b \in Present(plan, reports) |-> reports[b]]
    BY DEF Pins
  <1>3. calendar \in Calendars /\ PlannedBatches(plan)
    BY DEF ReviewLoad, BatchInv, BatchType
  <1>4. ASSUME NEW b \in Present(plan, reports) PROVE TrueDays(content, reports[b].days)
    <2>1. b \in DOMAIN plan.batches /\ reports[b] # None
      BY DEF Present
    <2>2. b \in Names /\ reports[b] \notin {None, Torn}
      BY <1>3, <2>1 DEF ReviewLoad, PlannedBatches
    <2> QED BY <2>2 DEF BatchInv, ReportsInv
  <1> HIDE DEF read
  <1>5. ReadinessVerdict(plan, calendar, reports, dayFiles, entries, rerun)
           = ReadinessVerdict(read.plan, read.calendar, reports, dayFiles, read.entries, rerun)
    BY <1>2
  <1> QED BY <1>1, <1>2, <1>3, <1>4, <1>5 DEF Reviewed

LEMMA QualityStep ==
    ASSUME QualityInv, [Next]_pipelineVars
    PROVE  QualityInv'
  <1> USE DEF QualityInv
  <1>1. content' = content
    <2>1. BatchNext => content' = content
      BY DEF BatchNext, StartPlan, PlannerStep, WriteDayFiles, WritePlanManifest, PlannerDies,
             Execute, OrchestratorStep, SkipComplete, BudgetSpent, LaunchFails, LaunchRefused,
             Launch, LoadDay, TruncateReport, WriteReport, RecordOk, ChildDies, OrchestratorDies,
             MonthRolls, ReverifyCalendar
    <2>2. UNCHANGED batchVars => content' = content
      BY DEF batchVars
    <2>3. TargetedRerun \/ ReviewDies => content' = content
      BY DEF TargetedRerun, ReviewDies
    <2>4. BatchNext \/ TargetedRerun \/ ReviewDies \/ UNCHANGED batchVars
      BY DEF Next, BatchStep, WriteResolution, ReviewLoad, ReviewPublish, Approve, Gate,
             pipelineVars
    <2> QED BY <2>1, <2>2, <2>3, <2>4
  <1>2. ASSUME UNCHANGED <<calendar, plan, dayFiles, reports, planner, orch, child, used, hurried>>
        PROVE  BatchInv'
    <2>2. BatchType'
      BY <1>2 DEF BatchInv, BatchType, PlannerShape
    <2>3. OrchType'
      BY <1>2 DEF BatchInv, OrchType, OrchShape, ChildShape
    <2>4. ReportsInv' /\ QuotaInv'
      BY <1>1, <1>2 DEF BatchInv, ReportsInv, QuotaInv, QuotaHeld
    <2> QED BY <2>2, <2>3, <2>4 DEF BatchInv
  <1>3. BatchInv'
    <2>1. \/ BatchNext \/ TargetedRerun
          \/ UNCHANGED <<calendar, plan, dayFiles, reports, planner, orch, child, used, hurried>>
      BY DEF Next, BatchStep, WriteResolution, ReviewLoad, ReviewPublish, ReviewDies, Approve, Gate,
             pipelineVars, batchVars
    <2> QED BY <1>2, <2>1, BatchesInv, TargetedRerunInv
  <1>4. review'.pc = "assemble" => Reviewed(content, review'.verdict, review'.read)
    <2>1. CASE ReviewLoad
      BY <2>1, ReviewLoads
    <2>2. CASE ~ReviewLoad
      <3>1. review' = review \/ review'.pc = "idle"
        BY <2>2 DEF Next, BatchStep, TargetedRerun, WriteResolution, ReviewPublish, ReviewDies,
                    Approve, Gate, pipelineVars
      <3> QED BY <3>1 DEF ReviewInv
    <2> QED BY <2>1, <2>2
  <1>5. manifest' \notin {None, Torn} => Reviewed(content, manifest'.verdict, manifest'.read)
    <2>1. CASE ReviewPublish
      <3>1. manifest'.verdict = review.verdict /\ manifest'.read = review.read
        BY <2>1 DEF ReviewPublish
      <3> QED BY <2>1, <3>1 DEF ReviewPublish, ReviewInv
    <2>2. CASE ~ReviewPublish
      <3>1. manifest' \in {manifest, Torn}
        BY <2>2 DEF Next, BatchStep, TargetedRerun, WriteResolution, ReviewLoad, ReviewDies,
                    Approve, Gate, pipelineVars
      <3> QED BY <3>1 DEF ReviewInv
    <2> QED BY <2>1, <2>2
  <1>6. accepted' # None =>
           /\ Reviewed(content, accepted'.manifest.verdict, accepted'.manifest.read)
           /\ AcceptanceOk(accepted'.manifest) /\ UnitsOk(accepted'.manifest.verdict.days)
           /\ accepted'.units = SelectWindow(DeriveUnits(accepted'.manifest.verdict.days),
                                            accepted'.window)
    <2>1. CASE Gate
      <3>1. PICK window \in Windows :
               accepted' = [manifest |-> manifest, window |-> window,
                            units |-> SelectWindow(DeriveUnits(manifest.verdict.days), window)]
        BY <2>1 DEF Gate
      <3>2. AcceptanceOk(manifest) /\ UnitsOk(manifest.verdict.days)
        BY <2>1 DEF Gate, PlanAccepted
      <3>3. Reviewed(content, manifest.verdict, manifest.read)
        BY <2>1 DEF Gate, ReviewInv
      <3> QED BY <3>1, <3>2, <3>3
    <2>2. CASE ~Gate
      <3>1. accepted' = accepted
        BY <2>2 DEF Next, BatchStep, TargetedRerun, WriteResolution, ReviewLoad, ReviewPublish,
                    ReviewDies, Approve, pipelineVars
      <3> QED BY <3>1 DEF ReviewInv
    <2> QED BY <2>1, <2>2
  <1>7. ReviewInv'
    BY <1>1, <1>4, <1>5, <1>6 DEF ReviewInv
  <1> QED BY <1>3, <1>7

\* The batches keep their own accounts, and every document downstream of them,
\* to the plan the gate accepted, is the review's of true reports.
THEOREM QualityInvariant == Spec => []QualityInv
  <1>1. Init => QualityInv
    BY BatchesStart DEF Init, QualityInv, ReviewInv
  <1> QED BY <1>1, QualityStep, PTL DEF Spec
-----------------------------------------------------------------------------
(* What the accepted plan buys *)

\* The days of a manifest against the records of the batches: those that nobody
\* decided, or could decide, are as the batches judged them.
Faithful(days, index, cal, decided) ==
    /\ DOMAIN days = Universe(index, cal)
    /\ \A d \in Universe(index, cal) \ decided : days[d] = BuildDayRecord(d, index, cal)
    /\ \A d \in DOMAIN index : ~NoVerdict(index[d]) => days[d] = BuildDayRecord(d, index, cal)
    /\ \A d \in Universe(index, cal) \cap cal.excluded : days[d].excluded
    /\ CalendarBatchDays(cal) \subseteq DOMAIN index
    /\ \A d \in DOMAIN index \ decided :
          /\ d \in BookGapDays(cal) <=> index[d].cls = MissingNeedsCoinapi
          /\ d \notin cal.excluded => index[d].cls # ExcludedDay

LEMMA ReviewedManifest ==
    ASSUME NEW v, NEW read, Reviewed(content, v, read), v.blockers = {}
    PROVE  LET index == DayIndex(read.plan, read.reports)
           IN  /\ read.calendar \in Calendars
               /\ \A d \in DOMAIN index : TrueRecord(content, d, index[d])
               /\ Faithful(v.days, index, read.calendar, {e.day : e \in read.entries})
  <1>1. PICK reps, files, rer :
           /\ v = ReadinessVerdict(read.plan, read.calendar, reps, files, read.entries, rer)
           /\ read.reports = [b \in Present(read.plan, reps) |-> reps[b]]
           /\ read.calendar \in Calendars /\ PlannedBatches(read.plan)
           /\ \A b \in Present(read.plan, reps) : TrueDays(content, reps[b].days)
    BY DEF Reviewed
  <1> DEFINE p == read.plan
             cal == read.calendar
             index == DayIndex(p, reps)
             applied == Applied(read.entries, rer, index, p, reps, cal)
             sup == Superseded(index, applied, rer)
             decided == {e.day : e \in read.entries}
  <1>2. v.days = ManifestDays(sup, cal, applied)
    BY <1>1 DEF ReadinessVerdict
  <1>3. CompletenessBlockers(p, reps, files, sup, cal) = {}
    BY <1>1 DEF ReadinessVerdict
  <1>4. \A e \in applied : e \in read.entries /\ e.day \in DOMAIN index /\ NoVerdict(index[e.day])
    BY DEF Applied, Applies
  <1>5. \A d \in DOMAIN index : TrueRecord(content, d, index[d])
    BY <1>1, IndexIsHonest
  <1>6. Present(p, reps) = DOMAIN p.batches
    BY <1>3, ReadyMapIsComplete
  <1>7. DayIndex(p, read.reports) = index
    BY <1>1, <1>6, IndexOfReports
  <1>8. DOMAIN sup = DOMAIN index
    BY DEF Superseded
  <1> HIDE DEF applied, sup, index
  <1>10. Universe(sup, cal) = Universe(index, cal) /\ DOMAIN v.days = Universe(index, cal)
    BY <1>2, <1>8 DEF Universe, ManifestDays
  <1>11. ASSUME NEW d \in Universe(index, cal), \A e \in applied : e.day # d
         PROVE  /\ v.days[d] = BuildDayRecord(d, index, cal)
                /\ d \in DOMAIN index => sup[d] = index[d]
    BY <1>2, <1>11, UndecidedDay DEF sup
  <1>12. ASSUME NEW d \in Universe(index, cal) \ decided
         PROVE  /\ v.days[d] = BuildDayRecord(d, index, cal)
                /\ d \in DOMAIN index => sup[d] = index[d]
    BY <1>4, <1>11
  <1>13. ASSUME NEW d \in DOMAIN index, ~NoVerdict(index[d])
         PROVE  v.days[d] = BuildDayRecord(d, index, cal)
    BY <1>4, <1>11, <1>13 DEF Universe
  <1>14. ASSUME NEW d \in Universe(index, cal) \cap cal.excluded
         PROVE  v.days[d].excluded
    <2> DEFINE rec == BuildDayRecord(d, sup, cal)
               decision == {e.action : e \in {x \in applied : x.day = d /\ x.action # "rerun"}}
    <2>1. rec.excluded
      BY DEF BuildDayRecord
    <2>2. \/ v.days[d] = rec
          \/ \E a : v.days[d] = ApplyPolicyDecision(rec, a)
      BY <1>2, <1>10 DEF ManifestDays
    <2>3. \A a : ApplyPolicyDecision(rec, a).excluded
      <3>1. DOMAIN rec = {"cls", "book", "trade", "excluded", "unresolved"}
        BY DEF BuildDayRecord
      <3> HIDE DEF rec
      <3> QED BY <2>1, <3>1 DEF ApplyPolicyDecision
    <2> QED BY <2>1, <2>2, <2>3
  <1>15. /\ CalendarBatchDays(cal) \subseteq DOMAIN sup
         /\ \A d \in DOMAIN sup \cap BookGapDays(cal) : sup[d].cls = MissingNeedsCoinapi
         /\ \A d \in DOMAIN sup \ BookGapDays(cal) : sup[d].cls # MissingNeedsCoinapi
         /\ \A d \in DOMAIN sup \ cal.excluded : sup[d].cls # ExcludedDay
    BY <1>3, ReadyMapIsComplete
  <1>16. ASSUME NEW d \in DOMAIN index \ decided
         PROVE  /\ d \in BookGapDays(cal) <=> index[d].cls = MissingNeedsCoinapi
                /\ d \notin cal.excluded => index[d].cls # ExcludedDay
    <2>1. sup[d] = index[d]
      BY <1>12 DEF Universe
    <2> QED BY <1>8, <1>15, <2>1
  <1>17. Faithful(v.days, index, cal, decided)
    BY <1>8, <1>10, <1>12, <1>13, <1>14, <1>15, <1>16, Zenon DEF Faithful
  <1> QED BY <1>1, <1>5, <1>7, <1>17

\* Of the accepted plan.
LEMMA AcceptedManifest ==
    ASSUME QualityInv, accepted # None
    PROVE  LET m == accepted.manifest
               index == DayIndex(m.read.plan, m.read.reports)
           IN  /\ m.read.calendar \in Calendars
               /\ \A d \in DOMAIN index : TrueRecord(content, d, index[d])
               /\ Faithful(m.verdict.days, index, m.read.calendar, {e.day : e \in m.read.entries})
               /\ \A d \in DOMAIN m.verdict.days : ~m.verdict.days[d].unresolved
               /\ accepted.units = SelectWindow(DeriveUnits(m.verdict.days), accepted.window)
  <1>1. /\ Reviewed(content, accepted.manifest.verdict, accepted.manifest.read)
        /\ AcceptanceOk(accepted.manifest) /\ UnitsOk(accepted.manifest.verdict.days)
        /\ accepted.units = SelectWindow(DeriveUnits(accepted.manifest.verdict.days), accepted.window)
    BY DEF QualityInv, ReviewInv
  <1>2. accepted.manifest.verdict.blockers = {}
    BY <1>1 DEF AcceptanceOk
  <1>3. \A d \in DOMAIN accepted.manifest.verdict.days : ~accepted.manifest.verdict.days[d].unresolved
    BY <1>1 DEF UnitsOk
  <1> QED BY <1>1, <1>2, <1>3, ReviewedManifest

\* A hand-written resolution never rewrites what the batches could judge
\* (VerdictsAreNotOverridden), whatever was re-planned, re-run or torn between
\* the resolution, the review and the gate.
THEOREM VerdictsStand == Spec => []VerdictsAreNotOverridden
  <1>1. QualityInv => VerdictsAreNotOverridden
    BY AcceptedManifest DEF VerdictsAreNotOverridden, Faithful
  <1> QED BY <1>1, QualityInvariant, PTL

\* A day of a manifest becomes units as its record says.
LEMMA UnitsOfDay ==
    ASSUME NEW days, NEW window, NEW d, \A x \in DOMAIN days : ~days[x].unresolved
    PROVE  LET units == SelectWindow(DeriveUnits(days), window)
               live == d \in window /\ d \in DOMAIN days /\ ~days[d].excluded
           IN  /\ <<"book", d>> \in units <=> live /\ days[d].book.needed
               /\ <<"trades", d>> \in units <=> live /\ days[d].trade
  <1> DEFINE live == {x \in DOMAIN days : ~days[x].excluded /\ ~days[x].unresolved}
  <1>1. \A u : u \in SelectWindow(DeriveUnits(days), window) <=>
                /\ u \in DeriveUnits(days) /\ u[2] \in window
    BY DEF SelectWindow
  <1>2. DeriveUnits(days) = ({"book"} \X {x \in live : days[x].book.needed})
                             \union ({"trades"} \X {x \in live : days[x].trade})
    BY DEF DeriveUnits
  <1>3. d \in live <=> d \in DOMAIN days /\ ~days[d].excluded
    OBVIOUS
  <1> HIDE DEF live
  <1>4. /\ <<"book", d>> \in DeriveUnits(days) <=> d \in live /\ days[d].book.needed
        /\ <<"trades", d>> \in DeriveUnits(days) <=> d \in live /\ days[d].trade
    BY <1>2
  <1> QED BY <1>1, <1>3, <1>4

\* An undecided day of the accepted plan, in a faithful manifest of true
\* records: its book is bought where Lake has none or is not usable, and only
\* there; its trades where the calendar has a gap.
LEMMA UndecidedPurchase ==
    ASSUME NEW days, NEW index, NEW cal \in Calendars, NEW decided, NEW d,
           d \notin decided, d \notin cal.excluded,
           \A x \in DOMAIN index : TrueRecord(content, x, index[x]),
           Faithful(days, index, cal, decided),
           \A x \in DOMAIN days : ~days[x].unresolved
    PROVE  LET live == d \in DOMAIN days /\ ~days[d].excluded
           IN  /\ d \in cal.lakeAll \union cal.bookGap =>
                     (live /\ days[d].book.needed) \/ ReallyUsable(d)
               /\ live /\ days[d].book.needed => d \in cal.bookGap \/ ~ReallyUsable(d)
               /\ live /\ days[d].trade <=> d \in cal.tradeGap
  <1> DEFINE rec == BuildDayRecord(d, index, cal)
             mapped == d \in DOMAIN index
             reported == mapped /\ index[d].fill.needs = "yes"
  <1>1. /\ DOMAIN days = Universe(index, cal)
        /\ d \in DOMAIN days => days[d] = rec
        /\ CalendarBatchDays(cal) \subseteq DOMAIN index
        /\ mapped => /\ d \in BookGapDays(cal) <=> index[d].cls = MissingNeedsCoinapi
                     /\ index[d].cls # ExcludedDay
    BY DEF Faithful
  <1>2. /\ d \in BookGapDays(cal) <=> d \in cal.bookGap
        /\ d \in TradeFillDays(cal) <=> d \in cal.tradeGap
    BY DEF BookGapDays, TradeFillDays
  <1>3. mapped \/ d \in BookGapDays(cal) \/ d \in TradeFillDays(cal) <=> d \in DOMAIN days
    BY <1>1 DEF Universe
  <1>4. ~rec.excluded
    BY <1>1 DEF BuildDayRecord
  <1>5. rec.trade <=> d \in cal.tradeGap
    BY <1>2, <1>4 DEF BuildDayRecord
  <1>6. rec.book.needed <=> reported \/ d \in BookGapDays(cal)
    <2> DEFINE plan_ == index[d].fill.plan
               bought == [needed |-> TRUE, plan |-> plan_,
                          kind |-> IF plan_.profile \in PartialFillProfiles THEN "partial" ELSE "full_day"]
    <2>1. ~(d \in cal.excluded \/ (mapped /\ index[d].cls = ExcludedDay))
      BY <1>1
    <2>2. CASE reported
      <3>1. rec.book = bought
        BY <2>1, <2>2 DEF BuildDayRecord
      <3> QED BY <2>2, <3>1
    <2>3. CASE ~reported
      <3>1. rec.book = IF d \in BookGapDays(cal) THEN WholeDay("calendar_book_gap") ELSE NoFill
        BY <2>1, <2>3 DEF BuildDayRecord
      <3> QED BY <2>3, <3>1 DEF WholeDay, NoFill
    <2> QED BY <2>2, <2>3
  <1>7. mapped => ~NoVerdict(index[d])
    <2>1. rec.unresolved <=> mapped /\ NoVerdict(index[d])
      BY DEF BuildDayRecord
    <2> QED BY <1>1, <1>3, <2>1
  <1>8. mapped => /\ index[d].fill.needs = "yes" => ~ReallyUsable(d)
                  /\ index[d].fill.needs = "yes" \/ ReallyUsable(d)
    BY <1>1, <1>7, RecordsAreHonest
  <1>9. d \in cal.lakeAll \ cal.bookGap => mapped
    <2>1. d \in cal.lakeAll \ cal.bookGap => d \in CalendarBatchDays(cal)
      BY DEF CalendarBatchDays, SelectDays
    <2> QED BY <1>1, <2>1
  <1> HIDE DEF rec, mapped, reported
  <1>10. ASSUME d \in cal.lakeAll \union cal.bookGap, ~ReallyUsable(d)
         PROVE  d \in DOMAIN days /\ ~days[d].excluded /\ days[d].book.needed
    <2>1. d \in BookGapDays(cal) \/ reported
      BY <1>2, <1>8, <1>9, <1>10 DEF mapped, reported
    <2>2. d \in DOMAIN days
      BY <1>3, <2>1 DEF mapped, reported
    <2> QED BY <1>1, <1>4, <1>6, <2>1, <2>2
  <1>11. ASSUME d \in DOMAIN days, days[d].book.needed
         PROVE  d \in cal.bookGap \/ ~ReallyUsable(d)
    BY <1>1, <1>2, <1>6, <1>8, <1>11 DEF mapped, reported
  <1>12. d \in DOMAIN days /\ ~days[d].excluded /\ days[d].trade <=> d \in cal.tradeGap
    BY <1>1, <1>2, <1>3, <1>4, <1>5
  <1> QED BY <1>10, <1>11, <1>12

\* What costs is justified (DownloadsAreJustified): pulls for the map stay clear
\* of the month's cap, and an accepted plan buys what its days need and nothing
\* else.
THEOREM PurchasesAreJustified == Spec => []DownloadsAreJustified
  <1>1. ASSUME QualityInv, accepted # None PROVE AcceptedPlanIsNeeded
    <2> DEFINE m == accepted.manifest
               cal == m.read.calendar
               days == m.verdict.days
               index == DayIndex(m.read.plan, m.read.reports)
               decided == {e.day : e \in m.read.entries}
               live(d) == d \in DOMAIN days /\ ~days[d].excluded
    <2>1. /\ cal \in Calendars
          /\ \A d \in DOMAIN index : TrueRecord(content, d, index[d])
          /\ Faithful(days, index, cal, decided)
          /\ \A d \in DOMAIN days : ~days[d].unresolved
          /\ accepted.units = SelectWindow(DeriveUnits(days), accepted.window)
      BY <1>1, AcceptedManifest
    <2>2. ASSUME NEW d, d \notin cal.excluded, ~Decided(m, d)
          PROVE  /\ d \in cal.lakeAll \union cal.bookGap =>
                       (live(d) /\ days[d].book.needed) \/ ReallyUsable(d)
                 /\ live(d) /\ days[d].book.needed => d \in cal.bookGap \/ ~ReallyUsable(d)
                 /\ live(d) /\ days[d].trade <=> d \in cal.tradeGap
      <3>1. d \notin decided
        BY <2>2 DEF Decided
      <3> HIDE DEF cal, days, index, decided
      <3> QED BY <2>1, <2>2, <3>1, UndecidedPurchase
    <2>3. ASSUME NEW d
          PROVE  /\ <<"book", d>> \in accepted.units <=>
                       d \in accepted.window /\ live(d) /\ days[d].book.needed
                 /\ <<"trades", d>> \in accepted.units <=>
                       d \in accepted.window /\ live(d) /\ days[d].trade
      <3>1. \A x \in DOMAIN days : ~days[x].unresolved
        BY <2>1
      <3>2. accepted.units = SelectWindow(DeriveUnits(days), accepted.window)
        BY <2>1
      <3> HIDE DEF days
      <3>3. LET units == SelectWindow(DeriveUnits(days), accepted.window)
            IN  /\ <<"book", d>> \in units <=>
                      (d \in accepted.window /\ live(d)) /\ days[d].book.needed
                /\ <<"trades", d>> \in units <=>
                      (d \in accepted.window /\ live(d)) /\ days[d].trade
        BY <3>1, UnitsOfDay
      <3> QED BY <3>2, <3>3
    <2>4. cal.lakeAll \union cal.bookGap \union cal.tradeGap \subseteq Days
      BY <2>1, BatchAssumption
    <2>5. \A d \in DOMAIN days \cap cal.excluded : ~live(d)
      BY <2>1 DEF Faithful
    <2> HIDE DEF live, days, index, decided
    <2> QED BY <2>2, <2>3, <2>4, <2>5 DEF AcceptedPlanIsNeeded, Buys, live
  <1>2. QualityInv => DownloadsAreJustified
    BY <1>1 DEF DownloadsAreJustified, AcceptedPlanIsNeeded, QualityInv, BatchInv, QuotaInv
  <1> QED BY <1>2, QualityInvariant, PTL
-----------------------------------------------------------------------------
(* Runs of samples *)

LEMMA RunIs ==
    ASSUME NEW S, S \subseteq Nat, NEW r \in Runs(S)
    PROVE  /\ r[1] \in S /\ r[1] \in Nat /\ r[2] \in Nat /\ r[1] < r[2]
           /\ r[1] - 1 \notin S /\ r[2] \notin S
           /\ \A i \in r[1]..(r[2] - 1) : i \in S
  <1>1. PICK a \in S, b \in S : r = <<a, b + 1>>
    BY DEF Runs
  <1> QED BY <1>1 DEF Runs

\* Every sample of a set is on a maximal run of it.
LEMMA RunAround ==
    ASSUME NEW n \in Nat, NEW S, S \subseteq 0..(n - 1), NEW i \in S
    PROVE  \E r \in Runs(S) : r[1] <= i /\ i < r[2]
  <1> DEFINE A == {a \in 0..i : \A x \in a..i : x \in S}
             B == {b \in (i + 1)..n : b \notin S}
  <1>0. i \in Nat /\ i < n /\ \A x \in S : x \in Nat /\ x < n
    OBVIOUS
  <1>1. i \in A /\ A \subseteq Nat
    BY <1>0
  <1>2. n \in B /\ B \subseteq Nat
    BY <1>0
  <1>3. PICK a \in A : \A x \in A : a <= x
    <2> HIDE DEF A
    <2> QED BY <1>1, LeastOfNat
  <1>4. PICK b \in B : \A x \in B : b <= x
    <2> HIDE DEF B
    <2> QED BY <1>2, LeastOfNat
  <1>5. a \in Nat /\ b \in Nat /\ a <= i /\ i < b /\ b <= n /\ b \notin S
    BY <1>0
  <1>6. a - 1 \notin S
    <2>1. SUFFICES ASSUME a - 1 \in S PROVE FALSE
      OBVIOUS
    <2>2. a - 1 \in Nat /\ a - 1 <= i
      BY <1>0, <1>5, <2>1
    <2>3. \A x \in (a - 1)..i : x = a - 1 \/ x \in a..i
      BY <1>5
    <2>4. a - 1 \in A
      BY <1>0, <2>1, <2>2, <2>3
    <2> QED BY <1>3, <1>5, <2>4
  <1>7. ASSUME NEW x \in a..(b - 1) PROVE x \in S
    <2>1. CASE x <= i
      <3>1. x \in a..i
        BY <1>5, <2>1
      <3> QED BY <3>1
    <2>2. CASE x > i
      <3>1. x \in (i + 1)..n /\ ~ b <= x
        BY <1>0, <1>5, <2>2
      <3> QED BY <1>4, <3>1
    <2> QED BY <1>0, <1>5, <2>1, <2>2
  <1>8. a \in S /\ b - 1 \in S /\ b = (b - 1) + 1
    BY <1>5, <1>7
  <1> HIDE DEF A, B
  <1>9. <<a, b>> \in Runs(S)
    BY <1>5, <1>6, <1>7, <1>8 DEF Runs
  <1> QED BY <1>5, <1>9

\* What a Lake segment may begin on.
WarmedUp(valid, seed, q) ==
    /\ seed # NoTs
    /\ \A j \in (q - WarmupConsecutive + 1)..q : j \in DOMAIN valid /\ j >= seed /\ valid[j]

LEMMA QualifiedIs ==
    ASSUME NEW valid, NEW seed, NEW from \in Nat, NEW to \in Nat, from..(to - 1) \subseteq DOMAIN valid,
           QualifiedIn(valid, seed, from, to) # NoTs
    PROVE  /\ QualifiedIn(valid, seed, from, to) \in from..(to - 1)
           /\ WarmedUp(valid, seed, QualifiedIn(valid, seed, from, to))
  <1> DEFINE sustains(i) == \A j \in (i - WarmupConsecutive + 1)..i :
                               j \in from..(to - 1) /\ j >= seed /\ valid[j]
             at == {i \in from..(to - 1) : sustains(i)}
  <1>1. QualifiedIn(valid, seed, from, to) = IF seed = NoTs \/ at = {} THEN NoTs ELSE Min(at)
    BY DEF QualifiedIn
  <1>2. at # {} /\ seed # NoTs /\ QualifiedIn(valid, seed, from, to) = Min(at)
    BY <1>1
  <1>3. at \subseteq Nat
    OBVIOUS
  <1>4. Min(at) \in at
    <2> HIDE DEF at
    <2> QED BY <1>2, <1>3, MinOfNat
  <1>5. Min(at) \in from..(to - 1) /\ sustains(Min(at))
    BY <1>4
  <1> HIDE DEF at
  <1> QED BY <1>2, <1>5 DEF WarmedUp

Mask(n, valid) == valid \in [0..(n - 1) -> BOOLEAN]

\* An invalid sample of a run long enough to be filled is filled.
LEMMA LongRunsAreFilled ==
    ASSUME NEW n \in Nat, NEW valid, Mask(n, valid),
           NEW i \in Nat, \A j \in i..(i + FillMin - 1) : j \in DOMAIN valid /\ ~valid[j]
    PROVE  i \in LongFill(valid)
  <1>0. FillMin \in Nat /\ FillMin > 0
    BY StitchAssumption
  <1>1. Invalid(valid) \subseteq 0..(n - 1) /\ Invalid(valid) \subseteq Nat
    BY DEF Mask, Invalid
  <1>2. \A j \in i..(i + FillMin - 1) : j \in Invalid(valid)
    BY DEF Invalid
  <1>3. i \in Invalid(valid)
    BY <1>0, <1>2
  <1>4. PICK r \in Runs(Invalid(valid)) : r[1] <= i /\ i < r[2]
    BY <1>1, <1>3, RunAround
  <1>5. r[1] \in Nat /\ r[2] \in Nat /\ r[2] \notin Invalid(valid)
    BY <1>1, RunIs
  <1>6. i + FillMin <= r[2]
    <2>1. r[2] \notin i..(i + FillMin - 1)
      BY <1>2, <1>5
    <2> QED BY <1>0, <1>4, <1>5, <2>1
  <1>7. r[2] - r[1] >= FillMin /\ i \in r[1]..(r[2] - 1)
    BY <1>0, <1>4, <1>5, <1>6
  <1> QED BY <1>7 DEF LongFill, InvalidRuns

\* A sample Lake serves is on a span that qualified, whose end Lake does not serve.
LEMMA LakeSpans ==
    ASSUME NEW n \in Nat, NEW valid, Mask(n, valid), NEW seed, NEW i \in LakeSamples(valid, seed)
    PROVE  /\ i \in 0..(n - 1) /\ i \notin LongFill(valid)
           /\ \E a, b \in Nat :
                /\ a <= i /\ i < b /\ b - a >= MinLakeSegment
                /\ \A j \in a..(b - 1) : j \in LakeSamples(valid, seed)
                /\ b \notin LakeSamples(valid, seed)
                /\ WarmedUp(valid, seed, a)
  <1> DEFINE kept == DOMAIN valid \ LongFill(valid)
             long == {s \in QualifiedSpans(valid, seed) : s[2] - s[1] >= MinLakeSegment}
  <1>0. DOMAIN valid = 0..(n - 1) /\ kept \subseteq 0..(n - 1) /\ kept \subseteq Nat
    BY DEF Mask
  <1>1. LakeSamples(valid, seed) = UNION {q[1]..(q[2] - 1) : q \in long}
    BY DEF LakeSamples
  <1>2. ASSUME NEW q \in long
        PROVE  /\ q[1] \in Nat /\ q[2] \in Nat /\ WarmedUp(valid, seed, q[1]) /\ q[2] \notin kept
               /\ \A j \in q[1]..(q[2] - 1) : j \in kept
    <2>1. PICK r \in Runs(kept) : q = <<QualifiedIn(valid, seed, r[1], r[2]), r[2]>> /\ q[1] # NoTs
      BY DEF QualifiedSpans
    <2> HIDE DEF kept
    <2>2. /\ r[1] \in Nat /\ r[2] \in Nat /\ r[2] \notin kept
          /\ \A j \in r[1]..(r[2] - 1) : j \in kept
      BY <1>0, RunIs
    <2>3. r[1]..(r[2] - 1) \subseteq DOMAIN valid
      BY <1>0, <2>2
    <2>4. QualifiedIn(valid, seed, r[1], r[2]) # NoTs
      BY <2>1
    <2>5. /\ QualifiedIn(valid, seed, r[1], r[2]) \in r[1]..(r[2] - 1)
          /\ WarmedUp(valid, seed, QualifiedIn(valid, seed, r[1], r[2]))
      BY <2>2, <2>3, <2>4, QualifiedIs
    <2>6. q[1] \in r[1]..(r[2] - 1) /\ WarmedUp(valid, seed, q[1]) /\ q[2] = r[2]
      BY <2>1, <2>5
    <2>7. \A j \in q[1]..(q[2] - 1) : j \in r[1]..(r[2] - 1)
      BY <2>2, <2>6
    <2> QED BY <2>2, <2>6, <2>7
  <1>3. PICK q \in long : i \in q[1]..(q[2] - 1)
    BY <1>1
  <1> HIDE DEF long
  <1>4. \A x \in LakeSamples(valid, seed) : x \in kept
    BY <1>1, <1>2
  <1>5. \A j \in q[1]..(q[2] - 1) : j \in LakeSamples(valid, seed)
    BY <1>1
  <1>6. q[2] - q[1] >= MinLakeSegment
    BY DEF long
  <1>7. q[2] \notin LakeSamples(valid, seed)
    BY <1>2, <1>4
  <1>8. i \in kept
    BY <1>4
  <1>9. q[1] <= i /\ i < q[2]
    BY <1>2, <1>3
  <1>10. i \in 0..(n - 1) /\ i \notin LongFill(valid)
    BY <1>0, <1>8
  <1> HIDE DEF kept
  <1> QED BY <1>2, <1>5, <1>6, <1>7, <1>9, <1>10

-----------------------------------------------------------------------------
(* Partitions of a day *)

\* Segments that follow each other from the first sample of the day to the last.
Partition(segs, n) ==
    /\ Sequence(segs) /\ Len(segs) > 0
    /\ segs[1].start = 0 /\ segs[Len(segs)].end = n
    /\ \A k \in 1..Len(segs) :
          /\ segs[k].start \in Nat /\ segs[k].end \in Nat /\ segs[k].start < segs[k].end
          /\ k > 1 => segs[k].start = segs[k - 1].end

LEMMA PartitionOrder ==
    ASSUME NEW n \in Nat, NEW segs, Partition(segs, n)
    PROVE  /\ Len(segs) \in Nat /\ DOMAIN segs = 1..Len(segs)
           /\ \A k, m \in 1..Len(segs) : k < m => segs[k].end <= segs[m].start
           /\ \A k \in 1..Len(segs) : segs[k].end <= n
           /\ \A i \in 0..(n - 1) : \E k \in 1..Len(segs) : segs[k].start <= i /\ i < segs[k].end
  <1> DEFINE l == Len(segs)
  <1>1. l \in Nat /\ l > 0 /\ DOMAIN segs = 1..l
    BY SequenceFacts DEF Partition
  <1>0. /\ segs[1].start = 0 /\ segs[l].end = n
        /\ \A k \in 1..l : segs[k].start \in Nat /\ segs[k].end \in Nat /\ segs[k].start < segs[k].end
        /\ \A k \in 2..l : segs[k].start = segs[k - 1].end
    BY <1>1 DEF Partition
  <1> HIDE DEF l
  <1>2. ASSUME NEW k \in 1..l PROVE \A m \in 1..l : k < m => segs[k].end <= segs[m].start
    <2> DEFINE bad == {m \in 1..l : k < m /\ ~ segs[k].end <= segs[m].start}
    <2>1. SUFFICES ASSUME bad # {} PROVE FALSE
      OBVIOUS
    <2>2. bad \subseteq Nat
      OBVIOUS
    <2>3. PICK m \in bad : \A x \in bad : m <= x
      <3> HIDE DEF bad
      <3> QED BY <2>1, <2>2, LeastOfNat
    <2>4. m \in 2..l /\ k < m /\ ~ segs[k].end <= segs[m].start /\ m - 1 \in 1..l
      BY <1>1
    <2>5. segs[m].start = segs[m - 1].end
      BY <1>0, <2>4
    <2>6. m - 1 \notin bad
      <3> HIDE DEF bad
      <3> QED BY <2>3, <2>4
    <2>7. k # m - 1
      BY <1>0, <2>4, <2>5
    <2>8. segs[k].end <= segs[m - 1].start
      BY <2>4, <2>6, <2>7
    <2>9. segs[m - 1].start < segs[m - 1].end /\ segs[m - 1].start \in Nat /\ segs[m - 1].end \in Nat
          /\ segs[k].end \in Nat
      BY <1>0, <2>4
    <2> QED BY <2>4, <2>5, <2>8, <2>9
  <1>3. ASSUME NEW k \in 1..l PROVE segs[k].end <= n
    <2>1. CASE k = l
      BY <1>0, <1>1, <2>1
    <2>2. CASE k # l
      <3>1. k < l /\ l \in 1..l
        BY <1>1, <2>2
      <3>2. segs[k].end <= segs[l].start /\ segs[l].start < segs[l].end
        BY <1>0, <1>2, <3>1
      <3>3. segs[k].end \in Nat /\ segs[l].start \in Nat /\ segs[l].end = n
        BY <1>0, <3>1
      <3> QED BY <3>2, <3>3
    <2> QED BY <2>1, <2>2
  <1>4. ASSUME NEW i \in 0..(n - 1)
        PROVE  \E k \in 1..l : segs[k].start <= i /\ i < segs[k].end
    <2> DEFINE K == {k \in 1..l : segs[k].start <= i}
    <2>1. 1 \in K /\ K \subseteq Nat /\ K \subseteq 1..l
      BY <1>0, <1>1
    <2>2. IsFiniteSet(K)
      BY <1>1, <2>1, PositionsAreFinite
    <2>3. Max(K) \in K /\ \A x \in K : x <= Max(K)
      <3> HIDE DEF K
      <3> QED BY <2>1, <2>2, MaxOfFinite
    <2>4. PICK k \in 1..l : segs[k].start <= i /\ \A x \in K : x <= k
      BY <2>3
    <2>5. i < segs[k].end
      <3>1. CASE k = l
        BY <1>0, <3>1
      <3>2. CASE k # l
        <4>1. k + 1 \in 2..l /\ k + 1 \in 1..l /\ k = (k + 1) - 1
          BY <1>1, <3>2
        <4>2. k + 1 \notin K
          <5> HIDE DEF K
          <5> QED BY <2>4
        <4>3. ~ segs[k + 1].start <= i
          BY <4>1, <4>2
        <4>4. segs[k + 1].start = segs[k].end /\ segs[k].end \in Nat
          BY <1>0, <4>1
        <4> QED BY <4>3, <4>4
      <3> QED BY <3>1, <3>2
    <2> QED BY <2>4, <2>5
  <1> QED BY <1>1, <1>2, <1>3, <1>4 DEF l

\* The seams are the starts of the segments whose source is not that before.
LEMMA SeamsAre ==
    ASSUME NEW segs, Sequence(segs)
    PROVE  Range(SeamsOf(segs)) = {segs[k].start : k \in {m \in 2..Len(segs) :
                                       segs[m].source # segs[m - 1].source}}
  <1> DEFINE S == {k \in 2..Len(segs) : segs[k].source # segs[k - 1].source}
             right == InOrder(S)
  <1>1. Len(segs) \in Nat
    BY SequenceFacts
  <1>2. S \subseteq Nat /\ S \subseteq 1..Len(segs)
    BY <1>1
  <1>3. IsFiniteSet(S)
    BY <1>1, <1>2, PositionsAreFinite
  <1>4. SeamsOf(segs) = [i \in DOMAIN right |-> segs[right[i]].start]
    BY DEF SeamsOf
  <1> HIDE DEF S
  <1>5. (\A i \in DOMAIN right : right[i] \in S) /\ \A k \in S : \E i \in DOMAIN right : right[i] = k
    BY <1>2, <1>3, InOrderIs
  <1> HIDE DEF right
  <1>6. Range(SeamsOf(segs)) = {segs[k].start : k \in S}
    BY <1>4, <1>5 DEF Range
  <1> QED BY <1>6 DEF S

\* Between seams there is one vendor.
LEMMA OneVendor ==
    ASSUME NEW n \in Nat, NEW segs, Partition(segs, n),
           NEW a \in 0..(n - 1), NEW b \in 0..(n - 1), a <= b,
           \A s \in Range(SeamsOf(segs)) : ~ (a < s /\ s <= b)
    PROVE  /\ Cardinality(WindowVendorSources(a, b, segs)) = 1
           /\ VendorSourceAt(a, segs) = VendorSourceAt(b, segs)
  <1> DEFINE l == Len(segs)
  <1>0. Sequence(segs)
    BY DEF Partition
  <1>1. /\ l \in Nat /\ DOMAIN segs = 1..l
        /\ \A k, m \in 1..l : k < m => segs[k].end <= segs[m].start
        /\ \A i \in 0..(n - 1) : \E k \in 1..l : segs[k].start <= i /\ i < segs[k].end
    BY PartitionOrder
  <1>2. /\ l > 0 /\ segs[1].start = 0 /\ segs[l].end = n
        /\ \A k \in 1..l : segs[k].start \in Nat /\ segs[k].end \in Nat /\ segs[k].start < segs[k].end
    BY DEF Partition
  <1>3. \A m \in 2..l : segs[m].source # segs[m - 1].source => ~ (a < segs[m].start /\ segs[m].start <= b)
    BY <1>0, SeamsAre
  <1> HIDE DEF l
  <1>4. PICK k \in 1..l : segs[k].start <= a /\ a < segs[k].end
    BY <1>1
  <1>5. \A m \in 1..l : k <= m /\ segs[m].start <= b => segs[m].source = segs[k].source
    <2> DEFINE bad == {m \in 1..l : k <= m /\ segs[m].start <= b /\ segs[m].source # segs[k].source}
    <2>1. SUFFICES ASSUME bad # {} PROVE FALSE
      OBVIOUS
    <2>2. bad \subseteq Nat
      OBVIOUS
    <2>3. PICK m \in bad : \A x \in bad : m <= x
      <3> HIDE DEF bad
      <3> QED BY <2>1, <2>2, LeastOfNat
    <2>4. m \in 1..l /\ k <= m /\ segs[m].start <= b /\ segs[m].source # segs[k].source
      OBVIOUS
    <2>5. m \in 2..l /\ m - 1 \in 1..l /\ k <= m - 1 /\ k < m
      BY <1>1, <2>4
    <2>6. m - 1 \notin bad
      <3> HIDE DEF bad
      <3> QED BY <2>3, <2>5
    <2>7. segs[m - 1].start < segs[m - 1].end /\ segs[m - 1].end <= segs[m].start
          /\ segs[m - 1].start \in Nat /\ segs[m - 1].end \in Nat /\ segs[m].start \in Nat
      <3>1. m - 1 < m
        BY <2>5
      <3> QED BY <1>1, <1>2, <2>5, <2>4, <3>1
    <2>8. segs[m - 1].source = segs[k].source
      <3>1. segs[m - 1].start <= b
        BY <2>4, <2>7
      <3> QED BY <2>5, <2>6, <3>1
    <2>9. a < segs[m].start
      <3>1. segs[k].end <= segs[m].start /\ segs[k].end \in Nat
        BY <1>1, <1>2, <2>5
      <3> QED BY <1>4, <2>7, <3>1
    <2> QED BY <1>3, <2>4, <2>5, <2>8, <2>9
  <1>6. \A m \in 1..l : a < segs[m].end => k <= m
    <2>1. SUFFICES ASSUME NEW m \in 1..l, a < segs[m].end, m < k PROVE FALSE
      BY <1>1
    <2>2. segs[m].end <= segs[k].start /\ segs[m].end \in Nat /\ segs[k].start \in Nat
      BY <1>1, <1>2, <2>1
    <2> QED BY <1>4, <2>1, <2>2
  <1>7. Range(segs) = {segs[m] : m \in 1..l}
    BY <1>1 DEF Range
  <1>8. {s.source : s \in {g \in Range(segs) : g.start <= b /\ a < g.end}} = {segs[k].source}
    <2>1. segs[k].start <= b
      BY <1>2, <1>4
    <2>2. segs[k] \in {g \in Range(segs) : g.start <= b /\ a < g.end}
      BY <1>4, <1>7, <2>1
    <2>3. ASSUME NEW g \in Range(segs), g.start <= b, a < g.end PROVE g.source = segs[k].source
      BY <1>5, <1>6, <1>7, <2>3
    <2> QED BY <2>2, <2>3
  <1>9. ~ (a < Head(segs).start \/ b >= Last(segs).end)
    <2>1. Head(segs) = segs[1] /\ Last(segs) = segs[l]
      BY <1>0, <1>1, <1>2 DEF Sequence, Last, l
    <2> QED BY <1>2, <2>1
  <1>10. WindowVendorSources(a, b, segs) = {segs[k].source}
    BY <1>8, <1>9 DEF WindowVendorSources
  <1>11. ASSUME NEW u \in a..b PROVE VendorSourceAt(u, segs) = segs[k].source
    <2> DEFINE K == {m \in DOMAIN segs : segs[m].start <= u}
    <2>1. k \in K /\ K \subseteq 1..l /\ K \subseteq Nat
      BY <1>1, <1>2, <1>4
    <2>2. IsFiniteSet(K)
      BY <1>1, <2>1, PositionsAreFinite
    <2>3. Max(K) \in K /\ k <= Max(K)
      <3> HIDE DEF K
      <3> QED BY <2>1, <2>2, MaxOfFinite
    <2>4. Max(K) \in 1..l /\ segs[Max(K)].start <= u /\ segs[Max(K)].start \in Nat
      BY <1>1, <1>2, <2>3
    <2>5. segs[Max(K)].start <= b
      BY <2>4
    <2>6. segs[Max(K)].source = segs[k].source
      BY <1>5, <2>3, <2>4, <2>5
    <2>7. VendorSourceAt(u, segs) = segs[Max(K)].source
      BY DEF VendorSourceAt
    <2> QED BY <2>6, <2>7
  <1>12. a \in a..b /\ b \in a..b
    OBVIOUS
  <1>13. Cardinality({segs[k].source}) = 1
    BY FS_Singleton
  <1> QED BY <1>10, <1>11, <1>12, <1>13

-----------------------------------------------------------------------------
(* The segments of a stitched day *)

LEMMA CutsAre ==
    ASSUME NEW n \in Nat \ {0}, NEW lake
    PROVE  LET cuts == Cuts(n, lake)
               l == Len(cuts)
           IN  /\ l \in Nat /\ l > 0 /\ DOMAIN cuts = 1..l
               /\ cuts[1] = 0
               /\ \A k \in 1..l : cuts[k] \in Nat /\ cuts[k] < n
               /\ \A k, m \in 1..l : k < m => cuts[k] < cuts[m]
               /\ \A k \in 2..l : (cuts[k] \in lake) # (cuts[k] - 1 \in lake)
               /\ \A i \in 1..(n - 1) :
                     (i \in lake) # (i - 1 \in lake) => \E k \in 1..l : cuts[k] = i
  <1> DEFINE S == {i \in 0..(n - 1) : i = 0 \/ (i \in lake) # (i - 1 \in lake)}
             cuts == InOrder(S)
             l == Len(cuts)
  <1>1. S \subseteq Nat /\ 0 \in S /\ S \subseteq 0..(n - 1)
    OBVIOUS
  <1>2. IsFiniteSet(S)
    <2>1. 0 \in Int /\ n - 1 \in Int
      OBVIOUS
    <2>2. IsFiniteSet(0..(n - 1))
      BY <2>1, FS_Interval
    <2> HIDE DEF S
    <2> QED BY <1>1, <2>2, FS_Subset
  <1>3. Cuts(n, lake) = cuts
    BY DEF Cuts
  <1>4. \A i \in S : i = 0 \/ (i \in lake) # (i - 1 \in lake)
    OBVIOUS
  <1>5. \A i \in 1..(n - 1) : (i \in lake) # (i - 1 \in lake) => i \in S
    OBVIOUS
  <1> HIDE DEF S
  <1>6. /\ Sequence(cuts) /\ DOMAIN cuts = 1..l /\ l \in Nat
        /\ \A k \in 1..l : cuts[k] \in S
        /\ \A k, m \in 1..l : k < m => cuts[k] < cuts[m]
        /\ \A i \in S : \E k \in 1..l : cuts[k] = i
    BY <1>1, <1>2, InOrderIs
  <1> HIDE DEF cuts, l
  <1>7. PICK z \in 1..l : cuts[z] = 0
    BY <1>1, <1>6
  <1>8. \A k \in 1..l : cuts[k] \in Nat /\ cuts[k] < n
    <2>1. \A i \in S : i \in Nat /\ i < n
      BY <1>1
    <2> QED BY <1>6, <2>1
  <1>9. z = 1
    <2>1. SUFFICES ASSUME z # 1 PROVE FALSE
      OBVIOUS
    <2>2. 1 \in 1..l /\ 1 < z
      BY <1>6, <2>1
    <2>3. cuts[1] < cuts[z] /\ cuts[1] \in Nat
      BY <1>6, <1>8, <2>2
    <2> QED BY <1>7, <2>3
  <1>10. ASSUME NEW k \in 2..l PROVE (cuts[k] \in lake) # (cuts[k] - 1 \in lake)
    <2>1. k \in 1..l /\ 1 \in 1..l /\ 1 < k
      BY <1>6
    <2>2. cuts[1] < cuts[k] /\ cuts[1] = 0
      BY <1>6, <1>7, <1>9, <2>1
    <2>3. cuts[k] # 0 /\ cuts[k] \in S
      BY <1>6, <2>1, <2>2
    <2> QED BY <1>4, <2>3
  <1>11. l > 0
    BY <1>6, <1>7
  <1>12. \A i \in 1..(n - 1) : (i \in lake) # (i - 1 \in lake) => \E k \in 1..l : cuts[k] = i
    BY <1>5, <1>6
  <1> QED BY <1>3, <1>6, <1>7, <1>8, <1>9, <1>10, <1>11, <1>12 DEF l

\* A stitched day is a partition whose Lake segments are the maximal runs of
\* what Lake serves.
LEMMA SegmentsAre ==
    ASSUME NEW n \in Nat \ {0}, NEW lake
    PROVE  LET segs == Segments(n, lake)
           IN  /\ Partition(segs, n)
               /\ \A k \in DOMAIN segs :
                    /\ segs[k].source \in {Lake, Coinapi, ExcludedSpan}
                    /\ \A i \in segs[k].start..(segs[k].end - 1) : i \in lake <=> segs[k].source = Lake
                    /\ segs[k].source = Lake =>
                          /\ segs[k].start = 0 \/ segs[k].start - 1 \notin lake
                          /\ segs[k].end = n \/ segs[k].end \notin lake
  <1> DEFINE cuts == Cuts(n, lake)
             l == Len(cuts)
             segs == Segments(n, lake)
             end(k) == IF k = l THEN n ELSE cuts[k + 1]
             source(k) == IF cuts[k] \in lake THEN Lake
                          ELSE IF end(k) - cuts[k] >= FillMin THEN Coinapi ELSE ExcludedSpan
  <1>1. /\ l \in Nat /\ l > 0 /\ DOMAIN cuts = 1..l
        /\ cuts[1] = 0
        /\ \A k \in 1..l : cuts[k] \in Nat /\ cuts[k] < n
        /\ \A k, m \in 1..l : k < m => cuts[k] < cuts[m]
        /\ \A k \in 2..l : (cuts[k] \in lake) # (cuts[k] - 1 \in lake)
        /\ \A i \in 1..(n - 1) :
              (i \in lake) # (i - 1 \in lake) => \E k \in 1..l : cuts[k] = i
    BY CutsAre
  <1>2. segs = [k \in 1..l |-> Segment(source(k), cuts[k], end(k))]
    BY <1>1 DEF Segments
  <1> HIDE DEF cuts, l, segs
  <1>3. ASSUME NEW k \in 1..l
        PROVE  segs[k].source = source(k) /\ segs[k].start = cuts[k] /\ segs[k].end = end(k)
    <2> HIDE DEF source, end
    <2> QED BY <1>2 DEF Segment
  <1>4. ASSUME NEW k \in 1..l
        PROVE  end(k) \in Nat /\ cuts[k] < end(k) /\ end(k) <= n
    <2>1. CASE k = l
      BY <1>1, <2>1
    <2>2. CASE k # l
      <3>1. k + 1 \in 1..l /\ k < k + 1
        BY <1>1, <2>2
      <3> QED BY <1>1, <2>2, <3>1
    <2> QED BY <2>1, <2>2
  <1>5. Sequence(segs) /\ Len(segs) = l /\ DOMAIN segs = 1..l
    <2> DEFINE R == {segs[k] : k \in 1..l}
    <2>2. DOMAIN segs = 1..l /\ segs = [k \in 1..l |-> segs[k]]
      BY <1>2
    <2> HIDE DEF end, source
    <2>1. segs \in Seq(R)
      <3>1. \A k \in 1..l : segs[k] \in R
        OBVIOUS
      <3> HIDE DEF R
      <3> QED BY <1>1, <2>2, <3>1
    <2>3. Len(segs) = l
      BY <1>1, <2>1, <2>2
    <2> QED BY <2>1, <2>2, <2>3 DEF Sequence
  <1>6. Partition(segs, n)
    <2>1. 1 \in 1..l /\ l \in 1..l
      BY <1>1
    <2>2. segs[1].start = 0 /\ segs[l].end = n
      BY <1>1, <1>3, <2>1
    <2>3. ASSUME NEW k \in 1..l, k > 1 PROVE segs[k].start = segs[k - 1].end
      <3>1. k - 1 \in 1..l /\ k - 1 # l /\ (k - 1) + 1 = k
        BY <1>1, <2>3
      <3> QED BY <1>3, <3>1
    <2>4. \A k \in 1..l : segs[k].start \in Nat /\ segs[k].end \in Nat /\ segs[k].start < segs[k].end
      BY <1>1, <1>3, <1>4
    <2> QED BY <1>1, <1>5, <2>2, <2>3, <2>4 DEF Partition
  <1>7. ASSUME NEW k \in 1..l, NEW i \in cuts[k]..(end(k) - 1)
        PROVE  i \in lake <=> cuts[k] \in lake
    <2> DEFINE bad == {j \in cuts[k]..(end(k) - 1) : (j \in lake) # (cuts[k] \in lake)}
    <2>0. cuts[k] \in Nat /\ end(k) \in Nat /\ end(k) <= n
      BY <1>1, <1>4
    <2> HIDE DEF end
    <2>1. SUFFICES ASSUME bad # {} PROVE FALSE
      OBVIOUS
    <2>2. bad \subseteq Nat
      BY <2>0
    <2>3. PICK j \in bad : \A x \in bad : j <= x
      <3> HIDE DEF bad
      <3> QED BY <2>1, <2>2, LeastOfNat
    <2>4. j \in cuts[k]..(end(k) - 1) /\ (j \in lake) # (cuts[k] \in lake)
      OBVIOUS
    <2>5. j # cuts[k]
      BY <2>4
    <2>6. j \in Nat /\ cuts[k] < j /\ j < end(k) /\ j - 1 \in cuts[k]..(end(k) - 1) /\ j \in 1..(n - 1)
      BY <2>0, <2>4, <2>5
    <2>7. j - 1 \notin bad
      <3> HIDE DEF bad
      <3> QED BY <2>3, <2>6
    <2>8. (j \in lake) # (j - 1 \in lake)
      BY <2>4, <2>6, <2>7
    <2>9. PICK m \in 1..l : cuts[m] = j
      BY <1>1, <2>6, <2>8
    <2>10. CASE m <= k
      <3>1. m = k \/ cuts[m] < cuts[k]
        BY <2>10, <1>1
      <3> QED BY <2>0, <2>6, <2>9, <3>1
    <2>11. CASE m > k
      <3>1. k # l /\ k + 1 \in 1..l
        BY <1>1, <2>11
      <3>2. m = k + 1 \/ cuts[k + 1] < cuts[m]
        BY <1>1, <2>11, <3>1
      <3>3. end(k) = cuts[k + 1] /\ cuts[k + 1] \in Nat
        BY <1>1, <3>1 DEF end
      <3> QED BY <2>6, <2>9, <3>2, <3>3
    <2> QED BY <2>10, <2>11
  <1>8. ASSUME NEW k \in 1..l
        PROVE  /\ segs[k].source \in {Lake, Coinapi, ExcludedSpan}
               /\ segs[k].source = Lake <=> cuts[k] \in lake
    <2>1. segs[k].source = source(k)
      BY <1>3
    <2> HIDE DEF end
    <2> QED BY <2>1 DEF Lake, Coinapi, ExcludedSpan
  <1>9. ASSUME NEW k \in 1..l, segs[k].source = Lake
        PROVE  /\ segs[k].start = 0 \/ segs[k].start - 1 \notin lake
               /\ segs[k].end = n \/ segs[k].end \notin lake
    <2>0. cuts[k] \in lake /\ segs[k].start = cuts[k] /\ segs[k].end = end(k)
      BY <1>3, <1>8, <1>9
    <2>1. cuts[k] = 0 \/ cuts[k] - 1 \notin lake
      <3>1. k = 1 \/ k \in 2..l
        BY <1>1
      <3> QED BY <1>1, <2>0, <3>1
    <2>2. end(k) = n \/ end(k) \notin lake
      <3>1. CASE k = l
        BY <3>1
      <3>2. CASE k # l
        <4>1. k + 1 \in 2..l /\ end(k) = cuts[k + 1] /\ k + 1 \in 1..l
          BY <1>1, <3>2
        <4>2. (cuts[k + 1] \in lake) # (cuts[k + 1] - 1 \in lake)
          BY <1>1, <4>1
        <4>3. cuts[k + 1] - 1 \in cuts[k]..(end(k) - 1)
          <5>1. cuts[k] < end(k) /\ cuts[k] \in Nat /\ end(k) \in Nat
            BY <1>1, <1>4
          <5> QED BY <4>1, <5>1
        <4>4. cuts[k + 1] - 1 \in lake
          BY <1>7, <2>0, <4>3
        <4> QED BY <4>1, <4>2, <4>4
      <3> QED BY <3>1, <3>2
    <2> QED BY <2>0, <2>1, <2>2
  <1>10. ASSUME NEW k \in 1..l, NEW i \in segs[k].start..(segs[k].end - 1)
         PROVE  i \in lake <=> segs[k].source = Lake
    <2>1. i \in cuts[k]..(end(k) - 1)
      BY <1>3
    <2> QED BY <1>7, <1>8, <2>1
  <1> QED BY <1>5, <1>6, <1>8, <1>9, <1>10 DEF segs

-----------------------------------------------------------------------------
(* The plan of a day *)

FullDay(p) == \E reason : reason # "none" /\ p = FullDayPlan(GridLen, reason)

\* A plan that leaves Lake some of the day.
Stitched(c, p) ==
    LET lake == LakeSamples(ValidMask(c), c.seed)
    IN  /\ c.rows /\ c.seed # NoTs /\ ~c.unreliable
        /\ 100 * Cardinality(lake \intersect Invalid(ValidMask(c)))
              <= SpanInvalidPct * Cardinality(lake)
        /\ p.segments = Segments(GridLen, lake) /\ p.seams = SeamsOf(p.segments)
        /\ p.profile = ProfileOf(GridLen, p.segments) /\ p.reason = "none"

LEMMA MaskOfDay ==
    ASSUME NEW c
    PROVE  /\ Mask(GridLen, ValidMask(c)) /\ DOMAIN ValidMask(c) = 0..(GridLen - 1)
           /\ Cardinality(DOMAIN ValidMask(c)) = GridLen
           /\ Invalid(ValidMask(c)) \subseteq 0..(GridLen - 1) /\ IsFiniteSet(0..(GridLen - 1))
  <1>1. DOMAIN ValidMask(c) = 0..(GridLen - 1) /\ Mask(GridLen, ValidMask(c))
    BY DEF ValidMask, Samples, Mask
  <1>2. 0 \in Int /\ GridLen - 1 \in Int /\ ~ (0 > GridLen - 1) /\ (GridLen - 1) - 0 + 1 = GridLen
    BY SampleAssumption
  <1>3. IsFiniteSet(0..(GridLen - 1)) /\ Cardinality(0..(GridLen - 1)) = GridLen
    BY <1>2, FS_Interval
  <1> QED BY <1>1, <1>3 DEF Invalid

LEMMA StitchOf ==
    ASSUME NEW c, c.rows, NEW seed \in {c.seed, NoTs}
    PROVE  LET p == PlanDayStitch(ValidMask(c), seed, ~c.unreliable)
           IN  FullDay(p) \/ Stitched(c, p)
  <1> DEFINE valid == ValidMask(c)
             lake == LakeSamples(valid, seed)
             segs == Segments(GridLen, lake)
             x == 100 * Cardinality(lake \intersect Invalid(valid))
             y == SpanInvalidPct * Cardinality(lake)
             p == PlanDayStitch(valid, seed, ~c.unreliable)
             short == FullDayPlan(GridLen, IF QualifiedSpans(valid, seed) = {}
                                           THEN "lake_never_warmup_qualified"
                                           ELSE "lake_trusted_span_too_short")
             partial == [profile |-> ProfileOf(GridLen, segs), reason |-> "none",
                         segments |-> segs, seams |-> SeamsOf(segs),
                         trustedStart |-> Min(lake), trustedEnd |-> Max(lake) + 1]
  <1>1. p = CASE seed = NoTs -> FullDayPlan(GridLen, "no_accepted_seed")
              [] seed # NoTs /\ c.unreliable -> FullDayPlan(GridLen, CrossedSource)
              [] seed # NoTs /\ ~c.unreliable /\ lake = {} -> short
              [] OTHER -> IF x > y THEN FullDayPlan(GridLen, "quality_over_trusted_span")
                          ELSE partial
    BY MaskOfDay DEF PlanDayStitch
  <1>2. x \in Int /\ y \in Int
    <2>1. lake \subseteq 0..(GridLen - 1)
      BY MaskOfDay, LakeSpans, SampleAssumption
    <2>2. IsFiniteSet(lake) /\ IsFiniteSet(lake \intersect Invalid(valid))
      BY <2>1, MaskOfDay, FS_Subset
    <2> HIDE DEF lake, valid
    <2>3. Cardinality(lake) \in Nat /\ Cardinality(lake \intersect Invalid(valid)) \in Nat
      BY <2>2, FS_CardinalityType
    <2>4. \A a, b \in Nat : a * b \in Int
      OBVIOUS
    <2> QED BY <2>3, <2>4, StitchAssumption
  <1>3. FullDay(short)
    BY DEF FullDay
  <1>4. \A reason \in {"no_accepted_seed", CrossedSource, "quality_over_trusted_span"} :
           FullDay(FullDayPlan(GridLen, reason))
    BY DEF FullDay, CrossedSource
  <1>5. partial.segments = segs /\ partial.seams = SeamsOf(segs)
        /\ partial.profile = ProfileOf(GridLen, segs) /\ partial.reason = "none"
    OBVIOUS
  <1>6. seed # NoTs /\ ~c.unreliable /\ x <= y => Stitched(c, partial)
    <2>1. SUFFICES ASSUME seed # NoTs, ~c.unreliable, x <= y PROVE Stitched(c, partial)
      OBVIOUS
    <2>2. seed = c.seed
      BY <2>1
    <2> HIDE DEF partial
    <2> QED BY <1>5, <2>1, <2>2 DEF Stitched
  <1> HIDE DEF lake, x, y, short, partial, p
  <1>7. \/ p \in {FullDayPlan(GridLen, "no_accepted_seed"), FullDayPlan(GridLen, CrossedSource), short,
                  FullDayPlan(GridLen, "quality_over_trusted_span")}
        \/ p = partial /\ seed # NoTs /\ ~c.unreliable /\ x <= y
    <2>1. x > y \/ x <= y
      BY <1>2
    <2> QED BY <1>1, <2>1, Zenon
  <1>8. FullDay(p) \/ Stitched(c, p)
    BY <1>3, <1>4, <1>6, <1>7
  <1> QED BY <1>8 DEF p

\* A day that needs a fill is filled whole, or stitched.
LEMMA PlanOfDay ==
    ASSUME NEW d, NEW rec, TrueRecord(content, d, rec)
    PROVE  /\ rec.fill.needs = "yes" =>
                 \/ FullDay(rec.fill.plan)
                 \/ Stitched(content[d], rec.fill.plan) /\ rec.fill.plan.profile # LakeOnly
           /\ rec.fill.needs # "yes" => rec.fill.plan = NoPlan
  <1>1. ASSUME NEW verdict, NEW stitch, NEW context, rec = DayRecord(verdict, stitch, context)
        PROVE  /\ rec.fill.needs = FillDecision(verdict).needs
               /\ rec.fill.needs # "yes" => rec.fill.plan = NoPlan
               /\ rec.fill.needs = "yes" =>
                     \/ FullDay(rec.fill.plan)
                     \/ rec.fill.plan = stitch /\ stitch # NoPlan /\ stitch.profile # LakeOnly
    <2> DEFINE decision == FillDecision(verdict)
    <2>1. rec.fill.needs = decision.needs /\ rec.fill.plan = FillPlan(verdict, stitch)
      BY <1>1 DEF DayRecord
    <2>2. decision.needs # "yes" => FillPlan(verdict, stitch) = NoPlan
      BY DEF FillPlan
    <2>3. decision.needs = "yes" =>
             \/ FillPlan(verdict, stitch) = FullDayPlan(GridLen, FallbackReason(decision.why))
             \/ FillPlan(verdict, stitch) = stitch /\ stitch # NoPlan /\ stitch.profile # LakeOnly
      BY DEF FillPlan
    <2>4. decision.needs = "yes" =>
             decision.why \in {"lake_book_delta_v2_absent", "quality_over_usable_bar",
                               "crossed_seed_source_cross_validated"}
      BY DEF FillDecision
    <2> HIDE DEF decision
    <2>5. decision.needs = "yes" => FallbackReason(decision.why) # "none"
      BY <2>4 DEF FallbackReason, CrossedSource
    <2>6. decision.needs = "yes" => FullDay(FullDayPlan(GridLen, FallbackReason(decision.why)))
      BY <2>5 DEF FullDay
    <2> QED BY <2>1, <2>2, <2>3, <2>6 DEF decision
  <1>2. ASSUME NEW snaps \in BOOLEAN, NEW context, rec = AssessLakeDay(content[d], snaps, context)
        PROVE  /\ rec.fill.needs # "yes" => rec.fill.plan = NoPlan
               /\ rec.fill.needs = "yes" =>
                     \/ FullDay(rec.fill.plan)
                     \/ Stitched(content[d], rec.fill.plan) /\ rec.fill.plan.profile # LakeOnly
    <2> DEFINE c == content[d]
               seed == IF snaps THEN c.seed ELSE NoTs
               stitch == IF c.rows THEN PlanDayStitch(ValidMask(c), seed, ~c.unreliable) ELSE NoPlan
    <2>1. rec = DayRecord(ClassifyDay(c, seed), stitch, context)
      BY <1>2 DEF AssessLakeDay
    <2>2. c.rows => FullDay(stitch) \/ Stitched(c, stitch)
      <3>1. seed \in {c.seed, NoTs}
        OBVIOUS
      <3> HIDE DEF seed
      <3> QED BY <3>1, StitchOf
    <2>3. ~c.rows => stitch = NoPlan
      OBVIOUS
    <2> HIDE DEF stitch, seed
    <2> QED BY <1>1, <2>1, <2>2, <2>3
  <1>3. ASSUME NEW context, rec = InconclusiveLoadFailure(context) \/ rec = ExcludedResult(context)
        PROVE  rec.fill.needs # "yes" /\ rec.fill.plan = NoPlan
    <2> USE DEF LakeUsable, LakePresentDegraded, MissingNeedsCoinapi, ExcludedDay, Inconclusive,
                SeedSourceUnreliable, LoadFailed
    <2> DEFINE failed == [cls |-> Inconclusive, reasons |-> {LoadFailed}]
               out == [cls |-> ExcludedDay, reasons |-> {"calendar_excluded"}]
    <2>1. \/ rec = DayRecord(failed, NoPlan, context)
          \/ rec = DayRecord(out, NoPlan, context)
      BY <1>3 DEF InconclusiveLoadFailure, ExcludedResult
    <2>2. FillDecision(failed).needs = "none" /\ FillDecision(out).needs = "none"
      BY DEF FillDecision
    <2> HIDE DEF failed, out
    <2> QED BY <1>1, <2>1, <2>2
  <1> QED BY <1>2, <1>3 DEF TrueRecord

LEMMA FullDayIs ==
    ASSUME NEW p, FullDay(p)
    PROVE  /\ Partition(p.segments, GridLen) /\ p.seams = SeamsOf(p.segments)
           /\ Len(p.segments) = 1 /\ p.segments[1].source = Coinapi
           /\ p.profile = FullDayFill /\ p.reason # "none"
           /\ p.trustedStart = NoTs /\ p.trustedEnd = NoTs
  <1>1. PICK reason : reason # "none" /\ p = FullDayPlan(GridLen, reason)
    BY DEF FullDay
  <1> DEFINE s == Segment(Coinapi, 0, GridLen)
  <1>2. /\ p.segments = <<s>> /\ p.seams = << >> /\ p.reason = reason
        /\ p.profile = FullDayFill /\ p.trustedStart = NoTs /\ p.trustedEnd = NoTs
    BY <1>1 DEF FullDayPlan
  <1>3. s.source = Coinapi /\ s.start = 0 /\ s.end = GridLen
    BY DEF Segment
  <1> HIDE DEF s
  <1>4. <<s>> \in Seq({s}) /\ Len(<<s>>) = 1 /\ <<s>>[1] = s /\ DOMAIN <<s>> = 1..1
    OBVIOUS
  <1>5. Sequence(<<s>>)
    BY <1>4 DEF Sequence
  <1>6. Partition(<<s>>, GridLen)
    BY <1>3, <1>4, <1>5, SampleAssumption DEF Partition
  <1>7. SeamsOf(<<s>>) = << >>
    <2> DEFINE S == {k \in 2..Len(<<s>>) : <<s>>[k].source # <<s>>[k - 1].source}
    <2>1. S = {}
      BY <1>4
    <2>2. SeamsOf(<<s>>) = [i \in DOMAIN InOrder(S) |-> <<s>>[InOrder(S)[i]].start]
      BY DEF SeamsOf
    <2> HIDE DEF S
    <2>3. DOMAIN InOrder({}) = {}
      <3>1. Cardinality({}) = 0 /\ IsFiniteSet({}) /\ {} \subseteq Nat
        BY FS_EmptySet
      <3>2. DOMAIN InOrder({}) = 1..0
        BY <3>1, InOrderIs
      <3> QED BY <3>2
    <2> QED BY <2>1, <2>2, <2>3
  <1> QED BY <1>1, <1>2, <1>3, <1>4, <1>6, <1>7

LEMMA ProfileIs ==
    ASSUME NEW n, NEW segments
    PROVE  /\ ProfileOf(n, segments) \in PartialFillProfiles \union {LakeOnly}
           /\ ProfileOf(n, segments) # FullDayFill
           /\ ProfileOf(n, segments) # LakeOnly => Coinapi \in Sources(segments)
  <1> DEFINE kind(s) == IF s.start = 0 THEN "leading_partial_fill"
                        ELSE IF s.end = n THEN "trailing_partial_fill" ELSE "internal_gap_fill"
             fills == {t \in Range(segments) : t.source = Coinapi}
             kinds == {kind(s) : s \in fills}
  <1>1. ProfileOf(n, segments) = CASE kinds = {} -> LakeOnly
                                   [] Cardinality(kinds) = 1 -> CHOOSE k \in kinds : TRUE
                                   [] OTHER -> "mixed_partial_fill"
    BY DEF ProfileOf
  <1>2. kinds \subseteq {"leading_partial_fill", "trailing_partial_fill", "internal_gap_fill"}
    OBVIOUS
  <1>3. kinds # {} => Coinapi \in Sources(segments)
    <2>1. SUFFICES ASSUME kinds # {} PROVE Coinapi \in Sources(segments)
      OBVIOUS
    <2>2. PICK s \in Range(segments) : s.source = Coinapi
      BY <2>1
    <2> QED BY <2>2 DEF Sources
  <1>4. kinds # {} => (CHOOSE k \in kinds : TRUE) \in kinds
    <2> HIDE DEF kinds
    <2> QED OBVIOUS
  <1>5. Cardinality({}) # 1
    BY FS_EmptySet
  <1> HIDE DEF kinds
  <1>6. \/ kinds = {} /\ ProfileOf(n, segments) = LakeOnly
        \/ kinds # {} /\ ProfileOf(n, segments) \in kinds \union {"mixed_partial_fill"}
    <2> DEFINE one == Cardinality(kinds) = 1
               picked == CHOOSE k \in kinds : TRUE
    <2>1. /\ kinds = {} => ~one /\ ProfileOf(n, segments) = LakeOnly
          /\ kinds # {} /\ one => ProfileOf(n, segments) = picked
          /\ kinds # {} /\ ~one => ProfileOf(n, segments) = "mixed_partial_fill"
      BY <1>1, <1>5
    <2> HIDE DEF one, picked
    <2>2. kinds # {} => picked \in kinds
      BY <1>4 DEF picked
    <2> QED BY <2>1, <2>2
  <1> QED BY <1>2, <1>3, <1>6 DEF LakeOnly, FullDayFill, PartialFillProfiles

SegmentSamples(s) == s.start..(s.end - 1)

\* What a plan promises of a day that holds c.
PlanOk(c, p) ==
    LET valid == ValidMask(c)
        lake == {s \in Range(p.segments) : s.source = Lake}
        trusted == UNION {SegmentSamples(s) : s \in lake}
    IN  /\ Partition(p.segments, GridLen) /\ p.seams = SeamsOf(p.segments)
        /\ \A k \in DOMAIN p.segments : p.segments[k].source \in {Lake, Coinapi, ExcludedSpan}
        /\ \A s \in lake :
              /\ ~c.unreliable /\ c.rows /\ WarmedUp(valid, c.seed, s.start)
              /\ s.end - s.start >= MinLakeSegment
              /\ ~ \E i \in SegmentSamples(s) : \A j \in i..(i + FillMin - 1) :
                      j \in SegmentSamples(s) /\ ~valid[j]
        /\ 100 * Cardinality({i \in trusted : ~valid[i]}) <= SpanInvalidPct * Cardinality(trusted)

LEMMA FullDayOk ==
    ASSUME NEW c, NEW p, FullDay(p)
    PROVE  PlanOk(c, p) /\ Sources(p.segments) = {Coinapi}
  <1> DEFINE segs == p.segments
             lake == {s \in Range(segs) : s.source = Lake}
             trusted == UNION {SegmentSamples(s) : s \in lake}
  <1>1. /\ Partition(segs, GridLen) /\ p.seams = SeamsOf(segs)
        /\ Len(segs) = 1 /\ segs[1].source = Coinapi
    BY FullDayIs
  <1>2. DOMAIN segs = 1..1
    BY <1>1, SequenceFacts DEF Partition
  <1>3. Range(segs) = {segs[1]}
    BY <1>2 DEF Range
  <1>4. lake = {} /\ Sources(segs) = {Coinapi}
    BY <1>1, <1>3 DEF Sources, Lake, Coinapi
  <1>5. trusted = {} /\ {i \in trusted : ~ValidMask(c)[i]} = {}
    BY <1>4
  <1>6. 100 * Cardinality({}) <= SpanInvalidPct * Cardinality({})
    <2>1. Cardinality({}) = 0 /\ SpanInvalidPct \in Nat
      BY FS_EmptySet, StitchAssumption
    <2> QED BY <2>1
  <1>7. \A k \in DOMAIN segs : segs[k].source \in {Lake, Coinapi, ExcludedSpan}
    BY <1>1, <1>2
  <1> HIDE DEF segs
  <1> QED BY <1>1, <1>4, <1>5, <1>6, <1>7 DEF PlanOk, segs

LEMMA StitchedOk ==
    ASSUME NEW c, NEW p, Stitched(c, p)
    PROVE  PlanOk(c, p)
  <1> DEFINE valid == ValidMask(c)
             served == LakeSamples(valid, c.seed)
             segs == p.segments
             lake == {s \in Range(segs) : s.source = Lake}
             trusted == UNION {SegmentSamples(s) : s \in lake}
             n == GridLen
  <1>0. n \in Nat /\ n > 0 /\ DOMAIN valid = 0..(n - 1) /\ Mask(n, valid)
    BY SampleAssumption, MaskOfDay
  <1>1. /\ c.rows /\ ~c.unreliable /\ segs = Segments(n, served) /\ p.seams = SeamsOf(segs)
        /\ 100 * Cardinality(served \intersect Invalid(valid)) <= SpanInvalidPct * Cardinality(served)
    BY DEF Stitched
  <1> HIDE DEF n, valid, segs
  <1>2. /\ Partition(segs, n)
        /\ \A k \in DOMAIN segs :
              /\ segs[k].source \in {Lake, Coinapi, ExcludedSpan}
              /\ \A i \in segs[k].start..(segs[k].end - 1) : i \in served <=> segs[k].source = Lake
              /\ segs[k].source = Lake =>
                    /\ segs[k].start = 0 \/ segs[k].start - 1 \notin served
                    /\ segs[k].end = n \/ segs[k].end \notin served
    BY <1>0, <1>1, SegmentsAre
  <1>3. /\ DOMAIN segs = 1..Len(segs) /\ \A k \in DOMAIN segs : segs[k].end <= n
        /\ \A i \in 0..(n - 1) : \E k \in DOMAIN segs : segs[k].start <= i /\ i < segs[k].end
    BY <1>0, <1>2, PartitionOrder
  <1>4. \A k \in DOMAIN segs : /\ segs[k].start \in Nat /\ segs[k].end \in Nat
                               /\ segs[k].start < segs[k].end
    BY <1>2, <1>3 DEF Partition
  <1>5. \A i \in served : i \in 0..(n - 1) /\ i \notin LongFill(valid)
    BY <1>0, LakeSpans
  <1>6. trusted = served
    <2>1. ASSUME NEW i \in served PROVE i \in trusted
      <3>1. PICK k \in DOMAIN segs : segs[k].start <= i /\ i < segs[k].end
        BY <1>3, <1>5
      <3>2. i \in segs[k].start..(segs[k].end - 1)
        BY <1>4, <1>5, <3>1
      <3>3. segs[k].source = Lake
        BY <1>2, <3>2
      <3>4. segs[k] \in lake
        BY <3>3 DEF Range
      <3> QED BY <3>2, <3>4 DEF SegmentSamples
    <2>2. ASSUME NEW i \in trusted PROVE i \in served
      <3>1. PICK s \in lake : i \in s.start..(s.end - 1)
        BY DEF SegmentSamples
      <3>2. PICK k \in DOMAIN segs : segs[k] = s
        BY DEF Range
      <3> QED BY <1>2, <3>1, <3>2
    <2> QED BY <2>1, <2>2
  <1>7. {i \in trusted : ~valid[i]} = served \intersect Invalid(valid)
    BY <1>0, <1>5, <1>6 DEF Invalid
  <1>8. ASSUME NEW s \in lake
        PROVE  /\ WarmedUp(valid, c.seed, s.start) /\ s.end - s.start >= MinLakeSegment
               /\ ~ \E i \in SegmentSamples(s) : \A j \in i..(i + FillMin - 1) :
                       j \in SegmentSamples(s) /\ ~valid[j]
    <2>1. PICK k \in DOMAIN segs : segs[k] = s /\ segs[k].source = Lake
      BY DEF Range
    <2>2. s.start \in Nat /\ s.end \in Nat /\ s.start < s.end /\ s.end <= n
      BY <1>3, <1>4, <2>1
    <2>3. /\ \A i \in s.start..(s.end - 1) : i \in served
          /\ s.start = 0 \/ s.start - 1 \notin served
          /\ s.end = n \/ s.end \notin served
      BY <1>2, <2>1
    <2>4. s.start \in served
      BY <2>2, <2>3
    <2>5. PICK a, b \in Nat : /\ a <= s.start /\ s.start < b /\ b - a >= MinLakeSegment
                              /\ \A j \in a..(b - 1) : j \in served
                              /\ b \notin served
                              /\ WarmedUp(valid, c.seed, a)
      BY <1>0, <2>4, LakeSpans
    <2>6. a = s.start
      <3>1. SUFFICES ASSUME a < s.start PROVE FALSE
        BY <2>2, <2>5
      <3>2. s.start - 1 \in a..(b - 1) /\ s.start # 0
        BY <2>2, <2>5, <3>1
      <3> QED BY <2>3, <2>5, <3>2
    <2>7. b = s.end
      <3>1. ~ b < s.end
        <4>1. b < s.end => b \in s.start..(s.end - 1)
          BY <2>2, <2>5
        <4> QED BY <2>3, <2>5, <4>1
      <3>2. ~ s.end < b
        <4>1. SUFFICES ASSUME s.end < b PROVE FALSE
          OBVIOUS
        <4>2. s.end \in a..(b - 1)
          BY <2>2, <2>5, <4>1
        <4>3. s.end \in served
          BY <2>5, <4>2
        <4>4. s.end # n
          <5>1. \A i \in served : i # n
            BY <1>0, <1>5
          <5> QED BY <4>3, <5>1
        <4> QED BY <2>3, <4>3, <4>4
      <3> QED BY <2>2, <2>5, <3>1, <3>2
    <2>8. ASSUME NEW i \in SegmentSamples(s),
                 \A j \in i..(i + FillMin - 1) : j \in SegmentSamples(s) /\ ~valid[j]
          PROVE  FALSE
      <3>1. i \in Nat /\ i \in served
        BY <2>2, <2>3 DEF SegmentSamples
      <3>2. \A j \in SegmentSamples(s) : j \in DOMAIN valid
        BY <1>0, <1>5, <2>3 DEF SegmentSamples
      <3>3. i \in LongFill(valid)
        BY <1>0, <2>8, <3>1, <3>2, LongRunsAreFilled
      <3> QED BY <1>5, <3>1, <3>3
    <2> QED BY <2>5, <2>6, <2>7, <2>8
  <1>9. 100 * Cardinality({i \in trusted : ~valid[i]}) <= SpanInvalidPct * Cardinality(trusted)
    <2> HIDE DEF trusted, served
    <2> QED BY <1>1, <1>6, <1>7
  <1> HIDE DEF lake, trusted
  <1> QED BY <1>1, <1>2, <1>8, <1>9 DEF PlanOk, lake, trusted, segs, valid, n

-----------------------------------------------------------------------------
(* A day's record before the reviewer *)

\* The class of a record and its fill agree, and a day is missing only where
\* Lake has no partition for it.
LEMMA RecordIs ==
    ASSUME NEW d, NEW rec, TrueRecord(content, d, rec)
    PROVE  /\ rec.cls \in Classes /\ FillContract(rec)
           /\ rec.cls = MissingNeedsCoinapi => ~content[d].rows
  <1> USE DEF LakeUsable, LakePresentDegraded, MissingNeedsCoinapi, ExcludedDay, Inconclusive,
              SeedSourceUnreliable, ThinDepthOverBar, LoadFailed
  <1>1. ASSUME NEW verdict, NEW stitch, NEW context, rec = DayRecord(verdict, stitch, context)
        PROVE  /\ rec.cls = verdict.cls /\ rec.reasons = verdict.reasons
               /\ rec.fill.needs = FillDecision(verdict).needs
               /\ rec.fill.why = FillDecision(verdict).why
               /\ FillDecision(rec) = FillDecision(verdict)
    <2>1. /\ rec.cls = verdict.cls /\ rec.reasons = verdict.reasons
          /\ rec.fill.needs = FillDecision(verdict).needs
          /\ rec.fill.why = FillDecision(verdict).why
      BY <1>1 DEF DayRecord
    <2>2. FillDecision(rec) = FillDecision(verdict)
      BY <2>1 DEF FillDecision
    <2> QED BY <2>1, <2>2
  <1>2. ASSUME NEW verdict, NEW stitch, NEW context, rec = DayRecord(verdict, stitch, context),
               verdict.cls \in Classes,
               verdict.cls = Inconclusive =>
                  \/ FillDecision(verdict) = [needs |-> "none", why |-> "no_verdict"]
                  \/ verdict.reasons = {SeedSourceUnreliable}
        PROVE  rec.cls \in Classes /\ FillContract(rec)
    <2>1. /\ rec.cls = verdict.cls /\ rec.reasons = verdict.reasons
          /\ rec.fill.needs = FillDecision(verdict).needs
          /\ rec.fill.why = FillDecision(verdict).why
          /\ FillDecision(rec) = FillDecision(verdict)
      BY <1>1, <1>2
    <2>2. CASE verdict.cls # Inconclusive
      BY <1>2, <2>1, <2>2 DEF FillContract
    <2>3. CASE verdict.cls = Inconclusive
                /\ FillDecision(verdict) = [needs |-> "none", why |-> "no_verdict"]
      BY <1>2, <2>1, <2>3 DEF FillContract, NoVerdict
    <2>4. CASE verdict.cls = Inconclusive /\ verdict.reasons = {SeedSourceUnreliable}
      <3>1. FillDecision(verdict) = [needs |-> "yes", why |-> "crossed_seed_source_cross_validated"]
        BY <2>4 DEF FillDecision
      <3> QED BY <1>2, <2>1, <2>4, <3>1 DEF FillContract
    <2> QED BY <1>2, <2>2, <2>3, <2>4
  <1>3. ASSUME NEW snaps \in BOOLEAN, NEW context, rec = AssessLakeDay(content[d], snaps, context)
        PROVE  /\ rec.cls \in Classes /\ FillContract(rec)
               /\ rec.cls = MissingNeedsCoinapi => ~content[d].rows
    <2> DEFINE c == content[d]
               seed == IF snaps THEN c.seed ELSE NoTs
               verdict == ClassifyDay(c, seed)
    <2>1. PICK stitch : rec = DayRecord(verdict, stitch, context)
      BY <1>3 DEF AssessLakeDay
    <2>2. \/ ~c.rows /\ verdict.cls = MissingNeedsCoinapi
          \/ c.rows /\ verdict = [cls |-> Inconclusive, reasons |-> {"no_accepted_seed"}]
          \/ c.rows /\ verdict = [cls |-> Inconclusive, reasons |-> {SeedSourceUnreliable}]
          \/ c.rows /\ verdict.cls \in {LakeUsable, LakePresentDegraded}
      BY DEF ClassifyDay
    <2> HIDE DEF verdict
    <2>3. verdict = [cls |-> Inconclusive, reasons |-> {"no_accepted_seed"}] =>
             FillDecision(verdict) = [needs |-> "none", why |-> "no_verdict"]
      BY DEF FillDecision
    <2>4. verdict.cls \in Classes
      BY <2>2 DEF Classes
    <2>5. verdict.cls = Inconclusive =>
             \/ FillDecision(verdict) = [needs |-> "none", why |-> "no_verdict"]
             \/ verdict.reasons = {SeedSourceUnreliable}
      BY <2>2, <2>3
    <2>6. rec.cls = verdict.cls
      BY <1>1, <2>1
    <2>7. rec.cls \in Classes /\ FillContract(rec)
      BY <1>2, <2>1, <2>4, <2>5
    <2> QED BY <2>2, <2>6, <2>7
  <1>4. ASSUME NEW context, rec = InconclusiveLoadFailure(context) \/ rec = ExcludedResult(context)
        PROVE  rec.cls \in Classes /\ FillContract(rec) /\ rec.cls # MissingNeedsCoinapi
    <2> DEFINE failed == [cls |-> Inconclusive, reasons |-> {LoadFailed}]
               out == [cls |-> ExcludedDay, reasons |-> {"calendar_excluded"}]
    <2>1. \/ rec = DayRecord(failed, NoPlan, context)
          \/ rec = DayRecord(out, NoPlan, context)
      BY <1>4 DEF InconclusiveLoadFailure, ExcludedResult
    <2>2. FillDecision(failed) = [needs |-> "none", why |-> "no_verdict"]
      BY DEF FillDecision
    <2>3. failed.cls = Inconclusive /\ out.cls = ExcludedDay
      OBVIOUS
    <2> HIDE DEF failed, out
    <2> QED BY <1>1, <1>2, <2>1, <2>2, <2>3 DEF Classes
  <1> QED BY <1>3, <1>4 DEF TrueRecord

LEMMA PlanOkIs ==
    ASSUME NEW c, NEW p, PlanOk(c, p)
    PROVE  FillSegmentsOk(p.segments, p.seams)
  <1> DEFINE segs == p.segments
  <1>1. /\ Partition(segs, GridLen) /\ p.seams = SeamsOf(segs)
        /\ \A k \in DOMAIN segs : segs[k].source \in {Lake, Coinapi, ExcludedSpan}
    BY DEF PlanOk
  <1> HIDE DEF segs
  <1>2. Sequence(segs) /\ DOMAIN segs = 1..Len(segs) /\ Len(segs) \in Nat /\ Len(segs) > 0
    BY <1>1, SequenceFacts DEF Partition
  <1>3. segs # << >> /\ Head(segs) = segs[1] /\ Last(segs) = segs[Len(segs)]
    BY <1>2 DEF Sequence, Last
  <1> QED BY <1>1, <1>2, <1>3 DEF FillSegmentsOk, Partition, segs

LEMMA PlansAreOk ==
    ASSUME NEW d, NEW rec, TrueRecord(content, d, rec), rec.fill.needs = "yes"
    PROVE  /\ PlanOk(content[d], rec.fill.plan)
           /\ FillSegmentsOk(rec.fill.plan.segments, rec.fill.plan.seams)
           /\ Coinapi \in Sources(rec.fill.plan.segments)
  <1> DEFINE p == rec.fill.plan
  <1>1. FullDay(p) \/ (Stitched(content[d], p) /\ p.profile # LakeOnly)
    BY PlanOfDay
  <1>2. Stitched(content[d], p) /\ p.profile # LakeOnly => Coinapi \in Sources(p.segments)
    BY ProfileIs DEF Stitched
  <1> HIDE DEF p
  <1> QED BY <1>1, <1>2, FullDayOk, StitchedOk, PlanOkIs DEF p

\* The reviewer accepts every record that is true.
LEMMA RecordsPassReview ==
    ASSUME NEW d, NEW rec, TrueRecord(content, d, rec)
    PROVE  DayRecordOk(rec)
  <1> DEFINE p == rec.fill.plan
  <1>1. /\ rec.cls \in Classes /\ FillContract(rec)
        /\ rec.cls = MissingNeedsCoinapi => ~content[d].rows
    BY RecordIs
  <1>2. CASE rec.fill.needs # "yes"
    <2>1. p = NoPlan
      BY <1>2, PlanOfDay
    <2>2. p.profile = "none" /\ p.reason = "none"
      BY <2>1 DEF NoPlan
    <2>3. "none" \notin PartialFillProfiles \union {FullDayFill}
      BY DEF PartialFillProfiles, FullDayFill
    <2> HIDE DEF p
    <2> QED BY <1>1, <1>2, <2>2, <2>3 DEF DayRecordOk, p
  <1>3. CASE rec.fill.needs = "yes" /\ FullDay(p)
    <2>1. /\ p.profile = FullDayFill /\ p.reason # "none"
          /\ p.trustedStart = NoTs /\ p.trustedEnd = NoTs
          /\ Sources(p.segments) = {Coinapi}
      BY <1>3, FullDayIs, FullDayOk
    <2>2. FillSegmentsOk(p.segments, p.seams) /\ Coinapi \in Sources(p.segments)
      BY <1>3, PlansAreOk
    <2> HIDE DEF p
    <2> QED BY <1>1, <1>3, <2>1, <2>2 DEF DayRecordOk, p
  <1>4. CASE rec.fill.needs = "yes" /\ Stitched(content[d], p) /\ p.profile # LakeOnly
    <2>1. /\ p.profile \in PartialFillProfiles /\ p.profile # FullDayFill /\ p.reason = "none"
          /\ content[d].rows
      BY <1>4, ProfileIs DEF Stitched
    <2>2. FillSegmentsOk(p.segments, p.seams) /\ Coinapi \in Sources(p.segments)
      BY <1>4, PlansAreOk
    <2> HIDE DEF p
    <2> QED BY <1>1, <1>4, <2>1, <2>2 DEF DayRecordOk, p
  <1> QED BY <1>2, <1>3, <1>4, PlanOfDay

-----------------------------------------------------------------------------
(* The plans of the reports *)

LEMMA PlansOfReports ==
    ASSUME QualityInv, NEW d \in Days, NEW p \in PlansOf(d)
    PROVE  /\ PlanOk(content[d], p) /\ FillSegmentsOk(p.segments, p.seams)
           /\ Coinapi \in Sources(p.segments)
  <1>1. PICK b \in Names : /\ ReadReport(b) # None /\ d \in DOMAIN reports[b].days
                          /\ reports[b].days[d].fill.needs = "yes"
                          /\ p = reports[b].days[d].fill.plan
    BY DEF PlansOf
  <1>2. TrueRecord(content, d, reports[b].days[d])
    BY <1>1 DEF ReadReport, QualityInv, BatchInv, ReportsInv, TrueDays
  <1> QED BY <1>1, <1>2, PlansAreOk

\* A stitched day never trusts Lake too early or for too long.
THEOREM StitchedDaysAreSound == Spec => []StitchIsSound
  <1>1. ASSUME QualityInv PROVE StitchIsSound
    <2>1. ASSUME NEW b \in Names, ReadReport(b) # None, NEW x \in DOMAIN reports[b].days
          PROVE  DayRecordOk(reports[b].days[x])
      <3>1. TrueRecord(content, x, reports[b].days[x])
        BY <1>1, <2>1 DEF ReadReport, QualityInv, BatchInv, ReportsInv, TrueDays
      <3> QED BY <3>1, RecordsPassReview
    <2>2. ASSUME NEW d \in Days, NEW p \in PlansOf(d)
          PROVE  LET c == content[d]
                     valid == ValidMask(c)
                     in(s) == s.start..(s.end - 1)
                     lake == {s \in Range(p.segments) : s.source = Lake}
                     trusted == UNION {in(s) : s \in lake}
                 IN  /\ FillSegmentsOk(p.segments, p.seams)
                     /\ Coinapi \in Sources(p.segments)
                     /\ \A s \in lake :
                           /\ c.seed # NoTs /\ ~c.unreliable /\ c.rows
                           /\ \A i \in (s.start - WarmupConsecutive + 1)..s.start :
                                 i \in Samples /\ i >= c.seed /\ valid[i]
                           /\ s.end - s.start >= MinLakeSegment
                           /\ ~ \E i \in in(s) : \A j \in i..(i + FillMin - 1) :
                                   j \in in(s) /\ ~valid[j]
                     /\ 100 * Cardinality({i \in trusted : ~valid[i]})
                           <= SpanInvalidPct * Cardinality(trusted)
      <3>1. /\ PlanOk(content[d], p) /\ FillSegmentsOk(p.segments, p.seams)
            /\ Coinapi \in Sources(p.segments)
        BY <1>1, PlansOfReports
      <3>2. DOMAIN ValidMask(content[d]) = Samples
        BY DEF ValidMask
      <3> QED BY <3>1, <3>2 DEF PlanOk, WarmedUp, SegmentSamples
    <2> QED BY <2>1, <2>2 DEF StitchIsSound
  <1> QED BY <1>1, QualityInvariant, PTL

\* A window the policy calls valid, and the guard around it, is of one vendor.
THEOREM WindowsStayWithinOneVendor == Spec => []ValidWindowsStayWithinOneVendor
  <1>1. ASSUME QualityInv PROVE ValidWindowsStayWithinOneVendor
    <2> SUFFICES ASSUME NEW d \in Days, NEW p \in PlansOf(d), NEW t \in Samples, NEW w \in Samples
                 PROVE
          LET one(a, b) == a >= 0 /\ b < GridLen =>
                              Cardinality(WindowVendorSources(a, b, p.segments)) = 1
          IN  /\ t + w < GridLen /\ LabelValid(t, p.seams, w, SeamGuard) =>
                    /\ ~WindowCrossesSeam(t, t + w, p.seams)
                    /\ one(t - SeamGuard, t + w + SeamGuard)
              /\ t >= w /\ FeatureValid(t, p.seams, w, SeamGuard) =>
                    one(t - w - SeamGuard, t + SeamGuard)
              /\ ~SeamGuardMask(t, p.seams, SeamGuard) =>
                    \A u \in Samples : u \in (t - SeamGuard)..(t + SeamGuard) =>
                       VendorSourceAt(u, p.segments) = VendorSourceAt(t, p.segments)
      BY Zenon DEF ValidWindowsStayWithinOneVendor
    <2> DEFINE segs == p.segments
               g == SeamGuard
               n == GridLen
               seams == Range(SeamsOf(segs))
    <2>1. Partition(segs, n) /\ p.seams = SeamsOf(segs)
      BY <1>1, PlansOfReports DEF PlanOk
    <2>2. n \in Nat /\ g \in Nat /\ Samples = 0..(n - 1) /\ t \in Nat /\ w \in Nat /\ t < n /\ w < n
      BY SampleAssumption, StitchAssumption DEF Samples
    <2>3. \A s \in seams : s \in Nat
      <3>1. \A k \in 1..Len(segs) : segs[k].start \in Nat
        BY <2>1 DEF Partition
      <3>2. Sequence(segs) /\ Len(segs) \in Nat
        BY <2>1, SequenceFacts DEF Partition
      <3>3. \A k \in 2..Len(segs) : k \in 1..Len(segs)
        BY <3>2
      <3> QED BY <3>1, <3>2, <3>3, SeamsAre
    <2> HIDE DEF segs, g, n, seams
    <2>4. ASSUME NEW a \in Int, NEW b \in Int, a <= b, \A s \in seams : ~ (a < s /\ s <= b)
          PROVE  a >= 0 /\ b < n => Cardinality(WindowVendorSources(a, b, segs)) = 1
                                    /\ VendorSourceAt(a, segs) = VendorSourceAt(b, segs)
      <3>1. SUFFICES ASSUME a >= 0, b < n
                     PROVE  Cardinality(WindowVendorSources(a, b, segs)) = 1
                            /\ VendorSourceAt(a, segs) = VendorSourceAt(b, segs)
        OBVIOUS
      <3>2. a \in 0..(n - 1) /\ b \in 0..(n - 1)
        BY <2>2, <2>4, <3>1
      <3> QED BY <2>1, <2>2, <2>4, <3>2, OneVendor DEF seams
    <2>5. ASSUME t + w < n, LabelValid(t, p.seams, w, g)
          PROVE  /\ ~WindowCrossesSeam(t, t + w, p.seams)
                 /\ t - g >= 0 /\ t + w + g < n =>
                       Cardinality(WindowVendorSources(t - g, t + w + g, segs)) = 1
      <3>1. \A s \in seams : t + w < s - g \/ t >= s + g
        BY <2>1, <2>5 DEF LabelValid, seams
      <3>2. \A s \in seams : ~ (t < s /\ s <= t + w) /\ ~ (t - g < s /\ s <= t + w + g)
        BY <2>2, <2>3, <3>1
      <3>3. t - g \in Int /\ t + w + g \in Int /\ t - g <= t + w + g
        BY <2>2
      <3> QED BY <2>1, <2>4, <3>2, <3>3 DEF WindowCrossesSeam, seams
    <2>6. ASSUME t >= w, FeatureValid(t, p.seams, w, g)
          PROVE  t - w - g >= 0 /\ t + g < n =>
                    Cardinality(WindowVendorSources(t - w - g, t + g, segs)) = 1
      <3>1. \A s \in seams : t < s - g \/ t - w >= s + g
        BY <2>1, <2>6 DEF FeatureValid, seams
      <3>2. \A s \in seams : ~ (t - w - g < s /\ s <= t + g)
        BY <2>2, <2>3, <3>1
      <3>3. t - w - g \in Int /\ t + g \in Int /\ t - w - g <= t + g
        BY <2>2
      <3> QED BY <2>4, <3>2, <3>3
    <2>7. ASSUME ~SeamGuardMask(t, p.seams, g), NEW u \in Samples, u \in (t - g)..(t + g)
          PROVE  VendorSourceAt(u, segs) = VendorSourceAt(t, segs)
      <3>1. \A s \in seams : ~ (s - g <= t /\ t < s + g)
        BY <2>1, <2>7 DEF SeamGuardMask, seams
      <3>2. u \in Nat /\ u < n /\ t - g <= u /\ u <= t + g
        BY <2>2, <2>7
      <3>3. CASE u <= t
        <4>1. \A s \in seams : ~ (u < s /\ s <= t)
          BY <2>2, <2>3, <3>1, <3>2
        <4>2. u \in Int /\ t \in Int /\ u >= 0
          BY <2>2, <3>2
        <4> QED BY <2>2, <2>4, <3>3, <4>1, <4>2
      <3>4. CASE t <= u
        <4>1. \A s \in seams : ~ (t < s /\ s <= u)
          BY <2>2, <2>3, <3>1, <3>2
        <4>2. u \in Int /\ t \in Int /\ t >= 0
          BY <2>2, <3>2
        <4> QED BY <2>4, <3>2, <3>4, <4>1, <4>2
      <3> QED BY <2>2, <3>2, <3>3, <3>4
    <2> QED BY <2>5, <2>6, <2>7 DEF segs, g, n
  <1> QED BY <1>1, QualityInvariant, PTL
=============================================================================
