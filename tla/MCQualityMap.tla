---------------------------- MODULE MCQualityMap ----------------------------
(* Two days of seven samples.  With faults left, Lake holds one of a few     *)
(* typical days; with none left, day 1 is every possible day.                *)
EXTENDS QualityMapPipeline

MCDays == {1, 2}
MCWindows == {{1, 2}, {2}}
MCLocal == {}

Day(rows, seed, unreliable, crossed, missing, thin) ==
    [rows |-> rows, seed |-> seed, unreliable |-> unreliable, crossed |-> crossed,
     missing |-> missing, thin |-> thin]
Good == Day(TRUE, 0, FALSE, {}, {}, FALSE)
Absent == Day(FALSE, NoTs, FALSE, {}, {}, FALSE)
Gap == Day(TRUE, 0, FALSE, {}, {4, 5, 6}, FALSE)
Cold == Day(TRUE, NoTs, FALSE, {}, {}, FALSE)

Typical == {1 :> Cold @@ 2 :> Gap}
Exhaustive == {1 :> Day(TRUE, seed, unreliable, mask, {}, thin) @@ 2 :> Good :
                 mask \in SUBSET (0..6), seed \in {0, 2}, unreliable \in {FALSE}, thin \in {FALSE}}
MCContents == Typical \union Exhaustive

Calendar(lakeAll, bookGap, tradeGap, excluded) ==
    [lakeAll |-> lakeAll, bookGap |-> bookGap, tradeGap |-> tradeGap, excluded |-> excluded,
     bookOk |-> bookGap, bookBad |-> {}, tradeOk |-> tradeGap]
Both == Calendar({1, 2}, {}, {}, {})
SecondLost == Calendar({1}, {2}, {1}, {})
FirstExcluded == Calendar({1, 2}, {}, {}, {1})
MCCalendars == {Both, SecondLost, FirstExcluded}

MCInit == /\ Init
          /\ calendar = Both
          /\ \/ faults = 0 /\ content \in Typical /\ planner.gen = 0
             \/ faults = MaxFaults /\ content \in Exhaustive /\ planner.gen = MaxPlans - 1
MCSpec == MCInit /\ [][Next]_pipelineVars /\ Fairness
=============================================================================
