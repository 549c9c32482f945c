---------------------------- MODULE SeededReplay -----------------------------
(***************************************************************************)
(* The seed/reseed replay of recon/reseed.py, _replay_seeded: deltas and   *)
(* snapshots merged in time order move a book that is sampled on a grid.   *)
(* The first valid snapshot seeds it; later ones replace it when it has    *)
(* been crossed for too long; the crossed time and the coverage runs that  *)
(* plan partial vendor fills are accounted on the way.                     *)
(*                                                                         *)
(* Without a snapshot it is the sampler sample_topk_as_of of               *)
(* recon/reconstruct.py.                                                   *)
(***************************************************************************)
EXTENDS OrderBook

CONSTANTS
    BookDeltas,     \* [side, price, size] of the day's deltas
    Snaps,      \* [bid, ask, sound] of the snapshot product; sound is FALSE if
                \* a value is bad, a price repeats or the spread is too wide
    MinLevels,  \* min_levels_per_side
    Tolerance,  \* reseed_after_crossed_ns
    Grid,       \* sample_ts
    Depth,      \* k, the levels a sample keeps
    MaxTime, MaxEvents,  \* bounds
    Null

GridAssumption ==
    /\ Grid \in Seq(Nat)
    /\ \A i, j \in DOMAIN Grid : i < j => Grid[i] < Grid[j]
    /\ MinLevels \in Nat \ {0} /\ Tolerance \in Nat /\ Depth \in Nat \ {0}

Levels(s) == [bid |-> s.bid, ask |-> s.ask]

\* Prices and sizes are numbers, and Null stands for no time and no event.
StreamAssumption ==
    /\ MaxTime \in Nat
    /\ BookDeltas \subseteq [side : {"bid", "ask"}, price : Nat, size : Nat]
    /\ \A s \in Snaps : IsBook(Levels(s)) /\ s.sound \in BOOLEAN
    /\ Null \notin Nat
    /\ \A b \in BOOLEAN, t \in 0 .. MaxTime, x \in BookDeltas \cup Snaps :
          Null # [snap |-> b, ts |-> t, item |-> x]

VARIABLES
    enabled,  \* policy.enabled
    head,     \* the event the merged stream yielded, or Null
    ended,    \* the stream is exhausted
    book, seeded, reseeds, blocked,
    since,    \* crossed_since
    duration, \* crossed_duration_ns
    frame,    \* the samples emitted; si is its length
    runs,     \* invalid_runs_idx
    open,     \* invalid_open
    present,  \* present_first_idx and present_last_idx
    done,
    applied   \* ghost: every event applied and what it left

bookVars == <<book, seeded, reseeds, blocked>>
crossVars == <<since, duration>>
coverVars == <<frame, runs, open, present>>
seededVars == <<enabled, head, ended, bookVars, crossVars, coverVars, done, applied>>

SeededInit ==
    /\ enabled \in BOOLEAN
    /\ head = Null
    /\ ended = FALSE
    /\ book = EmptyBook /\ seeded = FALSE
    /\ reseeds = 0 /\ blocked = 0
    /\ since = Null /\ duration = 0
    /\ frame = << >> /\ runs = << >> /\ open = Null
    /\ present = <<Null, Null>>
    /\ done = FALSE
    /\ applied = << >>

si == Len(frame)
n == Len(Grid)

LastTs == IF applied = << >> THEN 0 ELSE Last(applied).ts

-----------------------------------------------------------------------------
(* The merged stream *)

\* _merge_time_ordered: at equal times every delta comes before a snapshot.
ReadDelta(d, t) ==
    /\ applied # << >> /\ Last(applied).snap => t > LastTs
    /\ head' = [snap |-> FALSE, ts |-> t, item |-> d]

ReadSnapshot(s, t) == head' = [snap |-> TRUE, ts |-> t, item |-> s]

Read ==
    /\ head = Null /\ ~ ended
    /\ Len(applied) < MaxEvents
    /\ \E t \in LastTs .. MaxTime :
          \/ \E d \in BookDeltas : ReadDelta(d, t)
          \/ \E s \in Snaps : ReadSnapshot(s, t)
    /\ UNCHANGED <<enabled, ended, bookVars, crossVars, coverVars, done, applied>>

Exhausted ==
    /\ head = Null /\ ~ ended
    /\ ended' = TRUE
    /\ UNCHANGED <<enabled, head, bookVars, crossVars, coverVars, done, applied>>

-----------------------------------------------------------------------------
(* emit *)

Valid(b) == TwoSided(b) /\ ~ Crossed(b)

\* Mutant of Due: a sample at the time of an event misses it.
DueEarly(g) == ended \/ (head # Null /\ g <= head.ts)

\* A sample is taken just before the first event after it.
Due(g) == ended \/ (head # Null /\ g < head.ts)

EmitSample ==
    /\ si < n /\ ~ done /\ Due(Grid[si + 1])
    /\ frame' = Append(frame, Snapshot(book, Depth))
    /\ IF Valid(book)
       THEN /\ runs' = IF open = Null THEN runs ELSE Append(runs, <<open, si>>)
            /\ open' = Null
       ELSE /\ open' = IF open = Null THEN si ELSE open
            /\ UNCHANGED runs
    /\ present' = IF TwoSided(book)
                  THEN <<IF present[1] = Null THEN si ELSE present[1], si>>
                  ELSE present
    /\ UNCHANGED <<enabled, head, ended, bookVars, crossVars, done, applied>>

-----------------------------------------------------------------------------
(* One event *)

\* Every earlier sample is out.
Ready == head # Null /\ (si < n => ~ Due(Grid[si + 1]))

\* Mutant of UpdateCrossed: a reseed does not end the episode.
UpdateCrossedSticky(t) ==
    IF seeded' /\ Crossed(book')
    THEN since' = (IF since = Null THEN t ELSE since) /\ UNCHANGED duration
    ELSE UNCHANGED crossVars

\* update_crossed, after the event: only an established book is accounted.
UpdateCrossed(t) ==
    IF ~ seeded' THEN UNCHANGED crossVars
    ELSE IF Crossed(book')
         THEN since' = (IF since = Null THEN t ELSE since) /\ UNCHANGED duration
         ELSE /\ since' = Null
              /\ duration' = IF since = Null THEN duration ELSE duration + (t - since)

Applied ==
    /\ UpdateCrossed(head.ts)
    /\ applied' = Append(applied, [snap |-> head.snap, ts |-> head.ts, item |-> head.item,
                                   book |-> book', seeded |-> seeded'])
    /\ head' = Null
    /\ UNCHANGED <<enabled, ended, coverVars, done>>

ApplyDelta ==
    /\ Ready /\ ~ head.snap
    /\ book' = Apply(book, head.item)
    /\ UNCHANGED <<seeded, reseeds, blocked>>
    /\ Applied

\* classify_snapshot, by precedence of no interest here.
ValidSnapshot(s) ==
    /\ s.sound
    /\ TwoSided(s) /\ ~ Crossed(s)
    /\ Cardinality(DOMAIN s.bid) >= MinLevels
    /\ Cardinality(DOMAIN s.ask) >= MinLevels

\* Mutant of Overdue: any crossing is enough.
OverdueAtOnce(t) == enabled /\ since # Null

Overdue(t) == enabled /\ since # Null /\ t - since >= Tolerance

ApplySnapshot ==
    /\ Ready /\ head.snap
    /\ LET s == head.item
           taken == ValidSnapshot(s) /\ (~ seeded \/ Overdue(head.ts))
       IN /\ book' = IF taken THEN Levels(s) ELSE book
          /\ seeded' = (seeded \/ taken)
          /\ reseeds' = IF seeded /\ taken THEN reseeds + 1 ELSE reseeds
          /\ blocked' = IF seeded /\ Overdue(head.ts) /\ ~ taken THEN blocked + 1 ELSE blocked
    /\ Applied

\* The trailing samples are out: open episodes are closed.
Settle ==
    /\ ended /\ si = n /\ ~ done
    /\ LET close == Max({LastTs} \cup ToSet(Grid))
       IN duration' = IF since = Null THEN duration ELSE duration + (close - since)
    /\ runs' = IF open = Null THEN runs ELSE Append(runs, <<open, n>>)
    /\ done' = TRUE
    /\ UNCHANGED <<enabled, head, ended, bookVars, since, frame, open, present, applied>>

SeededNext ==
    \/ Read \/ Exhausted \/ EmitSample
    \/ ApplyDelta \/ ApplySnapshot \/ Settle

SeededSpec == SeededInit /\ [][SeededNext]_seededVars

-----------------------------------------------------------------------------
(* Properties *)

\* No look-ahead and no lag: a sample shows the book after exactly the events
\* at or before its time, a reseed included, however events and grid points
\* coincide.
SamplesAreAsOf ==
    \A i \in DOMAIN frame :
        LET upTo == {m \in DOMAIN applied : applied[m].ts <= Grid[i]}
        IN frame[i] = Snapshot(IF upTo = {} THEN EmptyBook ELSE applied[Max(upTo)].book, Depth)

\* Event m leaves the established book crossed, until the next event or, the
\* last one, until the day's close.
CrossedAt(m) == applied[m].seeded /\ Crossed(applied[m].book)

Until(m) == IF m < Len(applied) THEN applied[m + 1].ts ELSE Max({LastTs} \cup ToSet(Grid))

AllRuns == IF open = Null \/ done THEN runs ELSE Append(runs, <<open, si>>)

RunsAreMaximal ==
    /\ \A i \in 0 .. si - 1 :
          ~ Valid(frame[i + 1]) <=>
              \E r \in DOMAIN AllRuns : AllRuns[r][1] <= i /\ i < AllRuns[r][2]
    /\ \A r \in DOMAIN AllRuns : AllRuns[r][1] < AllRuns[r][2]
    /\ \A r \in DOMAIN AllRuns : r > 1 => AllRuns[r - 1][2] < AllRuns[r][1]

TwoSidedSamples == {i \in 0 .. si - 1 : TwoSided(frame[i + 1])}

CrossedTime ==
    SumFunctionOnSet([m \in DOMAIN applied |-> Until(m) - applied[m].ts],
                     {m \in DOMAIN applied : CrossedAt(m)})

\* The coverage a partial fill is planned from: the runs are the maximal
\* intervals of sample indices whose book is not two-sided and uncrossed, the
\* bounds are the first and the last two-sided sample; and the crossed time
\* reported is the time the established book was crossed, over all episodes,
\* including those a reseed or the end of the day closes.
CoverageIsExact ==
    /\ RunsAreMaximal
    /\ present = IF TwoSidedSamples = {} THEN <<Null, Null>>
                 ELSE <<Min(TwoSidedSamples), Max(TwoSidedSamples)>>
    /\ done => duration = CrossedTime

BookBefore(m) == IF m = 1 THEN EmptyBook ELSE applied[m - 1].book

SeededBefore(m) == m > 1 /\ applied[m - 1].seeded

\* The book has been crossed after every event of at least the tolerance.
StuckBefore(m) ==
    \E j \in 1 .. m - 1 :
        /\ applied[m].ts - applied[j].ts >= Tolerance
        /\ \A l \in j .. m - 1 : CrossedAt(l)

\* A snapshot replaces the book exactly when it is valid and either nothing
\* was seeded yet, or the policy is on and the established book has been
\* crossed after every event of at least the tolerance; one that is not valid
\* never enters it, and a crossing that healed for an instant starts anew.
ReseedsExactlyWhenStuck ==
    \A m \in DOMAIN applied : applied[m].snap =>
        LET s == applied[m].item
        IN applied[m].book =
              IF ValidSnapshot(s) /\ (~ SeededBefore(m) \/ (enabled /\ StuckBefore(m)))
              THEN Levels(s) ELSE BookBefore(m)
=============================================================================
