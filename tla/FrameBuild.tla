----------------------------- MODULE FrameBuild ------------------------------
(***************************************************************************)
(* _build_frame of bars/produce.py: the days of a partition stream through *)
(* the clock, the dual book reads, the feature builder and the labeller    *)
(* into rows, and every decision that yields none is counted as a drop.    *)
(*                                                                         *)
(* The objects of a day are chosen when the day is opened.  A behaviour    *)
(* ends in a frame ("done"), in the error the code raises on its input     *)
(* ("failed"), or in one a stage raises on another stage ("misfed").       *)
(***************************************************************************)
EXTENDS BarClock, BookReads, TripleBarrier

CONSTANTS
    DayLists, Caps, Histories,  \* the days, time_cap_ns and seeded histories
    Trades, Snapshots, Deltas,  \* of a day, with times relative to its open
    Horizons,                   \* horizon tag to its length
    PartitionEnd, Guard, StalenessCap, LookbackCap, TopK, Groups, None

Tags == DOMAIN Horizons

ASSUME LookbackAssumption == LookbackCap < DayLen

\* What the config, iter_normalized_trades and iter_normalized_book_events
\* validate: days in order, and event streams in order, none received before
\* it happened.
ASSUME FrameAssumption ==
    /\ \A ds \in DayLists : ds \in Seq(Nat) \ {<< >>}
                          /\ \A i, j \in DOMAIN ds : i < j => ds[i] < ds[j]
    /\ Caps \subseteq Nat \ {0} /\ {StalenessCap, LookbackCap} \subseteq Int
    /\ None \notin Nat
    /\ IsFiniteSet(Tags) /\ \A h \in Tags : Horizons[h] \in Nat
    /\ Trades \subseteq Seq([ts : Nat, seq : Nat, recv : Nat, size : Nat])
    /\ \A events \in Snapshots \cup Deltas :
          /\ events \in Seq([ts : Int, recv : Int, side : {"bid", "ask"}, price : Nat, size : Nat])
          /\ \A i \in DOMAIN events : events[i].ts <= events[i].recv
          /\ \A i, j \in DOMAIN events : i <= j => events[i].ts <= events[j].ts

VARIABLES
    days, cap,
    at,        \* position of the next day
    objects,   \* the objects of each day opened so far
    queue,     \* trades of the open day the clock has not seen
    clock,
    history,   \* ThresholdSchedule._history
    carry,     \* the last decision of the latest day with bars, held back: one or none
    lastT,     \* prev_segment_last_t
    prior,     \* the feature builder's last decision and read
    records,   \* seg_records
    rows, drops,
    phase,     \* "open", "clock", "segment", "finish", "done", "failed" or "misfed"
    raw,       \* ghost: every bar, before coalescing, with its day
    decided    \* ghost: every decision classified, with its read and outcome

inputVars == <<days, cap, objects>>
vars == <<inputVars, at, queue, clock, history, carry, lastT, prior, records, rows, drops,
          phase, raw, decided>>

Categories == {"warmup", "day_end_truncation", "staleness", "book_rejection",
               "feature_rejection", "before_start", "lookback_cap",
               "prefilter", "coverage_gap", "label_rejection", "actual_span"}

Init ==
    /\ days \in DayLists /\ cap \in Caps
    /\ at = 1 /\ objects = << >> /\ queue = {}
    /\ clock = NewClock(Head(days), 0)
    /\ history \in Histories
    /\ carry = << >> /\ lastT = None
    /\ prior = [t |-> None, ts |-> 0, obs |-> EmptyBook]
    /\ records = << >> /\ rows = {}
    /\ drops = [c \in Categories |-> [h \in Tags |-> 0]]
    /\ phase = "open"
    /\ raw = << >> /\ decided = << >>

Day == days[at]

\* _segments: the first and the last day of the run of days holding position i.
SegmentStart(i) == Min({j \in 1 .. i : \A m \in j + 1 .. i : days[m] = days[m - 1] + 1})
SegmentLast(i) ==
    Max({j \in i .. Len(days) : \A m \in i + 1 .. j : days[m] = days[m - 1] + 1})

Fail == phase' = "failed"

\* A stage refuses what the stage before it made.
Misfeed == phase' = "misfed"

-----------------------------------------------------------------------------
(* One day *)

Shifted(events, d) ==
    [i \in DOMAIN events |-> [events[i] EXCEPT !.ts = @ + DayOpen(d), !.recv = @ + DayOpen(d)]]

\* The day's objects are scanned in full before any of it is folded.
OpenDay ==
    /\ phase = "open"
    /\ \E ts \in Trades, snap \in Snapshots, deltas \in Deltas :
          LET o == [day |-> Day, trades |-> ToSet(Shifted(ts, Day)), snap |-> Shifted(snap, Day),
                    deltas |-> Shifted(deltas, Day)]
          IN /\ objects' = Append(objects, o)
             /\ queue' = o.trades
             /\ IF /\ WellFormed(o.snap, o.deltas, DayOpen(Day), DayEnd(Day))
                   /\ ThresholdFor(history, Day).num > 0
                THEN phase' = "clock" ELSE Fail
    /\ clock' = NewClock(Day, clock.watermark)
    /\ UNCHANGED <<days, cap, at, history, carry, lastT, prior, records, rows, drops, raw, decided>>

PushTrade ==
    /\ phase = "clock"
    /\ \E t \in queue :
          /\ \A u \in queue \ {t} : TradeBefore(t, u)
          /\ clock' = Push(clock, t, cap, ThresholdFor(history, Day))
          /\ queue' = queue \ {t}
    /\ UNCHANGED <<inputVars, at, history, carry, lastT, prior, records, rows, drops, phase,
                   raw, decided>>

-----------------------------------------------------------------------------
(* classify *)

Thin(book) == Cardinality(DOMAIN book.bid) < TopK \/ Cardinality(DOMAIN book.ask) < TopK

DayEndLike(e) == e.bar.reason = "day_end" \/ e.bar.t >= DayEnd(e.day)

FeatureStart(bar, read) == Min({bar.start, read.ts})

\* What BarFeatureBuilder.build raises on.
Misfed(p, e) ==
    \/ p.t # None /\ e.bar.t <= p.t
    \/ e.read.ts > e.bar.t \/ e.read.ts < p.ts
    \/ \E m \in ToSet(e.bar.members) : m.recv > e.bar.t \/ m.ts < e.bar.start

\* Mutant of Outcome: a decision past its day's end is not masked.
OutcomeUnmasked(p, e) ==
    LET fs == FeatureStart(e.bar, p)
    IN CASE e.read.reject # "none" ->
              IF e.warmup THEN "warmup"
              ELSE IF e.bar.reason = "day_end" THEN "day_end_truncation"
              ELSE IF e.read.reject = "stale" THEN "staleness" ELSE "book_rejection"
         [] OTHER ->
              IF e.warmup THEN "warmup"
              ELSE IF e.bar.reason = "day_end" THEN "day_end_truncation"
              ELSE IF p.t = None \/ Thin(p.obs) \/ Thin(e.read.obs) THEN "feature_rejection"
              ELSE IF fs < e.segment THEN "before_start"
              ELSE IF e.bar.t - fs > LookbackCap THEN "lookback_cap" ELSE "candidate"

\* The first failure names the drop of a decision [day, bar, read, warmup,
\* segment] after the read p.
Outcome(p, e) ==
    LET fs == FeatureStart(e.bar, p)
    IN IF e.warmup THEN "warmup"
       ELSE IF DayEndLike(e) THEN "day_end_truncation"
       ELSE IF e.read.reject = "stale" THEN "staleness"
       ELSE IF e.read.reject # "none" THEN "book_rejection"
       ELSE IF p.t = None \/ Thin(p.obs) \/ Thin(e.read.obs) THEN "feature_rejection"
       ELSE IF fs < e.segment THEN "before_start"
       ELSE IF e.bar.t - fs > LookbackCap THEN "lookback_cap" ELSE "candidate"

\* A decision at a day's end does not move the builder.
Builds(e) == e.read.reject = "none" /\ ~ DayEndLike(e)

Classify(st, e) ==
    LET outcome == Outcome(st.prior, e)
    IN [broken |-> st.broken \/ (Builds(e) /\ Misfed(st.prior, e)),
        prior |-> IF Builds(e) THEN [t |-> e.bar.t, ts |-> e.read.ts, obs |-> e.read.obs]
                  ELSE st.prior,
        drops |-> IF outcome = "candidate" THEN st.drops
                  ELSE [st.drops EXCEPT ![outcome] = [h \in Tags |-> @[h] + 1]],
        records |-> IF outcome = "candidate"
                    THEN Append(st.records, [t |-> e.bar.t, p0 |-> e.read.mid,
                                             fs |-> FeatureStart(e.bar, st.prior)])
                    ELSE st.records,
        decided |-> Append(st.decided, [day |-> e.day, t |-> e.bar.t, read |-> e.read,
                                        outcome |-> outcome])]

ClassifyAll(es) ==
    FoldLeft(Classify, [broken |-> FALSE, prior |-> prior, drops |-> drops,
                        records |-> records, decided |-> decided], es)

-----------------------------------------------------------------------------
(* The day is over: its last decision is carried to the next day's bars *)

Decisions(bars) ==
    LET o == Last(objects)
        reads == DualBookReads(o.snap \o o.deltas, [i \in DOMAIN bars |-> bars[i].t], StalenessCap)
    IN [i \in DOMAIN bars |->
          [day |-> Day, bar |-> bars[i], read |-> reads[i],
           warmup |-> ThresholdFor(history, Day).warmup,
           segment |-> DayOpen(days[SegmentStart(at)])]]

Superseded(bars) == carry # << >> /\ Head(bars).t = Head(carry).bar.t

Regressed(bars) == carry # << >> /\ Head(bars).t < Head(carry).bar.t

Advance ==
    IF SegmentLast(at) = at THEN phase' = "segment" /\ at' = at
                            ELSE phase' = "open" /\ at' = at + 1

Notional(trades) == MapThenSumSet(LAMBDA t : t.size, trades)

CloseDay ==
    /\ phase = "clock" /\ queue = {}
    /\ LET closed == FinishClock(clock, cap, Day)
           bars == Coalesce(closed.bars)
           es == Decisions(bars)
           held == IF Superseded(bars) THEN << >> ELSE carry
           st == ClassifyAll(held \o Front(es))
       IN /\ history' = Append(history, [day |-> Day,
                                         notional |-> Notional(Last(objects).trades)])
          /\ clock' = [closed EXCEPT !.bars = << >>]
          /\ raw' = raw \o [i \in DOMAIN closed.bars |-> [day |-> Day, bar |-> closed.bars[i]]]
          /\ IF bars = << >>
             THEN Advance /\ UNCHANGED <<carry, lastT, prior, records, drops, decided>>
             ELSE /\ lastT' = None
                  /\ carry' = <<Last(es)>>
                  /\ prior' = st.prior /\ drops' = st.drops
                  /\ records' = st.records /\ decided' = st.decided
                  /\ IF lastT # None /\ Head(bars).t <= lastT
                     THEN Fail /\ at' = at
                     ELSE IF st.broken \/ Regressed(bars) THEN Misfeed /\ at' = at ELSE Advance
    /\ UNCHANGED <<inputVars, queue, rows>>

-----------------------------------------------------------------------------
(* The segment is over: gates, labels, rows *)

SegmentObjects == SubSeq(objects, SegmentStart(at), at)

SegmentPath ==
    FoldLeft(LAMBDA p, o : p \o MidPath(o.snap, o.deltas, DayOpen(o.day)), << >>, SegmentObjects)

SegmentInvalid ==
    UNION {InvalidIntervals(o.snap \o o.deltas, DayOpen(o.day), DayEnd(o.day)) :
              o \in ToSet(SegmentObjects)}

SegmentEnd == DayEnd(Day)
Bound == Min({SegmentEnd, PartitionEnd})

\* The gate before labelling: the nominal window must end inside the coverage.
Gate(rec, h) ==
    LET upper == rec.t + Horizons[h] + Guard
    IN IF upper >= PartitionEnd THEN "prefilter"
       ELSE IF SegmentEnd < PartitionEnd /\ upper >= SegmentEnd THEN "coverage_gap" ELSE "survives"

LabelOutcome(rec, l, invalid) ==
    IF l = Rejected THEN "label_rejection"
    ELSE IF HitsInvalid(rec.t, l.barrier, invalid) THEN "coverage_gap"
    ELSE IF l.barrier + Guard >= Bound THEN "actual_span" ELSE "row"

Row(rec, h, l) ==
    [t |-> rec.t, horizon |-> h, barrier |-> l.barrier, label |-> l.label, ret |-> l.ret,
     fs |-> rec.fs]

\* One horizon of the segment's candidates.
LabelHorizon(recs, path, invalid, h) ==
    LET survivors == InOrder({i \in DOMAIN recs : Gate(recs[i], h) = "survives"})
        alive == [n \in DOMAIN survivors |-> recs[survivors[n]]]
        labelled == Labels(path, alive, Horizons[h], Bound)
        outcome == [i \in DOMAIN alive |-> LabelOutcome(alive[i], labelled.out[i], invalid)]
        count(c) == Cardinality({i \in DOMAIN alive : outcome[i] = c})
                    + Cardinality({i \in DOMAIN recs : Gate(recs[i], h) = c})
    IN [broken |-> labelled.broken,
        rows |-> {Row(alive[i], h, labelled.out[i]) : i \in {i \in DOMAIN alive : outcome[i] = "row"}},
        drops |-> [c \in Categories |-> count(c)]]

EndSegment ==
    /\ phase = "segment"
    /\ LET st == ClassifyAll(carry)
           path == SegmentPath
           invalid == SegmentInvalid
           labelled == [h \in Tags |-> LabelHorizon(st.records, path, invalid, h)]
           broken == st.broken \/ \E h \in Tags : labelled[h].broken
       IN /\ prior' = st.prior /\ decided' = st.decided
          /\ drops' = [c \in Categories |->
                         [h \in Tags |-> st.drops[c][h] + labelled[h].drops[c]]]
          /\ rows' = rows \cup UNION {labelled[h].rows : h \in Tags}
          /\ lastT' = IF carry = << >> THEN lastT ELSE Head(carry).bar.t
          /\ at' = IF broken \/ at = Len(days) THEN at ELSE at + 1
          /\ phase' = IF broken THEN "misfed" ELSE IF at = Len(days) THEN "finish" ELSE "open"
    /\ carry' = << >> /\ records' = << >>
    /\ UNCHANGED <<inputVars, queue, clock, history, raw>>

\* Every horizon needs enough rows for its splits.
Finish ==
    /\ phase = "finish"
    /\ phase' = IF \A h \in Tags : Cardinality({r \in rows : r.horizon = h}) >= Groups
                THEN "done" ELSE "failed"
    /\ UNCHANGED <<inputVars, at, queue, clock, history, carry, lastT, prior, records, rows,
                   drops, raw, decided>>

Next == OpenDay \/ PushTrade \/ CloseDay \/ EndSegment \/ Finish

Spec == Init /\ [][Next]_vars

-----------------------------------------------------------------------------
(* Properties *)

SegmentOf(d) == LET i == CHOOSE i \in DOMAIN days : days[i] = d IN days[SegmentStart(i)]

Ended == phase \in {"finish", "done"}

\* Nothing is decided before it is knowable: the bars partition the trades of
\* their day in clock order, each after its members' receipt and its cap, in
\* an order of decision times that never goes back, within a day and across
\* days; and holding a day's last decision back yields what coalescing every
\* bar would, so that one instant is one decision.
DecisionsAreCausal ==
    LET members(i) == raw[i].bar.members
        barsOf(d) == {i \in DOMAIN raw : raw[i].day = d}
        bars == [i \in DOMAIN raw |-> [day |-> raw[i].day, t |-> raw[i].bar.t]]
        made == [k \in DOMAIN decided |-> [day |-> decided[k].day, t |-> decided[k].t]]
        held == [k \in DOMAIN carry |-> [day |-> carry[k].day, t |-> carry[k].bar.t]]
    IN phase \in {"open", "segment", "finish"} =>
       /\ \A i \in DOMAIN raw : \A m \in ToSet(members(i)) : m.recv <= raw[i].bar.t
       /\ \A i \in DOMAIN raw : raw[i].bar.fire # NoTime => raw[i].bar.fire <= raw[i].bar.t
       /\ \A i, j \in DOMAIN raw : i <= j => raw[i].bar.t <= raw[j].bar.t
       /\ \A o \in ToSet(objects) :
             /\ UNION {ToSet(members(i)) : i \in barsOf(o.day)} = o.trades
             /\ \A i, j \in barsOf(o.day) : \A k \in DOMAIN members(i), l \in DOMAIN members(j) :
                   i < j \/ (i = j /\ k < l) => TradeBefore(members(i)[k], members(j)[l])
       /\ made \o held = Coalesce(bars)

\* A decision reads the book of what had been received by then, in the order
\* it happened, whatever order it was received in; its label starts from the
\* book of what had happened.
ReadsAreAsOf ==
    phase = "finish" => \A n \in DOMAIN decided :
        LET e == decided[n]
            o == CHOOSE o \in ToSet(objects) : o.day = e.day
            events == o.snap \o o.deltas
            happened == {i \in DOMAIN events : events[i].ts <= e.t}
            known == {i \in happened : events[i].recv <= e.t}
            obs == BookOf(events, known)
            label == BookOf(events, happened)
            latest == events[Max(known)].ts
        IN CASE e.read.reject = "none" ->
                   /\ e.read.obs = obs /\ Usable(obs)
                   /\ Usable(label) /\ e.read.mid = Mid2(label)
                   /\ e.read.ts = latest /\ e.t - latest <= StalenessCap
             [] e.read.reject = "stale" -> e.t - latest > StalenessCap
             [] OTHER -> ~ Usable(obs) \/ ~ Usable(label)

\* The state of the true book at t.
TrueBook(t) ==
    LET o == CHOOSE o \in ToSet(objects) : o.day = t \div DayLen
        events == o.snap \o o.deltas
    IN BookOf(events, {i \in DOMAIN events : events[i].ts <= t})

\* A row's label is the first touch of its barriers by the true book after the
\* decision, whose width knows nothing after it; up to the resolution that
\* book is there, uncrossed and inside one run of days, and the features look
\* back no further than the run and the cap.
RowsAreSupported ==
    phase = "finish" =>
        \A r \in rows :
            LET g == SegmentOf(r.t \div DayLen)
                seg == SelectSeq(objects, LAMBDA o : SegmentOf(o.day) = g)
                path == FoldLeft(LAMBDA p, o : p \o MidPath(o.snap, o.deltas, DayOpen(o.day)),
                                 << >>, seg)
                width == Width(path, LastOfEach(path, {i \in DOMAIN path : path[i][1] <= r.t}))
                move(t) == Magnitude(Mid2(TrueBook(t)) - Mid2(TrueBook(r.t)))
            IN /\ r.barrier + Guard < Min({DayEnd(Last(seg).day), PartitionEnd})
               /\ \A t \in r.t .. r.barrier : Usable(TrueBook(t))
               /\ \A t \in r.t .. r.barrier - 1 : move(t) < width
               /\ r.label = 0 => r.barrier = r.t + Horizons[r.horizon] /\ move(r.barrier) < width
               /\ r.label # 0 => /\ r.barrier <= r.t + Horizons[r.horizon]
                                 /\ move(r.barrier) >= width
               /\ DayOpen(g) <= r.fs /\ r.t - r.fs <= LookbackCap

\* Nothing is dropped silently: for every horizon each decision is one row or
\* one counted drop, also across days, segments and held decisions; and
\* certified objects never end in a stage that refuses what another made (a
\* read or decision out of order, an anchor that is not the path's state).
EveryDecisionIsAccounted ==
    /\ phase # "misfed"
    /\ Ended => \A h \in Tags :
          Cardinality({r \in rows : r.horizon = h})
              + MapThenSumSet(LAMBDA c : drops[c][h], Categories) = Len(decided)

\* The embargo of the config is enough for the frame built: in no split does a
\* training label overlap a test label, or a training row look back into the
\* test block before it; and a weight counts the labels open at its decision.
SplitsDoNotLeak ==
    phase = "done" => \A h \in Tags :
        LET own == {r \in rows : r.horizon = h}
        IN /\ \A s \in Splits(own, Groups, 1, LookbackCap), a \in own, b \in own :
                 a \in s.train /\ b \in s.test =>
                    /\ a.barrier < b.t \/ b.barrier < a.t
                    /\ b.barrier < a.t => b.barrier < a.fs
           /\ \A r \in own : Concurrency(own, r)
                 = Cardinality({q \in own : q.t <= r.t /\ r.t < q.barrier})
=============================================================================
