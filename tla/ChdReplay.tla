------------------------------ MODULE ChdReplay -----------------------------
(***************************************************************************)
(* src/experiments/binance_source_gate.py: the fail-closed replay of the   *)
(* second vendor's hourly order-book partitions.  An hour is a set of      *)
(* events; an event carries the update ids it covers, its event time and   *)
(* the levels it sets, a size of 0 deleting one.  A replay either refuses  *)
(* the window with a code or returns the sampled books and its measures.   *)
(***************************************************************************)
EXTENDS Integers, Sequences, FiniteSets, FiniteSetsExt, SequencesExt, Functions, TLC

CONSTANTS Depth,         \* k of the replay contract
          MinLevels,     \* MIN_SNAPSHOT_LEVELS_PER_SIDE
          RegressionPct, \* MAX_EVENT_TIME_REGRESSION_FRAC, in percent
          ChdCrossedPct, ChdMissingPct, ChdThinPct,  \* thresholds.chd_window_quality
          FrozenRun, FrozenPct   \* min_run_samples and frozen_fraction_max

NoId == -1   \* a null id
Sides == {"bid", "ask"}
EmptyBook == [side \in Sides |-> <<>>]

-----------------------------------------------------------------------------
(* Grouping: duplicates collapse, ids are checked, and the events of an hour are
   ordered by id, a snapshot after an update of the same id. *)
OrderId(e) == IF e.kind = "update" THEN e.final ELSE e.last

Precedes(e, f) ==
    \/ OrderId(e) < OrderId(f)
    \/ OrderId(e) = OrderId(f) /\ e.kind = "update" /\ f.kind = "snapshot"
    \/ /\ OrderId(e) = OrderId(f) /\ e.kind = "update" /\ f.kind = "update"
       /\ e.first < f.first \/ (e.first = f.first /\ e.prev < f.prev)

SameIds(e, f) ==
    e.kind = f.kind /\ IF e.kind = "update" THEN e.first = f.first /\ e.final = f.final /\ e.prev = f.prev
                       ELSE e.last = f.last

(* Why an hour is refused, or "ok".  Two rows of the same ids are one event, which
   has one time and one size per level. *)
GroupRefusal(hour) ==
    CASE \E e \in hour : e.kind = "update" /\ e.first > e.final -> "backwards_update_ids"
      [] \E e, f \in hour : e # f /\ SameIds(e, f) -> "conflicting_rows"
      [] OTHER -> "ok"

GroupEvents(hour) ==
    [i \in 1..Cardinality(hour) |->
        CHOOSE e \in hour : Cardinality({f \in hour : Precedes(f, e)}) = i - 1]

Best(book) ==
    [bid |-> IF DOMAIN book.bid = {} THEN 0 ELSE Max(DOMAIN book.bid),
     ask |-> IF DOMAIN book.ask = {} THEN 0 ELSE Min(DOMAIN book.ask)]

ClassifyChdSnapshot(e) ==
    CASE \E side \in Sides : DOMAIN e.levels[side] = {} -> "one_sided"
      [] \E side \in Sides : \E p \in DOMAIN e.levels[side] : e.levels[side][p] <= 0 -> "bad_values"
      [] \E side \in Sides : Cardinality(DOMAIN e.levels[side]) < MinLevels -> "thin_depth"
      [] Best(e.levels).bid >= Best(e.levels).ask -> "crossed"
      [] OTHER -> "ok"

-----------------------------------------------------------------------------
(* The state of a replay: the book and the ids it stands for, the watermark, the
   samples taken so far, and why it was refused, if it was.  The events applied
   are kept as history, and with each sample how many there were. *)
FreshReplay ==
    [book |-> EmptyBook, lastId |-> NoId, seeded |-> FALSE, anchored |-> FALSE, watermark |-> 0,
     prevEvent |-> [kind |-> "none"], samples |-> <<>>, events |-> 0, regressions |-> 0,
     refusal |-> "ok", applied |-> <<>>]

Refused(st, code) == [st EXCEPT !.refusal = code]

\* The samples due before time t, of the book as it stands.
EmitBefore(st, grid, t) ==
    LET due == SelectSeq(grid, LAMBDA g : g < t)
        left == SubSeq(due, Len(st.samples) + 1, Len(due))
        sample == [book |-> st.book, upto |-> Len(st.applied)]
    IN  [st EXCEPT !.samples = @ \o [i \in DOMAIN left |-> sample]]

\* Set the levels of an update, absolute sizes, 0 deleting one.
SetLevels(book, levels) ==
    [side \in Sides |->
        LET merged == [p \in DOMAIN book[side] \union DOMAIN levels[side] |->
                          IF p \in DOMAIN levels[side] THEN levels[side][p] ELSE book[side][p]]
        IN  Restrict(merged, {p \in DOMAIN merged : merged[p] # 0})]

Regresses(st, e) == e.time < st.watermark
EventTime(st, e) == IF Regresses(st, e) THEN st.watermark ELSE e.time

\* A snapshot is usable or the window is refused; it restarts the anchoring.
ApplySnapshot(st, e, grid) ==
    LET reason == ClassifyChdSnapshot(e)
    IN  IF reason # "ok" THEN Refused(st, reason)
        ELSE IF st.seeded /\ Regresses(st, e) THEN Refused(st, "backwards_snapshot")
        ELSE IF st.seeded /\ e.last < st.lastId THEN Refused(st, "stale_snapshot")
        ELSE [EmitBefore(st, grid, EventTime(st, e)) EXCEPT
                 !.book = e.levels, !.lastId = e.last, !.seeded = TRUE, !.anchored = FALSE,
                 !.watermark = EventTime(st, e), !.prevEvent = e, !.applied = Append(@, e)]

\* An update that is not applied: only its regression is counted.
Skip(st, e) ==
    [st EXCEPT !.prevEvent = e, !.regressions = @ + (IF Regresses(st, e) THEN 1 ELSE 0)]

Drop(st, e) == [Skip(st, e) EXCEPT !.prevEvent = st.prevEvent]

SharesIds(st, e) ==
    st.prevEvent.kind = "update" /\ st.prevEvent.first = e.first /\ st.prevEvent.final = e.final

Superseded(st, e, market) ==
    IF market = "futures" THEN e.final < st.lastId ELSE e.final <= st.lastId

Anchors(st, e, market) ==
    IF market = "futures" THEN (e.first <= st.lastId /\ st.lastId <= e.final) \/ e.prev = st.lastId
    ELSE e.first <= st.lastId + 1 /\ st.lastId + 1 <= e.final

\* Mutant of Continues: an anchored update only has to advance.
ContinuesForward(st, e, market) == market \in {"futures", "spot"} /\ e.final > st.lastId

Continues(st, e, market) ==
    IF market = "futures" THEN e.prev = st.lastId
    ELSE e.first = st.lastId + 1 /\ e.prev \in {NoId, st.lastId}

Accept(st, e, grid) ==
    [EmitBefore(st, grid, EventTime(st, e)) EXCEPT
        !.book = SetLevels(@, e.levels), !.lastId = e.final, !.anchored = TRUE,
        !.watermark = EventTime(st, e), !.prevEvent = e, !.applied = Append(@, e)]

ApplyUpdate(st, e, market, grid) ==
    IF ~st.seeded THEN Skip(st, e)
    ELSE IF SharesIds(st, e)
    THEN IF st.prevEvent.prev = e.prev /\ st.prevEvent.levels = e.levels THEN Drop(st, e)
         ELSE Refused(st, "conflicting_duplicate_event")
    ELSE IF ~st.anchored /\ Superseded(st, e, market) THEN Skip(st, e)
    ELSE IF ~st.anchored /\ ~Anchors(st, e, market) THEN Refused(st, "seed_anchor_gap")
    ELSE IF st.anchored /\ e.final <= st.lastId THEN Refused(st, "incompatible_overlap")
    ELSE IF st.anchored /\ ~Continues(st, e, market) THEN Refused(st, "sequence_gap")
    ELSE IF Regresses(st, e) THEN Refused(st, "ordering_anomaly")
    ELSE Accept(st, e, grid)

ReplayEvent(st, e, market, grid) ==
    IF st.refusal # "ok" THEN st
    ELSE LET seen == [st EXCEPT !.events = @ + 1]
         IN  IF e.kind = "snapshot" THEN ApplySnapshot(seen, e, grid)
             ELSE ApplyUpdate(seen, e, market, grid)

ReplayHour(st, hour, market, grid) ==
    IF st.refusal # "ok" THEN st
    ELSE IF GroupRefusal(hour) # "ok" THEN Refused(st, GroupRefusal(hour))
    ELSE FoldLeft(LAMBDA s, e : ReplayEvent(s, e, market, grid), st, GroupEvents(hour))

\* The remaining samples, then the bounds on a window as a whole.
FinishReplay(st, grid) ==
    LET all == EmitBefore(st, grid, grid[Len(grid)] + 1)
    IN  IF st.refusal # "ok" THEN st
        ELSE IF st.regressions * 100 > RegressionPct * st.events THEN Refused(all, "ordering_anomaly")
        ELSE IF ~st.seeded THEN Refused(all, "missing_initial_snapshot")
        ELSE all

ReplayChdWindow(hours, market, grid) ==
    FinishReplay(FoldLeft(LAMBDA s, h : ReplayHour(s, h, market, grid), FreshReplay, hours), grid)

-----------------------------------------------------------------------------
(* The frame of a completed replay, its measures and the verdict on it. *)
TopK(book) ==
    [side \in Sides |->
        LET better(p) == {q \in DOMAIN book[side] : IF side = "bid" THEN q > p ELSE q < p}
        IN  Restrict(book[side], {p \in DOMAIN book[side] : Cardinality(better(p)) < Depth})]

Frame(replay) == [i \in DOMAIN replay.samples |-> TopK(replay.samples[i].book)]

NoBook(book) == \E side \in Sides : DOMAIN book[side] = {}
CrossedBook(book) == ~NoBook(book) /\ Best(book).bid >= Best(book).ask
ThinBook(book) ==
    /\ ~NoBook(book) /\ ~CrossedBook(book)
    /\ \E side \in Sides : Cardinality(DOMAIN book[side]) < Depth

Over(books, Test(_), pct) ==
    Cardinality({i \in DOMAIN books : Test(books[i])}) * 100 > pct * Len(books)

\* The samples in a run of FrozenRun or more that are all alike.
FrozenSamples(frame) ==
    {i \in DOMAIN frame : \E a \in 1..i : /\ a + FrozenRun - 1 >= i /\ a + FrozenRun - 1 \in DOMAIN frame
                                         /\ \A j \in a..(a + FrozenRun - 1) : frame[j] = frame[a]}

\* Every refusal is inconclusive; every snapshot used is ok, so no seed bar is left.
ChdVerdict(replay) ==
    IF replay.refusal # "ok" THEN "inconclusive"
    ELSE LET frame == Frame(replay)
         IN  IF Over(frame, CrossedBook, ChdCrossedPct) \/ Over(frame, NoBook, ChdMissingPct)
                \/ Over(frame, ThinBook, ChdThinPct)
                \/ Cardinality(FrozenSamples(frame)) * 100 > FrozenPct * Len(frame)
             THEN "degraded" ELSE "certified"

-----------------------------------------------------------------------------
(* What the exchange did: changes[n] is the level that update id n sets, and
   updates are the events it sent, each with the changes of its ids. *)
TrueBook(base, changes, n) ==
    FoldLeft(LAMBDA book, c : SetLevels(book, [s \in Sides |-> IF s = c.side THEN c.price :> c.size ELSE <<>>]),
             base, SubSeq(changes, 1, n))

(* A completed replay never shows a book that is not a version of the exchange's,
   and it shows an older one than was current only where the loss cannot be seen
   from the ids: right before a snapshot, or with nothing more to come. *)
ReplayIsTrue(replay, grid, base, changes, updates) ==
    replay.refusal = "ok" =>
        \A i \in DOMAIN replay.samples :
            LET sample == replay.samples[i]
                n == sample.upto
                id == IF n = 0 THEN 0 ELSE LET e == replay.applied[n] IN OrderId(e)
                missed == {e \in updates : e.time <= grid[i] /\ e.final > id}
            IN  n > 0 =>
                  /\ sample.book = TrueBook(base, changes, id)
                  /\ \/ missed = {} \/ n = Len(replay.applied)
                     \/ replay.applied[n + 1].kind = "snapshot"
=============================================================================
