------------------------------- MODULE BarClock -------------------------------
(***************************************************************************)
(* The causal dollar-bar clock of bars/clock.py.  Times are natural        *)
(* numbers, day d is [DayOpen(d), DayEnd(d)); a trade is [ts, seq, recv,   *)
(* size] with its origin and received time and its notional.               *)
(*                                                                         *)
(* A clock is the record of an open interval and of the bars it closed; a  *)
(* bar keeps what a decision may depend on.                                *)
(***************************************************************************)
EXTENDS SequencesExt, Positions

CONSTANTS
    DayLen,
    Target,      \* target_bars_per_day
    WindowDays, WarmupDays, SeedThreshold,
    NoTime       \* cap_fire_ns of a threshold bar

ASSUME ScheduleAssumption ==
    /\ {DayLen, Target, WarmupDays, SeedThreshold} \subseteq Nat \ {0}
    /\ WindowDays \in Nat /\ WindowDays >= WarmupDays

DayOpen(d) == d * DayLen
DayEnd(d) == DayOpen(d) + DayLen

\* clock_order_key
TradeBefore(t, u) == t.ts < u.ts \/ (t.ts = u.ts /\ t.seq < u.seq)

-----------------------------------------------------------------------------
(* ThresholdSchedule; history is a sequence of [day, notional] *)

\* threshold_for: the mean of the window's prior days, as a fraction.
ThresholdFor(history, d) ==
    LET prior == {i \in DOMAIN history : history[i].day < d /\ history[i].day + WindowDays >= d}
    IN IF Cardinality(prior) < WarmupDays
       THEN [num |-> SeedThreshold, den |-> 1, warmup |-> TRUE]
       ELSE [num |-> MapThenSumSet(LAMBDA i : history[i].notional, prior),
             den |-> Cardinality(prior) * Target, warmup |-> FALSE]

-----------------------------------------------------------------------------
(* BarClock *)

NewClock(d, watermark) ==
    [start |-> DayOpen(d), members |-> << >>, watermark |-> watermark, bars |-> << >>]

Received(members) == {m.recv : m \in ToSet(members)}

\* Mutant of Close: a bar's own trades decide its time.
CloseUnclamped(c, reason, fire) ==
    LET t == Max({0} \cup Received(c.members) \cup ({fire} \ {NoTime}))
    IN [c EXCEPT !.watermark = t, !.members = << >>,
                 !.bars = Append(@, [start |-> c.start, reason |-> reason, fire |-> fire,
                                     t |-> t, members |-> c.members])]

\* _close: the decision time never falls behind an earlier one, a member's
\* receipt or the forced close.
Close(c, reason, fire) ==
    LET t == Max({c.watermark} \cup Received(c.members) \cup ({fire} \ {NoTime}))
    IN [c EXCEPT !.watermark = t, !.members = << >>,
                 !.bars = Append(@, [start |-> c.start, reason |-> reason, fire |-> fire,
                                     t |-> t, members |-> c.members])]

Fire(c, cap) == [Close(c, "time_cap", c.start + cap) EXCEPT !.start = c.start + cap]

\* The caps that have elapsed at t, the deadline itself included.
FireUntil(c, cap, t) ==
    FoldLeft(LAMBDA x, i : Fire(x, cap), c, [i \in 1 .. (t - c.start) \div cap |-> i])

Push(c, trade, cap, threshold) ==
    LET fired == FireUntil(c, cap, trade.ts)
        full == [fired EXCEPT !.members = Append(@, trade)]
        notional == MapThenSumSet(LAMBDA i : full.members[i].size, DOMAIN full.members)
    IN IF notional * threshold.den >= threshold.num
       THEN [Close(full, "threshold", NoTime) EXCEPT !.start = trade.ts] ELSE full

\* finish: an empty partial interval was never decided.
FinishClock(c, cap, d) ==
    LET fired == FireUntil(c, cap, DayEnd(d))
    IN IF fired.members = << >> THEN fired ELSE Close(fired, "day_end", DayEnd(d))

\* coalesce_decision_bars: the last-closing bar of every decision instant.
Coalesce(bars) ==
    LET last == InOrder({i \in DOMAIN bars : i = Len(bars) \/ bars[i + 1].t > bars[i].t})
    IN [i \in DOMAIN last |-> bars[last[i]]]

\* Origin-axis close of a bar.
CloseTime(bar) == IF bar.fire = NoTime THEN Last(bar.members).ts ELSE bar.fire
=============================================================================
