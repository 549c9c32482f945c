---------------------------- MODULE TripleBarrier -----------------------------
(***************************************************************************)
(* The streaming labeller triple_barrier_labels of data/labels.py for one  *)
(* horizon (the producer runs one instance per horizon), the concurrency   *)
(* weights of data/uniqueness.py and the purged splits of data/cv.py.      *)
(*                                                                         *)
(* The path is a sequence of <<time, mid>>.  Returns are differences of    *)
(* mids, and the volatility a width is taken from is the largest return    *)
(* folded so far: any function of the folded returns would do, as long as  *)
(* it is the trailing ones that are folded.                                *)
(***************************************************************************)
EXTENDS Integers, SequencesExt, FiniteSetsExt

CONSTANT MinReturns

ASSUME MinReturnsAssumption == MinReturns \in Nat \ {0}

Magnitude(x) == IF x < 0 THEN 0 - x ELSE x

\* Of the path, pts are the positions in the window and trail those folded.
NoLabels == [next |-> 1, pts |-> {}, trail |-> {}, broken |-> FALSE, out |-> << >>]

\* The positions of path from i up to time bound.
Pulled(path, i, bound) ==
    {j \in DOMAIN path : i <= j /\ \A l \in i .. j : path[l][1] <= bound}

LastOfEach(path, P) == {i \in P : i + 1 \in P => path[i + 1][1] # path[i][1]}

Width(path, trail) ==
    LET later(i) == {j \in trail : j > i}
        moves == {Magnitude(path[Min(later(i))][2] - path[i][2]) :
                     i \in {i \in trail : later(i) # {}}}
    IN Max({0} \cup moves)

\* The first touch in (t, t + h], else the state at t + h.
Resolve(path, pts, t, h, p0, width) ==
    LET inside == {i \in pts : path[i][1] <= t + h}
        hits == {i \in inside : Magnitude(path[i][2] - p0) >= width}
        first == path[Min(hits)]
    IN IF hits # {}
       THEN [label |-> IF first[2] > p0 THEN 1 ELSE -1, barrier |-> first[1],
             ret |-> first[2] - p0]
       ELSE [label |-> 0, barrier |-> t + h,
             ret |-> IF inside = {} THEN 0 ELSE path[Max(inside)][2] - p0]

Rejected == [label |-> 0, barrier |-> 0, ret |-> 0]

\* Mutant of LabelAnchor: the whole window is folded into the width.
LabelAnchorPeeking(st, path, a, h, coverageEnd) ==
    LET new == LastOfEach(path, Pulled(path, st.next, a.t + h))
        pts == {i \in st.pts \cup new : path[i][1] > a.t}
        trail == st.trail \cup new
        width == Width(path, trail)
        usable == Cardinality(trail) > MinReturns /\ width > 0
    IN [next |-> st.next + Cardinality(Pulled(path, st.next, a.t + h)),
        pts |-> pts, trail |-> trail,
        broken |-> st.broken,
        out |-> Append(st.out, IF usable THEN Resolve(path, pts, a.t, h, a.p0, width) ELSE Rejected)]

\* One anchor [t, p0]: refuse an overhang, fold what it has moved past, pull
\* up to the end of its window, check P0, and resolve.
LabelAnchor(st, path, a, h, coverageEnd) ==
    LET all == st.pts \cup LastOfEach(path, Pulled(path, st.next, a.t + h))
        trail == st.trail \cup {i \in all : path[i][1] <= a.t}
        pts == {i \in all : path[i][1] > a.t}
        width == Width(path, trail)
        usable == Cardinality(trail) > MinReturns /\ width > 0
    IN [next |-> st.next + Cardinality(Pulled(path, st.next, a.t + h)),
        pts |-> pts, trail |-> trail,
        broken |-> st.broken \/ a.t + h > coverageEnd
                             \/ trail = {} \/ path[Max(trail)][2] # a.p0,
        out |-> Append(st.out, IF usable THEN Resolve(path, pts, a.t, h, a.p0, width) ELSE Rejected)]

Labels(path, anchors, h, coverageEnd) ==
    FoldLeft(LAMBDA st, a : LabelAnchor(st, path, a, h, coverageEnd), NoLabels, anchors)

-----------------------------------------------------------------------------
(* Weights and splits of the rows [t, barrier] of one horizon *)

\* concurrency_uniqueness is one over this: spans are half-open.
Concurrency(rows, r) ==
    LET started == Cardinality({q \in rows : q.t <= r.t})
        over == Cardinality({q \in rows : q.barrier <= r.t})
    IN started - over

\* make_time_groups
GroupOf(rows, n, r) ==
    (Cardinality({q \in rows : q.t < r.t}) * n) \div Cardinality(rows)

\* _merge_intervals: a block starts where every earlier span is over.
MergedSpans(spans) ==
    LET starts == {s[1] : s \in {s \in spans : \A q \in spans : q[1] < s[1] => q[2] < s[1]}}
        block(lo) == {s \in spans : lo <= s[1] /\ \A c \in starts : lo < c => s[1] < c}
    IN {<<lo, Max({s[2] : s \in block(lo)})>> : lo \in starts}

\* Mutant of Purged: only spans that overlap a test block are purged.
PurgedSpansOnly(rows, test, embargo) ==
    LET blocks == MergedSpans({<<r.t, r.barrier>> : r \in test})
    IN {r \in rows : \E m \in blocks : r.t <= m[2] /\ r.barrier >= m[1]}

\* Span overlap, and the embargo after each block.
Purged(rows, test, embargo) ==
    LET blocks == MergedSpans({<<r.t, r.barrier>> : r \in test})
    IN {r \in rows : \E m \in blocks :
            \/ r.t <= m[2] /\ r.barrier >= m[1]
            \/ m[2] < r.t /\ r.t <= m[2] + embargo}

\* cpcv_splits: one split per choice of k of the n groups.
Splits(rows, n, k, embargo) ==
    {LET test == {r \in rows : GroupOf(rows, n, r) \in groups}
     IN [test |-> test, train |-> (rows \ test) \ Purged(rows, test, embargo)] :
        groups \in kSubset(k, 0 .. n - 1)}
=============================================================================
