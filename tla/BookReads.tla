------------------------------ MODULE BookReads -------------------------------
(***************************************************************************)
(* What the bar pipeline reads of a day's book: the dual reads of          *)
(* bars/snapshot.py and, of bars/produce.py, the validity scan and the     *)
(* true mid path.  A day's book stream is a sequence of deltas [ts, recv,  *)
(* side, price, size] in fold order; the snapshot seed comes first.        *)
(***************************************************************************)
EXTENDS OrderBook, Positions

Usable(b) == TwoSided(b) /\ ~ Crossed(b)  \* validate_book_top

\* The book of the events at the positions P, folded in their order.
BookOf(events, P) ==
    MapThenFoldSet(LAMBDA i, b : Apply(b, events[i]), EmptyBook,
                   LAMBDA i : i, LAMBDA Q : Max(Q), P)

BookAfter(events, i) == BookOf(events, 1 .. i)

Mid2(b) == BestBid(b) + BestAsk(b)        \* twice the mid

-----------------------------------------------------------------------------
(* dual_book_reads *)

NoReads == [next |-> 1, label |-> EmptyBook, obs |-> EmptyBook, level |-> << >>,
            pending |-> {}, last |-> 0, reads |-> << >>]

LevelOf(e) == <<e.side, e.price>>

Consumed(events, t) == {i \in DOMAIN events : \A j \in 1 .. i : events[j].ts <= t}

\* Mutant of Promote: a straggler overwrites what was applied after it.
PromoteUnordered(st, events, i) ==
    [st EXCEPT !.obs = Apply(@, events[i]),
               !.last = IF i > @ THEN i ELSE @]

\* A straggler moves a level only if nothing later already moved it.
Promote(st, events, i) ==
    LET lvl == LevelOf(events[i])
        stale == lvl \in DOMAIN st.level /\ st.level[lvl] > i
    IN [st EXCEPT !.obs = IF stale THEN @ ELSE Apply(@, events[i]),
                  !.level = IF stale THEN @
                            ELSE [l \in DOMAIN @ \cup {lvl} |-> IF l = lvl THEN i ELSE @[l]],
                  !.last = IF i > @ THEN i ELSE @]

ReadOf(st, events, t, stalenessCap) ==
    CASE ~ Usable(st.obs) -> [t |-> t, reject |-> "book"]
      [] Usable(st.obs) /\ t - events[st.last].ts > stalenessCap -> [t |-> t, reject |-> "stale"]
      [] Usable(st.obs) /\ t - events[st.last].ts <= stalenessCap /\ ~ Usable(st.label) ->
            [t |-> t, reject |-> "book"]
      [] OTHER -> [t |-> t, reject |-> "none", ts |-> events[st.last].ts,
                   obs |-> st.obs, mid |-> Mid2(st.label)]

\* pending is a heap: what was received first is promoted first.
LastReceived(events, Q) ==
    CHOOSE i \in Q : \A j \in Q \ {i} :
        events[j].recv < events[i].recv \/ (events[j].recv = events[i].recv /\ j < i)

PromoteAll(st, events, P) ==
    MapThenFoldSet(LAMBDA i, x : Promote(x, events, i), st,
                   LAMBDA i : i, LAMBDA Q : LastReceived(events, Q), P)

\* One decision: fold what originated, promote what was received, read.
ReadAt(st, events, t, stalenessCap) ==
    LET upto == Consumed(events, t)
        fresh == {i \in upto : i >= st.next}
        arrived == {i \in st.pending \cup fresh : events[i].recv <= t}
        folded == [st EXCEPT
            !.next = Cardinality(upto) + 1,
            !.label = BookAfter(events, Cardinality(upto)),
            !.pending = (@ \cup fresh) \ arrived]
        promoted == PromoteAll(folded, events, arrived)
    IN [promoted EXCEPT !.reads = Append(@, ReadOf(promoted, events, t, stalenessCap))]

DualBookReads(events, times, stalenessCap) ==
    FoldLeft(LAMBDA st, t : ReadAt(st, events, t, stalenessCap), NoReads, times).reads

-----------------------------------------------------------------------------
(* The day's object as a whole *)

\* _seed_day_book_events: a seed at or before the open, deltas of the day.
WellFormed(snap, deltas, open, end) ==
    /\ \A i \in DOMAIN snap : snap[i].ts <= open
    /\ \A i \in DOMAIN deltas : open <= deltas[i].ts /\ deltas[i].ts < end

\* The event that leaves the state of its instant.
LastOfInstant(events, i) == i = Len(events) \/ events[i + 1].ts # events[i].ts

\* _scan_day_validity: the maximal intervals without a usable book, the state
\* at the open being a missing book; one of no length is no gap.
InvalidIntervals(events, open, end) ==
    LET states == {i \in DOMAIN events : LastOfInstant(events, i)}
        at(i) == IF i = 0 THEN open ELSE Max({open, events[i].ts})
        bad(i) == i = 0 \/ ~ Usable(BookAfter(events, i))
        before(i) == Max({0} \cup {j \in states : j < i})
        starts == {0} \cup {i \in states : bad(i) /\ ~ bad(before(i))}
        until(i) == LET good == {j \in states : j > i /\ ~ bad(j)}
                    IN IF good = {} THEN end ELSE at(Min(good))
    IN {<<at(i), until(i)>> : i \in {i \in starts : at(i) < until(i)}}

\* _window_hits_invalid, of a window open at t and closed at end.
HitsInvalid(t, end, spans) == \E s \in spans : s[1] <= end /\ s[2] > t

\* _segment_mid_path of one day: the seed's state at the open, then a point
\* for every delta that leaves a usable book.
MidPath(snap, deltas, open) ==
    LET events == snap \o deltas
        point(i) == IF i <= Len(snap) THEN <<open, Mid2(BookAfter(events, i))>>
                                      ELSE <<events[i].ts, Mid2(BookAfter(events, i))>>
        shown == InOrder({i \in DOMAIN events : i >= Len(snap) /\ Usable(BookAfter(events, i))})
    IN [n \in DOMAIN shown |-> point(shown[n])]
=============================================================================
