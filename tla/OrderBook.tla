------------------------------ MODULE OrderBook ------------------------------
(***************************************************************************)
(* The price-level book of recon/orderbook.py and the total order of       *)
(* recon/events.py, shared by the live and the offline reconstructors.     *)
(*                                                                         *)
(* A delta is [kind, ts, seq, side, price, size] with an absolute size, a  *)
(* trade is [kind, ts, seq, side, price, size]; prices and sizes are       *)
(* natural numbers, and a book is the partial map from price to size of    *)
(* either side.  Mid and microprice are functions of the best levels and   *)
(* are left out of a snapshot.                                             *)
(***************************************************************************)
EXTENDS Naturals, SequencesExt

\* What a book is: on either side finitely many prices with their sizes.
IsSide(f) == IsFiniteSet(DOMAIN f) /\ DOMAIN f \subseteq Nat /\ f \in [DOMAIN f -> Nat]

IsBook(b) == b = [bid |-> b.bid, ask |-> b.ask] /\ IsSide(b.bid) /\ IsSide(b.ask)

EmptyBook == [bid |-> << >>, ask |-> << >>]

\* OrderBook.apply: an absolute size replaces the level, zero removes it.
Apply(b, d) ==
    [b EXCEPT ![d.side] =
        [p \in IF d.size = 0 THEN DOMAIN @ \ {d.price} ELSE DOMAIN @ \cup {d.price} |->
            IF p = d.price THEN d.size ELSE @[p]]]

BestBid(b) == Max(DOMAIN b.bid)
BestAsk(b) == Min(DOMAIN b.ask)

TwoSided(b) == DOMAIN b.bid # {} /\ DOMAIN b.ask # {}

Crossed(b) == TwoSided(b) /\ BestBid(b) >= BestAsk(b)

\* snapshot(k): the k best levels of either side.
Snapshot(b, k) ==
    [bid |-> RestrictDomain(b.bid, LAMBDA p : Cardinality({q \in DOMAIN b.bid : q > p}) < k),
     ask |-> RestrictDomain(b.ask, LAMBDA p : Cardinality({q \in DOMAIN b.ask : q < p}) < k)]

\* order_key: (ts_engine, kind, seq), deltas before trades.
KeyLess(e, f) ==
    \/ e.ts < f.ts
    \/ e.ts = f.ts /\ e.kind = "delta" /\ f.kind = "trade"
    \/ e.ts = f.ts /\ e.kind = f.kind /\ e.seq < f.seq

\* sorted(..., key=order_key) is stable: events no key orders stay in the
\* order of their positions in s.
Before(s, i, j) == KeyLess(s[i], s[j]) \/ (~ KeyLess(s[j], s[i]) /\ i < j)

Latest(s, P) == CHOOSE m \in P : \A j \in P \ {m} : Before(s, j, m)

\* Both reconstructors: a delta moves the book, a trade records what it saw.
Emit(st, e, k) ==
    IF e.kind = "delta"
    THEN [st EXCEPT !.book = Apply(@, e)]
    ELSE [st EXCEPT !.rows = Append(@, [trade |-> e, book |-> Snapshot(st.book, k)])]

\* The events of s at the positions P, emitted in the total order.
EmitAll(st, s, P, k) ==
    MapThenFoldSet(LAMBDA e, x : Emit(x, e, k), st,
                   LAMBDA i : s[i], LAMBDA Q : Latest(s, Q), P)

Fresh == [book |-> EmptyBook, rows |-> << >>]

\* reconstruct_book_at_trades without a seed book.
AtTrades(s, k) == EmitAll(Fresh, s, DOMAIN s, k).rows
=============================================================================
