----------------------------- MODULE ReplayProofs -----------------------------
(***************************************************************************)
(* Theorems about the replays of a day and the frames built on them: the   *)
(* seeded replay, for every stream of deltas and snapshots, grid,          *)
(* tolerance and depth; the live watermark loop; and the frame build, for  *)
(* every day of trades and book events and every label horizon.            *)
(***************************************************************************)
EXTENDS LiveReplay, SeededReplay, FrameBuild, SumTheorems

-----------------------------------------------------------------------------
(* Sequences *)

LEMMA EmptySequence == Sequence(<< >>) /\ Len(<< >>) = 0 /\ DOMAIN << >> = {}
  <1>1. << >> \in Seq({})
    OBVIOUS
  <1> QED BY <1>1 DEF Sequence

LEMMA Appending ==
    ASSUME NEW s, Sequence(s), NEW x
    PROVE  /\ Sequence(Append(s, x)) /\ Append(s, x) # << >>
           /\ Len(Append(s, x)) = Len(s) + 1
           /\ DOMAIN Append(s, x) = 1 .. Len(s) + 1
           /\ \A i \in 1 .. Len(s) : Append(s, x)[i] = s[i]
           /\ Append(s, x)[Len(s) + 1] = x
           /\ Last(Append(s, x)) = x
  <1>1. PICK S : s \in Seq(S)
    BY DEF Sequence
  <1>2. s \in Seq(S \cup {x}) /\ x \in S \cup {x}
    BY <1>1
  <1>3. Append(s, x) \in Seq(S \cup {x}) /\ Len(Append(s, x)) = Len(s) + 1
    BY <1>2
  <1> QED BY <1>2, <1>3 DEF Sequence, Last

-----------------------------------------------------------------------------
(* The invariant of the seeded replay *)

SeededTypeOK ==
    /\ enabled \in BOOLEAN /\ ended \in BOOLEAN /\ done \in BOOLEAN /\ seeded \in BOOLEAN
    /\ IsBook(book)
    /\ Sequence(applied)
    /\ \A m \in DOMAIN applied :
          applied[m].ts \in Nat /\ applied[m].seeded \in BOOLEAN /\ IsBook(applied[m].book)
    /\ head # Null =>
          /\ head.ts \in Nat /\ head.snap \in BOOLEAN
          /\ head.item \in IF head.snap THEN Snaps ELSE BookDeltas
    /\ since \in Nat \cup {Null} /\ duration \in Nat
    /\ Sequence(frame) /\ si <= n
    /\ Sequence(runs) /\ open \in Nat \cup {Null}

\* Events are applied in the order of their times, the one read included.
StreamInv ==
    /\ \A l, m \in DOMAIN applied : l <= m => applied[l].ts <= applied[m].ts
    /\ head # Null => LastTs <= head.ts
    /\ ended => head = Null
    /\ done => ended /\ si = n

\* The book is what the last event left.
BookInv ==
    IF applied = << >> THEN book = EmptyBook /\ seeded = FALSE
    ELSE book = Last(applied).book /\ seeded = Last(applied).seeded

\* A sample that is out precedes every event to come, and one that is not
\* follows every event applied.
GridInv ==
    /\ \A g \in si + 1 .. n : \A m \in DOMAIN applied : applied[m].ts <= Grid[g]
    /\ ~ ended => \A i \in 1 .. si : Grid[i] < (IF head = Null THEN LastTs ELSE head.ts)

\* crossed_since is the time of the event that began the crossing under way.
Began(j) ==
    /\ since = applied[j].ts
    /\ \A l \in j .. Len(applied) : CrossedAt(l)
    /\ j > 1 => ~ CrossedAt(j - 1)

EpisodeInv ==
    /\ since = Null <=> applied = << >> \/ ~ CrossedAt(Len(applied))
    /\ since # Null => \E j \in DOMAIN applied : Began(j)

Held == [m \in DOMAIN applied |-> Until(m) - applied[m].ts]

\* The time accounted and that of the crossing under way make up the time the
\* book was crossed up to the last event.
DurationInv ==
    IF done THEN duration = CrossedTime
    ELSE duration + (IF since = Null THEN 0 ELSE LastTs - since) =
            SumFunctionOnSet(Held, {m \in 1 .. Len(applied) - 1 : CrossedAt(m)})

\* A run ends before the last sample, and before the run under way begins.
RunsInv ==
    /\ RunsAreMaximal
    /\ open # Null => open < si
    /\ \A r \in DOMAIN runs : runs[r][1] \in Nat /\ runs[r][2] \in Nat
    /\ ~ done => \A r \in DOMAIN runs :
                    runs[r][2] < si /\ (open # Null => runs[r][2] < open)

BoundsInv ==
    present = IF TwoSidedSamples = {} THEN <<Null, Null>>
              ELSE <<Min(TwoSidedSamples), Max(TwoSidedSamples)>>

SeededInv ==
    /\ SeededTypeOK /\ StreamInv /\ BookInv
    /\ SamplesAreAsOf /\ GridInv
    /\ EpisodeInv /\ ReseedsExactlyWhenStuck /\ DurationInv
    /\ RunsInv /\ BoundsInv

-----------------------------------------------------------------------------
(* Books *)

LEMMA EmptyBookIsBook == IsBook(EmptyBook) /\ ~ TwoSided(EmptyBook) /\ ~ Crossed(EmptyBook)
  <1>1. IsSide(<< >>)
    BY FS_EmptySet, EmptySequence DEF IsSide
  <1> QED BY <1>1, EmptySequence DEF IsBook, EmptyBook, TwoSided, Crossed

IsDelta(d) == d.side \in {"bid", "ask"} /\ d.price \in Nat /\ d.size \in Nat

\* A delta leaves a book, and touches one side only.
LEMMA ApplyIsBook ==
    ASSUME NEW b, IsBook(b), NEW d, IsDelta(d)
    PROVE  IsBook(Apply(b, d))
  <1> DEFINE D(f) == IF d.size = 0 THEN DOMAIN f \ {d.price} ELSE DOMAIN f \cup {d.price}
             N(f) == [p \in D(f) |-> IF p = d.price THEN d.size ELSE f[p]]
  <1>1. ASSUME NEW f, IsSide(f) PROVE IsSide(N(f))
    <2>1. IsFiniteSet(D(f))
      BY <1>1, FS_AddElement, FS_RemoveElement DEF IsSide
    <2>2. D(f) \subseteq Nat
      BY <1>1 DEF IsSide, IsDelta
    <2>3. \A p \in D(f) : (IF p = d.price THEN d.size ELSE f[p]) \in Nat
      BY <1>1 DEF IsSide, IsDelta
    <2> QED BY <2>1, <2>2, <2>3 DEF IsSide
  <1>2. IsSide(b.bid) /\ IsSide(b.ask) /\ b = [bid |-> b.bid, ask |-> b.ask]
    BY DEF IsBook
  <1>3. Apply(b, d) = [b EXCEPT ![d.side] = N(b[d.side])]
    BY DEF Apply
  <1>4. IsSide(N(b.bid)) /\ IsSide(N(b.ask))
    BY <1>1, <1>2
  <1> HIDE DEF N
  <1>5. CASE d.side = "bid"
    <2>1. Apply(b, d) = [bid |-> N(b.bid), ask |-> b.ask]
      BY <1>2, <1>3, <1>5
    <2> QED BY <1>2, <1>4, <2>1 DEF IsBook
  <1>6. CASE d.side = "ask"
    <2>1. Apply(b, d) = [bid |-> b.bid, ask |-> N(b.ask)]
      BY <1>2, <1>3, <1>6
    <2> QED BY <1>2, <1>4, <2>1 DEF IsBook
  <1> QED BY <1>5, <1>6 DEF IsDelta

\* The best levels survive a snapshot of any depth.
LEMMA SnapshotKeeps ==
    ASSUME NEW b, IsBook(b), NEW k \in Nat \ {0}
    PROVE  /\ TwoSided(Snapshot(b, k)) <=> TwoSided(b)
           /\ Valid(Snapshot(b, k)) <=> Valid(b)
  <1> DEFINE s == Snapshot(b, k)
             B == DOMAIN b.bid
             A == DOMAIN b.ask
  <1>1. /\ DOMAIN s.bid = {p \in B : Cardinality({q \in B : q > p}) < k}
        /\ DOMAIN s.ask = {p \in A : Cardinality({q \in A : q < p}) < k}
    BY DEF Snapshot, RestrictDomain, Restrict
  <1>2. B \subseteq Nat /\ IsFiniteSet(B) /\ A \subseteq Nat /\ IsFiniteSet(A)
    BY DEF IsBook, IsSide
  <1>3. Cardinality({}) = 0 /\ 0 < k
    BY FS_EmptySet
  <1>4. ASSUME B # {} PROVE DOMAIN s.bid # {} /\ BestBid(s) = BestBid(b)
    <2>1. Max(B) \in B /\ \A x \in B : x <= Max(B)
      BY <1>2, <1>4, MaxOfFinite
    <2>2. {q \in B : q > Max(B)} = {}
      BY <1>2, <2>1
    <2>3. Max(B) \in DOMAIN s.bid /\ DOMAIN s.bid \subseteq B
      BY <1>1, <1>3, <2>1, <2>2
    <2> HIDE DEF s, B
    <2>4. Max(DOMAIN s.bid) = Max(B)
      BY <1>2, <2>1, <2>3, MaxIs
    <2> QED BY <2>3, <2>4 DEF BestBid, B
  <1>5. ASSUME A # {} PROVE DOMAIN s.ask # {} /\ BestAsk(s) = BestAsk(b)
    <2>1. Min(A) \in A /\ \A x \in A : Min(A) <= x
      BY <1>2, <1>5, MinOfNat
    <2>2. {q \in A : q < Min(A)} = {}
      BY <1>2, <2>1
    <2>3. Min(A) \in DOMAIN s.ask /\ DOMAIN s.ask \subseteq A
      BY <1>1, <1>3, <2>1, <2>2
    <2> HIDE DEF s, A
    <2>4. Min(DOMAIN s.ask) = Min(A)
      BY <1>2, <2>1, <2>3, MinIs
    <2> QED BY <2>3, <2>4 DEF BestAsk, A
  <1>6. (B = {} => DOMAIN s.bid = {}) /\ (A = {} => DOMAIN s.ask = {})
    BY <1>1
  <1> HIDE DEF s
  <1>7. TwoSided(s) <=> TwoSided(b)
    BY <1>4, <1>5, <1>6 DEF TwoSided
  <1>8. Crossed(s) <=> Crossed(b)
    BY <1>4, <1>5, <1>7 DEF Crossed, TwoSided
  <1> QED BY <1>7, <1>8 DEF s, Valid

-----------------------------------------------------------------------------
(* The steps of the seeded replay *)

LEMMA GridFacts ==
    ASSUME GridAssumption
    PROVE  /\ n \in Nat /\ DOMAIN Grid = 1 .. n
           /\ \A i \in 1 .. n : Grid[i] \in Nat
           /\ \A i, j \in 1 .. n : i <= j => Grid[i] <= Grid[j]
  <1>1. n \in Nat /\ DOMAIN Grid = 1 .. n /\ \A i \in 1 .. n : Grid[i] \in Nat
    BY DEF GridAssumption, n
  <1>2. ASSUME NEW i \in 1 .. n, NEW j \in 1 .. n, i <= j PROVE Grid[i] <= Grid[j]
    <2>1. CASE i = j
      BY <1>1, <2>1
    <2>2. CASE i < j
      <3>1. Grid[i] < Grid[j]
        BY <1>1, <2>2 DEF GridAssumption
      <3>2. Grid[i] \in Nat /\ Grid[j] \in Nat
        BY <1>1
      <3> QED BY <3>1, <3>2
    <2>3. i \in Nat /\ j \in Nat
      BY <1>1
    <2> QED BY <1>2, <2>1, <2>2, <2>3
  <1> QED BY <1>1, <1>2

\* Events applied so far, and the time of the last.
LEMMA HistoryFacts ==
    ASSUME SeededTypeOK
    PROVE  /\ Len(applied) \in Nat /\ DOMAIN applied = 1 .. Len(applied)
           /\ applied = << >> <=> Len(applied) = 0
           /\ applied # << >> => LastTs = applied[Len(applied)].ts
           /\ LastTs \in Nat
           /\ \A m \in 1 .. Len(applied) : applied[m].ts \in Nat
  <1>1. Sequence(applied) /\ \A m \in DOMAIN applied : applied[m].ts \in Nat
    BY DEF SeededTypeOK
  <1>2. Len(applied) \in Nat /\ DOMAIN applied = 1 .. Len(applied)
        /\ (applied = << >> <=> Len(applied) = 0)
    BY <1>1, SequenceFacts
  <1> QED BY <1>1, <1>2 DEF LastTs, Last

\* What is applied becomes the last event, and the book what it left.
AppliesEvent ==
    LET e == [snap |-> head.snap, ts |-> head.ts, item |-> head.item,
              book |-> book', seeded |-> seeded']
    IN /\ head # Null /\ head' = Null
       /\ applied' = Append(applied, e)
       /\ IsBook(book') /\ seeded' \in BOOLEAN /\ (seeded => seeded')
       /\ si < n => head.ts <= Grid[si + 1]
       /\ UpdateCrossed(head.ts)
       /\ UNCHANGED <<enabled, ended, coverVars, done>>

LEMMA ApplyApplies ==
    ASSUME GridAssumption, StreamAssumption, SeededTypeOK, ApplyDelta \/ ApplySnapshot
    PROVE  AppliesEvent
  <1>1. head # Null /\ (si < n => head.ts <= Grid[si + 1])
    <2>1. head # Null /\ (si < n => ~ Due(Grid[si + 1]))
      BY DEF ApplyDelta, ApplySnapshot, Ready
    <2>2. ASSUME si < n PROVE head.ts <= Grid[si + 1]
      <3>1. si \in Nat
        BY SequenceFacts DEF SeededTypeOK, si
      <3>2. Grid[si + 1] \in Nat
        BY <2>2, <3>1, GridFacts
      <3>3. head.ts \in Nat
        BY <2>1 DEF SeededTypeOK
      <3>4. ~ Grid[si + 1] < head.ts
        BY <2>1, <2>2 DEF Due
      <3> QED BY <3>2, <3>3, <3>4
    <2> QED BY <2>1, <2>2
  <1>2. Applied
    BY DEF ApplyDelta, ApplySnapshot
  <1>3. IsBook(book') /\ seeded' \in BOOLEAN /\ (seeded => seeded')
    <2>1. CASE ApplyDelta
      <3>1. head.item \in BookDeltas
        BY <1>1, <2>1 DEF ApplyDelta, SeededTypeOK
      <3>2. IsBook(Apply(book, head.item))
        <4>1. IsDelta(head.item)
          BY <3>1 DEF StreamAssumption, SeededTypeOK, IsDelta
        <4> QED BY <4>1, ApplyIsBook DEF SeededTypeOK
      <3> QED BY <2>1, <3>2 DEF ApplyDelta, SeededTypeOK
    <2>2. CASE ApplySnapshot
      <3>1. head.item \in Snaps
        BY <1>1, <2>2 DEF ApplySnapshot, SeededTypeOK
      <3>2. IsBook(Levels(head.item)) /\ IsBook(book) /\ seeded \in BOOLEAN
        BY <3>1 DEF StreamAssumption, SeededTypeOK
      <3>3. book' \in {Levels(head.item), book} /\ seeded' \in BOOLEAN /\ (seeded => seeded')
        BY <2>2, <3>2 DEF ApplySnapshot
      <3> QED BY <3>2, <3>3
    <2> QED BY <2>1, <2>2
  <1> QED BY <1>1, <1>2, <1>3 DEF Applied, AppliesEvent

\* The events before the one applied are the same ones.
LEMMA AppliedHistory ==
    ASSUME SeededTypeOK, AppliesEvent
    PROVE  /\ Sequence(applied') /\ applied' # << >>
           /\ Len(applied') = Len(applied) + 1
           /\ DOMAIN applied' = 1 .. Len(applied) + 1
           /\ \A m \in 1 .. Len(applied) : applied'[m] = applied[m]
           /\ LET e == applied'[Len(applied) + 1]
              IN /\ e.snap = head.snap /\ e.ts = head.ts /\ e.item = head.item
                 /\ e.book = book' /\ e.seeded = seeded'
           /\ Last(applied') = applied'[Len(applied) + 1]
           /\ LastTs' = head.ts
           /\ \A m \in 1 .. Len(applied) : CrossedAt(m)' <=> CrossedAt(m)
           /\ CrossedAt(Len(applied))' <=> seeded' /\ Crossed(book')
  <1> DEFINE e == [snap |-> head.snap, ts |-> head.ts, item |-> head.item,
                   book |-> book', seeded |-> seeded']
  <1>1. applied' = Append(applied, e) /\ Sequence(applied)
    BY DEF AppliesEvent, SeededTypeOK
  <1>2. /\ Sequence(applied') /\ applied' # << >>
        /\ Len(applied') = Len(applied) + 1
        /\ DOMAIN applied' = 1 .. Len(applied) + 1
        /\ \A m \in 1 .. Len(applied) : applied'[m] = applied[m]
        /\ applied'[Len(applied) + 1] = e
        /\ Last(applied') = e
    <2> HIDE DEF e
    <2> QED BY <1>1, Appending
  <1>3. LastTs' = e.ts
    BY <1>2 DEF LastTs
  <1>4. \A m \in 1 .. Len(applied) : CrossedAt(m)' <=> CrossedAt(m)
    BY <1>2 DEF CrossedAt
  <1>5. CrossedAt(Len(applied))' <=> e.seeded /\ Crossed(e.book)
    <2> HIDE DEF e
    <2> QED BY <1>2 DEF CrossedAt
  <1> QED BY <1>2, <1>3, <1>4, <1>5

LEMMA SameHistory ==
    ASSUME UNCHANGED applied
    PROVE  /\ LastTs' = LastTs
           /\ \A m : CrossedAt(m)' <=> CrossedAt(m)
           /\ \A m : Until(m)' = Until(m)
           /\ Held' = Held
           /\ CrossedTime' = CrossedTime
  <1>1. LastTs' = LastTs /\ (\A m : CrossedAt(m)' <=> CrossedAt(m))
    BY DEF LastTs, CrossedAt
  <1>2. \A m : Until(m)' = Until(m)
    BY <1>1 DEF Until
  <1>3. Held' = Held
    BY <1>2 DEF Held
  <1>4. CrossedTime = SumFunctionOnSet(Held, {m \in DOMAIN applied : CrossedAt(m)})
    BY DEF CrossedTime, Held
  <1>5. CrossedTime' = SumFunctionOnSet(Held', {m \in DOMAIN applied' : CrossedAt(m)'})
    BY DEF CrossedTime, Held
  <1>6. {m \in DOMAIN applied' : CrossedAt(m)'} = {m \in DOMAIN applied : CrossedAt(m)}
    BY <1>1
  <1> QED BY <1>1, <1>2, <1>3, <1>4, <1>5, <1>6

\* The day closes no earlier than its last event.
LEMMA CloseFacts ==
    ASSUME GridAssumption, SeededTypeOK
    PROVE  Max({LastTs} \cup ToSet(Grid)) \in Nat /\ LastTs <= Max({LastTs} \cup ToSet(Grid))
  <1> DEFINE S == {LastTs} \cup ToSet(Grid)
  <1>1. LastTs \in Nat /\ ToSet(Grid) = {Grid[i] : i \in 1 .. n} /\ n \in Nat
    BY HistoryFacts, GridFacts DEF ToSet
  <1>2. \A i \in 1 .. n : Grid[i] \in Nat
    BY GridFacts
  <1>3. S \subseteq Nat
    BY <1>1, <1>2
  <1>4. \E m \in S : \A x \in S : x <= m
    <2>1. CASE n = 0
      BY <1>1, <2>1
    <2>2. CASE n # 0
      <3>1. n \in 1 .. n /\ \A i \in 1 .. n : Grid[i] <= Grid[n]
        BY <1>1, <2>2, GridFacts
      <3>2. CASE LastTs <= Grid[n]
        BY <1>1, <3>1, <3>2
      <3>3. CASE ~ (LastTs <= Grid[n])
        <4>1. \A i \in 1 .. n : Grid[i] <= LastTs
          BY <1>1, <1>2, <3>1, <3>3
        <4> QED BY <1>1, <4>1
      <3> QED BY <3>2, <3>3
    <2> QED BY <2>1, <2>2
  <1>5. LastTs \in S
    OBVIOUS
  <1> HIDE DEF S
  <1>6. Max(S) \in S /\ \A x \in S : x <= Max(S)
    <2>1. PICK m \in S : \A x \in S : x <= m
      BY <1>4
    <2>2. Max(S) = m
      BY <1>3, <2>1, MaxIs
    <2> QED BY <2>1, <2>2
  <1> QED BY <1>3, <1>5, <1>6 DEF S

LEMMA SinceBounded ==
    ASSUME SeededTypeOK, StreamInv, EpisodeInv, since # Null
    PROVE  since \in Nat /\ since <= LastTs
  <1>1. PICK j \in DOMAIN applied : since = applied[j].ts
    BY DEF EpisodeInv, Began
  <1>2. /\ j <= Len(applied) /\ Len(applied) \in DOMAIN applied
        /\ LastTs = applied[Len(applied)].ts
    BY HistoryFacts
  <1>3. applied[j].ts <= applied[Len(applied)].ts
    BY <1>2 DEF StreamInv
  <1> QED BY <1>1, <1>2, <1>3 DEF SeededTypeOK

\* Types, from the type of every part a step can change.
LEMMA SeededTypeStep ==
    ASSUME GridAssumption, StreamAssumption, SeededTypeOK, StreamInv, EpisodeInv, SeededNext
    PROVE  SeededTypeOK'
  <1> USE SequenceFacts
  <1>1. ASSUME Read PROVE SeededTypeOK'
    <2>1. PICK t \in LastTs .. MaxTime :
             \/ \E d \in BookDeltas : head' = [snap |-> FALSE, ts |-> t, item |-> d]
             \/ \E s \in Snaps : head' = [snap |-> TRUE, ts |-> t, item |-> s]
      BY <1>1 DEF Read, ReadDelta, ReadSnapshot
    <2>2. LastTs \in Nat /\ MaxTime \in Nat
      BY HistoryFacts DEF StreamAssumption
    <2>3. t \in Nat
      BY <2>2
    <2>4. head'.ts \in Nat /\ head'.snap \in BOOLEAN
          /\ head'.item \in IF head'.snap THEN Snaps ELSE BookDeltas
      <3>1. CASE \E d \in BookDeltas : head' = [snap |-> FALSE, ts |-> t, item |-> d]
        BY <2>3, <3>1
      <3>2. CASE \E s \in Snaps : head' = [snap |-> TRUE, ts |-> t, item |-> s]
        BY <2>3, <3>2
      <3> QED BY <2>1, <3>1, <3>2
    <2> QED BY <1>1, <2>4 DEF SeededTypeOK, Read, bookVars, crossVars, coverVars, si
  <1>2. ASSUME Exhausted PROVE SeededTypeOK'
    BY <1>2 DEF SeededTypeOK, Exhausted, bookVars, crossVars, coverVars, si
  <1>3. ASSUME EmitSample PROVE SeededTypeOK'
    <2>1. Sequence(frame') /\ Len(frame') = si + 1 /\ si \in Nat /\ si < n /\ n \in Nat
      BY <1>3, Appending, GridFacts DEF EmitSample, SeededTypeOK, si
    <2>2. Sequence(runs') /\ open' \in Nat \cup {Null}
      <3>1. Sequence(runs) /\ Sequence(Append(runs, <<open, si>>)) /\ open \in Nat \cup {Null}
        BY Appending DEF SeededTypeOK
      <3>2. runs' \in {runs, Append(runs, <<open, si>>)} /\ open' \in {Null, si, open}
        BY <1>3 DEF EmitSample
      <3> QED BY <2>1, <3>1, <3>2
    <2> QED BY <1>3, <2>1, <2>2 DEF SeededTypeOK, EmitSample, bookVars, crossVars, si
  <1>4. ASSUME ApplyDelta \/ ApplySnapshot PROVE SeededTypeOK'
    <2>1. AppliesEvent
      BY <1>4, ApplyApplies
    <2>2. \A m \in DOMAIN applied' : applied'[m].ts \in Nat
             /\ applied'[m].seeded \in BOOLEAN /\ IsBook(applied'[m].book)
      <3>1. ASSUME NEW m \in 1 .. Len(applied) PROVE applied'[m] = applied[m] /\ m \in DOMAIN applied
        BY <2>1, AppliedHistory, HistoryFacts
      <3>2. head.ts \in Nat /\ IsBook(book') /\ seeded' \in BOOLEAN
        BY <2>1 DEF AppliesEvent, SeededTypeOK
      <3>3. DOMAIN applied' = 1 .. Len(applied) + 1 /\ Len(applied) \in Nat
        BY <2>1, AppliedHistory, HistoryFacts
      <3>4. ASSUME NEW m \in DOMAIN applied', m \notin 1 .. Len(applied) PROVE m = Len(applied) + 1
        BY <3>3, <3>4
      <3>5. LET e == applied'[Len(applied) + 1]
            IN e.ts \in Nat /\ e.seeded \in BOOLEAN /\ IsBook(e.book)
        BY <2>1, <3>2, AppliedHistory
      <3> QED BY <3>1, <3>4, <3>5 DEF SeededTypeOK
    <2>3. since' \in Nat \cup {Null} /\ duration' \in Nat
      <3>1. head.ts \in Nat /\ LastTs \in Nat /\ LastTs <= head.ts
        BY <2>1, HistoryFacts DEF AppliesEvent, SeededTypeOK, StreamInv
      <3>2. since # Null => since \in Nat /\ since <= LastTs
        BY SinceBounded
      <3>3. since \in Nat \cup {Null} /\ duration \in Nat
        BY DEF SeededTypeOK
      <3>4. since # Null => duration + (head.ts - since) \in Nat
        BY <3>1, <3>2, <3>3
      <3>5. UpdateCrossed(head.ts)
        BY <2>1 DEF AppliesEvent
      <3>6. since' \in {since, head.ts, Null}
            /\ (duration' = duration \/ (since # Null /\ duration' = duration + (head.ts - since)))
        BY <3>5 DEF UpdateCrossed, crossVars
      <3> QED BY <3>1, <3>3, <3>4, <3>6
    <2>4. Sequence(applied')
      BY <2>1, AppliedHistory
    <2> QED BY <2>1, <2>2, <2>3, <2>4 DEF SeededTypeOK, AppliesEvent, coverVars, si
  <1>5. ASSUME Settle PROVE SeededTypeOK'
    <2>1. Sequence(runs')
      BY <1>5, Appending DEF Settle, SeededTypeOK
    <2>2. duration' \in Nat
      <3> DEFINE close == Max({LastTs} \cup ToSet(Grid))
      <3>1. close \in Nat /\ LastTs <= close
        BY HistoryFacts, CloseFacts
      <3>2. since # Null => since \in Nat /\ since <= LastTs
        BY SinceBounded
      <3>3. duration' = IF since = Null THEN duration ELSE duration + (close - since)
        BY <1>5 DEF Settle
      <3> HIDE DEF close
      <3> QED BY <3>1, <3>2, <3>3, HistoryFacts DEF SeededTypeOK
    <2> QED BY <1>5, <2>1, <2>2 DEF SeededTypeOK, Settle, bookVars, si
  <1> QED BY <1>1, <1>2, <1>3, <1>4, <1>5 DEF SeededNext

\* A step either applies the event read or leaves the events applied alone.
LEMMA HistoryStep ==
    ASSUME GridAssumption, StreamAssumption, SeededTypeOK, [SeededNext]_seededVars
    PROVE  AppliesEvent \/ UNCHANGED <<applied, bookVars>>
  <1>1. ASSUME ApplyDelta \/ ApplySnapshot PROVE AppliesEvent
    BY <1>1, ApplyApplies
  <1>2. Read \/ Exhausted \/ EmitSample \/ Settle \/ UNCHANGED seededVars
        => UNCHANGED <<applied, bookVars>>
    BY DEF Read, Exhausted, EmitSample, Settle, seededVars
  <1> QED BY <1>1, <1>2 DEF SeededNext

LEMMA StreamStep ==
    ASSUME GridAssumption, StreamAssumption, SeededTypeOK, StreamInv, SeededNext
    PROVE  StreamInv'
  <1>1. ASSUME Read PROVE StreamInv'
    <2>1. LastTs' = LastTs
      BY <1>1, SameHistory DEF Read
    <2>2. PICK t \in LastTs .. MaxTime : head'.ts = t
      BY <1>1 DEF Read, ReadDelta, ReadSnapshot
    <2>3. LastTs \in Nat /\ MaxTime \in Nat
      BY HistoryFacts DEF StreamAssumption
    <2> QED BY <1>1, <2>1, <2>2, <2>3 DEF StreamInv, Read, coverVars, si
  <1>2. ASSUME Exhausted PROVE StreamInv'
    BY <1>2, SameHistory DEF StreamInv, Exhausted, coverVars, si
  <1>3. ASSUME EmitSample PROVE StreamInv'
    BY <1>3, SameHistory DEF StreamInv, EmitSample
  <1>4. ASSUME ApplyDelta \/ ApplySnapshot PROVE StreamInv'
    <2>1. AppliesEvent
      BY <1>4, ApplyApplies
    <2>2. head.ts \in Nat /\ LastTs <= head.ts /\ LastTs \in Nat
      BY <2>1, HistoryFacts DEF AppliesEvent, SeededTypeOK, StreamInv
    <2>3. ASSUME NEW l \in DOMAIN applied', NEW m \in DOMAIN applied', l <= m
          PROVE  applied'[l].ts <= applied'[m].ts
      <3>1. l \in 1 .. Len(applied) + 1 /\ m \in 1 .. Len(applied) + 1 /\ Len(applied) \in Nat
        BY <2>1, AppliedHistory, HistoryFacts
      <3>2. CASE m <= Len(applied)
        <4>1. l \in 1 .. Len(applied) /\ m \in 1 .. Len(applied)
          BY <2>3, <3>1, <3>2
        <4>2. applied[l].ts <= applied[m].ts
          BY <2>3, <4>1, HistoryFacts DEF StreamInv
        <4> QED BY <2>1, <4>1, <4>2, AppliedHistory
      <3>3. CASE m = Len(applied) + 1
        <4>1. applied'[m].ts = head.ts
          BY <2>1, <3>3, AppliedHistory
        <4>2. CASE l = Len(applied) + 1
          BY <2>2, <3>3, <4>1, <4>2
        <4>3. CASE l <= Len(applied)
          <5>1. l \in 1 .. Len(applied) /\ Len(applied) \in 1 .. Len(applied)
            BY <3>1, <4>3
          <5>2. applied[l].ts <= applied[Len(applied)].ts /\ applied[l].ts \in Nat
            BY <5>1, <4>3, HistoryFacts DEF StreamInv
          <5>3. LastTs = applied[Len(applied)].ts
            BY <5>1, HistoryFacts
          <5>4. applied'[l] = applied[l]
            BY <2>1, <5>1, AppliedHistory
          <5> QED BY <2>2, <4>1, <5>2, <5>3, <5>4
        <4> QED BY <3>1, <4>2, <4>3
      <3> QED BY <3>1, <3>2, <3>3
    <2>4. head' = Null /\ ended' = ended /\ done' = done /\ ~ ended
      BY <2>1 DEF AppliesEvent, StreamInv
    <2>5. ~ done
      BY <2>4 DEF StreamInv
    <2> QED BY <2>3, <2>4, <2>5 DEF StreamInv
  <1>5. ASSUME Settle PROVE StreamInv'
    BY <1>5, SameHistory DEF StreamInv, Settle, si
  <1> QED BY <1>1, <1>2, <1>3, <1>4, <1>5 DEF SeededNext

LEMMA BookStep ==
    ASSUME GridAssumption, StreamAssumption, SeededTypeOK, BookInv, SeededNext
    PROVE  BookInv'
  <1>1. CASE AppliesEvent
    BY <1>1, AppliedHistory DEF BookInv
  <1>2. CASE UNCHANGED <<applied, bookVars>>
    BY <1>2 DEF BookInv, bookVars
  <1> QED BY <1>1, <1>2, HistoryStep

LEMMA GridStep ==
    ASSUME GridAssumption, StreamAssumption, SeededTypeOK, StreamInv, GridInv, SeededNext
    PROVE  GridInv'
  <1>0. si \in Nat /\ n \in Nat /\ si <= n /\ \A i \in 1 .. n : Grid[i] \in Nat
    BY SequenceFacts, GridFacts DEF SeededTypeOK, si
  <1>1. ASSUME Read PROVE GridInv'
    <2>1. LastTs' = LastTs /\ UNCHANGED <<frame, applied, ended>> /\ head = Null /\ ~ ended
      BY <1>1, SameHistory DEF Read, coverVars
    <2>2. PICK t \in LastTs .. MaxTime :
             \/ \E d \in BookDeltas : head' = [snap |-> FALSE, ts |-> t, item |-> d]
             \/ \E s \in Snaps : head' = [snap |-> TRUE, ts |-> t, item |-> s]
      BY <1>1 DEF Read, ReadDelta, ReadSnapshot
    <2>3. LastTs \in Nat /\ MaxTime \in Nat
      BY HistoryFacts DEF StreamAssumption
    <2>4. head'.ts = t /\ LastTs <= t /\ t \in Nat
      BY <2>2, <2>3
    <2>5. \A i \in 1 .. si : Grid[i] < LastTs
      BY <2>1 DEF GridInv
    <2>6. \A i \in 1 .. si : Grid[i] < t
      BY <1>0, <2>3, <2>4, <2>5
    <2> QED BY <2>1, <2>4, <2>5, <2>6 DEF GridInv, si
  <1>2. ASSUME Exhausted PROVE GridInv'
    BY <1>2 DEF GridInv, Exhausted, coverVars, si
  <1>3. ASSUME EmitSample PROVE GridInv'
    <2>1. si' = si + 1 /\ LastTs' = LastTs /\ UNCHANGED <<applied, head, ended>>
      BY <1>3, Appending, SameHistory DEF EmitSample, si, SeededTypeOK
    <2>2. \A g \in si + 2 .. n : \A m \in DOMAIN applied : applied[m].ts <= Grid[g]
      BY <1>0 DEF GridInv
    <2>3. ASSUME ~ ended, NEW i \in 1 .. si + 1
          PROVE  Grid[i] < (IF head = Null THEN LastTs ELSE head.ts)
      <3>1. CASE i = si + 1
        BY <1>3, <2>3, <3>1 DEF EmitSample, Due
      <3>2. CASE i # si + 1
        BY <1>0, <2>3, <3>2 DEF GridInv
      <3> QED BY <3>1, <3>2
    <2> QED BY <1>0, <2>1, <2>2, <2>3 DEF GridInv
  <1>4. ASSUME ApplyDelta \/ ApplySnapshot PROVE GridInv'
    <2>1. AppliesEvent
      BY <1>4, ApplyApplies
    <2>2. si' = si /\ head' = Null /\ LastTs' = head.ts /\ head # Null /\ ended' = ended
      BY <2>1, AppliedHistory DEF AppliesEvent, coverVars, si
    <2>3. ASSUME NEW g \in si + 1 .. n, NEW m \in DOMAIN applied'
          PROVE  applied'[m].ts <= Grid[g]
      <3>1. CASE m \in 1 .. Len(applied)
        BY <2>1, <3>1, AppliedHistory, HistoryFacts DEF GridInv
      <3>2. CASE m \notin 1 .. Len(applied)
        <4>1. m = Len(applied) + 1
          BY <2>1, <3>2, AppliedHistory, HistoryFacts
        <4>2. applied'[m].ts = head.ts
          BY <2>1, <4>1, AppliedHistory
        <4>3. si < n /\ si + 1 \in 1 .. n /\ g \in 1 .. n /\ si + 1 <= g
          BY <1>0
        <4>4. head.ts <= Grid[si + 1] /\ Grid[si + 1] <= Grid[g]
          BY <2>1, <4>3, GridFacts DEF AppliesEvent
        <4>5. head.ts \in Nat /\ Grid[si + 1] \in Nat /\ Grid[g] \in Nat
          BY <1>0, <2>2, <4>3 DEF SeededTypeOK
        <4> QED BY <4>2, <4>4, <4>5
      <3> QED BY <3>1, <3>2
    <2> QED BY <2>2, <2>3 DEF GridInv
  <1>5. ASSUME Settle PROVE GridInv'
    BY <1>5 DEF GridInv, Settle, si
  <1> QED BY <1>1, <1>2, <1>3, <1>4, <1>5 DEF SeededNext

\* Of the events up to a time there is a last one.
LEMMA UpToMax ==
    ASSUME SeededTypeOK, NEW t, {m \in DOMAIN applied : applied[m].ts <= t} # {}
    PROVE  Max({m \in DOMAIN applied : applied[m].ts <= t}) \in 1 .. Len(applied)
  <1> DEFINE S == {m \in DOMAIN applied : applied[m].ts <= t}
  <1>1. DOMAIN applied = 1 .. Len(applied) /\ Len(applied) \in Nat
    BY HistoryFacts
  <1>2. S \subseteq 1 .. Len(applied) /\ S # {}
    BY <1>1
  <1>3. IsFiniteSet(S) /\ S \subseteq Nat
    <2>1. IsFiniteSet(1 .. Len(applied))
      BY <1>1, FS_Interval
    <2> HIDE DEF S
    <2>2. IsFiniteSet(S)
      BY <1>2, <2>1, FS_Subset
    <2>3. S \subseteq Nat
      BY <1>1, <1>2
    <2> QED BY <2>2, <2>3
  <1> HIDE DEF S
  <1>4. Max(S) \in S
    BY <1>2, <1>3, MaxOfFinite
  <1> QED BY <1>2, <1>4 DEF S

\* A sample is taken of the book the last event before it left, and no later
\* event is at or before its time.
LEMMA SampleStep ==
    ASSUME GridAssumption, StreamAssumption, SeededTypeOK, StreamInv, BookInv, GridInv,
           SamplesAreAsOf, SeededNext
    PROVE  SamplesAreAsOf'
  <1> DEFINE upTo(h, i) == {m \in DOMAIN h : h[m].ts <= Grid[i]}
             asOf(h, i) == Snapshot(IF upTo(h, i) = {} THEN EmptyBook
                                    ELSE h[Max(upTo(h, i))].book, Depth)
  <1>0. /\ si \in Nat /\ n \in Nat /\ si <= n /\ \A i \in 1 .. n : Grid[i] \in Nat
        /\ DOMAIN frame = 1 .. si
    BY SequenceFacts, GridFacts DEF SeededTypeOK, si
  <1>1. \A i \in 1 .. si : frame[i] = asOf(applied, i)
    BY <1>0 DEF SamplesAreAsOf
  <1>2. ASSUME ApplyDelta \/ ApplySnapshot PROVE SamplesAreAsOf'
    <2>1. AppliesEvent
      BY <1>2, ApplyApplies
    <2>2. frame' = frame /\ ~ ended /\ head # Null /\ head.ts \in Nat
      BY <2>1 DEF AppliesEvent, coverVars, StreamInv, SeededTypeOK
    <2>3. ASSUME NEW i \in 1 .. si PROVE asOf(applied', i) = asOf(applied, i)
      <3>1. Grid[i] < head.ts /\ Grid[i] \in Nat
        BY <1>0, <2>2 DEF GridInv
      <3>2. upTo(applied', i) = upTo(applied, i)
        <4>1. ASSUME NEW m \in DOMAIN applied', applied'[m].ts <= Grid[i]
              PROVE  m \in 1 .. Len(applied)
          <5>1. SUFFICES ASSUME m = Len(applied) + 1 PROVE FALSE
            BY <2>1, AppliedHistory, HistoryFacts
          <5>2. applied'[m].ts = head.ts
            BY <2>1, <5>1, AppliedHistory
          <5> QED BY <2>2, <3>1, <4>1, <5>2
        <4>2. /\ DOMAIN applied = 1 .. Len(applied)
              /\ \A m \in 1 .. Len(applied) : m \in DOMAIN applied' /\ applied'[m] = applied[m]
          BY <2>1, AppliedHistory, HistoryFacts
        <4> QED BY <4>1, <4>2
      <3>3. CASE upTo(applied, i) = {}
        BY <3>2, <3>3
      <3>4. CASE upTo(applied, i) # {}
        <4>1. Max(upTo(applied, i)) \in 1 .. Len(applied)
          BY <3>4, UpToMax
        <4>2. applied'[Max(upTo(applied, i))] = applied[Max(upTo(applied, i))]
          <5> HIDE DEF upTo
          <5> QED BY <2>1, <4>1, AppliedHistory
        <4> HIDE DEF upTo
        <4> QED BY <3>2, <3>4, <4>2
      <3> QED BY <3>3, <3>4
    <2> HIDE DEF asOf
    <2>4. \A i \in 1 .. si : frame'[i] = asOf(applied', i)
      BY <1>1, <2>2, <2>3
    <2> QED BY <1>0, <2>2, <2>4 DEF SamplesAreAsOf, asOf
  <1>3. ASSUME EmitSample PROVE SamplesAreAsOf'
    <2>1. /\ applied' = applied /\ DOMAIN frame' = 1 .. si + 1 /\ si < n
          /\ \A i \in 1 .. si : frame'[i] = frame[i]
          /\ frame'[si + 1] = Snapshot(book, Depth)
      BY <1>3, Appending DEF EmitSample, si, SeededTypeOK
    <2>2. upTo(applied, si + 1) = DOMAIN applied
      <3>1. si + 1 \in si + 1 .. n
        BY <1>0, <2>1
      <3>2. \A m \in DOMAIN applied : applied[m].ts <= Grid[si + 1]
        BY <3>1 DEF GridInv
      <3> QED BY <3>2
    <2>3. asOf(applied, si + 1) = Snapshot(book, Depth)
      <3>1. CASE applied = << >>
        <4>1. DOMAIN applied = {}
          BY <3>1, EmptySequence
        <4>2. book = EmptyBook
          BY <3>1 DEF BookInv
        <4> QED BY <2>2, <4>1, <4>2
      <3>2. CASE applied # << >>
        <4>1. Len(applied) \in DOMAIN applied /\ DOMAIN applied = 1 .. Len(applied) /\ Len(applied) \in Nat
          BY <3>2, HistoryFacts
        <4>2. Max(DOMAIN applied) = Len(applied)
          <5>1. DOMAIN applied \subseteq Nat /\ \A m \in DOMAIN applied : m <= Len(applied)
            BY <4>1
          <5> QED BY <4>1, <5>1, MaxIs
        <4>3. book = applied[Len(applied)].book
          BY <3>2 DEF BookInv, Last
        <4> HIDE DEF upTo
        <4> QED BY <2>2, <4>1, <4>2, <4>3
      <3> QED BY <3>1, <3>2
    <2> HIDE DEF asOf
    <2>4. \A i \in 1 .. si + 1 : frame'[i] = asOf(applied, i)
      <3>1. ASSUME NEW i \in 1 .. si + 1 PROVE i \in 1 .. si \/ i = si + 1
        BY <1>0
      <3> QED BY <1>1, <2>1, <2>3, <3>1
    <2> QED BY <2>1, <2>4 DEF SamplesAreAsOf, asOf
  <1>4. ASSUME Read \/ Exhausted \/ Settle PROVE SamplesAreAsOf'
    BY <1>4 DEF Read, Exhausted, Settle, coverVars, SamplesAreAsOf
  <1> QED BY <1>2, <1>3, <1>4 DEF SeededNext

\* The crossing under way starts with the event that crosses an uncrossed book
\* and ends with one that uncrosses it.
LEMMA EpisodeStep ==
    ASSUME GridAssumption, StreamAssumption, SeededTypeOK, BookInv, EpisodeInv, SeededNext
    PROVE  EpisodeInv'
  <1> DEFINE L == Len(applied)
  <1>0. L \in Nat /\ DOMAIN applied = 1 .. L /\ (applied = << >> <=> L = 0)
    BY HistoryFacts
  <1>1. ASSUME ApplyDelta \/ ApplySnapshot PROVE EpisodeInv'
    <2>1. AppliesEvent
      BY <1>1, ApplyApplies
    <2>2. /\ Len(applied') = L + 1 /\ DOMAIN applied' = 1 .. L + 1 /\ applied' # << >>
          /\ \A m \in 1 .. L : applied'[m] = applied[m] /\ (CrossedAt(m)' <=> CrossedAt(m))
          /\ applied'[L + 1].ts = head.ts
          /\ CrossedAt(Len(applied))' <=> seeded' /\ Crossed(book')
      BY <2>1, AppliedHistory
    <2>3. /\ seeded \in BOOLEAN /\ seeded' \in BOOLEAN /\ (seeded => seeded')
          /\ UpdateCrossed(head.ts) /\ head.ts \in Nat /\ Null \notin Nat
      BY <2>1 DEF AppliesEvent, SeededTypeOK, StreamAssumption
    <2>4. CASE ~ seeded'
      <3>1. L > 0 => ~ CrossedAt(L)
        BY <1>0, <2>3, <2>4 DEF BookInv, CrossedAt, Last
      <3>2. since = Null /\ since' = Null
        BY <1>0, <2>3, <2>4, <3>1 DEF EpisodeInv, UpdateCrossed, crossVars
      <3> QED BY <2>2, <2>4, <3>2 DEF EpisodeInv
    <2>5. CASE seeded' /\ ~ Crossed(book')
      <3>1. since' = Null
        BY <2>3, <2>5 DEF UpdateCrossed
      <3> QED BY <2>2, <2>5, <3>1 DEF EpisodeInv
    <2>6. CASE seeded' /\ Crossed(book') /\ since = Null
      <3>1. since' = head.ts
        BY <2>3, <2>6 DEF UpdateCrossed
      <3>2. L > 0 => ~ CrossedAt(L)
        BY <1>0, <2>6 DEF EpisodeInv
      <3>3. /\ L + 1 \in DOMAIN applied' /\ since' = applied'[L + 1].ts
            /\ \A l \in L + 1 .. Len(applied') : CrossedAt(l)'
            /\ L + 1 > 1 => \A m : m = L + 1 - 1 => ~ CrossedAt(m)'
        <4>1. \A l \in L + 1 .. Len(applied') : l = Len(applied')
          BY <1>0, <2>2
        <4>2. \A l : l = Len(applied') => CrossedAt(l)'
          BY <2>2, <2>6 DEF CrossedAt
        <4>3. ASSUME L + 1 > 1, NEW m, m = L + 1 - 1 PROVE ~ CrossedAt(m)'
          <5>1. m = L /\ m \in 1 .. L
            BY <1>0, <4>3
          <5> QED BY <2>2, <3>2, <5>1
        <4> QED BY <1>0, <2>2, <3>1, <4>1, <4>2, <4>3
      <3>4. ASSUME NEW j, j = L + 1 PROVE Began(j)'
        BY <3>3, <3>4 DEF Began, CrossedAt
      <3>5. \E j \in DOMAIN applied' : Began(j)'
        BY <3>3, <3>4
      <3> QED BY <2>2, <2>3, <2>6, <3>1, <3>5 DEF EpisodeInv
    <2>7. CASE seeded' /\ Crossed(book') /\ since # Null
      <3>1. since' = since
        BY <2>3, <2>7 DEF UpdateCrossed
      <3>2. PICK j \in DOMAIN applied : Began(j)
        BY <2>7 DEF EpisodeInv
      <3>3. j \in 1 .. L
        BY <1>0, <3>2
      <3>4. since' = applied'[j].ts
        BY <2>2, <3>1, <3>2, <3>3 DEF Began
      <3>5. ASSUME NEW l \in j .. Len(applied') PROVE CrossedAt(l)'
        <4>1. CASE l = Len(applied')
          BY <2>2, <2>7, <4>1 DEF CrossedAt
        <4>2. CASE l # Len(applied')
          <5>1. l \in j .. L /\ l \in 1 .. L
            BY <1>0, <2>2, <3>3, <4>2
          <5> QED BY <2>2, <3>2, <5>1 DEF Began
        <4> QED BY <4>1, <4>2
      <3>6. ASSUME j > 1, NEW m, m = j - 1 PROVE ~ CrossedAt(m)'
        <4>1. m \in 1 .. L
          BY <1>0, <3>3, <3>6
        <4> QED BY <2>2, <3>2, <3>6, <4>1 DEF Began
      <3>7. Began(j)'
        BY <3>4, <3>5, <3>6 DEF Began, CrossedAt
      <3>8. j \in DOMAIN applied'
        BY <1>0, <2>2, <3>3
      <3> QED BY <2>2, <2>3, <2>7, <3>1, <3>7, <3>8 DEF EpisodeInv
    <2> QED BY <2>4, <2>5, <2>6, <2>7
  <1>2. ASSUME Read \/ Exhausted \/ EmitSample \/ Settle PROVE EpisodeInv'
    <2>1. UNCHANGED <<applied, since>>
      BY <1>2 DEF Read, Exhausted, EmitSample, Settle, crossVars
    <2>2. \A m : CrossedAt(m)' <=> CrossedAt(m)
      BY <2>1, SameHistory
    <2>3. CrossedAt(Len(applied))' <=> CrossedAt(Len(applied))
      BY <2>1 DEF CrossedAt
    <2>4. \A j : Began(j)' <=> Began(j)
      BY <2>1, <2>2 DEF Began, CrossedAt
    <2> QED BY <2>1, <2>3, <2>4 DEF EpisodeInv
  <1> QED BY <1>1, <1>2 DEF SeededNext

\* A crossing that has lasted for the tolerance is the one under way.
LEMMA StuckIsOverdue ==
    ASSUME GridAssumption, SeededTypeOK, StreamInv, EpisodeInv, NEW t \in Nat
    PROVE  (since # Null /\ t - since >= Tolerance) <=>
              \E j \in 1 .. Len(applied) :
                 /\ t - applied[j].ts >= Tolerance
                 /\ \A l \in j .. Len(applied) : CrossedAt(l)
  <1> DEFINE L == Len(applied)
  <1>0. L \in Nat /\ DOMAIN applied = 1 .. L /\ (applied = << >> <=> L = 0)
        /\ \A m \in 1 .. L : applied[m].ts \in Nat
    BY HistoryFacts
  <1>1. ASSUME since # Null, t - since >= Tolerance
        PROVE  \E j \in 1 .. L : t - applied[j].ts >= Tolerance /\ \A l \in j .. L : CrossedAt(l)
    <2>1. PICK j \in 1 .. L : Began(j)
      BY <1>0, <1>1 DEF EpisodeInv
    <2> QED BY <1>1, <2>1 DEF Began
  <1>2. ASSUME NEW j \in 1 .. L, t - applied[j].ts >= Tolerance, \A l \in j .. L : CrossedAt(l)
        PROVE  since # Null /\ t - since >= Tolerance
    <2>1. L \in j .. L /\ L \in 1 .. L
      BY <1>0
    <2>2. since # Null
      BY <1>0, <1>2, <2>1 DEF EpisodeInv
    <2>3. PICK b \in 1 .. L : Began(b)
      BY <1>0, <2>2 DEF EpisodeInv
    <2>4. b <= j
      <3>1. SUFFICES ASSUME j < b PROVE FALSE
        BY <1>0
      <3>2. b > 1 /\ b - 1 \in j .. L
        BY <1>0, <3>1
      <3> QED BY <1>2, <2>3, <3>2 DEF Began
    <2>5. applied[b].ts <= applied[j].ts /\ since = applied[b].ts
      BY <1>0, <2>3, <2>4 DEF StreamInv, Began
    <2>6. since \in Nat /\ applied[j].ts \in Nat /\ since <= applied[j].ts /\ Tolerance \in Nat
      BY <1>0, <2>3, <2>5 DEF GridAssumption
    <2> QED BY <1>2, <2>2, <2>6
  <1> QED BY <1>1, <1>2

LEMMA ReseedStep ==
    ASSUME GridAssumption, StreamAssumption, SeededTypeOK, StreamInv, BookInv, EpisodeInv,
           ReseedsExactlyWhenStuck, SeededNext
    PROVE  ReseedsExactlyWhenStuck'
  <1> DEFINE L == Len(applied)
  <1>0. L \in Nat /\ DOMAIN applied = 1 .. L /\ (applied = << >> <=> L = 0)
    BY HistoryFacts
  <1>1. ASSUME ApplyDelta \/ ApplySnapshot PROVE ReseedsExactlyWhenStuck'
    <2>1. AppliesEvent
      BY <1>1, ApplyApplies
    <2>2. /\ DOMAIN applied' = 1 .. L + 1
          /\ \A m \in 1 .. L : applied'[m] = applied[m] /\ (CrossedAt(m)' <=> CrossedAt(m))
          /\ LET e == applied'[L + 1]
             IN e.snap = head.snap /\ e.ts = head.ts /\ e.item = head.item /\ e.book = book'
      BY <2>1, AppliedHistory
    <2>3. enabled' = enabled /\ head.ts \in Nat
      BY <2>1 DEF AppliesEvent, SeededTypeOK
    <2> DEFINE says(h, m, sb, st, bb) ==
                  h[m].snap => h[m].book = IF ValidSnapshot(h[m].item) /\ (~ sb \/ (enabled /\ st))
                                           THEN Levels(h[m].item) ELSE bb
    <2>4. ASSUME NEW m \in 1 .. L + 1
          PROVE  /\ BookBefore(m)' = IF m = 1 THEN EmptyBook ELSE applied[m - 1].book
                 /\ SeededBefore(m)' = (m > 1 /\ applied[m - 1].seeded)
                 /\ StuckBefore(m)' = \E j \in 1 .. m - 1 :
                                          /\ applied'[m].ts - applied[j].ts >= Tolerance
                                          /\ \A l \in j .. m - 1 : CrossedAt(l)
      <3>1. \A j \in 1 .. m - 1 : j \in 1 .. L
        BY <1>0
      <3>2. m # 1 => m - 1 \in 1 .. L
        BY <1>0
      <3>3. m > 1 => m # 1
        OBVIOUS
      <3>4. BookBefore(m)' = IF m = 1 THEN EmptyBook ELSE applied[m - 1].book
        BY <2>2, <3>2 DEF BookBefore
      <3>5. SeededBefore(m)' = (m > 1 /\ applied[m - 1].seeded)
        BY <2>2, <3>2, <3>3 DEF SeededBefore
      <3>6. \A j \in 1 .. m - 1 : \A l \in j .. m - 1 : l \in 1 .. L
        BY <1>0
      <3>7. \A j \in 1 .. m - 1 : (\A l \in j .. m - 1 : CrossedAt(l)')
                                   <=> (\A l \in j .. m - 1 : CrossedAt(l))
        BY <2>2, <3>6
      <3>8. \A j \in 1 .. m - 1 : applied'[j] = applied[j]
        BY <2>2, <3>1
      <3>9. StuckBefore(m)' <=> \E j \in 1 .. m - 1 :
                                    /\ applied'[m].ts - applied'[j].ts >= Tolerance
                                    /\ \A l \in j .. m - 1 : CrossedAt(l)'
        BY DEF StuckBefore, CrossedAt
      <3> QED BY <3>4, <3>5, <3>7, <3>8, <3>9 DEF StuckBefore
    <2>5. ASSUME NEW m \in 1 .. L
          PROVE  says(applied', m, SeededBefore(m)', StuckBefore(m)', BookBefore(m)')
      <3>1. says(applied, m, SeededBefore(m), StuckBefore(m), BookBefore(m))
        BY <1>0 DEF ReseedsExactlyWhenStuck
      <3>2. applied'[m] = applied[m] /\ m \in 1 .. L + 1
        BY <1>0, <2>2
      <3>3. BookBefore(m)' = BookBefore(m) /\ (SeededBefore(m)' <=> SeededBefore(m))
            /\ (StuckBefore(m)' <=> StuckBefore(m))
        BY <2>4, <3>2 DEF BookBefore, SeededBefore, StuckBefore
      <3> QED BY <3>1, <3>2, <3>3
    <2>6. ASSUME NEW m, m = L + 1
          PROVE  says(applied', m, SeededBefore(m)', StuckBefore(m)', BookBefore(m)')
      <3>1. m \in 1 .. L + 1 /\ m - 1 = L
        BY <1>0, <2>6
      <3>2. BookBefore(m)' = book /\ (SeededBefore(m)' <=> seeded)
        <4> DEFINE past == applied[m - 1]
        <4>1. /\ BookBefore(m)' = IF m = 1 THEN EmptyBook ELSE past.book
              /\ SeededBefore(m)' <=> m > 1 /\ past.seeded
          BY <2>4, <3>1
        <4>2. past = applied[L]
          BY <3>1
        <4>3. (m = 1 <=> L = 0) /\ (m > 1 <=> L # 0)
          BY <1>0, <2>6
        <4> HIDE DEF past
        <4>4. CASE L = 0
          <5>1. book = EmptyBook /\ seeded = FALSE
            BY <1>0, <4>4 DEF BookInv
          <5> QED BY <4>1, <4>3, <4>4, <5>1
        <4>5. CASE L # 0
          <5>1. book = past.book /\ seeded = past.seeded
            BY <1>0, <4>2, <4>5 DEF BookInv, Last
          <5> QED BY <4>1, <4>3, <4>5, <5>1
        <4> QED BY <4>4, <4>5
      <3>4. StuckBefore(m)' <=> since # Null /\ head.ts - since >= Tolerance
        <4>1. StuckBefore(m)' <=> \E j \in 1 .. L : /\ head.ts - applied[j].ts >= Tolerance
                                                    /\ \A l \in j .. L : CrossedAt(l)
          BY <2>2, <2>4, <2>6, <3>1
        <4> QED BY <2>3, <4>1, StuckIsOverdue
      <3>5. ASSUME head.snap
            PROVE  book' = IF ValidSnapshot(head.item) /\ (~ seeded \/ Overdue(head.ts))
                           THEN Levels(head.item) ELSE book
        BY <1>1, <3>5 DEF ApplyDelta, ApplySnapshot
      <3>6. Overdue(head.ts) <=> enabled /\ StuckBefore(m)'
        BY <3>4 DEF Overdue
      <3>7. applied'[m].snap = head.snap /\ applied'[m].item = head.item
            /\ applied'[m].book = book'
        BY <2>2, <2>6
      <3> QED BY <3>2, <3>5, <3>6, <3>7
    <2>7. ASSUME NEW m \in DOMAIN applied' PROVE m \in 1 .. L \/ m = L + 1
      BY <1>0, <2>2
    <2>8. \A m \in DOMAIN applied' :
             says(applied', m, SeededBefore(m)', StuckBefore(m)', BookBefore(m)')
      <3> HIDE DEF says
      <3> QED BY <2>5, <2>6, <2>7
    <2> QED BY <2>3, <2>8 DEF ReseedsExactlyWhenStuck, SeededBefore, StuckBefore, BookBefore,
                              CrossedAt, ValidSnapshot
  <1>2. ASSUME Read \/ Exhausted \/ EmitSample \/ Settle PROVE ReseedsExactlyWhenStuck'
    <2>1. UNCHANGED <<applied, enabled>>
      BY <1>2 DEF Read, Exhausted, EmitSample, Settle
    <2> QED BY <2>1 DEF ReseedsExactlyWhenStuck, SeededBefore, StuckBefore, BookBefore, CrossedAt
  <1> QED BY <1>1, <1>2 DEF SeededNext

LEMMA LastIndex == ASSUME NEW k \in Nat PROVE \A m \in 1 .. k : m \in 1 .. k - 1 \/ m = k
  OBVIOUS

\* One more event adds the time the last one held a crossed book.
LEMMA DurationStep ==
    ASSUME GridAssumption, StreamAssumption, SeededTypeOK, StreamInv, BookInv, EpisodeInv,
           DurationInv, SeededNext
    PROVE  DurationInv'
  <1> DEFINE L == Len(applied)
             C == {m \in 1 .. L - 1 : CrossedAt(m)}
             pending == IF since = Null THEN 0 ELSE LastTs - since
  <1>0. /\ L \in Nat /\ DOMAIN applied = 1 .. L /\ (applied = << >> <=> L = 0)
        /\ \A m \in 1 .. L : applied[m].ts \in Nat
        /\ applied # << >> => LastTs = applied[L].ts
        /\ LastTs \in Nat
    BY HistoryFacts
  <1>1. IsFiniteSet(C)
    <2>1. L - 1 \in Int
      BY <1>0
    <2>2. IsFiniteSet(1 .. L - 1)
      BY <2>1, FS_Interval
    <2> QED BY <2>2, FS_Subset
  <1>2. since # Null => since \in Nat /\ since <= LastTs
    BY SinceBounded
  <1>3. duration \in Nat /\ Null \notin Nat
    BY DEF SeededTypeOK, StreamAssumption
  <1>4. \A m \in 1 .. L - 1 : /\ m \in 1 .. L /\ m + 1 \in 1 .. L /\ m <= m + 1
                              /\ applied[m].ts \in Nat /\ applied[m + 1].ts \in Nat
                              /\ applied[m].ts <= applied[m + 1].ts
    <2>1. ASSUME NEW m \in 1 .. L - 1
          PROVE  m \in 1 .. L /\ m + 1 \in 1 .. L /\ m <= m + 1
      BY <1>0
    <2> QED BY <1>0, <2>1 DEF StreamInv
  <1>5. ASSUME NEW m \in C PROVE Held[m] = applied[m + 1].ts - applied[m].ts /\ Held[m] \in Nat
    <2>1. m < L /\ m \in DOMAIN applied
      BY <1>0, <1>4
    <2>2. Held[m] = applied[m + 1].ts - applied[m].ts
      BY <2>1 DEF Held, Until
    <2> QED BY <1>4, <2>2
  <1>6. ASSUME ApplyDelta \/ ApplySnapshot PROVE DurationInv'
    <2>1. AppliesEvent
      BY <1>6, ApplyApplies
    <2>2. /\ Len(applied') = L + 1 /\ DOMAIN applied' = 1 .. L + 1 /\ applied' # << >>
          /\ \A m \in 1 .. L : applied'[m] = applied[m] /\ (CrossedAt(m)' <=> CrossedAt(m))
          /\ applied'[L + 1].ts = head.ts
          /\ CrossedAt(Len(applied))' <=> seeded' /\ Crossed(book')
          /\ LastTs' = head.ts
      BY <2>1, AppliedHistory
    <2>3. /\ ~ done /\ ~ done' /\ UpdateCrossed(head.ts) /\ head.ts \in Nat /\ LastTs <= head.ts
      BY <2>1 DEF AppliesEvent, StreamInv, SeededTypeOK
    <2>4. duration + pending = SumFunctionOnSet(Held, C)
      BY <2>3 DEF DurationInv
    <2>5. \A m \in 1 .. L : Held'[m] = applied'[m + 1].ts - applied[m].ts
      <3>1. ASSUME NEW m \in 1 .. L PROVE m \in DOMAIN applied' /\ m < Len(applied')
        BY <1>0, <2>2
      <3> QED BY <2>2, <3>1 DEF Held, Until
    <2>6. \A m \in C : Held'[m] = Held[m]
      BY <1>4, <1>5, <2>2, <2>5
    <2>7. SumFunctionOnSet(Held', C) = SumFunctionOnSet(Held, C)
      <3> HIDE DEF C
      <3> QED BY <1>1, <2>6, SumSame
    <2>8. {m \in 1 .. Len(applied') - 1 : CrossedAt(m)'} =
             IF L \in 1 .. L /\ CrossedAt(L) THEN C \cup {L} ELSE C
      <3>1. 1 .. Len(applied') - 1 = 1 .. L
        BY <1>0, <2>2
      <3>2. \A m \in 1 .. L : m \in 1 .. L - 1 \/ m = L
        BY <1>0, LastIndex
      <3> QED BY <1>4, <2>2, <3>1, <3>2
    <2>9. DurationInv' <=>
             duration' + (IF since' = Null THEN 0 ELSE LastTs' - since') =
                SumFunctionOnSet(Held', {m \in 1 .. Len(applied') - 1 : CrossedAt(m)'})
      BY <2>3 DEF DurationInv
    <2>10. since # Null <=> L \in 1 .. L /\ CrossedAt(L)
      <3>1. L \in 1 .. L <=> applied # << >>
        BY <1>0
      <3> QED BY <3>1 DEF EpisodeInv
    <2>11. CASE since = Null
      <3>1. duration' = duration /\ since' \in {Null, head.ts}
        BY <2>3, <2>11 DEF UpdateCrossed, crossVars
      <3>2. duration' + (IF since' = Null THEN 0 ELSE LastTs' - since') = duration
        BY <1>3, <2>2, <2>3, <3>1
      <3>3. {m \in 1 .. Len(applied') - 1 : CrossedAt(m)'} = C
        BY <2>8, <2>10, <2>11
      <3>4. duration + pending = duration
        BY <1>3, <2>11
      <3> HIDE DEF C, pending
      <3> QED BY <2>4, <2>7, <2>9, <3>2, <3>3, <3>4
    <2>12. CASE since # Null
      <3>1. SumFunctionOnSet(Held', C \cup {L}) = (head.ts - LastTs) + SumFunctionOnSet(Held', C)
        <4>1. L \in 1 .. L /\ L \notin C /\ LastTs = applied[L].ts
          BY <1>0, <2>10, <2>12
        <4>2. Held'[L] = head.ts - LastTs
          BY <2>2, <2>5, <4>1
        <4>3. \A y \in C \cup {L} : Held'[y] \in Nat
          <5>1. head.ts - LastTs \in Nat
            BY <1>0, <2>3
          <5> HIDE DEF C, L
          <5> QED BY <1>5, <2>6, <4>2, <5>1
        <4> HIDE DEF C
        <4> QED BY <1>1, <4>1, <4>2, <4>3, SumInsert
      <3>2. duration' + (IF since' = Null THEN 0 ELSE LastTs' - since') =
               duration + (head.ts - since)
        <4>1. seeded'
          <5>1. CrossedAt(L) /\ applied # << >>
            BY <2>12 DEF EpisodeInv
          <5>2. seeded
            BY <5>1 DEF BookInv, CrossedAt, Last
          <5> QED BY <2>1, <5>2 DEF AppliesEvent
        <4>2. CASE Crossed(book')
          <5>1. since' = since /\ duration' = duration
            BY <2>3, <2>12, <4>1, <4>2 DEF UpdateCrossed
          <5> QED BY <2>2, <2>12, <5>1
        <4>3. CASE ~ Crossed(book')
          <5>1. since' = Null /\ duration' = duration + (head.ts - since)
            BY <2>3, <2>12, <4>1, <4>3 DEF UpdateCrossed
          <5> QED BY <1>2, <1>3, <2>3, <2>12, <5>1
        <4> QED BY <4>2, <4>3
      <3>3. duration + (head.ts - since) = (head.ts - LastTs) + (duration + pending)
        BY <1>0, <1>2, <1>3, <2>3, <2>12
      <3> QED BY <2>4, <2>7, <2>8, <2>9, <2>10, <2>12, <3>1, <3>2, <3>3
    <2> QED BY <2>11, <2>12
  <1>7. ASSUME Settle PROVE DurationInv'
    <2> DEFINE close == Max({LastTs} \cup ToSet(Grid))
    <2>1. UNCHANGED applied /\ ~ done /\ done'
          /\ duration' = IF since = Null THEN duration ELSE duration + (close - since)
      BY <1>7 DEF Settle
    <2>2. CrossedTime' = CrossedTime
      BY <2>1, SameHistory
    <2>3. duration + pending = SumFunctionOnSet(Held, C)
      BY <2>1 DEF DurationInv
    <2>4. CrossedTime = SumFunctionOnSet(Held, {m \in 1 .. L : CrossedAt(m)})
      BY <1>0 DEF CrossedTime, Held
    <2>5. {m \in 1 .. L : CrossedAt(m)} = IF since = Null THEN C ELSE C \cup {L}
      <3>1. \A m \in 1 .. L : m \in 1 .. L - 1 \/ m = L
        BY <1>0, LastIndex
      <3>2. since # Null <=> L \in 1 .. L /\ CrossedAt(L)
        <4>1. L \in 1 .. L <=> applied # << >>
          BY <1>0
        <4> QED BY <4>1 DEF EpisodeInv
      <3> QED BY <1>4, <3>1, <3>2
    <2>6. CASE since = Null
      <3>1. duration + pending = duration
        BY <1>3, <2>6
      <3> HIDE DEF C, pending, close
      <3> QED BY <2>1, <2>2, <2>3, <2>4, <2>5, <2>6, <3>1 DEF DurationInv
    <2>7. CASE since # Null
      <3>1. close \in Nat /\ LastTs <= close
        BY CloseFacts
      <3>2. L \in 1 .. L /\ L \notin C /\ LastTs = applied[L].ts
        BY <1>0, <2>7 DEF EpisodeInv
      <3>3. Held[L] = close - LastTs
        BY <1>0, <3>2 DEF Held, Until
      <3>4. \A y \in C \cup {L} : Held[y] \in Nat
        <4>1. close - LastTs \in Nat
          <5> HIDE DEF close
          <5> QED BY <1>0, <3>1
        <4> HIDE DEF C, L, close
        <4> QED BY <1>5, <3>3, <4>1
      <3>5. SumFunctionOnSet(Held, C \cup {L}) = (close - LastTs) + SumFunctionOnSet(Held, C)
        <4> HIDE DEF C, close
        <4> QED BY <1>1, <3>2, <3>3, <3>4, SumInsert
      <3>6. duration + (close - since) = (close - LastTs) + (duration + pending)
        <4> HIDE DEF close
        <4> QED BY <1>0, <1>2, <1>3, <2>7, <3>1
      <3> HIDE DEF close, C, pending
      <3> QED BY <2>1, <2>2, <2>3, <2>4, <2>5, <2>7, <3>5, <3>6 DEF DurationInv
    <2> QED BY <2>6, <2>7
  <1>8. ASSUME Read \/ Exhausted \/ EmitSample PROVE DurationInv'
    <2>1. UNCHANGED <<applied, since, duration, done>>
      BY <1>8 DEF Read, Exhausted, EmitSample, crossVars
    <2>2. LastTs' = LastTs /\ Held' = Held /\ CrossedTime' = CrossedTime
          /\ \A m : CrossedAt(m)' <=> CrossedAt(m)
      BY <2>1, SameHistory
    <2>3. {m \in 1 .. Len(applied') - 1 : CrossedAt(m)'} = C
      BY <2>1, <2>2
    <2> QED BY <2>1, <2>2, <2>3 DEF DurationInv
  <1> QED BY <1>6, <1>7, <1>8 DEF SeededNext

\* What the sample taken adds to the frame.
LEMMA EmittedSample ==
    ASSUME GridAssumption, SeededTypeOK, EmitSample
    PROVE  /\ si \in Nat /\ si' = si + 1
           /\ \A i \in 0 .. si - 1 : frame'[i + 1] = frame[i + 1]
           /\ Valid(frame'[si + 1]) <=> Valid(book)
           /\ TwoSided(frame'[si + 1]) <=> TwoSided(book)
           /\ \A i \in 0 .. si' - 1 : i \in 0 .. si - 1 \/ i = si
           /\ \A i \in 0 .. si - 1 : i \in 0 .. si' - 1
           /\ si \in 0 .. si' - 1
  <1>1. /\ si \in Nat /\ si' = si + 1 /\ \A i \in 1 .. si : frame'[i] = frame[i]
        /\ frame'[si + 1] = Snapshot(book, Depth)
    BY Appending, SequenceFacts DEF EmitSample, SeededTypeOK, si
  <1>2. /\ Valid(frame'[si + 1]) <=> Valid(book)
        /\ TwoSided(frame'[si + 1]) <=> TwoSided(book)
    BY <1>1, SnapshotKeeps DEF SeededTypeOK, GridAssumption
  <1>3. ASSUME NEW i \in 0 .. si - 1 PROVE i + 1 \in 1 .. si /\ i \in 0 .. si
    BY <1>1
  <1>4. \A i \in 0 .. si : i \in 0 .. si - 1 \/ i = si
    BY <1>1
  <1>5. si' - 1 = si /\ si \in 0 .. si
    BY <1>1
  <1> QED BY <1>1, <1>2, <1>3, <1>4, <1>5

\* The run under way counts as one that ends with the last sample.
LEMMA AllRunsFacts ==
    ASSUME SeededTypeOK
    PROVE  /\ Len(runs) \in Nat /\ DOMAIN runs = 1 .. Len(runs)
           /\ open = Null \/ done => AllRuns = runs
           /\ open # Null /\ ~ done =>
                 /\ DOMAIN AllRuns = 1 .. Len(runs) + 1
                 /\ AllRuns[Len(runs) + 1] = <<open, si>>
                 /\ \A r \in 1 .. Len(runs) : AllRuns[r] = runs[r]
  <1>1. Sequence(runs)
    BY DEF SeededTypeOK
  <1> QED BY <1>1, SequenceFacts, Appending DEF AllRuns

\* Runs that cover a sample, end, and are apart.
Covers(all, i) == \E r \in DOMAIN all : all[r][1] <= i /\ i < all[r][2]

Apart(all) ==
    /\ \A r \in DOMAIN all : all[r][1] < all[r][2]
    /\ \A r \in DOMAIN all : r > 1 => all[r - 1][2] < all[r][1]

LEMMA MaximalIs ==
    RunsAreMaximal <=> /\ \A i \in 0 .. si - 1 : ~ Valid(frame[i + 1]) <=> Covers(AllRuns, i)
                       /\ Apart(AllRuns)
  BY DEF RunsAreMaximal, Covers, Apart

\* One more run after the others.
LEMMA OneMoreRun ==
    ASSUME NEW rs, Sequence(rs), Apart(rs), NEW a \in Nat, NEW b \in Nat, a < b,
           \A r \in DOMAIN rs : rs[r][2] < a
    PROVE  /\ Apart(Append(rs, <<a, b>>))
           /\ \A i : Covers(Append(rs, <<a, b>>), i) <=> Covers(rs, i) \/ (a <= i /\ i < b)
  <1> DEFINE R == Len(rs)
             all == Append(rs, <<a, b>>)
  <1>1. /\ R \in Nat /\ DOMAIN rs = 1 .. R /\ DOMAIN all = 1 .. R + 1
        /\ \A r \in 1 .. R : all[r] = rs[r]
        /\ all[R + 1] = <<a, b>>
    BY Appending, SequenceFacts
  <1> HIDE DEF all, R
  <1>2. \A r \in DOMAIN all : r \in 1 .. R \/ r = R + 1
    BY <1>1
  <1>3. \A r \in 1 .. R : r \in DOMAIN all
    BY <1>1
  <1>4. R + 1 \in DOMAIN all
    BY <1>1
  <1>5. \A r \in DOMAIN all : all[r][1] < all[r][2]
    BY <1>1, <1>2 DEF Apart
  <1>6. ASSUME NEW r \in DOMAIN all, r > 1 PROVE all[r - 1][2] < all[r][1]
    <2>1. CASE r \in 1 .. R
      <3>1. r - 1 \in 1 .. R
        BY <1>1, <1>6, <2>1
      <3> QED BY <1>1, <1>6, <2>1, <3>1 DEF Apart
    <2>2. CASE r = R + 1
      <3>1. r - 1 = R /\ R \in 1 .. R
        BY <1>1, <1>6, <2>2
      <3> QED BY <1>1, <2>2, <3>1
    <2> QED BY <1>2, <2>1, <2>2
  <1>7. ASSUME NEW i PROVE Covers(all, i) <=> Covers(rs, i) \/ (a <= i /\ i < b)
    <2>1. ASSUME Covers(rs, i) PROVE Covers(all, i)
      BY <1>1, <1>3, <2>1 DEF Covers
    <2>2. ASSUME a <= i /\ i < b PROVE Covers(all, i)
      BY <1>1, <1>4, <2>2 DEF Covers
    <2>3. ASSUME Covers(all, i) PROVE Covers(rs, i) \/ (a <= i /\ i < b)
      BY <1>1, <1>2, <2>3 DEF Covers
    <2> QED BY <2>1, <2>2, <2>3
  <1> QED BY <1>5, <1>6, <1>7 DEF Apart, all

LEMMA RunsStep ==
    ASSUME GridAssumption, StreamAssumption, SeededTypeOK, StreamInv, RunsInv, SeededNext
    PROVE  RunsInv'
  <1> DEFINE R == Len(runs)
  <1>0. /\ Sequence(runs) /\ R \in Nat /\ DOMAIN runs = 1 .. R
        /\ open \in Nat \cup {Null} /\ Null \notin Nat /\ si \in Nat
    BY SequenceFacts DEF SeededTypeOK, StreamAssumption, si
  <1>1. ASSUME EmitSample PROVE RunsInv'
    <2>1. /\ si \in Nat /\ si' = si + 1
          /\ \A i \in 0 .. si - 1 : frame'[i + 1] = frame[i + 1]
          /\ Valid(frame'[si + 1]) <=> Valid(book)
          /\ \A i \in 0 .. si' - 1 : i \in 0 .. si - 1 \/ i = si
          /\ \A i \in 0 .. si - 1 : i \in 0 .. si' - 1
          /\ si \in 0 .. si' - 1
      BY <1>1, EmittedSample
    <2>2. ~ done /\ ~ done' /\ done' = done
      BY <1>1 DEF EmitSample, SeededTypeOK
    <2>3. /\ \A i \in 0 .. si - 1 : ~ Valid(frame[i + 1]) <=> Covers(AllRuns, i)
          /\ Apart(AllRuns)
      BY MaximalIs DEF RunsInv
    <2>4. \A r \in 1 .. R : runs[r][1] \in Nat /\ runs[r][2] \in Nat /\ runs[r][2] < si
             /\ (open # Null => runs[r][2] < open)
      BY <1>0, <2>2 DEF RunsInv
    <2>5. open # Null => open \in Nat /\ open < si
      BY <1>0 DEF RunsInv
    <2>6. Apart(runs)
      <3>1. CASE open = Null
        BY <2>3, <3>1 DEF AllRuns
      <3>2. CASE open # Null
        <4>1. \A r \in 1 .. R : r \in DOMAIN AllRuns /\ AllRuns[r] = runs[r] /\ (r > 1 => r - 1 \in 1 .. R)
          BY <1>0, <2>2, <3>2, AllRunsFacts
        <4> QED BY <1>0, <2>3, <4>1 DEF Apart
      <3> QED BY <3>1, <3>2
    <2>7. open # Null => AllRuns = Append(runs, <<open, si>>)
      BY <2>2 DEF AllRuns
    <2>8. CASE Valid(book) /\ open = Null
      <3>1. runs' = runs /\ open' = Null
        BY <1>1, <2>8 DEF EmitSample
      <3>2. AllRuns' = runs /\ AllRuns = runs
        BY <2>8, <3>1 DEF AllRuns
      <3>3. ~ Covers(runs, si)
        BY <1>0, <2>1, <2>4 DEF Covers
      <3>4. RunsAreMaximal'
        <4>1. \A i \in 0 .. si' - 1 : ~ Valid(frame'[i + 1]) <=> Covers(runs, i)
          BY <2>1, <2>3, <2>8, <3>2, <3>3
        <4> QED BY <2>6, <3>2, <4>1, MaximalIs DEF RunsAreMaximal, Covers, Apart
      <3>5. \A r \in 1 .. R : runs[r][2] < si + 1
        BY <1>0, <2>4
      <3> QED BY <1>0, <2>1, <2>2, <2>4, <3>1, <3>4, <3>5 DEF RunsInv
    <2>9. CASE Valid(book) /\ open # Null
      <3>1. runs' = Append(runs, <<open, si>>) /\ open' = Null
        BY <1>1, <2>9 DEF EmitSample
      <3>2. AllRuns' = runs' /\ AllRuns = runs'
        BY <2>7, <2>9, <3>1 DEF AllRuns
      <3>3. \A i : Covers(runs', i) <=> Covers(runs, i) \/ (open <= i /\ i < si)
        <4>1. open \in Nat /\ open < si /\ \A r \in DOMAIN runs : runs[r][2] < open
          BY <1>0, <2>4, <2>5, <2>9
        <4>2. \A i : Covers(Append(runs, <<open, si>>), i) <=> Covers(runs, i) \/ (open <= i /\ i < si)
          BY <1>0, <2>6, <4>1, OneMoreRun
        <4> QED BY <3>1, <4>2
      <3>4. ~ Covers(runs', si)
        <4>1. \A r \in DOMAIN runs : ~ (si < runs[r][2])
          BY <1>0, <2>4
        <4>2. ~ (si < si)
          BY <2>1
        <4> QED BY <3>3, <4>1, <4>2 DEF Covers
      <3>5. RunsAreMaximal'
        <4>1. \A i \in 0 .. si' - 1 : ~ Valid(frame'[i + 1]) <=> Covers(runs', i)
          BY <2>1, <2>3, <2>9, <3>2, <3>4
        <4> QED BY <2>3, <3>2, <4>1, MaximalIs DEF RunsAreMaximal, Covers, Apart
      <3>6. DOMAIN runs' = 1 .. R + 1 /\ runs'[R + 1] = <<open, si>>
            /\ \A r \in 1 .. R : runs'[r] = runs[r]
        BY <1>0, <3>1, Appending
      <3>7. \A r \in 1 .. R + 1 : r \in 1 .. R \/ r = R + 1
        BY <1>0
      <3>8. \A r \in DOMAIN runs' : runs'[r][1] \in Nat /\ runs'[r][2] \in Nat /\ runs'[r][2] < si + 1
        BY <1>0, <2>4, <2>5, <2>9, <3>6, <3>7
      <3> QED BY <2>1, <2>2, <3>1, <3>5, <3>8 DEF RunsInv
    <2>10. CASE ~ Valid(book) /\ open = Null
      <3>1. runs' = runs /\ open' = si
        BY <1>1, <2>10 DEF EmitSample
      <3>2. AllRuns' = Append(runs, <<si, si + 1>>) /\ AllRuns = runs
        BY <1>0, <2>1, <2>2, <2>10, <3>1 DEF AllRuns
      <3>3. /\ Apart(Append(runs, <<si, si + 1>>))
            /\ \A i : Covers(Append(runs, <<si, si + 1>>), i) <=> Covers(runs, i) \/ (si <= i /\ i < si + 1)
        BY <1>0, <2>4, <2>6, OneMoreRun
      <3>4. RunsAreMaximal'
        <4>1. \A i \in 0 .. si - 1 : ~ (si <= i)
          BY <2>1
        <4>2. si <= si /\ si < si + 1
          BY <2>1
        <4>3. \A i \in 0 .. si' - 1 : ~ Valid(frame'[i + 1]) <=> Covers(AllRuns', i)
          BY <2>1, <2>3, <2>10, <3>2, <3>3, <4>1, <4>2
        <4> QED BY <3>2, <3>3, <4>3, MaximalIs DEF RunsAreMaximal, Covers, Apart
      <3>5. \A r \in 1 .. R : runs[r][2] < si + 1
        BY <1>0, <2>4
      <3> QED BY <1>0, <2>1, <2>2, <2>4, <3>1, <3>4, <3>5 DEF RunsInv
    <2>11. CASE ~ Valid(book) /\ open # Null
      <3>1. runs' = runs /\ open' = open
        BY <1>1, <2>11 DEF EmitSample
      <3>2. AllRuns' = Append(runs, <<open, si + 1>>)
        BY <1>0, <2>1, <2>2, <2>11, <3>1 DEF AllRuns
      <3>3. /\ Apart(Append(runs, <<open, si + 1>>))
            /\ \A i : Covers(Append(runs, <<open, si + 1>>), i) <=> Covers(runs, i) \/ (open <= i /\ i < si + 1)
        <4>1. si + 1 \in Nat /\ open < si + 1
          BY <2>1, <2>5, <2>11
        <4>2. open \in Nat /\ \A r \in DOMAIN runs : runs[r][2] < open
          BY <1>0, <2>4, <2>5, <2>11
        <4> QED BY <1>0, <2>6, <4>1, <4>2, OneMoreRun
      <3>4. \A i : Covers(AllRuns, i) <=> Covers(runs, i) \/ (open <= i /\ i < si)
        <4>1. open \in Nat /\ open < si /\ \A r \in DOMAIN runs : runs[r][2] < open
          BY <1>0, <2>4, <2>5, <2>11
        <4>2. \A i : Covers(Append(runs, <<open, si>>), i) <=> Covers(runs, i) \/ (open <= i /\ i < si)
          BY <1>0, <2>6, <4>1, OneMoreRun
        <4> QED BY <2>7, <2>11, <4>2
      <3>5. RunsAreMaximal'
        <4>1. \A i \in 0 .. si - 1 : i < si /\ i < si + 1
          BY <2>1
        <4>2. open <= si /\ si < si + 1
          BY <2>1, <2>5, <2>11
        <4>3. \A i \in 0 .. si' - 1 : ~ Valid(frame'[i + 1]) <=> Covers(AllRuns', i)
          BY <2>1, <2>3, <2>11, <3>2, <3>3, <3>4, <4>1, <4>2
        <4> QED BY <3>2, <3>3, <4>3, MaximalIs DEF RunsAreMaximal, Covers, Apart
      <3>6. \A r \in 1 .. R : runs[r][2] < si + 1 /\ open < si + 1
        BY <1>0, <2>4, <2>5, <2>11
      <3>7. open < si + 1
        BY <1>0, <2>5, <2>11
      <3> QED BY <1>0, <2>1, <2>2, <2>4, <3>1, <3>5, <3>6, <3>7 DEF RunsInv
    <2> QED BY <2>8, <2>9, <2>10, <2>11
  <1>2. ASSUME Settle PROVE RunsInv'
    <2>1. /\ ~ done /\ done' /\ si = n /\ UNCHANGED <<frame, open>>
          /\ runs' = IF open = Null THEN runs ELSE Append(runs, <<open, n>>)
      BY <1>2 DEF Settle
    <2>2. AllRuns' = AllRuns /\ si' = si
      BY <2>1 DEF AllRuns, si
    <2>3. RunsAreMaximal'
      BY <2>1, <2>2 DEF RunsInv, RunsAreMaximal
    <2>4. \A r \in DOMAIN runs' : runs'[r][1] \in Nat /\ runs'[r][2] \in Nat
      <3>1. CASE open = Null
        BY <2>1, <3>1 DEF RunsInv
      <3>2. CASE open # Null
        <4>1. DOMAIN runs' = 1 .. R + 1 /\ runs'[R + 1] = <<open, si>>
              /\ \A r \in 1 .. R : runs'[r] = runs[r]
          BY <1>0, <2>1, <3>2, Appending
        <4>2. \A r \in 1 .. R + 1 : r \in 1 .. R \/ r = R + 1
          BY <1>0
        <4> QED BY <1>0, <3>2, <4>1, <4>2 DEF RunsInv
      <3> QED BY <3>1, <3>2
    <2> QED BY <2>1, <2>2, <2>3, <2>4 DEF RunsInv
  <1>3. ASSUME UNCHANGED <<coverVars, done>> PROVE RunsInv'
    BY <1>3 DEF RunsInv, RunsAreMaximal, AllRuns, coverVars, si
  <1>4. Read \/ Exhausted \/ ApplyDelta \/ ApplySnapshot => UNCHANGED <<coverVars, done>>
    BY DEF Read, Exhausted, ApplyDelta, ApplySnapshot, Applied
  <1> QED BY <1>1, <1>2, <1>3, <1>4 DEF SeededNext

LEMMA BoundsStep ==
    ASSUME GridAssumption, StreamAssumption, SeededTypeOK, BoundsInv, SeededNext
    PROVE  BoundsInv'
  <1> DEFINE two == TwoSidedSamples
  <1>1. ASSUME EmitSample PROVE BoundsInv'
    <2>1. /\ si \in Nat /\ si' = si + 1
          /\ \A i \in 0 .. si - 1 : frame'[i + 1] = frame[i + 1]
          /\ TwoSided(frame'[si + 1]) <=> TwoSided(book)
          /\ \A i \in 0 .. si' - 1 : i \in 0 .. si - 1 \/ i = si
          /\ \A i \in 0 .. si - 1 : i \in 0 .. si' - 1
          /\ si \in 0 .. si' - 1
      BY <1>1, EmittedSample
    <2>2. two' = IF TwoSided(book) THEN two \cup {si} ELSE two
      BY <2>1 DEF TwoSidedSamples
    <2>3. two \subseteq 0 .. si - 1
      BY DEF TwoSidedSamples
    <2>4. two \subseteq Nat /\ (\A i \in two : i < si) /\ Null \notin Nat
      <3> HIDE DEF two
      <3> QED BY <2>1, <2>3 DEF StreamAssumption
    <2>5. present = IF two = {} THEN <<Null, Null>> ELSE <<Min(two), Max(two)>>
      BY DEF BoundsInv
    <2>6. present' = IF TwoSided(book)
                     THEN <<IF present[1] = Null THEN si ELSE present[1], si>>
                     ELSE present
      BY <1>1 DEF EmitSample
    <2> HIDE DEF two
    <2>7. CASE ~ TwoSided(book)
      BY <2>2, <2>5, <2>6, <2>7 DEF BoundsInv, two
    <2>8. CASE TwoSided(book)
      <3>1. two' = two \cup {si} /\ two' # {}
        BY <2>2, <2>8
      <3>2. two' \subseteq Nat /\ (\A i \in two' : i <= si) /\ si \in two'
        BY <2>1, <2>4, <3>1
      <3>3. Max(two') = si
        BY <3>2, MaxIs
      <3>4. Min(two') = IF two = {} THEN si ELSE Min(two)
        <4>1. CASE two = {}
          <5>1. two' = {si}
            BY <3>1, <4>1
          <5>2. \A i \in two' : si <= i
            BY <2>1, <5>1
          <5>3. Min(two') = si
            BY <3>2, <5>2, MinIs
          <5> QED BY <4>1, <5>3
        <4>2. CASE two # {}
          <5>1. Min(two) \in two /\ \A i \in two : Min(two) <= i
            BY <2>4, <4>2, MinOfNat
          <5>2. Min(two) \in two' /\ \A i \in two' : Min(two) <= i
            <6>1. Min(two) \in Nat /\ Min(two) < si
              BY <2>4, <5>1
            <6>2. Min(two) <= si
              BY <2>1, <6>1
            <6> QED BY <3>1, <5>1, <6>2
          <5>3. Min(two') = Min(two)
            BY <3>2, <5>2, MinIs
          <5> QED BY <4>2, <5>3
        <4> QED BY <4>1, <4>2
      <3>5. (IF present[1] = Null THEN si ELSE present[1]) = IF two = {} THEN si ELSE Min(two)
        <4>1. CASE two = {}
          BY <2>5, <4>1
        <4>2. CASE two # {}
          <5>1. Min(two) \in two
            BY <2>4, <4>2, MinOfNat
          <5>2. Min(two) # Null /\ present[1] = Min(two)
            BY <2>4, <2>5, <4>2, <5>1
          <5> QED BY <4>2, <5>2
        <4> QED BY <4>1, <4>2
      <3> QED BY <2>6, <2>8, <3>1, <3>3, <3>4, <3>5 DEF BoundsInv, two
    <2> QED BY <2>7, <2>8
  <1>2. ASSUME UNCHANGED <<frame, present>> PROVE BoundsInv'
    BY <1>2 DEF BoundsInv, TwoSidedSamples, si
  <1>3. Read \/ Exhausted \/ ApplyDelta \/ ApplySnapshot \/ Settle => UNCHANGED <<frame, present>>
    BY DEF Read, Exhausted, ApplyDelta, ApplySnapshot, Applied, Settle, coverVars
  <1> QED BY <1>1, <1>2, <1>3 DEF SeededNext

LEMMA SeededInvInit ==
    ASSUME GridAssumption, StreamAssumption, SeededInit
    PROVE  SeededInv
  <1> USE EmptySequence, EmptyBookIsBook
  <1>1. /\ applied = << >> /\ frame = << >> /\ runs = << >> /\ si = 0
        /\ head = Null /\ ended = FALSE /\ done = FALSE /\ since = Null /\ duration = 0
        /\ open = Null /\ book = EmptyBook /\ seeded = FALSE /\ present = <<Null, Null>>
        /\ enabled \in BOOLEAN
    BY DEF SeededInit, si
  <1>2. n \in Nat /\ Null \notin Nat
    BY GridFacts DEF StreamAssumption
  <1>3. SeededTypeOK
    <2>1. Sequence(applied) /\ Sequence(frame) /\ Sequence(runs) /\ IsBook(book) /\ si <= n
      BY <1>1, <1>2
    <2>2. DOMAIN applied = {}
      BY <1>1
    <2> QED BY <1>1, <2>1, <2>2 DEF SeededTypeOK
  <1>4. StreamInv /\ BookInv /\ SamplesAreAsOf /\ GridInv /\ EpisodeInv /\ ReseedsExactlyWhenStuck
    <2>1. \A i \in 1 .. si : FALSE
      BY <1>1
    <2> QED BY <1>1, <2>1 DEF StreamInv, BookInv, SamplesAreAsOf, GridInv, EpisodeInv,
                              ReseedsExactlyWhenStuck
  <1>5. DurationInv
    <2>1. {m \in 1 .. Len(applied) - 1 : CrossedAt(m)} = {}
      BY <1>1
    <2> QED BY <1>1, <2>1, SumEmpty DEF DurationInv
  <1>6. RunsInv /\ BoundsInv
    <2>1. \A i \in 0 .. si - 1 : FALSE
      BY <1>1
    <2>2. TwoSidedSamples = {}
      BY <2>1 DEF TwoSidedSamples
    <2>3. AllRuns = << >>
      BY <1>1 DEF AllRuns
    <2> QED BY <1>1, <2>1, <2>2, <2>3 DEF RunsInv, RunsAreMaximal, BoundsInv
  <1> QED BY <1>3, <1>4, <1>5, <1>6 DEF SeededInv

LEMMA SeededInvStep ==
    ASSUME GridAssumption, StreamAssumption, SeededInv, [SeededNext]_seededVars
    PROVE  SeededInv'
  <1>1. CASE SeededNext
    BY <1>1, SeededTypeStep, StreamStep, BookStep, GridStep, SampleStep, EpisodeStep,
       ReseedStep, DurationStep, RunsStep, BoundsStep DEF SeededInv
  <1>2. CASE UNCHANGED seededVars
    <2>1. UNCHANGED <<enabled, head, ended, bookVars, crossVars, coverVars, done, applied>>
      BY <1>2 DEF seededVars
    <2>2. SeededTypeOK' /\ StreamInv' /\ BookInv' /\ GridInv' /\ SamplesAreAsOf'
      BY <2>1, SameHistory DEF SeededInv, SeededTypeOK, StreamInv, BookInv, GridInv, SamplesAreAsOf,
                               bookVars, crossVars, coverVars, si
    <2>3. EpisodeInv' /\ ReseedsExactlyWhenStuck'
      BY <2>1 DEF SeededInv, EpisodeInv, Began, CrossedAt, ReseedsExactlyWhenStuck, SeededBefore,
                  StuckBefore, BookBefore, bookVars, crossVars, coverVars
    <2>4. DurationInv'
      <3>1. LastTs' = LastTs /\ Held' = Held /\ CrossedTime' = CrossedTime
            /\ \A m : CrossedAt(m)' <=> CrossedAt(m)
        BY <2>1, SameHistory
      <3>2. {m \in 1 .. Len(applied') - 1 : CrossedAt(m)'} = {m \in 1 .. Len(applied) - 1 : CrossedAt(m)}
        BY <2>1, <3>1
      <3> QED BY <2>1, <3>1, <3>2 DEF SeededInv, DurationInv, crossVars
    <2>5. RunsInv' /\ BoundsInv'
      BY <2>1 DEF SeededInv, RunsInv, RunsAreMaximal, AllRuns, BoundsInv, TwoSidedSamples,
                  coverVars, si
    <2> QED BY <2>2, <2>3, <2>4, <2>5 DEF SeededInv
  <1> QED BY <1>1, <1>2

\* The seeded replay keeps its invariant, whatever deltas and snapshots of
\* whatever sizes the day holds and wherever the grid lies.
THEOREM SeededInvariant ==
    ASSUME GridAssumption, StreamAssumption
    PROVE  SeededSpec => []SeededInv
  <1>1. SeededInit => SeededInv
    BY SeededInvInit
  <1>2. SeededInv /\ [SeededNext]_seededVars => SeededInv'
    BY SeededInvStep
  <1> QED BY <1>1, <1>2, PTL DEF SeededSpec

\* No sample of a frame looks ahead or lags: it is the book after exactly the
\* events at or before its time.
THEOREM SamplesAreAsOfTheorem ==
    ASSUME GridAssumption, StreamAssumption
    PROVE  SeededSpec => []SamplesAreAsOf
  <1>1. SeededInv => SamplesAreAsOf
    BY DEF SeededInv
  <1> QED BY <1>1, SeededInvariant, PTL

\* A snapshot replaces the book exactly when it may seed it or end a crossing
\* that has lasted for the tolerance.
THEOREM ReseedsExactlyWhenStuckTheorem ==
    ASSUME GridAssumption, StreamAssumption
    PROVE  SeededSpec => []ReseedsExactlyWhenStuck
  <1>1. SeededInv => ReseedsExactlyWhenStuck
    BY DEF SeededInv
  <1> QED BY <1>1, SeededInvariant, PTL

\* The runs and the bounds that partial fills are planned from and the crossed
\* time reported are those of the samples and events they summarise.
THEOREM CoverageIsExactTheorem ==
    ASSUME GridAssumption, StreamAssumption
    PROVE  SeededSpec => []CoverageIsExact
  <1>1. SeededInv => CoverageIsExact
    BY DEF SeededInv, RunsInv, BoundsInv, DurationInv, CoverageIsExact
  <1> QED BY <1>1, SeededInvariant, PTL

-----------------------------------------------------------------------------
(* The total order *)

LEMMA BeforeIsStrict ==
    ASSUME NEW s \in Seq(Events), NEW i \in DOMAIN s, NEW j \in DOMAIN s
    PROVE  /\ ~ (Before(s, i, j) /\ Before(s, j, i))
           /\ i # j => Before(s, i, j) \/ Before(s, j, i)
           /\ \A l \in DOMAIN s : Before(s, i, j) /\ Before(s, j, l) => Before(s, i, l)
  <1>1. s[i] \in Events /\ s[j] \in Events /\ \A l \in DOMAIN s : s[l] \in Events /\ l \in Nat
    OBVIOUS
  <1>2. \A e \in Events : e.ts \in Nat /\ e.seq \in Nat /\ e.kind \in {"delta", "trade"}
    BY DEF Events
  <1>3. ~ (Before(s, i, j) /\ Before(s, j, i)) /\ (i # j => Before(s, i, j) \/ Before(s, j, i))
    BY <1>1, <1>2 DEF Before, KeyLess
  <1>4. ASSUME NEW l \in DOMAIN s, Before(s, i, j), Before(s, j, l) PROVE Before(s, i, l)
    BY <1>1, <1>2, <1>4 DEF Before, KeyLess
  <1> QED BY <1>3, <1>4

LEMMA LatestIn ==
    ASSUME NEW s \in Seq(Events), NEW P \in SUBSET DOMAIN s, P # {}
    PROVE  Latest(s, P) \in P /\ \A j \in P \ {Latest(s, P)} : Before(s, j, Latest(s, P))
  <1> DEFINE good == {T \in SUBSET DOMAIN s :
                        T # {} => \E m \in T : \A j \in T \ {m} : Before(s, j, m)}
  <1>1. ASSUME NEW T \in SUBSET DOMAIN s, \A U \in SUBSET T : U # T => U \in good
        PROVE  T \in good
    <2>1. SUFFICES ASSUME T # {} PROVE \E m \in T : \A j \in T \ {m} : Before(s, j, m)
      OBVIOUS
    <2>2. PICK y \in T : TRUE
      BY <2>1
    <2>3. CASE T = {y}
      BY <2>3
    <2>4. CASE T # {y}
      <3> DEFINE U == T \ {y}
      <3>1. U \in SUBSET T /\ U # T /\ U # {}
        BY <2>2, <2>4
      <3>2. U \in good
        BY <1>1, <3>1
      <3>3. PICK m \in U : \A j \in U \ {m} : Before(s, j, m)
        BY <3>1, <3>2
      <3>4. m \in DOMAIN s /\ y \in DOMAIN s /\ m # y /\ T \subseteq DOMAIN s
        BY <2>2
      <3> HIDE DEF good
      <3>5. CASE Before(s, y, m)
        <4>1. \A j \in T \ {m} : Before(s, j, m)
          BY <3>3, <3>5
        <4> QED BY <4>1, <3>3
      <3>6. CASE Before(s, m, y)
        <4>1. ASSUME NEW j \in T \ {y} PROVE Before(s, j, y)
          <5>1. j = m \/ Before(s, j, m)
            BY <3>3, <4>1
          <5> QED BY <3>4, <3>6, <4>1, <5>1, BeforeIsStrict
        <4> QED BY <4>1, <2>2
      <3> QED BY <3>4, <3>5, <3>6, BeforeIsStrict
    <2> QED BY <2>3, <2>4
  <1>2. IsFiniteSet(DOMAIN s)
    BY FS_Interval
  <1>3. P \in good
    <2> HIDE DEF good
    <2>1. SUBSET DOMAIN s \subseteq good
      BY <1>1, <1>2, SubsetInduction
    <2> QED BY <2>1
  <1> QED BY <1>3 DEF Latest

LEMMA LatestIs ==
    ASSUME NEW s \in Seq(Events), NEW P \in SUBSET DOMAIN s, NEW m \in P,
           \A j \in P \ {m} : Before(s, j, m)
    PROVE  Latest(s, P) = m
  <1>1. Latest(s, P) \in P /\ \A j \in P \ {Latest(s, P)} : Before(s, j, Latest(s, P))
    BY LatestIn
  <1> QED BY <1>1, BeforeIsStrict

\* Which event is the latest depends on the events alone.
LEMMA LatestSame ==
    ASSUME NEW s \in Seq(Events), NEW t \in Seq(Events),
           NEW P \in SUBSET (DOMAIN s \cap DOMAIN t), P # {}, \A j \in P : s[j] = t[j]
    PROVE  Latest(s, P) = Latest(t, P) /\ Latest(s, P) \in P
  <1>1. Latest(s, P) \in P /\ \A j \in P \ {Latest(s, P)} : Before(s, j, Latest(s, P))
    BY LatestIn
  <1>2. \A j \in P \ {Latest(s, P)} : Before(t, j, Latest(s, P))
    BY <1>1 DEF Before
  <1> HIDE DEF Latest
  <1> QED BY <1>1, <1>2, LatestIs

-----------------------------------------------------------------------------
(* The emission of a set of events *)

\* G emits every subset of P, the latest event last.
Emits(st, s, P, k, G) ==
    G = [Q \in SUBSET P |->
            IF Q = {} THEN st ELSE Emit(G[Q \ {Latest(s, Q)}], s[Latest(s, Q)], k)]

LEMMA EmitAllDef ==
    ASSUME NEW st, NEW s, NEW P, NEW k
    PROVE  EmitAll(st, s, P, k) = (CHOOSE G : Emits(st, s, P, k, G))[P]
  BY DEF EmitAll, MapThenFoldSet, Emits

AgreeOn(s, t, P) ==
    /\ s \in Seq(Events) /\ t \in Seq(Events)
    /\ P \in SUBSET (DOMAIN s \cap DOMAIN t) /\ \A j \in P : s[j] = t[j]

\* The events of a set decide its emission.
LEMMA EmissionsAgree ==
    ASSUME NEW s, NEW t, NEW P, AgreeOn(s, t, P),
           NEW st, NEW k, NEW G, Emits(st, s, P, k, G),
           NEW R, P \subseteq R, NEW H, Emits(st, t, R, k, H)
    PROVE  G[P] = H[P]
  <1>0. /\ s \in Seq(Events) /\ t \in Seq(Events)
        /\ P \in SUBSET (DOMAIN s \cap DOMAIN t) /\ \A j \in P : s[j] = t[j]
    BY DEF AgreeOn
  <1> DEFINE good == {Q \in SUBSET P : G[Q] = H[Q]}
  <1>1. ASSUME NEW Q \in SUBSET P, \A U \in SUBSET Q : U # Q => U \in good
        PROVE  Q \in good
    <2>1. CASE Q = {}
      <3>1. G[Q] = st /\ H[Q] = st
        BY <2>1 DEF Emits
      <3> QED BY <3>1
    <2>2. CASE Q # {}
      <3> DEFINE m == Latest(s, Q)
      <3>1. m = Latest(t, Q) /\ m \in Q
        BY <1>0, <2>2, LatestSame
      <3>2. Q \ {m} \in SUBSET Q /\ Q \ {m} # Q
        BY <3>1
      <3>3. G[Q] = Emit(G[Q \ {m}], s[m], k)
        BY <2>2 DEF Emits
      <3>4. H[Q] = Emit(H[Q \ {Latest(t, Q)}], t[Latest(t, Q)], k)
        BY <2>2 DEF Emits
      <3> HIDE DEF m
      <3>5. G[Q \ {m}] = H[Q \ {m}] /\ s[m] = t[m]
        BY <1>0, <1>1, <3>1, <3>2
      <3> QED BY <3>1, <3>3, <3>4, <3>5
    <2> QED BY <2>1, <2>2
  <1> HIDE DEF good
  <1>2. IsFiniteSet(P)
    <2>1. IsFiniteSet(DOMAIN s) /\ P \subseteq DOMAIN s
      BY <1>0, FS_Interval
    <2> QED BY <2>1, FS_Subset
  <1>3. SUBSET P \subseteq good
    BY <1>1, <1>2, SubsetInduction
  <1> QED BY <1>3 DEF good

LEMMA EmissionExists ==
    ASSUME NEW s \in Seq(Events), NEW st, NEW k
    PROVE  \A P \in SUBSET DOMAIN s :
              Emits(st, s, P, k, CHOOSE G : Emits(st, s, P, k, G))
  <1> DEFINE The(P) == CHOOSE G : Emits(st, s, P, k, G)
             good == {P \in SUBSET DOMAIN s : Emits(st, s, P, k, The(P))}
             Rest(Q) == Q \ {Latest(s, Q)}
  <1>1. ASSUME NEW P \in SUBSET DOMAIN s, \A U \in SUBSET P : U # P => U \in good
        PROVE  P \in good
    <2> DEFINE G == [Q \in SUBSET P |->
                        IF Q = {} THEN st ELSE Emit(The(Rest(Q))[Rest(Q)], s[Latest(s, Q)], k)]
    <2>1. ASSUME NEW Q \in SUBSET P, Q # {}
          PROVE  Rest(Q) \in SUBSET P /\ Rest(Q) # P /\ Rest(Q) \in good /\ Rest(Q) \in SUBSET Q
      <3>1. Latest(s, Q) \in Q
        BY <2>1, LatestIn
      <3>2. Rest(Q) \in SUBSET P /\ Rest(Q) # P /\ Rest(Q) \in SUBSET Q
        BY <3>1
      <3> HIDE DEF good, Rest
      <3> QED BY <1>1, <3>2
    <2>2. ASSUME NEW Q \in SUBSET P, Q # {}
          PROVE  The(Rest(Q))[Rest(Q)] = G[Rest(Q)]
      <3> DEFINE u == Rest(Q)
      <3>1. Emits(st, s, u, k, The(u)) /\ u \in SUBSET P
        BY <2>1, <2>2
      <3>2. CASE u = {}
        <4>1. The(u)[u] = st
          <5> HIDE DEF The, u
          <5> QED BY <3>1, <3>2 DEF Emits
        <4>2. G[u] = st
          BY <3>2
        <4> QED BY <4>1, <4>2
      <3>3. CASE u # {}
        <4> HIDE DEF u
        <4>1. Emits(st, s, Rest(u), k, The(Rest(u))) /\ Rest(u) \in SUBSET u
          BY <2>1, <3>1, <3>3
        <4>2. The(Rest(u))[Rest(u)] = The(u)[Rest(u)]
          <5> HIDE DEF The, Rest
          <5>1. Rest(u) \in SUBSET DOMAIN s /\ u \in SUBSET DOMAIN s /\ Rest(u) \subseteq u
            BY <3>1, <4>1
          <5>2. AgreeOn(s, s, Rest(u))
            BY <5>1 DEF AgreeOn
          <5> QED BY <3>1, <4>1, <5>1, <5>2, EmissionsAgree
        <4>3. The(u)[u] = Emit(The(u)[Rest(u)], s[Latest(s, u)], k)
          <5> HIDE DEF The
          <5> QED BY <3>1, <3>3 DEF Emits
        <4>4. G[u] = Emit(The(Rest(u))[Rest(u)], s[Latest(s, u)], k)
          <5> HIDE DEF The, Rest
          <5> QED BY <3>1, <3>3
        <4>5. The(u)[u] = G[u]
          <5> HIDE DEF The, Rest, G
          <5> QED BY <4>2, <4>3, <4>4
        <4> QED BY <4>5 DEF u
      <3> QED BY <3>2, <3>3
    <2>3. Emits(st, s, P, k, G)
      <3>1. ASSUME NEW Q \in SUBSET P
            PROVE  G[Q] = IF Q = {} THEN st
                          ELSE Emit(G[Q \ {Latest(s, Q)}], s[Latest(s, Q)], k)
        <4>1. CASE Q = {}
          BY <4>1
        <4>2. CASE Q # {}
          <5>1. G[Q] = Emit(The(Rest(Q))[Rest(Q)], s[Latest(s, Q)], k)
            <6> HIDE DEF The, Rest
            <6> QED BY <4>2
          <5>2. The(Rest(Q))[Rest(Q)] = G[Rest(Q)]
            BY <2>2, <4>2
          <5> HIDE DEF G, The
          <5> QED BY <4>2, <5>1, <5>2
        <4> QED BY <4>1, <4>2
      <3>2. G = [Q \in SUBSET P |-> G[Q]]
        OBVIOUS
      <3> HIDE DEF G
      <3>3. G = [Q \in SUBSET P |-> IF Q = {} THEN st
                                    ELSE Emit(G[Q \ {Latest(s, Q)}], s[Latest(s, Q)], k)]
        BY <3>1, <3>2
      <3> QED BY <3>3 DEF Emits
    <2>4. Emits(st, s, P, k, The(P))
      <3> HIDE DEF G
      <3> QED BY <2>3
    <2> HIDE DEF The
    <2> QED BY <2>4
  <1> HIDE DEF good
  <1>2. IsFiniteSet(DOMAIN s)
    BY FS_Interval
  <1>3. SUBSET DOMAIN s \subseteq good
    BY <1>1, <1>2, SubsetInduction
  <1> QED BY <1>3 DEF good

\* A set is emitted by emitting its latest event after the others.
LEMMA EmitLatest ==
    ASSUME NEW s \in Seq(Events), NEW st, NEW k, NEW P \in SUBSET DOMAIN s
    PROVE  EmitAll(st, s, P, k) =
              IF P = {} THEN st
              ELSE Emit(EmitAll(st, s, P \ {Latest(s, P)}, k), s[Latest(s, P)], k)
  <1> DEFINE The(Q) == CHOOSE G : Emits(st, s, Q, k, G)
             rest == P \ {Latest(s, P)}
  <1>1. EmitAll(st, s, P, k) = The(P)[P] /\ EmitAll(st, s, rest, k) = The(rest)[rest]
    BY EmitAllDef
  <1>2. Emits(st, s, P, k, The(P)) /\ Emits(st, s, rest, k, The(rest))
    BY EmissionExists
  <1> HIDE DEF The
  <1>3. P # {} => The(P)[P] = Emit(The(P)[rest], s[Latest(s, P)], k)
    BY <1>2 DEF Emits
  <1>4. P = {} => The(P)[P] = st
    BY <1>2 DEF Emits
  <1> HIDE DEF rest
  <1>5. The(P)[rest] = The(rest)[rest]
    <2>1. rest \in SUBSET DOMAIN s /\ rest \subseteq P
      BY DEF rest
    <2>2. AgreeOn(s, s, rest)
      BY <2>1 DEF AgreeOn
    <2> QED BY <1>2, <2>1, <2>2, EmissionsAgree
  <1> QED BY <1>1, <1>3, <1>4, <1>5 DEF rest

LEMMA EmissionSame ==
    ASSUME NEW s, NEW t, NEW P, AgreeOn(s, t, P), NEW st, NEW k
    PROVE  EmitAll(st, s, P, k) = EmitAll(st, t, P, k)
  <1> DEFINE G == CHOOSE G : Emits(st, s, P, k, G)
             H == CHOOSE H : Emits(st, t, P, k, H)
  <1>1. EmitAll(st, s, P, k) = G[P] /\ EmitAll(st, t, P, k) = H[P]
    BY EmitAllDef
  <1>2. /\ s \in Seq(Events) /\ t \in Seq(Events)
        /\ P \in SUBSET DOMAIN s /\ P \in SUBSET DOMAIN t /\ P \subseteq P
    BY DEF AgreeOn
  <1>3. Emits(st, s, P, k, G) /\ Emits(st, t, P, k, H)
    BY <1>2, EmissionExists
  <1> HIDE DEF G, H
  <1>4. G[P] = H[P]
    BY <1>2, <1>3, EmissionsAgree
  <1> QED BY <1>1, <1>4

-----------------------------------------------------------------------------
(* What an emission leaves *)

IsState(st) ==
    /\ st = [book |-> st.book, rows |-> st.rows]
    /\ IsBook(st.book)
    /\ Sequence(st.rows)

Begins(u, v) == Len(u) <= Len(v) /\ \A i \in 1 .. Len(u) : u[i] = v[i]

LEMMA EventIsDelta == ASSUME NEW e \in Events PROVE IsDelta(e)
  BY DEF Events, IsDelta

LEMMA EmitLeaves ==
    ASSUME NEW st, IsState(st), NEW e \in Events, NEW k
    PROVE  /\ IsState(Emit(st, e, k)) /\ Begins(st.rows, Emit(st, e, k).rows)
           /\ Emit(st, e, k) =
                 IF e.kind = "delta" THEN [book |-> Apply(st.book, e), rows |-> st.rows]
                 ELSE [book |-> st.book,
                       rows |-> Append(st.rows, [trade |-> e, book |-> Snapshot(st.book, k)])]
  <1> DEFINE row == [trade |-> e, book |-> Snapshot(st.book, k)]
  <1>1. IsBook(st.book) /\ Sequence(st.rows) /\ IsBook(Apply(st.book, e))
    BY EventIsDelta, ApplyIsBook DEF IsState
  <1>2. /\ Sequence(Append(st.rows, row)) /\ Len(Append(st.rows, row)) = Len(st.rows) + 1
        /\ \A i \in 1 .. Len(st.rows) : Append(st.rows, row)[i] = st.rows[i]
    BY <1>1, Appending
  <1>3. Len(st.rows) \in Nat
    BY <1>1, SequenceFacts
  <1> HIDE DEF row
  <1>4. Emit(st, e, k) = IF e.kind = "delta" THEN [book |-> Apply(st.book, e), rows |-> st.rows]
                         ELSE [book |-> st.book, rows |-> Append(st.rows, row)]
    BY DEF Emit, IsState, row
  <1>5. Begins(st.rows, st.rows) /\ Begins(st.rows, Append(st.rows, row))
    BY <1>2, <1>3 DEF Begins
  <1>6. IsState(Emit(st, e, k)) /\ Begins(st.rows, Emit(st, e, k).rows)
    <2>1. CASE e.kind = "delta"
      BY <1>1, <1>4, <1>5, <2>1 DEF IsState
    <2>2. CASE e.kind # "delta"
      BY <1>1, <1>2, <1>4, <1>5, <2>2 DEF IsState
    <2> QED BY <2>1, <2>2
  <1> QED BY <1>4, <1>6 DEF row

LEMMA BeginsIsTransitive ==
    ASSUME NEW u, Sequence(u), NEW v, Sequence(v), NEW w, Sequence(w), Begins(u, v), Begins(v, w)
    PROVE  Begins(u, w)
  <1>1. Len(u) \in Nat /\ Len(v) \in Nat /\ Len(w) \in Nat
    BY SequenceFacts
  <1> QED BY <1>1 DEF Begins

\* Whatever is emitted, the rows that were there stay.
LEMMA EmissionLeaves ==
    ASSUME NEW s \in Seq(Events), NEW P \in SUBSET DOMAIN s, NEW st, IsState(st), NEW k
    PROVE  IsState(EmitAll(st, s, P, k)) /\ Begins(st.rows, EmitAll(st, s, P, k).rows)
  <1> DEFINE E(Q) == EmitAll(st, s, Q, k)
             good == {Q \in SUBSET DOMAIN s : IsState(E(Q)) /\ Begins(st.rows, E(Q).rows)}
  <1>1. ASSUME NEW Q \in SUBSET DOMAIN s, \A U \in SUBSET Q : U # Q => U \in good
        PROVE  Q \in good
    <2>1. CASE Q = {}
      <3>1. E(Q) = st
        BY <2>1, EmitLatest
      <3>2. Begins(st.rows, st.rows)
        BY SequenceFacts DEF IsState, Begins
      <3> HIDE DEF E
      <3> QED BY <3>1, <3>2
    <2>2. CASE Q # {}
      <3> DEFINE m == Latest(s, Q)
                 U == Q \ {m}
      <3>1. m \in Q
        BY <2>2, LatestIn
      <3>2. U \in good /\ s[m] \in Events
        BY <1>1, <3>1
      <3>3. E(Q) = Emit(E(U), s[m], k)
        BY <2>2, EmitLatest
      <3>4. IsState(E(U)) /\ Begins(st.rows, E(U).rows)
        BY <3>2
      <3> HIDE DEF E, U, m
      <3>5. IsState(E(Q)) /\ Begins(E(U).rows, E(Q).rows)
        BY <3>2, <3>3, <3>4, EmitLeaves
      <3>6. Begins(st.rows, E(Q).rows)
        BY <3>4, <3>5, BeginsIsTransitive DEF IsState
      <3> QED BY <3>5, <3>6
    <2> QED BY <2>1, <2>2
  <1> HIDE DEF good
  <1>2. IsFiniteSet(DOMAIN s)
    BY FS_Interval
  <1>3. SUBSET DOMAIN s \subseteq good
    BY <1>1, <1>2, SubsetInduction
  <1> QED BY <1>3 DEF good

\* What follows all of P can be emitted after P.
LEMMA EmissionInTwo ==
    ASSUME NEW s \in Seq(Events), NEW P \in SUBSET DOMAIN s, NEW R \in SUBSET DOMAIN s,
           \A i \in P, j \in R : Before(s, i, j),
           NEW st, NEW k
    PROVE  EmitAll(EmitAll(st, s, P, k), s, R, k) = EmitAll(st, s, P \cup R, k)
  <1> DEFINE good == {Q \in SUBSET R :
                EmitAll(EmitAll(st, s, P, k), s, Q, k) = EmitAll(st, s, P \cup Q, k)}
             mid == EmitAll(st, s, P, k)
  <1>1. ASSUME NEW Q \in SUBSET R, \A U \in SUBSET Q : U # Q => U \in good
        PROVE  Q \in good
    <2>1. CASE Q = {}
      <3>1. P \cup Q = P
        BY <2>1
      <3>2. EmitAll(mid, s, Q, k) = mid
        BY <2>1, EmitLatest
      <3> QED BY <3>1, <3>2
    <2>2. CASE Q # {}
      <3> DEFINE m == Latest(s, Q)
                 U == Q \ {m}
      <3>1. m \in Q /\ \A j \in U : Before(s, j, m)
        BY <2>2, LatestIn
      <3>2. U \in good
        BY <1>1, <3>1
      <3>3. EmitAll(mid, s, Q, k) = Emit(EmitAll(mid, s, U, k), s[m], k)
        BY <2>2, EmitLatest
      <3>4. EmitAll(mid, s, U, k) = EmitAll(st, s, P \cup U, k)
        BY <3>2
      <3>5. m \notin P
        BY <3>1, BeforeIsStrict
      <3> HIDE DEF m, U, mid, good
      <3>6. Latest(s, P \cup Q) = m
        <4>1. \A j \in (P \cup Q) \ {m} : Before(s, j, m)
          BY <3>1 DEF U
        <4>2. P \cup Q \in SUBSET DOMAIN s /\ m \in P \cup Q
          BY <3>1
        <4> QED BY <4>1, <4>2, LatestIs
      <3>7. (P \cup Q) \ {m} = P \cup U /\ P \cup Q # {} /\ P \cup Q \in SUBSET DOMAIN s
        BY <3>1, <3>5 DEF U
      <3>8. EmitAll(st, s, P \cup Q, k) = Emit(EmitAll(st, s, P \cup U, k), s[m], k)
        BY <3>6, <3>7, EmitLatest
      <3> QED BY <3>3, <3>4, <3>8 DEF good, mid
    <2> QED BY <2>1, <2>2
  <1> HIDE DEF good
  <1>2. IsFiniteSet(R)
    <2>1. IsFiniteSet(DOMAIN s)
      BY FS_Interval
    <2> QED BY <2>1, FS_Subset
  <1>3. SUBSET R \subseteq good
    BY <1>1, <1>2, SubsetInduction
  <1> QED BY <1>3 DEF good

-----------------------------------------------------------------------------
(* The invariant of the live reconstructor *)

LiveTypeOK ==
    /\ file \in Seq(Events) /\ accepted \in Seq(Events)
    /\ arrived \subseteq DOMAIN file /\ buf \subseteq DOMAIN accepted
    /\ bounded \in BOOLEAN /\ flushed \in BOOLEAN
    /\ maxTs \in Nat

\* Until the flush the events accepted are emitted exactly once the watermark
\* has passed them, and all of them, in the total order, make up the output.
ReleasedInv ==
    /\ buf = IF flushed THEN {} ELSE {j \in DOMAIN accepted : ~ Behind(accepted[j], maxTs)}
    /\ out = EmitAll(Fresh, accepted, DOMAIN accepted \ buf, K)

\* Every event is behind the largest time, and one that arrived bears it.
ClockInv ==
    /\ \A j \in DOMAIN accepted : accepted[j].ts <= maxTs
    /\ maxTs = 0 \/ \E i \in arrived : file[i].ts = maxTs

\* The events accepted are those that arrived, unless some were dropped.
AcceptedInv ==
    /\ bounded => late = 0
    /\ late = 0 => \E f \in Bijection(DOMAIN accepted, arrived) :
                      \A j \in DOMAIN accepted : accepted[j] = file[f[j]]
    /\ late \in Nat

LiveInv == LiveTypeOK /\ ReleasedInv /\ ClockInv /\ AcceptedInv

LEMMA FreshIsState == IsState(Fresh)
  BY EmptyBookIsBook, EmptySequence DEF Fresh, IsState

LEMMA NothingEmitted ==
    ASSUME NEW s \in Seq(Events), NEW st, NEW k
    PROVE  EmitAll(st, s, {}, k) = st
  BY EmitLatest

LEMMA AppendingEvent ==
    ASSUME NEW s \in Seq(Events), NEW e \in Events
    PROVE  /\ Append(s, e) \in Seq(Events) /\ Len(Append(s, e)) = Len(s) + 1
           /\ Len(s) \in Nat /\ DOMAIN s = 1 .. Len(s)
           /\ DOMAIN Append(s, e) = DOMAIN s \cup {Len(s) + 1} /\ Len(s) + 1 \notin DOMAIN s
           /\ \A j \in DOMAIN s : Append(s, e)[j] = s[j]
           /\ Append(s, e)[Len(s) + 1] = e
  OBVIOUS

LEMMA ReleasedInvPush ==
    ASSUME WatermarkAssumption, LiveInv, NEW i \in DOMAIN file, PushInTime(i)
    PROVE  LiveTypeOK' /\ ReleasedInv'
  <1> DEFINE s == accepted
             e == file[i]
             t == Append(accepted, file[i])
             max == IF file[i].ts > maxTs THEN file[i].ts ELSE maxTs
             top == Len(accepted) + 1
             b == buf \cup {top}
             ready == {j \in b : Behind(t[j], max)}
             P == DOMAIN s \ buf
  <1>1. /\ s \in Seq(Events) /\ e \in Events /\ maxTs \in Nat /\ e.ts \in Nat
        /\ buf \subseteq DOMAIN s /\ Watermark \in Nat
    <2>1. /\ s \in Seq(Events) /\ e \in Events /\ maxTs \in Nat
          /\ buf \subseteq DOMAIN s /\ Watermark \in Nat
      BY DEF LiveInv, LiveTypeOK, WatermarkAssumption
    <2> QED BY <2>1 DEF Events
  <1>2. /\ t \in Seq(Events) /\ Len(t) = top /\ DOMAIN t = DOMAIN s \cup {top} /\ top \notin DOMAIN s
        /\ t[top] = e /\ \A j \in DOMAIN s : t[j] = s[j]
    BY <1>1, AppendingEvent
  <1>3. /\ ~ flushed /\ flushed' = flushed /\ file' = file /\ bounded' = bounded
        /\ arrived' = arrived \cup {i} /\ i \notin arrived
        /\ arrived = {} \/ ~ Behind(e, maxTs)
    BY DEF PushInTime, Arrives, feedVars
  <1>4. accepted' = t /\ maxTs' = max /\ Len(accepted') = top
    BY <1>2 DEF PushInTime
  <1>5. out' = EmitAll(out, t, ready, K) /\ buf' = b \ ready
    BY <1>4 DEF PushInTime, Release, Passed
  <1>6. max \in Nat /\ maxTs <= max /\ e.ts <= max
    BY <1>1
  <1>7. P = {j \in DOMAIN s : Behind(s[j], maxTs)} /\ out = EmitAll(Fresh, s, P, K)
    BY <1>3 DEF LiveInv, ReleasedInv
  <1> HIDE DEF t, max, e
  <1>8. ASSUME NEW j \in P PROVE Behind(t[j], max)
    <2>1. s[j] \in Events /\ t[j] = s[j] /\ Behind(s[j], maxTs)
      BY <1>1, <1>2, <1>7
    <2>2. s[j].ts \in Nat
      BY <2>1 DEF Events
    <2> QED BY <1>1, <1>6, <2>1, <2>2 DEF Behind
  <1>9. \A j \in DOMAIN t : Behind(t[j], max) <=> j \in P \cup ready
    BY <1>2, <1>8
  <1>10. DOMAIN t \ buf' = P \cup ready /\ buf' \subseteq DOMAIN t
    BY <1>1, <1>2, <1>5
  <1>11. buf' = {j \in DOMAIN t : ~ Behind(t[j], max)}
    <2>1. buf' = DOMAIN t \ (P \cup ready)
      BY <1>10
    <2> QED BY <1>9, <2>1
  <1>12. ASSUME NEW j \in P, NEW l \in ready PROVE Before(t, j, l)
    <2>1. s[j].ts + Watermark <= maxTs /\ t[j] = s[j] /\ s[j] \in Events
      BY <1>1, <1>2, <1>7 DEF Behind
    <2>2. t[l] \in Events
      BY <1>1, <1>2
    <2>3. ~ (t[l].ts + Watermark <= maxTs)
      <3>1. CASE l = top
        <4>1. s # << >> /\ arrived # {}
          <5>1. maxTs # 0
            <6>1. s[j].ts \in Nat /\ Watermark > 0
              BY <2>1 DEF WatermarkAssumption, Events
            <6> QED BY <1>1, <2>1, <6>1
          <5> QED BY <5>1 DEF LiveInv, ClockInv
        <4> QED BY <1>2, <1>3, <3>1, <4>1 DEF Behind
      <3>2. CASE l \in buf
        BY <1>1, <1>2, <1>3, <3>2 DEF LiveInv, ReleasedInv, Behind
      <3> QED BY <3>1, <3>2
    <2>4. t[j].ts \in Nat /\ t[l].ts \in Nat
      BY <2>1, <2>2 DEF Events
    <2>5. t[j].ts < t[l].ts
      BY <1>1, <2>1, <2>3, <2>4
    <2> QED BY <2>5 DEF Before, KeyLess
  <1>13. out = EmitAll(Fresh, t, P, K)
    <2>1. AgreeOn(s, t, P)
      BY <1>1, <1>2 DEF AgreeOn
    <2> QED BY <1>7, <2>1, EmissionSame
  <1>14. out' = EmitAll(Fresh, t, P \cup ready, K)
    <2>1. P \in SUBSET DOMAIN t /\ ready \in SUBSET DOMAIN t
      BY <1>1, <1>2
    <2> HIDE DEF P, ready
    <2>2. EmitAll(EmitAll(Fresh, t, P, K), t, ready, K) = EmitAll(Fresh, t, P \cup ready, K)
      BY <1>2, <1>12, <2>1, EmissionInTwo
    <2> QED BY <1>5, <1>13, <2>2
  <1>15. LiveTypeOK'
    BY <1>2, <1>3, <1>4, <1>6, <1>10 DEF LiveInv, LiveTypeOK
  <1>16. ReleasedInv'
    <2>1. DOMAIN accepted' \ buf' = P \cup ready
      BY <1>4, <1>10
    <2> QED BY <1>3, <1>4, <1>11, <1>14, <2>1 DEF ReleasedInv, Behind
  <1> QED BY <1>15, <1>16

LEMMA ReleasedInvFlush ==
    ASSUME WatermarkAssumption, LiveInv, Flush
    PROVE  LiveTypeOK' /\ ReleasedInv'
  <1> DEFINE P == DOMAIN accepted \ buf
  <1>1. /\ ~ flushed /\ flushed' = TRUE /\ buf' = {} /\ out' = EmitAll(out, accepted, buf, K)
        /\ file' = file /\ bounded' = bounded /\ arrived' = arrived /\ accepted' = accepted
        /\ maxTs' = maxTs
    BY DEF Flush, feedVars
  <1>2. /\ accepted \in Seq(Events) /\ P \in SUBSET DOMAIN accepted
        /\ buf \in SUBSET DOMAIN accepted /\ P \cup buf = DOMAIN accepted
        /\ maxTs \in Nat /\ Watermark \in Nat
    BY DEF LiveInv, LiveTypeOK, WatermarkAssumption
  <1>3. out = EmitAll(Fresh, accepted, P, K)
    BY DEF LiveInv, ReleasedInv
  <1>4. ASSUME NEW j \in P, NEW l \in buf PROVE Before(accepted, j, l)
    <2>1. Behind(accepted[j], maxTs) /\ ~ Behind(accepted[l], maxTs)
      BY <1>1, <1>2 DEF LiveInv, ReleasedInv
    <2>2. accepted[j] \in Events /\ accepted[l] \in Events
      BY <1>2
    <2>3. accepted[j].ts \in Nat /\ accepted[l].ts \in Nat
      BY <2>2 DEF Events
    <2>4. accepted[j].ts < accepted[l].ts
      BY <1>2, <2>1, <2>3 DEF Behind
    <2> QED BY <2>4 DEF Before, KeyLess
  <1> HIDE DEF P
  <1>5. out' = EmitAll(Fresh, accepted, DOMAIN accepted, K)
    <2>1. EmitAll(EmitAll(Fresh, accepted, P, K), accepted, buf, K)
            = EmitAll(Fresh, accepted, P \cup buf, K)
      BY <1>2, <1>4, EmissionInTwo
    <2> QED BY <1>1, <1>2, <1>3, <2>1
  <1> QED BY <1>1, <1>5 DEF LiveInv, LiveTypeOK, ReleasedInv

LEMMA AcceptedInvPush ==
    ASSUME WatermarkAssumption, LiveInv, NEW i \in DOMAIN file, PushInTime(i)
    PROVE  ClockInv' /\ AcceptedInv'
  <1> DEFINE s == accepted
             e == file[i]
             t == Append(accepted, file[i])
             top == Len(accepted) + 1
  <1>1. /\ s \in Seq(Events) /\ e \in Events /\ maxTs \in Nat /\ i \notin arrived
        /\ arrived \subseteq DOMAIN file
        /\ file' = file /\ bounded' = bounded /\ arrived' = arrived \cup {i} /\ late' = late
        /\ maxTs' = (IF e.ts > maxTs THEN e.ts ELSE maxTs) /\ accepted' = t
    BY DEF LiveInv, LiveTypeOK, PushInTime, Arrives, feedVars
  <1>2. e.ts \in Nat /\ \A j \in DOMAIN s : s[j].ts \in Nat
    <2>1. \A j \in DOMAIN s : s[j] \in Events
      BY <1>1
    <2> QED BY <1>1, <2>1 DEF Events
  <1>3. /\ DOMAIN t = DOMAIN s \cup {top} /\ top \notin DOMAIN s
        /\ t[top] = e /\ \A j \in DOMAIN s : t[j] = s[j]
    BY <1>1, AppendingEvent
  <1> HIDE DEF t, e, top
  <1>4. ClockInv'
    <2>1. \A j \in DOMAIN t : t[j].ts <= maxTs'
      BY <1>1, <1>2, <1>3 DEF LiveInv, ClockInv
    <2>2. maxTs' = 0 \/ \E j \in arrived' : file[j].ts = maxTs'
      BY <1>1, <1>2 DEF LiveInv, ClockInv, e
    <2> QED BY <1>1, <2>1, <2>2 DEF ClockInv
  <1>5. ASSUME late = 0
        PROVE  \E f \in Bijection(DOMAIN t, arrived \cup {i}) : \A j \in DOMAIN t : t[j] = file[f[j]]
    <2>1. PICK f \in Bijection(DOMAIN s, arrived) : \A j \in DOMAIN s : s[j] = file[f[j]]
      BY <1>5 DEF LiveInv, AcceptedInv
    <2>2. /\ f \in [DOMAIN s -> arrived]
          /\ \A j, l \in DOMAIN s : f[j] = f[l] => j = l
          /\ \A a \in arrived : \E j \in DOMAIN s : f[j] = a
      BY <2>1 DEF Bijection, Injection, Surjection, IsInjective
    <2> DEFINE g == [j \in DOMAIN t |-> IF j = top THEN i ELSE f[j]]
    <2>3. g \in [DOMAIN t -> arrived \cup {i}]
      BY <1>3, <2>2
    <2>4. ASSUME NEW j \in DOMAIN t, NEW l \in DOMAIN t, g[j] = g[l] PROVE j = l
      <3>1. g[j] = i <=> j = top
        BY <1>1, <1>3, <2>2
      <3>2. g[l] = i <=> l = top
        BY <1>1, <1>3, <2>2
      <3> QED BY <1>3, <2>2, <2>4, <3>1, <3>2
    <2>5. ASSUME NEW a \in arrived \cup {i} PROVE \E j \in DOMAIN t : g[j] = a
      <3>1. CASE a = i
        BY <1>3, <3>1
      <3>2. CASE a \in arrived
        <4>1. PICK j \in DOMAIN s : f[j] = a
          BY <2>2, <3>2
        <4> QED BY <1>3, <4>1
      <3> QED BY <3>1, <3>2
    <2>6. \A j \in DOMAIN t : t[j] = file[g[j]]
      BY <1>3, <2>1 DEF e
    <2> HIDE DEF g
    <2>7. g \in Bijection(DOMAIN t, arrived \cup {i})
      BY <2>3, <2>4, <2>5 DEF Bijection, Injection, Surjection, IsInjective
    <2> QED BY <2>6, <2>7
  <1>6. AcceptedInv'
    BY <1>1, <1>5 DEF LiveInv, AcceptedInv
  <1> QED BY <1>4, <1>6

\* A feed whose skew stays below the watermark never trips it.
LEMMA LiveInvPushLate ==
    ASSUME WatermarkAssumption, LiveInv, NEW i \in DOMAIN file, PushLate(i)
    PROVE  LiveInv'
  <1>1. /\ file' = file /\ bounded' = bounded /\ flushed' = flushed /\ late' = late + 1
        /\ accepted' = accepted /\ buf' = buf /\ maxTs' = maxTs /\ out' = out
        /\ arrived' = arrived \cup {i} /\ Behind(file[i], maxTs)
        /\ bounded => \A j \in arrived : file[j].ts <= file[i].ts + MaxSkew
    BY DEF PushLate, Arrives, feedVars
  <1>2. /\ MaxSkew \in Nat /\ Watermark \in Nat /\ Watermark > MaxSkew /\ maxTs \in Nat
        /\ late \in Nat /\ arrived \subseteq DOMAIN file
    BY DEF WatermarkAssumption, LiveInv, LiveTypeOK, AcceptedInv
  <1>3. \A j \in DOMAIN file : file[j].ts \in Nat
    <2>1. \A j \in DOMAIN file : file[j] \in Events
      BY DEF LiveInv, LiveTypeOK
    <2> QED BY <2>1 DEF Events
  <1>4. ~ bounded
    <2>1. SUFFICES ASSUME bounded PROVE FALSE
      BY DEF LiveInv, LiveTypeOK
    <2>2. file[i].ts \in Nat /\ file[i].ts + Watermark <= maxTs
      BY <1>1, <1>3 DEF Behind
    <2>3. maxTs # 0
      BY <1>2, <2>2
    <2>4. PICK j \in arrived : file[j].ts = maxTs
      BY <2>3 DEF LiveInv, ClockInv
    <2>5. file[j].ts <= file[i].ts + MaxSkew
      BY <1>1, <2>1, <2>4
    <2> QED BY <1>2, <2>2, <2>4, <2>5
  <1>5. LiveTypeOK' /\ ReleasedInv' /\ ClockInv'
    BY <1>1 DEF LiveInv, LiveTypeOK, ReleasedInv, ClockInv, Behind
  <1>6. AcceptedInv'
    <2>1. late + 1 # 0 /\ late + 1 \in Nat
      BY <1>2
    <2> QED BY <1>1, <1>4, <2>1 DEF AcceptedInv
  <1> QED BY <1>5, <1>6 DEF LiveInv

LEMMA LiveInvInit == ASSUME WatermarkAssumption, FileAssumption, LiveInit PROVE LiveInv
  <1>1. /\ file \in Seq(Events) /\ bounded \in BOOLEAN /\ arrived = {} /\ accepted = << >>
        /\ late = 0 /\ buf = {} /\ maxTs = 0 /\ out = Fresh /\ flushed = FALSE
    BY DEF LiveInit, FileAssumption
  <1>2. << >> \in Seq(Events) /\ DOMAIN << >> = {}
    BY EmptySequence
  <1>3. LiveTypeOK /\ ClockInv
    BY <1>1, <1>2 DEF LiveTypeOK, ClockInv
  <1>4. EmitAll(Fresh, accepted, DOMAIN accepted \ buf, K) = Fresh
    <2>1. DOMAIN accepted \ buf = {}
      BY <1>1, <1>2
    <2> QED BY <1>1, <1>2, <2>1, NothingEmitted
  <1>5. ReleasedInv
    BY <1>1, <1>2, <1>4 DEF ReleasedInv
  <1>6. AcceptedInv
    <2> DEFINE f == [j \in {} |-> j]
    <2>1. f \in Bijection({}, {})
      BY DEF Bijection, Injection, Surjection, IsInjective
    <2> QED BY <1>1, <1>2, <2>1 DEF AcceptedInv
  <1> QED BY <1>3, <1>5, <1>6 DEF LiveInv

LEMMA LiveInvStep ==
    ASSUME WatermarkAssumption, LiveInv, [LiveNext]_liveVars
    PROVE  LiveInv'
  <1>1. ASSUME NEW i \in DOMAIN file, PushInTime(i) PROVE LiveInv'
    BY <1>1, ReleasedInvPush, AcceptedInvPush DEF LiveInv
  <1>2. ASSUME NEW i \in DOMAIN file, PushLate(i) PROVE LiveInv'
    BY <1>2, LiveInvPushLate
  <1>3. CASE Flush
    <2>1. ClockInv' /\ AcceptedInv'
      BY <1>3 DEF Flush, feedVars, LiveInv, ClockInv, AcceptedInv
    <2> QED BY <1>3, <2>1, ReleasedInvFlush DEF LiveInv
  <1>4. CASE UNCHANGED liveVars
    BY <1>4 DEF liveVars, feedVars, LiveInv, LiveTypeOK, ReleasedInv, ClockInv, AcceptedInv, Behind
  <1> QED BY <1>1, <1>2, <1>3, <1>4 DEF LiveNext

\* The live reconstructor keeps its invariant, whatever files of whatever
\* length and in whatever order they arrive.
THEOREM LiveInvariant ==
    ASSUME WatermarkAssumption, FileAssumption
    PROVE  LiveSpec => []LiveInv
  <1>1. LiveInit => LiveInv
    BY LiveInvInit
  <1>2. LiveInv /\ [LiveNext]_liveVars => LiveInv'
    BY LiveInvStep
  <1> QED BY <1>1, <1>2, PTL DEF LiveSpec

LEMMA BeginsIsPrefix ==
    ASSUME NEW u, Sequence(u), NEW v, Sequence(v), Begins(u, v)
    PROVE  IsPrefix(u, v)
  <1>1. PICK S : u \in Seq(S)
    BY DEF Sequence
  <1>2. PICK T : v \in Seq(T)
    BY DEF Sequence
  <1>3. Len(u) \in Nat /\ Len(v) \in Nat /\ Len(u) <= Len(v)
    BY <1>1, <1>2 DEF Begins
  <1>4. SubSeq(u, 1, Len(u)) = [j \in 1 .. Len(u) |-> u[j]]
    BY <1>1, <1>3
  <1>5. SubSeq(v, 1, Len(u)) = [j \in 1 .. Len(u) |-> v[j]]
    BY <1>2, <1>3
  <1> QED BY <1>3, <1>4, <1>5 DEF Begins, IsPrefix

\* Whatever arrives and in whatever order, the rows emitted so far are those
\* the offline reconstruction of the accepted events begins with, and after
\* the flush all of them.
THEOREM LiveIsOfflineOfAcceptedTheorem ==
    ASSUME WatermarkAssumption, FileAssumption
    PROVE  LiveSpec => []LiveIsOfflineOfAccepted
  <1>1. ASSUME LiveInv PROVE LiveIsOfflineOfAccepted
    <2> DEFINE s == accepted
               D == DOMAIN accepted
               P == D \ buf
    <2>1. s \in Seq(Events) /\ P \in SUBSET D /\ buf \in SUBSET D /\ P \cup buf = D
          /\ out = EmitAll(Fresh, s, P, K) /\ maxTs \in Nat /\ Watermark \in Nat
      BY <1>1 DEF LiveInv, LiveTypeOK, ReleasedInv, WatermarkAssumption
    <2>2. CASE flushed
      <3>1. P = D
        BY <1>1, <2>2 DEF LiveInv, ReleasedInv
      <3> QED BY <2>1, <2>2, <3>1 DEF LiveIsOfflineOfAccepted, AtTrades
    <2>3. CASE ~ flushed
      <3>1. ASSUME NEW j \in P, NEW l \in buf PROVE Before(s, j, l)
        <4>1. Behind(s[j], maxTs) /\ ~ Behind(s[l], maxTs)
          BY <1>1, <2>1, <2>3 DEF LiveInv, ReleasedInv
        <4>2. s[j] \in Events /\ s[l] \in Events
          BY <2>1
        <4>3. s[j].ts \in Nat /\ s[l].ts \in Nat
          BY <4>2 DEF Events
        <4>4. s[j].ts < s[l].ts
          BY <2>1, <4>1, <4>3 DEF Behind
        <4> QED BY <4>4 DEF Before, KeyLess
      <3> HIDE DEF P
      <3>2. EmitAll(out, s, buf, K) = EmitAll(Fresh, s, D, K)
        <4>1. EmitAll(EmitAll(Fresh, s, P, K), s, buf, K) = EmitAll(Fresh, s, P \cup buf, K)
          BY <2>1, <3>1, EmissionInTwo
        <4> QED BY <2>1, <4>1
      <3>3. IsState(out)
        BY <2>1, FreshIsState, EmissionLeaves
      <3>4. IsState(EmitAll(out, s, buf, K)) /\ Begins(out.rows, EmitAll(out, s, buf, K).rows)
        BY <2>1, <3>3, EmissionLeaves
      <3>5. IsPrefix(out.rows, AtTrades(s, K))
        BY <3>2, <3>3, <3>4, BeginsIsPrefix DEF AtTrades, IsState
      <3> QED BY <2>3, <3>5 DEF LiveIsOfflineOfAccepted
    <2> QED BY <1>1, <2>2, <2>3 DEF LiveInv, LiveTypeOK
  <1> QED BY <1>1, LiveInvariant, PTL

-----------------------------------------------------------------------------
(* Events no key orders *)

SideAfter(f, d) ==
    [p \in IF d.size = 0 THEN DOMAIN f \ {d.price} ELSE DOMAIN f \cup {d.price} |->
        IF p = d.price THEN d.size ELSE f[p]]

LEMMA ApplyDef ==
    ASSUME NEW b, NEW d, IsDelta(d), b = [bid |-> b.bid, ask |-> b.ask]
    PROVE  Apply(b, d) = IF d.side = "bid" THEN [bid |-> SideAfter(b.bid, d), ask |-> b.ask]
                                           ELSE [bid |-> b.bid, ask |-> SideAfter(b.ask, d)]
  <1>1. Apply(b, d) = [b EXCEPT ![d.side] = SideAfter(b[d.side], d)]
    BY DEF Apply, SideAfter
  <1>2. CASE d.side = "bid"
    BY <1>1, <1>2
  <1>3. CASE d.side = "ask"
    BY <1>1, <1>3
  <1> QED BY <1>2, <1>3 DEF IsDelta

LEMMA SidesCommute ==
    ASSUME NEW f, NEW d, NEW e, d.price # e.price
    PROVE  SideAfter(SideAfter(f, d), e) = SideAfter(SideAfter(f, e), d)
  <1> DEFINE D(g, x) == IF x.size = 0 THEN DOMAIN g \ {x.price} ELSE DOMAIN g \cup {x.price}
             u == SideAfter(f, d)
             v == SideAfter(f, e)
  <1>1. DOMAIN u = D(f, d) /\ DOMAIN v = D(f, e)
    BY DEF SideAfter
  <1>2. /\ \A p \in D(f, d) : u[p] = IF p = d.price THEN d.size ELSE f[p]
        /\ \A p \in D(f, e) : v[p] = IF p = e.price THEN e.size ELSE f[p]
    BY DEF SideAfter
  <1>3. D(u, e) = D(v, d)
    BY <1>1
  <1>4. \A p \in D(u, e) : (IF p = e.price THEN e.size ELSE u[p])
                             = (IF p = d.price THEN d.size ELSE v[p])
    BY <1>1, <1>2
  <1>5. /\ SideAfter(u, e) = [p \in D(u, e) |-> IF p = e.price THEN e.size ELSE u[p]]
        /\ SideAfter(v, d) = [p \in D(v, d) |-> IF p = d.price THEN d.size ELSE v[p]]
    BY DEF SideAfter
  <1> HIDE DEF D, u, v
  <1>6. SideAfter(u, e) = SideAfter(v, d)
    BY <1>3, <1>4, <1>5
  <1> QED BY <1>6 DEF u, v

\* Deltas of different levels may be applied in either order.
LEMMA DeltasCommute ==
    ASSUME NEW b, b = [bid |-> b.bid, ask |-> b.ask], NEW d, IsDelta(d), NEW e, IsDelta(e),
           d.side # e.side \/ d.price # e.price
    PROVE  Apply(Apply(b, d), e) = Apply(Apply(b, e), d)
  <1>1. /\ Apply(b, d) = IF d.side = "bid" THEN [bid |-> SideAfter(b.bid, d), ask |-> b.ask]
                                           ELSE [bid |-> b.bid, ask |-> SideAfter(b.ask, d)]
        /\ Apply(b, e) = IF e.side = "bid" THEN [bid |-> SideAfter(b.bid, e), ask |-> b.ask]
                                           ELSE [bid |-> b.bid, ask |-> SideAfter(b.ask, e)]
    BY ApplyDef
  <1>2. /\ Apply(b, d) = [bid |-> Apply(b, d).bid, ask |-> Apply(b, d).ask]
        /\ Apply(b, e) = [bid |-> Apply(b, e).bid, ask |-> Apply(b, e).ask]
    BY <1>1
  <1>3. /\ Apply(Apply(b, d), e) =
              IF e.side = "bid"
              THEN [bid |-> SideAfter(Apply(b, d).bid, e), ask |-> Apply(b, d).ask]
              ELSE [bid |-> Apply(b, d).bid, ask |-> SideAfter(Apply(b, d).ask, e)]
        /\ Apply(Apply(b, e), d) =
              IF d.side = "bid"
              THEN [bid |-> SideAfter(Apply(b, e).bid, d), ask |-> Apply(b, e).ask]
              ELSE [bid |-> Apply(b, e).bid, ask |-> SideAfter(Apply(b, e).ask, d)]
    BY <1>2, ApplyDef
  <1>4. CASE d.side = e.side
    <2>1. /\ SideAfter(SideAfter(b.bid, d), e) = SideAfter(SideAfter(b.bid, e), d)
          /\ SideAfter(SideAfter(b.ask, d), e) = SideAfter(SideAfter(b.ask, e), d)
      BY <1>4, SidesCommute
    <2> QED BY <1>1, <1>3, <1>4, <2>1
  <1>5. CASE d.side # e.side
    BY <1>1, <1>3, <1>5 DEF IsDelta
  <1> QED BY <1>4, <1>5

\* Events that no key orders and that do not conflict may be emitted in either
\* order.
LEMMA EmissionsCommute ==
    ASSUME NEW st, IsState(st), NEW k, NEW d \in Events, NEW e \in Events,
           ~ KeyLess(d, e), ~ KeyLess(e, d), ~ Ambiguous(d, e)
    PROVE  Emit(Emit(st, d, k), e, k) = Emit(Emit(st, e, k), d, k)
  <1>1. CASE d = e
    BY <1>1
  <1>2. CASE d # e
    <2>1. d.kind = "delta" /\ (d.side # e.side \/ d.price # e.price)
      BY <1>2 DEF Ambiguous
    <2>2. e.kind = "delta"
      <3>1. d.ts \in Nat /\ e.ts \in Nat /\ e.kind \in {"delta", "trade"}
        BY DEF Events
      <3> QED BY <2>1, <3>1 DEF KeyLess
    <2>3. IsState(Emit(st, d, k)) /\ IsState(Emit(st, e, k))
      BY EmitLeaves
    <2>4. /\ Emit(st, d, k) = [book |-> Apply(st.book, d), rows |-> st.rows]
          /\ Emit(st, e, k) = [book |-> Apply(st.book, e), rows |-> st.rows]
      BY <2>1, <2>2, EmitLeaves
    <2> DEFINE u == Emit(st, d, k)
               v == Emit(st, e, k)
    <2>5. /\ IsState(u) /\ u.book = Apply(st.book, d) /\ u.rows = st.rows
          /\ IsState(v) /\ v.book = Apply(st.book, e) /\ v.rows = st.rows
      BY <2>3, <2>4
    <2> HIDE DEF u, v
    <2>6. Emit(u, e, k) = [book |-> Apply(u.book, e), rows |-> u.rows]
      BY <2>2, <2>5, EmitLeaves
    <2>7. Emit(v, d, k) = [book |-> Apply(v.book, d), rows |-> v.rows]
      BY <2>1, <2>5, EmitLeaves
    <2>8. Emit(u, e, k) = [book |-> Apply(Apply(st.book, d), e), rows |-> st.rows]
      BY <2>5, <2>6
    <2>9. Emit(v, d, k) = [book |-> Apply(Apply(st.book, e), d), rows |-> st.rows]
      BY <2>5, <2>7
    <2>10. Apply(Apply(st.book, d), e) = Apply(Apply(st.book, e), d)
      BY <2>1, EventIsDelta, DeltasCommute DEF IsState, IsBook
    <2> QED BY <2>8, <2>9, <2>10 DEF u, v
  <1> QED BY <1>1, <1>2

NothingAmbiguous(s) == \A i, j \in DOMAIN s : ~ Ambiguous(s[i], s[j])

\* An event no other one's key follows may be emitted last.
LEMMA EmitAnyLast ==
    ASSUME NEW s \in Seq(Events), NothingAmbiguous(s), NEW st, IsState(st), NEW k
    PROVE  \A P \in SUBSET DOMAIN s : \A m \in P :
              (\A j \in P : ~ KeyLess(s[m], s[j])) =>
                  EmitAll(st, s, P, k) = Emit(EmitAll(st, s, P \ {m}, k), s[m], k)
  <1> DEFINE E(Q) == EmitAll(st, s, Q, k)
             Top(Q, m) == \A j \in Q : ~ KeyLess(s[m], s[j])
             good == {Q \in SUBSET DOMAIN s : \A m \in Q :
                        Top(Q, m) => E(Q) = Emit(E(Q \ {m}), s[m], k)}
  <1>1. ASSUME NEW Q \in SUBSET DOMAIN s, \A U \in SUBSET Q : U # Q => U \in good,
               NEW m \in Q, Top(Q, m)
        PROVE  E(Q) = Emit(E(Q \ {m}), s[m], k)
    <2> DEFINE l == Latest(s, Q)
               U == Q \ {l}
               V == Q \ {m}
               W == Q \ {l, m}
    <2>1. l \in Q /\ \A j \in Q \ {l} : Before(s, j, l)
      BY LatestIn
    <2>2. E(Q) = Emit(E(U), s[l], k)
      BY EmitLatest
    <2>3. CASE l = m
      BY <2>2, <2>3
    <2>4. CASE l # m
      <3> HIDE DEF E, l
      <3>1. U \in good /\ m \in U /\ Top(U, m) /\ U \ {m} = W
        BY <1>1, <2>1, <2>4
      <3>2. E(U) = Emit(E(W), s[m], k)
        BY <3>1
      <3>3. V \in SUBSET DOMAIN s /\ l \in V /\ V # {} /\ V \ {l} = W
        BY <2>1, <2>4
      <3>4. Latest(s, V) = l
        <4>1. \A j \in V \ {l} : Before(s, j, l)
          BY <2>1
        <4> HIDE DEF V
        <4> QED BY <3>3, <4>1, LatestIs
      <3>5. E(V) = Emit(E(W), s[l], k)
        BY <3>3, <3>4, EmitLatest DEF E
      <3>6. ~ KeyLess(s[m], s[l]) /\ ~ KeyLess(s[l], s[m])
        BY <1>1, <2>1, <2>4 DEF Before
      <3>7. IsState(E(W)) /\ s[m] \in Events /\ s[l] \in Events /\ ~ Ambiguous(s[m], s[l])
        BY <2>1, EmissionLeaves DEF NothingAmbiguous, E
      <3> HIDE DEF U, V, W
      <3>8. Emit(Emit(E(W), s[m], k), s[l], k) = Emit(Emit(E(W), s[l], k), s[m], k)
        BY <3>6, <3>7, EmissionsCommute
      <3> QED BY <2>2, <3>2, <3>5, <3>8 DEF V
    <2> QED BY <2>3, <2>4
  <1> HIDE DEF E, Top
  <1>2. \A Q \in SUBSET DOMAIN s : (\A U \in SUBSET Q : U # Q => U \in good) => Q \in good
    BY <1>1
  <1>3. IsFiniteSet(DOMAIN s)
    BY FS_Interval
  <1>4. SUBSET DOMAIN s \subseteq good
    <2> HIDE DEF good
    <2> QED BY <1>2, <1>3, SubsetInduction
  <1> QED BY <1>4 DEF E, Top

\* Without conflicting events the arrival order is of no consequence.
LEMMA EmissionOfPermuted ==
    ASSUME NEW s \in Seq(Events), NEW t \in Seq(Events), NothingAmbiguous(t),
           NEW f \in Bijection(DOMAIN s, DOMAIN t), \A j \in DOMAIN s : s[j] = t[f[j]],
           NEW st, IsState(st), NEW k
    PROVE  EmitAll(st, s, DOMAIN s, k) = EmitAll(st, t, DOMAIN t, k)
  <1>3. IsFiniteSet(DOMAIN s)
    <2>1. DOMAIN s = 1 .. Len(s) /\ Len(s) \in Nat
      OBVIOUS
    <2>2. IsFiniteSet(1 .. Len(s))
      BY <2>1, FS_Interval
    <2> QED BY <2>1, <2>2, Zenon
  <1> DEFINE Img(Q) == {f[j] : j \in Q}
             good == {Q \in SUBSET DOMAIN s : EmitAll(st, s, Q, k) = EmitAll(st, t, Img(Q), k)}
  <1>1. /\ f \in [DOMAIN s -> DOMAIN t]
        /\ \A j, l \in DOMAIN s : f[j] = f[l] => j = l
        /\ \A a \in DOMAIN t : \E j \in DOMAIN s : f[j] = a
    BY DEF Bijection, Injection, Surjection, IsInjective
  <1>2. ASSUME NEW Q \in SUBSET DOMAIN s, \A U \in SUBSET Q : U # Q => U \in good
        PROVE  Q \in good
    <2>1. CASE Q = {}
      <3>1. Img(Q) = {}
        BY <2>1
      <3>2. EmitAll(st, s, Q, k) = st /\ EmitAll(st, t, Img(Q), k) = st
        <4> HIDE DEF Img
        <4> QED BY <2>1, <3>1, EmitLatest
      <3> QED BY <3>2
    <2>2. CASE Q # {}
      <3> DEFINE m == Latest(s, Q)
                 U == Q \ {m}
      <3>1. m \in Q /\ \A j \in Q \ {m} : Before(s, j, m)
        BY <2>2, LatestIn
      <3>2. EmitAll(st, s, Q, k) = Emit(EmitAll(st, s, U, k), s[m], k)
        BY <2>2, EmitLatest
      <3> HIDE DEF m
      <3>3. U \in good
        BY <1>2, <3>1
      <3>4. EmitAll(st, s, U, k) = EmitAll(st, t, Img(U), k)
        BY <3>3
      <3>5. Img(Q) \in SUBSET DOMAIN t /\ f[m] \in Img(Q) /\ Img(U) = Img(Q) \ {f[m]}
            /\ s[m] = t[f[m]]
        BY <1>1, <3>1
      <3>6. ASSUME NEW a \in Img(Q) PROVE ~ KeyLess(t[f[m]], t[a])
        <4>1. PICK j \in Q : f[j] = a
          OBVIOUS
        <4>2. t[a] = s[j] /\ t[f[m]] = s[m] /\ s[m] \in Events
          BY <3>1, <4>1
        <4>3. CASE j = m
          <5>1. s[m].ts \in Nat /\ s[m].seq \in Nat
            BY <4>2 DEF Events
          <5> QED BY <4>2, <4>3, <5>1 DEF KeyLess
        <4>4. CASE j # m
          <5>1. Before(s, j, m)
            BY <3>1, <4>4
          <5>2. s[j] \in Events
            OBVIOUS
          <5>3. /\ s[m].ts \in Nat /\ s[m].seq \in Nat /\ s[j].ts \in Nat /\ s[j].seq \in Nat
            BY <4>2, <5>2 DEF Events
          <5> QED BY <4>2, <5>1, <5>3 DEF Before, KeyLess
        <4> QED BY <4>3, <4>4
      <3> HIDE DEF Img, U
      <3>7. EmitAll(st, t, Img(Q), k) = Emit(EmitAll(st, t, Img(Q) \ {f[m]}, k), t[f[m]], k)
        BY <3>5, <3>6, EmitAnyLast
      <3> QED BY <3>2, <3>4, <3>5, <3>7
    <2> QED BY <2>1, <2>2
  <1>4. SUBSET DOMAIN s \subseteq good
    <2> HIDE DEF good
    <2> QED BY <1>2, <1>3, SubsetInduction
  <1>5. Img(DOMAIN s) = DOMAIN t
    <2>1. \A j \in DOMAIN s : f[j] \in DOMAIN t
      BY <1>1
    <2>2. Img(DOMAIN s) \subseteq DOMAIN t
      BY <2>1
    <2>3. DOMAIN t \subseteq Img(DOMAIN s)
      BY <1>1
    <2> QED BY <2>2, <2>3
  <1>6. DOMAIN s \in good
    <2> HIDE DEF good
    <2> QED BY <1>4
  <1> QED BY <1>5, <1>6

\* The replay-equivalence gate, for every file and every arrival order a feed
\* of bounded skew can produce: nothing is lost, and without conflicting
\* events the flushed rows are those of the whole file.
THEOREM BoundedFeedReplaysOfflineTheorem ==
    ASSUME WatermarkAssumption, FileAssumption
    PROVE  LiveSpec => []BoundedFeedReplaysOffline
  <1>1. ASSUME LiveInv, bounded, arrived = DOMAIN file, flushed
        PROVE  /\ late = 0
               /\ (\A i, j \in DOMAIN file : ~ Ambiguous(file[i], file[j])) =>
                     out.rows = AtTrades(file, K)
    <2>1. late = 0 /\ file \in Seq(Events) /\ accepted \in Seq(Events)
      BY <1>1 DEF LiveInv, AcceptedInv, LiveTypeOK
    <2>2. PICK f \in Bijection(DOMAIN accepted, DOMAIN file) :
                  \A j \in DOMAIN accepted : accepted[j] = file[f[j]]
      BY <1>1, <2>1 DEF LiveInv, AcceptedInv
    <2>3. out = EmitAll(Fresh, accepted, DOMAIN accepted, K)
      <3>1. DOMAIN accepted \ buf = DOMAIN accepted
        BY <1>1 DEF LiveInv, ReleasedInv
      <3> QED BY <1>1, <3>1 DEF LiveInv, ReleasedInv
    <2>4. ASSUME NothingAmbiguous(file) PROVE out.rows = AtTrades(file, K)
      <3>1. EmitAll(Fresh, accepted, DOMAIN accepted, K) = EmitAll(Fresh, file, DOMAIN file, K)
        BY <2>1, <2>2, <2>4, FreshIsState, EmissionOfPermuted
      <3> QED BY <2>3, <3>1 DEF AtTrades
    <2> QED BY <2>1, <2>4 DEF NothingAmbiguous
  <1>2. LiveInv => BoundedFeedReplaysOffline
    BY <1>1 DEF BoundedFeedReplaysOffline
  <1> QED BY <1>2, LiveInvariant, PTL

-----------------------------------------------------------------------------
(* The book of a set of events *)

Event(e) == IsDelta(e) /\ e.ts \in Int /\ e.recv \in Int /\ e.ts <= e.recv

\* A day's book stream, in the order it happened.
Stream(E) ==
    /\ Sequence(E)
    /\ \A i \in DOMAIN E : Event(E[i])
    /\ \A i, j \in DOMAIN E : i <= j => E[i].ts <= E[j].ts

\* Of the events P, i is the last to move its level.
Newest(E, P, i) == i \in P /\ \A j \in P : LevelOf(E[j]) = LevelOf(E[i]) => j <= i

Standing(E, P, s) == {i \in P : Newest(E, P, i) /\ E[i].side = s /\ E[i].size # 0}

\* b holds at every level what the last of the events P to move it left.
Shows(b, E, P) ==
    /\ IsBook(b)
    /\ \A s \in {"bid", "ask"} :
          /\ DOMAIN b[s] = {E[i].price : i \in Standing(E, P, s)}
          /\ \A i \in Standing(E, P, s) : b[s][E[i].price] = E[i].size

LEMMA ShowsNothing == ASSUME NEW E PROVE Shows(EmptyBook, E, {})
  <1>1. \A s \in {"bid", "ask"} : Standing(E, {}, s) = {}
    BY DEF Standing
  <1>2. \A s \in {"bid", "ask"} : DOMAIN EmptyBook[s] = {}
    BY EmptySequence DEF EmptyBook
  <1> QED BY <1>1, <1>2, EmptyBookIsBook DEF Shows

LEMMA SameStanding ==
    ASSUME NEW E, NEW P, NEW s, NEW i \in Standing(E, P, s), NEW j \in Standing(E, P, s),
           P \subseteq Nat, E[i].price = E[j].price
    PROVE  i = j
  <1>1. LevelOf(E[i]) = LevelOf(E[j]) /\ i \in P /\ j \in P
    BY DEF Standing, LevelOf
  <1>2. i <= j /\ j <= i
    BY <1>1 DEF Standing, Newest
  <1> QED BY <1>1, <1>2

\* Only one book does.
LEMMA ShowsOne ==
    ASSUME NEW E, NEW P, NEW a, NEW b, Shows(a, E, P), Shows(b, E, P)
    PROVE  a = b
  <1>1. ASSUME NEW s \in {"bid", "ask"} PROVE a[s] = b[s]
    <2>1. DOMAIN a[s] = DOMAIN b[s]
      BY DEF Shows
    <2>2. ASSUME NEW p \in DOMAIN a[s] PROVE a[s][p] = b[s][p]
      <3>1. PICK i \in Standing(E, P, s) : p = E[i].price
        BY DEF Shows
      <3> QED BY <3>1 DEF Shows
    <2>3. a[s] = [p \in DOMAIN a[s] |-> a[s][p]] /\ b[s] = [p \in DOMAIN b[s] |-> b[s][p]]
      BY DEF Shows, IsBook, IsSide
    <2> QED BY <2>1, <2>2, <2>3
  <1>2. a.bid = b.bid /\ a.ask = b.ask
    BY <1>1
  <1> QED BY <1>2 DEF Shows, IsBook

\* An event newer than all that moved its level is applied.
LEMMA ShowsApplied ==
    ASSUME NEW E, NEW P, P \subseteq Nat, NEW b, Shows(b, E, P),
           NEW i \in Nat, i \notin P, IsDelta(E[i]),
           \A j \in P : LevelOf(E[j]) = LevelOf(E[i]) => j < i
    PROVE  Shows(Apply(b, E[i]), E, P \cup {i})
  <1> DEFINE d == E[i]
             Q == P \cup {i}
  <1>1. IsBook(Apply(b, d))
    BY ApplyIsBook DEF Shows
  <1>2. ASSUME NEW k \in P PROVE Newest(E, Q, k) <=> Newest(E, P, k) /\ LevelOf(E[k]) # LevelOf(d)
    <2>1. LevelOf(E[k]) = LevelOf(d) => k < i
      OBVIOUS
    <2>2. k \in Nat
      OBVIOUS
    <2> QED BY <2>1, <2>2 DEF Newest
  <1>3. Newest(E, Q, i)
    <2>1. \A j \in P : LevelOf(E[j]) = LevelOf(d) => j <= i
      <3>1. \A j \in P : j \in Nat
        OBVIOUS
      <3> QED BY <3>1
    <2> QED BY <2>1 DEF Newest
  <1>4. ASSUME NEW s \in {"bid", "ask"}
        PROVE  Standing(E, Q, s) = {k \in Standing(E, P, s) : LevelOf(E[k]) # LevelOf(d)}
                                      \cup (IF d.side = s /\ d.size # 0 THEN {i} ELSE {})
    BY <1>2, <1>3 DEF Standing
  <1>5. ASSUME NEW s \in {"bid", "ask"}, s # d.side
        PROVE  /\ Apply(b, d)[s] = b[s]
               /\ Standing(E, Q, s) = Standing(E, P, s)
    <2>1. Apply(b, d)[s] = b[s]
      BY <1>5 DEF Apply, Shows, IsBook
    <2>2. \A k \in Standing(E, P, s) : LevelOf(E[k]) # LevelOf(d)
      BY <1>5 DEF Standing, LevelOf
    <2> QED BY <1>4, <1>5, <2>1, <2>2
  <1>6. ASSUME NEW s \in {"bid", "ask"}, s = d.side
        PROVE  /\ DOMAIN Apply(b, d)[s] = {E[k].price : k \in Standing(E, Q, s)}
               /\ \A k \in Standing(E, Q, s) : Apply(b, d)[s][E[k].price] = E[k].size
    <2> DEFINE D == IF d.size = 0 THEN DOMAIN b[s] \ {d.price} ELSE DOMAIN b[s] \cup {d.price}
    <2>1. Apply(b, d)[s] = [p \in D |-> IF p = d.price THEN d.size ELSE b[s][p]]
      BY <1>6 DEF Apply, Shows, IsBook
    <2>2. DOMAIN b[s] = {E[k].price : k \in Standing(E, P, s)}
      BY DEF Shows
    <2>3. \A k \in Standing(E, P, s) : LevelOf(E[k]) # LevelOf(d) <=> E[k].price # d.price
      BY <1>6 DEF Standing, LevelOf
    <2>4. D = {E[k].price : k \in Standing(E, Q, s)}
      <3>1. CASE d.size = 0
        <4>1. Standing(E, Q, s) = {k \in Standing(E, P, s) : E[k].price # d.price}
          BY <1>4, <2>3, <3>1
        <4> QED BY <2>2, <3>1, <4>1
      <3>2. CASE d.size # 0
        <4>1. Standing(E, Q, s) = {k \in Standing(E, P, s) : E[k].price # d.price} \cup {i}
          BY <1>4, <1>6, <2>3, <3>2
        <4> QED BY <2>2, <3>2, <4>1
      <3> QED BY <3>1, <3>2
    <2>5. ASSUME NEW k \in Standing(E, Q, s) PROVE Apply(b, d)[s][E[k].price] = E[k].size
      <3>1. E[k].price \in D
        BY <2>4
      <3>2. CASE k = i
        BY <2>1, <3>1, <3>2
      <3>3. CASE k # i
        <4>1. k \in Standing(E, P, s) /\ E[k].price # d.price
          BY <1>4, <2>3, <3>3
        <4>2. b[s][E[k].price] = E[k].size
          BY <4>1 DEF Shows
        <4> QED BY <2>1, <3>1, <4>1, <4>2
      <3> QED BY <3>2, <3>3
    <2> QED BY <2>1, <2>4, <2>5
  <1> HIDE DEF d, Q
  <1>7. ASSUME NEW s \in {"bid", "ask"}
        PROVE  /\ DOMAIN Apply(b, d)[s] = {E[k].price : k \in Standing(E, Q, s)}
               /\ \A k \in Standing(E, Q, s) : Apply(b, d)[s][E[k].price] = E[k].size
    <2>1. CASE s = d.side
      BY <1>6, <2>1
    <2>2. CASE s # d.side
      BY <1>5, <2>2 DEF Shows
    <2> QED BY <2>1, <2>2
  <1>8. Shows(Apply(b, d), E, Q)
    BY <1>1, <1>7 DEF Shows
  <1> QED BY <1>8 DEF d, Q

\* An older one changes nothing.
LEMMA ShowsStale ==
    ASSUME NEW E, NEW P, P \subseteq Nat, NEW b, Shows(b, E, P),
           NEW i \in Nat, i \notin P,
           NEW j \in P, LevelOf(E[j]) = LevelOf(E[i]), i < j
    PROVE  Shows(b, E, P \cup {i})
  <1> DEFINE Q == P \cup {i}
  <1>1. ASSUME NEW k \in P PROVE Newest(E, Q, k) <=> Newest(E, P, k)
    <2>1. ASSUME Newest(E, P, k), LevelOf(E[k]) = LevelOf(E[i]) PROVE i <= k
      <3>1. j <= k /\ k \in Nat /\ j \in Nat
        BY <2>1 DEF Newest
      <3> QED BY <3>1
    <2> QED BY <2>1 DEF Newest
  <1>2. ~ Newest(E, Q, i)
    <2>1. j \in Nat /\ ~ j <= i
      OBVIOUS
    <2> QED BY <2>1 DEF Newest
  <1>3. \A s \in {"bid", "ask"} : Standing(E, Q, s) = Standing(E, P, s)
    BY <1>1, <1>2 DEF Standing
  <1> QED BY <1>3 DEF Shows

-----------------------------------------------------------------------------
BookOp(c, x, i) == Apply(x, c[i])
Top(c, Q) == Max(Q)
BookHolds(c, x, Q) == Shows(x, c, Q)
Books == INSTANCE FoldTheorems WITH Op <- BookOp, Pick <- Top, Holds <- BookHolds

LEMMA BookOfDef ==
    ASSUME NEW E, NEW P
    PROVE  BookOf(E, P) = Books!Fold(E, EmptyBook, P)
  BY DEF BookOf, Books!Fold, Books!IsFold, MapThenFoldSet, BookOp, Top

LEMMA TopIn ==
    ASSUME NEW l \in Nat, NEW c, NEW Q \in SUBSET (1 .. l), Q # {}
    PROVE  Top(c, Q) \in Q /\ \A i \in Q : i <= Top(c, Q)
  <1>1. Q \subseteq 1 .. l /\ Q \subseteq Nat
    OBVIOUS
  <1>2. IsFiniteSet(Q)
    BY <1>1, PositionsAreFinite
  <1> QED BY <1>1, <1>2, MaxOfFinite DEF Top

LEMMA BookOfShows ==
    ASSUME NEW E, Stream(E), NEW P, P \subseteq DOMAIN E
    PROVE  Shows(BookOf(E, P), E, P)
  <1> DEFINE l == Len(E)
  <1>1. l \in Nat /\ P \subseteq 1 .. l
    BY SequenceFacts DEF Stream
  <1>2. \A Q \in SUBSET P : Q # {} => Top(E, Q) \in Q /\ \A i \in Q : i <= Top(E, Q)
    <2> HIDE DEF l
    <2> QED BY <1>1, TopIn
  <1>3. BookHolds(E, EmptyBook, {})
    BY ShowsNothing DEF BookHolds
  <1>4. ASSUME NEW Q \in SUBSET P, Q # {}, NEW x, BookHolds(E, x, Q \ {Top(E, Q)})
        PROVE  BookHolds(E, BookOp(E, x, Top(E, Q)), Q)
    <2> DEFINE i == Top(E, Q)
               R == Q \ {i}
    <2>1. i \in Q /\ \A j \in Q : j <= i
      BY <1>2, <1>4
    <2>2. i \in Nat /\ R \subseteq Nat /\ IsDelta(E[i])
      BY <1>1, <2>1 DEF Stream, Event
    <2>3. \A j \in R : j < i
      BY <2>1, <2>2
    <2>4. Shows(x, E, R) /\ i \notin R /\ R \cup {i} = Q
      BY <1>4, <2>1 DEF BookHolds
    <2> HIDE DEF i, R
    <2>5. Shows(Apply(x, E[i]), E, R \cup {i})
      BY <2>2, <2>3, <2>4, ShowsApplied
    <2> QED BY <2>4, <2>5 DEF BookHolds, BookOp, i
  <1>5. BookHolds(E, Books!Fold(E, EmptyBook, P), P)
    <2>1. \E k \in Nat : P \subseteq 1 .. k
      BY <1>1
    <2>2. \A Q \in SUBSET P : Q # {} => Top(E, Q) \in Q
      BY <1>2
    <2> QED BY <1>3, <1>4, <2>1, <2>2, Books!FoldKeeps
  <1> QED BY <1>5, BookOfDef DEF BookHolds

-----------------------------------------------------------------------------
(* One read *)

Happened(E, t) == {i \in DOMAIN E : E[i].ts <= t}
Known(E, t) == {i \in Happened(E, t) : E[i].recv <= t}

\* r is what is read at t: the book of what was known, the label of what had
\* happened, and how old the newest of what was known is.
AsOf(r, E, t, limit) ==
    LET obs == BookOf(E, Known(E, t))
        label == BookOf(E, Happened(E, t))
        latest == E[Max(Known(E, t))].ts
    IN /\ r.reject \in {"none", "stale", "book"}
       /\ r.reject = "none" =>
             /\ r.obs = obs /\ Usable(obs)
             /\ Usable(label) /\ r.mid = Mid2(label)
             /\ r.ts = latest /\ t - latest <= limit /\ latest \in Int
       /\ r.reject = "stale" => t - latest > limit
       /\ r.reject = "book" => ~ Usable(obs) \/ ~ Usable(label)

ReadState(x) ==
    /\ DOMAIN x = {"next", "label", "obs", "level", "pending", "last", "reads"}
    /\ x = [f \in DOMAIN x |-> x[f]]

\* level is the newest event of M at each of its levels.
LevelTops(f, E, M) ==
    /\ DOMAIN f = {LevelOf(E[i]) : i \in M}
    /\ \A i \in M : LET j == f[LevelOf(E[i])] IN j \in M /\ LevelOf(E[j]) = LevelOf(E[i]) /\ i <= j

\* The events M have been promoted.
Observed(x, E, M) ==
    /\ Shows(x.obs, E, M)
    /\ LevelTops(x.level, E, M)
    /\ IF M = {} THEN x.last = 0 ELSE x.last \in M /\ \A i \in M : i <= x.last

LEMMA DownClosed ==
    ASSUME NEW l \in Nat, NEW S, S \subseteq 1 .. l, \A i \in S : 1 .. i \subseteq S
    PROVE  S = 1 .. Cardinality(S) /\ Cardinality(S) \in Nat
  <1>1. IsFiniteSet(S) /\ S \subseteq Nat
    <2>1. IsFiniteSet(S)
      BY PositionsAreFinite
    <2> QED BY <2>1
  <1>2. CASE S = {}
    <2>1. Cardinality(S) = 0
      BY <1>2, FS_EmptySet
    <2> QED BY <1>2, <2>1
  <1>3. CASE S # {}
    <2>1. Max(S) \in S /\ \A x \in S : x <= Max(S)
      BY <1>1, <1>3, MaxOfFinite
    <2>2. Max(S) \in Nat /\ Max(S) >= 1
      <3>1. \A x \in S : x \in Nat /\ x >= 1
        OBVIOUS
      <3> QED BY <2>1, <3>1
    <2> DEFINE m == Max(S)
    <2>3. S = 1 .. m
      <3> HIDE DEF m
      <3>1. 1 .. m \subseteq S
        BY <2>1 DEF m
      <3>2. S \subseteq 1 .. m
        BY <2>1, <2>2 DEF m
      <3> QED BY <3>1, <3>2
    <2>4. Cardinality(1 .. m) = m
      <3> HIDE DEF m
      <3>1. 1 \in Int /\ m \in Int /\ ~ 1 > m
        BY <2>2 DEF m
      <3> QED BY <3>1, FS_Interval
    <2> QED BY <2>2, <2>3, <2>4
  <1> QED BY <1>2, <1>3

LEMMA ConsumedIsHappened ==
    ASSUME NEW E, Stream(E), NEW t \in Int
    PROVE  /\ Consumed(E, t) = Happened(E, t)
           /\ Happened(E, t) = 1 .. Cardinality(Happened(E, t))
           /\ Cardinality(Happened(E, t)) \in Nat
  <1>1. Len(E) \in Nat /\ DOMAIN E = 1 .. Len(E)
    BY SequenceFacts DEF Stream
  <1>2. \A i \in DOMAIN E : E[i].ts \in Int
    BY DEF Stream, Event
  <1>3. ASSUME NEW i \in Happened(E, t), NEW j \in 1 .. i PROVE j \in Happened(E, t)
    <2>1. i \in DOMAIN E /\ j \in DOMAIN E /\ j <= i /\ E[i].ts <= t
      BY <1>1 DEF Happened
    <2>2. E[j].ts <= E[i].ts
      BY <2>1 DEF Stream
    <2>3. E[j].ts <= t
      BY <1>2, <2>1, <2>2
    <2> QED BY <2>1, <2>3 DEF Happened
  <1>4. Consumed(E, t) = Happened(E, t)
    <2>1. ASSUME NEW i \in Consumed(E, t) PROVE i \in Happened(E, t)
      <3>1. i \in DOMAIN E /\ i \in 1 .. i
        BY <1>1 DEF Consumed
      <3> QED BY <3>1 DEF Consumed, Happened
    <2>2. ASSUME NEW i \in Happened(E, t) PROVE i \in Consumed(E, t)
      BY <1>3 DEF Consumed, Happened
    <2> QED BY <2>1, <2>2
  <1>5. Happened(E, t) \subseteq 1 .. Len(E)
    BY <1>1 DEF Happened
  <1>6. \A i \in Happened(E, t) : 1 .. i \subseteq Happened(E, t)
    BY <1>3
  <1> QED BY <1>1, <1>4, <1>5, <1>6, DownClosed

\* What was received last among events Q.
LEMMA LastReceivedIn ==
    ASSUME NEW E, Stream(E), NEW Q \in SUBSET DOMAIN E, Q # {}
    PROVE  LastReceived(E, Q) \in Q
  <1> DEFINE After(j, i) == E[j].recv < E[i].recv \/ (E[j].recv = E[i].recv /\ j < i)
             good == {T \in SUBSET DOMAIN E : T # {} => \E i \in T : \A j \in T \ {i} : After(j, i)}
  <1>0. DOMAIN E \subseteq Nat /\ IsFiniteSet(DOMAIN E)
    <2>1. Len(E) \in Nat /\ DOMAIN E = 1 .. Len(E)
      BY SequenceFacts DEF Stream
    <2> QED BY <2>1, PositionsAreFinite
  <1>t. \A i \in DOMAIN E : E[i].recv \in Int /\ i \in Nat
    BY <1>0 DEF Stream, Event
  <1>1. ASSUME NEW T \in SUBSET DOMAIN E, \A U \in SUBSET T : U # T => U \in good
        PROVE  T \in good
    <2>1. SUFFICES ASSUME T # {} PROVE \E i \in T : \A j \in T \ {i} : After(j, i)
      OBVIOUS
    <2>2. PICK y \in T : TRUE
      BY <2>1
    <2>3. CASE T = {y}
      BY <2>3
    <2>4. CASE T # {y}
      <3> DEFINE U == T \ {y}
      <3>1. U \in SUBSET T /\ U # T /\ U # {}
        BY <2>2, <2>4
      <3>2. U \in good
        BY <1>1, <3>1
      <3>3. PICK m \in U : \A j \in U \ {m} : After(j, m)
        BY <3>1, <3>2
      <3>4. m \in DOMAIN E /\ y \in DOMAIN E /\ m # y /\ T \subseteq DOMAIN E
        BY <2>2
      <3> HIDE DEF good
      <3>5. CASE After(y, m)
        <4>1. \A j \in T \ {m} : After(j, m)
          BY <3>3, <3>5
        <4> QED BY <4>1, <3>3
      <3>6. CASE After(m, y)
        <4>1. ASSUME NEW j \in T \ {y} PROVE After(j, y)
          <5>1. j = m \/ After(j, m)
            BY <3>3, <4>1
          <5> QED BY <1>t, <3>4, <3>6, <4>1, <5>1
        <4> QED BY <4>1, <2>2
      <3> QED BY <1>t, <3>4, <3>5, <3>6
    <2> QED BY <2>3, <2>4
  <1>2. Q \in good
    <2> HIDE DEF good
    <2>1. SUBSET DOMAIN E \subseteq good
      BY <1>0, <1>1, SubsetInduction
    <2> QED BY <2>1
  <1>3. \E i \in Q : \A j \in Q \ {i} : After(j, i)
    BY <1>2
  <1> QED BY <1>3 DEF LastReceived

LEMMA PromoteObserves ==
    ASSUME NEW E, Stream(E), NEW x, ReadState(x), NEW M, M \subseteq DOMAIN E, Observed(x, E, M),
           NEW i \in DOMAIN E, i \notin M
    PROVE  LET y == Promote(x, E, i)
           IN /\ ReadState(y) /\ Observed(y, E, M \cup {i})
              /\ y.next = x.next /\ y.label = x.label /\ y.pending = x.pending
              /\ y.reads = x.reads
  <1> DEFINE lvl == LevelOf(E[i])
             stale == lvl \in DOMAIN x.level /\ x.level[lvl] > i
             y == Promote(x, E, i)
             J == M \cup {i}
  <1>1. DOMAIN E \subseteq Nat /\ IsDelta(E[i]) /\ i \in Nat /\ M \subseteq Nat
    BY SequenceFacts DEF Stream, Event
  <1>2. /\ ReadState(y) /\ y.next = x.next /\ y.label = x.label /\ y.pending = x.pending
        /\ y.reads = x.reads
        /\ y.obs = IF stale THEN x.obs ELSE Apply(x.obs, E[i])
        /\ y.level = IF stale THEN x.level
                     ELSE [l \in DOMAIN x.level \cup {lvl} |-> IF l = lvl THEN i ELSE x.level[l]]
        /\ y.last = IF i > x.last THEN i ELSE x.last
    <2> DEFINE o == IF stale THEN x.obs ELSE Apply(x.obs, E[i])
               f == IF stale THEN x.level
                    ELSE [l \in DOMAIN x.level \cup {lvl} |-> IF l = lvl THEN i ELSE x.level[l]]
               m == IF i > x.last THEN i ELSE x.last
    <2>1. y = [x EXCEPT !.obs = o, !.level = f, !.last = m]
      BY DEF Promote
    <2> HIDE DEF y, o, f, m
    <2>2. /\ ReadState(y) /\ y.next = x.next /\ y.label = x.label /\ y.pending = x.pending
          /\ y.reads = x.reads /\ y.obs = o /\ y.level = f /\ y.last = m
      BY <2>1 DEF ReadState
    <2> QED BY <2>2 DEF o, f, m
  <1> HIDE DEF y
  <1>3. ReadState(y) /\ y.next = x.next /\ y.label = x.label /\ y.pending = x.pending
        /\ y.reads = x.reads
    BY <1>2
  <1>4. IF J = {} THEN y.last = 0 ELSE y.last \in J /\ \A j \in J : j <= y.last
    <2>1. y.last = IF i > x.last THEN i ELSE x.last
      BY <1>2
    <2>2. CASE M = {}
      <3>1. x.last = 0 /\ J = {i}
        BY <2>2 DEF Observed
      <3>2. i > 0
        BY SequenceFacts DEF Stream
      <3> QED BY <1>1, <2>1, <3>1, <3>2
    <2>3. CASE M # {}
      <3>1. x.last \in M /\ \A j \in M : j <= x.last
        BY <2>3 DEF Observed
      <3> QED BY <1>1, <2>1, <3>1
    <2> QED BY <2>2, <2>3
  <1>5. CASE stale
    <2>1. PICK k \in M : LevelOf(E[k]) = lvl
      BY <1>5 DEF Observed, LevelTops
    <2> DEFINE j == x.level[lvl]
    <2>2. j \in M /\ LevelOf(E[j]) = lvl /\ i < j
      BY <1>1, <1>5, <2>1 DEF Observed, LevelTops
    <2>3. Shows(x.obs, E, J)
      <3> HIDE DEF j, lvl
      <3> QED BY <1>1, <2>2, ShowsStale DEF Observed, lvl
    <2>4. LevelTops(x.level, E, J)
      <3>1. DOMAIN x.level = {LevelOf(E[k2]) : k2 \in J}
        BY <2>2 DEF Observed, LevelTops
      <3>2. x.level[lvl] \in J /\ LevelOf(E[x.level[lvl]]) = lvl /\ i <= x.level[lvl]
        BY <1>1, <2>2
      <3> HIDE DEF lvl, stale, j
      <3>3. \A k2 \in M : LET j2 == x.level[LevelOf(E[k2])]
                          IN j2 \in J /\ LevelOf(E[j2]) = LevelOf(E[k2]) /\ k2 <= j2
        BY DEF Observed, LevelTops
      <3> QED BY <3>1, <3>2, <3>3 DEF LevelTops, lvl
    <2>5. y.obs = x.obs /\ y.level = x.level
      BY <1>2, <1>5
    <2> QED BY <1>3, <1>4, <2>3, <2>4, <2>5 DEF Observed, y
  <1>6. CASE ~ stale
    <2>1. y.obs = Apply(x.obs, E[i])
      BY <1>2, <1>6
    <2>2. y.level = [l \in DOMAIN x.level \cup {lvl} |-> IF l = lvl THEN i ELSE x.level[l]]
      BY <1>2, <1>6
    <2>3. ASSUME NEW j \in M, LevelOf(E[j]) = lvl PROVE j < i
      <3>1. lvl \in DOMAIN x.level /\ x.level[lvl] \in M /\ j <= x.level[lvl]
        BY <2>3 DEF Observed, LevelTops
      <3>2. ~ x.level[lvl] > i /\ x.level[lvl] # i
        BY <1>6, <3>1
      <3>3. x.level[lvl] \in Nat /\ j \in Nat /\ j # i
        BY <1>1, <3>1
      <3> QED BY <1>1, <3>1, <3>2, <3>3
    <2>4. Shows(Apply(x.obs, E[i]), E, J)
      <3>1. \A j \in M : LevelOf(E[j]) = LevelOf(E[i]) => j < i
        BY <2>3
      <3> QED BY <1>1, <3>1, ShowsApplied DEF Observed
    <2>5. LevelTops(y.level, E, J)
      <3>1. DOMAIN y.level = {LevelOf(E[k]) : k \in J}
        BY <2>2 DEF Observed, LevelTops
      <3>2. ASSUME NEW k \in J
            PROVE  LET j == y.level[LevelOf(E[k])]
                   IN j \in J /\ LevelOf(E[j]) = LevelOf(E[k]) /\ k <= j
        <4>1. CASE LevelOf(E[k]) = lvl
          <5>1. y.level[LevelOf(E[k])] = i
            BY <2>2, <4>1
          <5>2. k <= i
            BY <1>1, <2>3, <4>1
          <5> QED BY <4>1, <5>1, <5>2
        <4>2. CASE LevelOf(E[k]) # lvl
          <5>1. k \in M /\ LevelOf(E[k]) \in DOMAIN x.level
            BY <4>2 DEF Observed, LevelTops
          <5>2. y.level[LevelOf(E[k])] = x.level[LevelOf(E[k])]
            BY <2>2, <4>2, <5>1
          <5> HIDE DEF lvl
          <5> QED BY <5>1, <5>2 DEF Observed, LevelTops
        <4> QED BY <4>1, <4>2
      <3> QED BY <3>1, <3>2 DEF LevelTops
    <2> QED BY <1>3, <1>4, <2>1, <2>4, <2>5 DEF Observed, y
  <1> QED BY <1>5, <1>6

\* What was received is promoted in the order it was received.
PromoteOp(c, x, i) == Promote(x, c.events, i)
PromotePick(c, Q) == LastReceived(c.events, Q)
PromoteHolds(c, x, Q) ==
    /\ ReadState(x) /\ Observed(x, c.events, c.seen \cup Q)
    /\ x.next = c.base.next /\ x.label = c.base.label
    /\ x.pending = c.base.pending /\ x.reads = c.base.reads
Promotions == INSTANCE FoldTheorems WITH
    Op <- PromoteOp, Pick <- PromotePick, Holds <- PromoteHolds

LEMMA PromotionsDef ==
    ASSUME NEW E, NEW x, NEW S, NEW M
    PROVE  PromoteAll(x, E, S) = Promotions!Fold([events |-> E, seen |-> M, base |-> x], x, S)
  BY DEF PromoteAll, Promotions!Fold, Promotions!IsFold, MapThenFoldSet, PromoteOp, PromotePick

LEMMA PromotionsObserve ==
    ASSUME NEW E, Stream(E), NEW x, ReadState(x), NEW M, M \subseteq DOMAIN E, Observed(x, E, M),
           NEW S, S \subseteq DOMAIN E, S \cap M = {}
    PROVE  /\ ReadState(PromoteAll(x, E, S)) /\ Observed(PromoteAll(x, E, S), E, M \cup S)
           /\ PromoteAll(x, E, S).next = x.next /\ PromoteAll(x, E, S).label = x.label
           /\ PromoteAll(x, E, S).pending = x.pending /\ PromoteAll(x, E, S).reads = x.reads
  <1> DEFINE c == [events |-> E, seen |-> M, base |-> x]
  <1>0. c.events = E /\ c.seen = M /\ c.base = x
    OBVIOUS
  <1> HIDE DEF c
  <1>1. \E l \in Nat : S \subseteq 1 .. l
    <2>1. Len(E) \in Nat /\ DOMAIN E = 1 .. Len(E)
      BY SequenceFacts DEF Stream
    <2> QED BY <2>1
  <1>2. \A Q \in SUBSET S : Q # {} => PromotePick(c, Q) \in Q
    BY <1>0, LastReceivedIn DEF PromotePick
  <1>3. PromoteHolds(c, x, {})
    BY <1>0 DEF PromoteHolds
  <1>4. ASSUME NEW Q \in SUBSET S, Q # {}, NEW y, PromoteHolds(c, y, Q \ {PromotePick(c, Q)})
        PROVE  PromoteHolds(c, PromoteOp(c, y, PromotePick(c, Q)), Q)
    <2> DEFINE i == PromotePick(c, Q)
               R == M \cup (Q \ {i})
    <2>1. i \in Q /\ i \in DOMAIN E /\ R \subseteq DOMAIN E
      BY <1>2, <1>4
    <2>2. i \notin R /\ R \cup {i} = M \cup Q
      BY <2>1
    <2>3. ReadState(y) /\ Observed(y, E, R)
      BY <1>0, <1>4 DEF PromoteHolds
    <2> HIDE DEF i, R
    <2>4. /\ ReadState(Promote(y, E, i)) /\ Observed(Promote(y, E, i), E, R \cup {i})
          /\ Promote(y, E, i).next = y.next /\ Promote(y, E, i).label = y.label
          /\ Promote(y, E, i).pending = y.pending /\ Promote(y, E, i).reads = y.reads
      BY <2>1, <2>2, <2>3, PromoteObserves
    <2> QED BY <1>0, <1>4, <2>2, <2>4 DEF PromoteHolds, PromoteOp, i
  <1>5. PromoteHolds(c, Promotions!Fold(c, x, S), S)
    BY <1>1, <1>2, <1>3, <1>4, Promotions!FoldKeeps
  <1> DEFINE y == PromoteAll(x, E, S)
  <1>6. y = Promotions!Fold(c, x, S)
    BY PromotionsDef DEF c
  <1> HIDE DEF y
  <1>7. PromoteHolds(c, y, S)
    BY <1>5, <1>6
  <1>8. /\ ReadState(y) /\ Observed(y, E, M \cup S)
        /\ y.next = x.next /\ y.label = x.label /\ y.pending = x.pending
        /\ y.reads = x.reads
    BY <1>0, <1>7 DEF PromoteHolds
  <1> QED BY <1>8 DEF y

\* The events H were consumed and M of them promoted.
ReadInv(x, E, H, M) ==
    /\ ReadState(x) /\ M \subseteq H
    /\ x.next \in Nat /\ H = 1 .. x.next - 1
    /\ x.pending = H \ M
    /\ Observed(x, E, M)

LEMMA ReadingIsAsOf ==
    ASSUME NEW E, Stream(E), NEW t \in Int, NEW limit \in Int, NEW x,
           Observed(x, E, Known(E, t)), x.label = BookOf(E, Happened(E, t))
    PROVE  AsOf(ReadOf(x, E, t, limit), E, t, limit)
  <1> DEFINE M == Known(E, t)
             H == Happened(E, t)
  <1>1. x.obs = BookOf(E, M)
    <2>1. M \subseteq DOMAIN E
      BY DEF Known, Happened
    <2>2. Shows(BookOf(E, M), E, M)
      BY <2>1, BookOfShows
    <2> QED BY <2>2, ShowsOne DEF Observed
  <1>2. Usable(x.obs) => M # {}
    <2>1. ASSUME M = {} PROVE ~ Usable(x.obs)
      <3>1. Shows(x.obs, E, {})
        BY <2>1 DEF Observed
      <3>2. x.obs = EmptyBook
        BY <3>1, ShowsNothing, ShowsOne
      <3> QED BY <3>2, EmptyBookIsBook DEF Usable
    <2> QED BY <2>1
  <1>3. M # {} => x.last = Max(M) /\ x.last \in DOMAIN E /\ E[x.last].ts \in Int
    <2>1. ASSUME M # {} PROVE x.last = Max(M) /\ x.last \in M
      <3>1. x.last \in M /\ \A i \in M : i <= x.last
        BY <2>1 DEF Observed
      <3>2. M \subseteq Nat
        BY SequenceFacts DEF Stream, Known, Happened
      <3> HIDE DEF M
      <3> QED BY <3>1, <3>2, MaxIs
    <2>2. \A i \in M : i \in DOMAIN E /\ E[i].ts \in Int
      BY DEF Stream, Event, Known, Happened
    <2> QED BY <2>1, <2>2
  <1> DEFINE r == ReadOf(x, E, t, limit)
  <1> HIDE DEF M, H
  <1>4. x.label = BookOf(E, H)
    BY DEF H
  <1>5. CASE ~ Usable(x.obs)
    <2>1. r = [t |-> t, reject |-> "book"]
      BY <1>5 DEF ReadOf
    <2> QED BY <1>1, <1>5, <2>1 DEF AsOf, M
  <1>6. CASE Usable(x.obs) /\ t - E[x.last].ts > limit
    <2>1. r = [t |-> t, reject |-> "stale"]
      <3>1. ~ t - E[x.last].ts <= limit
        BY <1>2, <1>3, <1>6
      <3> QED BY <1>6, <3>1 DEF ReadOf
    <2> QED BY <1>2, <1>3, <1>6, <2>1 DEF AsOf, M
  <1>7. CASE Usable(x.obs) /\ ~ t - E[x.last].ts > limit
    <2>1. t - E[x.last].ts <= limit
      BY <1>2, <1>3, <1>7
    <2>2. CASE ~ Usable(x.label)
      <3>1. r = [t |-> t, reject |-> "book"]
        BY <1>7, <2>1, <2>2 DEF ReadOf
      <3> QED BY <1>4, <2>2, <3>1 DEF AsOf, M, H
    <2>3. CASE Usable(x.label)
      <3>1. r = [t |-> t, reject |-> "none", ts |-> E[x.last].ts, obs |-> x.obs,
                 mid |-> Mid2(x.label)]
        BY <1>7, <2>1, <2>3 DEF ReadOf
      <3>2. r.reject = "none" /\ r.ts = E[x.last].ts /\ r.obs = x.obs /\ r.mid = Mid2(x.label)
        BY <3>1
      <3> HIDE DEF r
      <3> QED BY <1>1, <1>2, <1>3, <1>4, <1>7, <2>1, <2>3, <3>2 DEF AsOf, M, H, r
    <2> QED BY <2>2, <2>3
  <1> QED BY <1>5, <1>6, <1>7

OneMoreRead(x, y, E, t, limit) ==
    \E r : AsOf(r, E, t, limit) /\ y.reads = Append(x.reads, r)

Precedes(E, t, H, M) == H \subseteq Happened(E, t) /\ M \subseteq Known(E, t)

\* A later read consumes and promotes the rest of what had happened and was
\* known by then.
LEMMA ReadAtStep ==
    ASSUME NEW E, Stream(E), NEW t \in Int, NEW limit \in Int,
           NEW x, NEW H, NEW M, ReadInv(x, E, H, M), Sequence(x.reads),
           Precedes(E, t, H, M)
    PROVE  /\ ReadInv(ReadAt(x, E, t, limit), E, Happened(E, t), Known(E, t))
           /\ OneMoreRead(x, ReadAt(x, E, t, limit), E, t, limit)
  <1> DEFINE upto == Consumed(E, t)
             fresh == {i \in upto : i >= x.next}
             come == {i \in x.pending \cup fresh : E[i].recv <= t}
             folded == [x EXCEPT !.next = Cardinality(upto) + 1,
                                 !.label = BookAfter(E, Cardinality(upto)),
                                 !.pending = (@ \cup fresh) \ come]
             promoted == PromoteAll(folded, E, come)
             HH == Happened(E, t)
             MM == Known(E, t)
             y == ReadAt(x, E, t, limit)
  <1>1. y = [promoted EXCEPT !.reads = Append(@, ReadOf(promoted, E, t, limit))]
    BY DEF ReadAt
  <1> HIDE DEF promoted, y
  <1>2. upto = HH /\ HH = 1 .. Cardinality(HH) /\ Cardinality(HH) \in Nat
    BY ConsumedIsHappened
  <1>3. HH \subseteq DOMAIN E /\ MM \subseteq HH
    BY DEF Happened, Known
  <1>4. fresh = HH \ H
    <2>1. \A i \in HH : i \in Nat /\ i >= 1
      BY <1>2
    <2>2. x.next \in Nat /\ H = 1 .. x.next - 1
      BY DEF ReadInv
    <2> HIDE DEF HH
    <2> QED BY <1>2, <2>1, <2>2
  <1>5. come = MM \ M /\ come \cap M = {} /\ M \cup come = MM
    <2>1. x.pending = H \ M /\ M \subseteq H /\ H \subseteq HH /\ M \subseteq MM
      BY DEF ReadInv, Precedes
    <2>2. \A i \in HH : i \in MM <=> E[i].recv <= t
      BY DEF Known
    <2> HIDE DEF HH, MM, fresh
    <2> QED BY <1>3, <1>4, <2>1, <2>2
  <1>6. /\ ReadState(folded) /\ folded.next = Cardinality(HH) + 1
        /\ folded.label = BookOf(E, HH) /\ folded.pending = HH \ MM
        /\ folded.reads = x.reads /\ folded.obs = x.obs /\ folded.level = x.level
        /\ folded.last = x.last
    <2> DEFINE a == Cardinality(upto) + 1
               b == BookAfter(E, Cardinality(upto))
               d == (x.pending \cup fresh) \ come
    <2>1. folded = [x EXCEPT !.next = a, !.label = b, !.pending = d]
      OBVIOUS
    <2>2. /\ ReadState(folded) /\ folded.next = a /\ folded.label = b /\ folded.pending = d
          /\ folded.reads = x.reads /\ folded.obs = x.obs /\ folded.level = x.level
          /\ folded.last = x.last
      <3> HIDE DEF a, b, d, folded
      <3> QED BY <2>1 DEF ReadState, ReadInv
    <2>3. BookAfter(E, Cardinality(upto)) = BookOf(E, HH)
      BY <1>2 DEF BookAfter
    <2>4. (x.pending \cup fresh) \ come = HH \ MM
      <3>1. x.pending = H \ M /\ M \subseteq H /\ H \subseteq HH /\ M \subseteq MM
        BY DEF ReadInv, Precedes
      <3> HIDE DEF HH, MM, fresh, come
      <3> QED BY <1>3, <1>4, <1>5, <3>1
    <2> HIDE DEF folded, upto, fresh, come, HH, MM
    <2> QED BY <1>2, <2>2, <2>3, <2>4 DEF ReadState
  <1> HIDE DEF folded, upto, fresh
  <1>7. Observed(folded, E, M)
    BY <1>6 DEF ReadInv, Observed
  <1>8. /\ ReadState(promoted) /\ Observed(promoted, E, MM)
        /\ promoted.next = folded.next /\ promoted.label = folded.label
        /\ promoted.pending = folded.pending /\ promoted.reads = folded.reads
    <2>1. M \subseteq DOMAIN E /\ come \subseteq DOMAIN E
      <3> HIDE DEF HH, MM, come
      <3> QED BY <1>3, <1>5
    <2>2. /\ ReadState(promoted) /\ Observed(promoted, E, M \cup come)
          /\ promoted.next = folded.next /\ promoted.label = folded.label
          /\ promoted.pending = folded.pending /\ promoted.reads = folded.reads
      <3> HIDE DEF come
      <3>1. ReadState(folded) /\ come \cap M = {}
        BY <1>5, <1>6
      <3> QED BY <3>1, <1>7, <2>1, PromotionsObserve DEF promoted
    <2> HIDE DEF come, MM
    <2> QED BY <1>5, <2>2
  <1> DEFINE r == ReadOf(promoted, E, t, limit)
  <1>9. AsOf(r, E, t, limit)
    BY <1>6, <1>8, ReadingIsAsOf
  <1> HIDE DEF r
  <1>10. /\ ReadState(y) /\ y.next = promoted.next /\ y.pending = promoted.pending
         /\ y.obs = promoted.obs /\ y.level = promoted.level /\ y.last = promoted.last
         /\ y.reads = Append(promoted.reads, r)
    <2>1. y = [promoted EXCEPT !.reads = Append(promoted.reads, r)]
      BY <1>1 DEF r
    <2> QED BY <1>8, <2>1 DEF ReadState
  <1>11. ReadInv(y, E, HH, MM)
    <2>1. ReadState(y) /\ y.next = Cardinality(HH) + 1 /\ y.pending = HH \ MM
      BY <1>6, <1>8, <1>10
    <2>2. Observed(y, E, MM)
      BY <1>8, <1>10 DEF Observed
    <2>3. y.next \in Nat /\ HH = 1 .. y.next - 1
      <3> HIDE DEF HH
      <3> QED BY <1>2, <2>1
    <2> QED BY <1>3, <2>1, <2>2, <2>3 DEF ReadInv
  <1>12. y.reads = Append(x.reads, r)
    BY <1>6, <1>8, <1>10
  <1> QED BY <1>9, <1>11, <1>12 DEF y, OneMoreRead

-----------------------------------------------------------------------------
(* The reads of a day *)

\* The times of a day's decisions, which never go back.
Instants(ts) ==
    /\ Sequence(ts) /\ \A i \in DOMAIN ts : ts[i] \in Int
    /\ \A i, j \in DOMAIN ts : i <= j => ts[i] <= ts[j]

ReadOp(c, x, k) == ReadAt(x, c.events, c.times[k], c.limit)
ReadHolds(c, x, k) ==
    /\ ReadInv(x, c.events, IF k = 0 THEN {} ELSE Happened(c.events, c.times[k]),
                            IF k = 0 THEN {} ELSE Known(c.events, c.times[k]))
    /\ Sequence(x.reads) /\ Len(x.reads) = k
    /\ \A i \in 1 .. k : AsOf(x.reads[i], c.events, c.times[i], c.limit)
Reads == INSTANCE FoldTheorems WITH Op <- ReadOp, Pick <- Top, Holds <- ReadHolds

LEMMA ReadsDef ==
    ASSUME NEW E, NEW ts, NEW limit
    PROVE  DualBookReads(E, ts, limit)
             = Reads!Fold([events |-> E, times |-> ts, limit |-> limit], NoReads, DOMAIN ts).reads
  BY DEF DualBookReads, FoldLeft, Reads!Fold, Reads!IsFold, MapThenFoldSet, ReadOp, Top

LEMMA ReadsAsOf ==
    ASSUME NEW E, Stream(E), NEW ts, Instants(ts), NEW limit \in Int
    PROVE  LET reads == DualBookReads(E, ts, limit)
           IN Len(reads) = Len(ts) /\ \A i \in DOMAIN ts : AsOf(reads[i], E, ts[i], limit)
  <1> DEFINE c == [events |-> E, times |-> ts, limit |-> limit]
             l == Len(ts)
  <1>0. c.events = E /\ c.times = ts /\ c.limit = limit
    OBVIOUS
  <1>1. l \in Nat /\ DOMAIN ts = 1 .. l
    BY SequenceFacts DEF Instants
  <1> HIDE DEF c, l
  <1>2. \A Q \in SUBSET (1 .. l) : Q # {} => Top(c, Q) \in Q /\ \A i \in Q : i <= Top(c, Q)
    BY <1>1, TopIn
  <1>3. ReadHolds(c, NoReads, 0)
    <2>1. ReadState(NoReads)
      BY DEF NoReads, ReadState
    <2>2. Observed(NoReads, E, {})
      <3>1. LevelTops(<< >>, E, {})
        BY EmptySequence DEF LevelTops
      <3> QED BY <3>1, ShowsNothing DEF NoReads, Observed
    <2>3. 1 .. NoReads.next - 1 = {} /\ NoReads.next \in Nat
      BY DEF NoReads
    <2>4. ReadInv(NoReads, E, {}, {})
      BY <2>1, <2>2, <2>3 DEF ReadInv, NoReads
    <2>5. Sequence(NoReads.reads) /\ Len(NoReads.reads) = 0
      BY EmptySequence DEF NoReads
    <2> QED BY <1>0, <2>4, <2>5 DEF ReadHolds
  <1>4. ASSUME NEW k \in 1 .. l, NEW x, ReadHolds(c, x, k - 1)
        PROVE  ReadHolds(c, ReadOp(c, x, k), k)
    <2> DEFINE H == IF k - 1 = 0 THEN {} ELSE Happened(E, ts[k - 1])
               M == IF k - 1 = 0 THEN {} ELSE Known(E, ts[k - 1])
               y == ReadAt(x, E, ts[k], limit)
    <2>1. ReadInv(x, E, H, M) /\ Sequence(x.reads) /\ Len(x.reads) = k - 1
      BY <1>0, <1>4 DEF ReadHolds
    <2>2. ts[k] \in Int
      BY <1>1 DEF Instants
    <2>3. H \subseteq Happened(E, ts[k]) /\ M \subseteq Known(E, ts[k])
      <3>1. CASE k = 1
        BY <3>1
      <3>2. CASE k # 1
        <4>1. k - 1 \in DOMAIN ts /\ k \in DOMAIN ts /\ k - 1 <= k /\ k - 1 # 0
          BY <1>1, <3>2
        <4>2. ts[k - 1] \in Int /\ ts[k - 1] <= ts[k]
          BY <4>1 DEF Instants
        <4>3. \A i \in DOMAIN E : E[i].ts \in Int /\ E[i].recv \in Int
          BY DEF Stream, Event
        <4>4. \A z \in Int : z <= ts[k - 1] => z <= ts[k]
          BY <2>2, <4>2
        <4>5. Happened(E, ts[k - 1]) \subseteq Happened(E, ts[k])
              /\ Known(E, ts[k - 1]) \subseteq Known(E, ts[k])
          BY <4>3, <4>4 DEF Happened, Known
        <4> QED BY <4>1, <4>5
      <3> QED BY <3>1, <3>2
    <2> HIDE DEF H, M, y
    <2>4. /\ ReadInv(y, E, Happened(E, ts[k]), Known(E, ts[k]))
          /\ OneMoreRead(x, y, E, ts[k], limit)
      <3> DEFINE t == ts[k]
      <3>1. t \in Int /\ Precedes(E, t, H, M)
        BY <2>2, <2>3 DEF Precedes
      <3> HIDE DEF t
      <3>2. /\ ReadInv(ReadAt(x, E, t, limit), E, Happened(E, t), Known(E, t))
            /\ OneMoreRead(x, ReadAt(x, E, t, limit), E, t, limit)
        BY <2>1, <3>1, ReadAtStep
      <3> QED BY <3>2 DEF t, y
    <2>5. PICK r : AsOf(r, E, ts[k], limit) /\ y.reads = Append(x.reads, r)
      BY <2>4 DEF OneMoreRead
    <2>6. /\ Sequence(y.reads) /\ Len(y.reads) = k
          /\ \A i \in 1 .. k : AsOf(y.reads[i], E, ts[i], limit)
      <3>1. /\ Sequence(y.reads) /\ Len(y.reads) = Len(x.reads) + 1
            /\ \A i \in 1 .. Len(x.reads) : y.reads[i] = x.reads[i]
            /\ y.reads[Len(x.reads) + 1] = r
        BY <2>1, <2>5, Appending
      <3>2. \A i \in 1 .. k - 1 : AsOf(x.reads[i], E, ts[i], limit)
        BY <1>0, <1>4 DEF ReadHolds
      <3>3. (k - 1) + 1 = k /\ \A i \in 1 .. k : i \in 1 .. k - 1 \/ i = k
        OBVIOUS
      <3> QED BY <2>1, <2>5, <3>1, <3>2, <3>3
    <2>7. k # 0
      OBVIOUS
    <2> QED BY <1>0, <2>4, <2>6, <2>7 DEF ReadHolds, ReadOp, y
  <1>5. ReadHolds(c, Reads!Fold(c, NoReads, 1 .. l), l)
    BY <1>1, <1>2, <1>3, <1>4, Reads!LeftFoldKeeps
  <1>6. DualBookReads(E, ts, limit) = Reads!Fold(c, NoReads, 1 .. l).reads
    BY <1>1, ReadsDef DEF c
  <1> QED BY <1>0, <1>1, <1>5, <1>6 DEF ReadHolds, l

-----------------------------------------------------------------------------
(* The clock *)

IsTrade(m) == m.ts \in Nat /\ m.recv \in Nat

IsBar(b) ==
    /\ b.t \in Nat /\ b.start \in Nat
    /\ Sequence(b.members) /\ \A i \in DOMAIN b.members : IsTrade(b.members[i])

\* Bars whose decision times never go back.
IsBars(bars) ==
    /\ Sequence(bars) /\ \A i \in DOMAIN bars : IsBar(bars[i])
    /\ \A i, j \in DOMAIN bars : i <= j => bars[i].t <= bars[j].t

ClockFields(c) ==
    DOMAIN c = {"start", "members", "watermark", "bars"} /\ c = [f \in DOMAIN c |-> c[f]]

ClockOK(c) ==
    /\ ClockFields(c) /\ c.start \in Nat /\ c.watermark \in Nat
    /\ Sequence(c.members) /\ \A i \in DOMAIN c.members : IsTrade(c.members[i])
    /\ IsBars(c.bars) /\ \A i \in DOMAIN c.bars : c.bars[i].t <= c.watermark

LEMMA ImageFinite ==
    ASSUME NEW f, IsFiniteSet(DOMAIN f)
    PROVE  IsFiniteSet({f[x] : x \in DOMAIN f})
  <1> DEFINE S == DOMAIN f
             T == {f[x] : x \in S}
             g == [x \in S |-> f[x]]
  <1>1. g \in Surjection(S, T)
    BY DEF Surjection
  <1> HIDE DEF S, T, g
  <1>2. IsFiniteSet(T)
    <2>1. IsFiniteSet(S)
      BY DEF S
    <2> QED BY <1>1, <2>1, FS_Surjection
  <1> QED BY <1>2 DEF S, T

LEMMA MembersFinite ==
    ASSUME NEW s, Sequence(s), \A i \in DOMAIN s : IsTrade(s[i])
    PROVE  IsFiniteSet(Received(s)) /\ Received(s) \subseteq Nat
  <1>1. Received(s) = {s[i].recv : i \in DOMAIN s}
    BY DEF Received, ToSet
  <1>2. IsFiniteSet(DOMAIN s)
    <2>1. Len(s) \in Nat /\ DOMAIN s = 1 .. Len(s)
      BY SequenceFacts
    <2> QED BY <2>1, PositionsAreFinite
  <1>3. IsFiniteSet({s[i].recv : i \in DOMAIN s})
    <2> DEFINE f == [i \in DOMAIN s |-> s[i].recv]
    <2>1. DOMAIN f = DOMAIN s /\ {f[i] : i \in DOMAIN f} = {s[i].recv : i \in DOMAIN s}
      OBVIOUS
    <2> HIDE DEF f
    <2>2. IsFiniteSet({f[i] : i \in DOMAIN f})
      BY <1>2, <2>1, ImageFinite
    <2> QED BY <2>1, <2>2
  <1> QED BY <1>1, <1>3 DEF IsTrade

\* What closing a bar does.
LEMMA CloseIs ==
    ASSUME NEW c, ClockOK(c), NEW reason, NEW fire \in Nat \cup {NoTime}
    PROVE  LET d == Close(c, reason, fire)
               b == Last(d.bars)
           IN /\ ClockOK(d) /\ d.start = c.start /\ d.members = << >>
              /\ d.bars = Append(c.bars, b)
              /\ b.t = d.watermark /\ c.watermark <= b.t
              /\ b.members = c.members /\ b.fire = fire /\ b.reason = reason /\ b.start = c.start
              /\ \A m \in ToSet(c.members) : m.recv <= b.t
              /\ fire # NoTime => fire <= b.t
  <1> DEFINE T == {c.watermark} \cup Received(c.members) \cup ({fire} \ {NoTime})
             t == Max(T)
             b == [start |-> c.start, reason |-> reason, fire |-> fire, t |-> t,
                   members |-> c.members]
             d == Close(c, reason, fire)
  <1>1. d = [c EXCEPT !.watermark = t, !.members = << >>, !.bars = Append(c.bars, b)]
    BY DEF Close
  <1>2. IsFiniteSet(T) /\ T \subseteq Nat /\ T # {}
    <2>1. IsFiniteSet(Received(c.members)) /\ Received(c.members) \subseteq Nat
      BY MembersFinite DEF ClockOK
    <2>2. IsFiniteSet({c.watermark}) /\ IsFiniteSet({fire} \ {NoTime})
      <3>1. IsFiniteSet({fire}) /\ IsFiniteSet({c.watermark})
        BY FS_Singleton
      <3> QED BY <3>1, FS_Subset
    <2>3. IsFiniteSet(T)
      BY <2>1, <2>2, FS_Union
    <2>4. T \subseteq Nat /\ T # {}
      BY <2>1 DEF ClockOK
    <2> QED BY <2>3, <2>4
  <1>3. t \in Nat /\ \A x \in T : x <= t
    <2> HIDE DEF T
    <2> QED BY <1>2, MaxOfFinite
  <1>4. c.watermark <= t /\ (fire # NoTime => fire <= t) /\ \A m \in ToSet(c.members) : m.recv <= t
    <2>1. \A m \in ToSet(c.members) : m.recv \in Received(c.members)
      BY DEF Received
    <2> HIDE DEF t
    <2> QED BY <1>3, <2>1
  <1>5. IsBar(b) /\ b.t = t /\ b.members = c.members /\ b.fire = fire /\ b.start = c.start
        /\ b.reason = reason
    <2> HIDE DEF t
    <2> QED BY <1>3 DEF IsBar, ClockOK
  <1> HIDE DEF t, b, d
  <1>6. ClockFields(d) /\ d.start = c.start /\ d.members = << >> /\ d.watermark = t
        /\ d.bars = Append(c.bars, b)
    BY <1>1 DEF ClockOK, ClockFields
  <1>7. Sequence(c.bars)
    BY DEF ClockOK, IsBars
  <1> DEFINE l == Len(c.bars)
  <1>8. /\ l \in Nat /\ DOMAIN c.bars = 1 .. l /\ Sequence(d.bars)
        /\ DOMAIN d.bars = 1 .. l + 1 /\ \A i \in 1 .. l : d.bars[i] = c.bars[i]
        /\ d.bars[l + 1] = b /\ Last(d.bars) = b
    BY <1>6, <1>7, Appending, SequenceFacts
  <1> HIDE DEF l
  <1>9. ASSUME NEW i \in DOMAIN d.bars PROVE IsBar(d.bars[i]) /\ d.bars[i].t <= t
    <2>1. CASE i = l + 1
      BY <1>3, <1>5, <1>8, <2>1
    <2>2. CASE i # l + 1
      <3>1. i \in 1 .. l
        BY <1>8, <2>2
      <3>2. IsBar(c.bars[i]) /\ c.bars[i].t <= c.watermark
        BY <1>8, <3>1 DEF ClockOK, IsBars
      <3>3. c.bars[i].t \in Nat /\ c.watermark \in Nat
        BY <3>2 DEF IsBar, ClockOK
      <3> QED BY <1>3, <1>4, <1>8, <3>1, <3>2, <3>3
    <2> QED BY <2>1, <2>2
  <1>10. ASSUME NEW i \in DOMAIN d.bars, NEW j \in DOMAIN d.bars, i <= j
         PROVE  d.bars[i].t <= d.bars[j].t
    <2>1. CASE j = l + 1
      BY <1>5, <1>8, <1>9, <2>1
    <2>2. CASE j # l + 1
      <3>1. j \in 1 .. l /\ i \in 1 .. l
        BY <1>8, <1>10, <2>2
      <3> QED BY <1>8, <1>10, <3>1 DEF ClockOK, IsBars
    <2> QED BY <2>1, <2>2
  <1>11. IsBars(d.bars)
    BY <1>8, <1>9, <1>10 DEF IsBars
  <1>12. ClockOK(d)
    <2>1. d.start \in Nat /\ d.watermark \in Nat
      BY <1>3, <1>6 DEF ClockOK
    <2>2. Sequence(d.members) /\ \A i \in DOMAIN d.members : IsTrade(d.members[i])
      BY <1>6, EmptySequence
    <2> QED BY <1>6, <1>9, <1>11, <2>1, <2>2 DEF ClockOK
  <1> QED BY <1>4, <1>5, <1>6, <1>8, <1>12 DEF d

FireOp(c, x, k) == Fire(x, c)
FireHolds(c, x, k) == ClockOK(x)
Firings == INSTANCE FoldTheorems WITH Op <- FireOp, Pick <- Top, Holds <- FireHolds

LEMMA FiringsDef ==
    ASSUME NEW c, NEW most, NEW t
    PROVE  FireUntil(c, most, t)
             = Firings!Fold(most, c, DOMAIN [i \in 1 .. (t - c.start) \div most |-> i])
  BY DEF FireUntil, FoldLeft, Firings!Fold, Firings!IsFold, MapThenFoldSet, FireOp, Top

LEMMA FireKeeps ==
    ASSUME NEW c, ClockOK(c), NEW most \in Nat \ {0}
    PROVE  ClockOK(Fire(c, most))
  <1> DEFINE b == c.start + most
             d == Close(c, "time_cap", b)
  <1>1. b \in Nat
    BY DEF ClockOK
  <1> HIDE DEF b
  <1>2. ClockOK(d)
    BY <1>1, CloseIs
  <1> HIDE DEF d
  <1>3. ClockOK([d EXCEPT !.start = b])
    BY <1>1, <1>2 DEF ClockOK, ClockFields
  <1> QED BY <1>3 DEF Fire, b, d

LEMMA FireUntilKeeps ==
    ASSUME NEW c, ClockOK(c), NEW most \in Nat \ {0}, NEW t \in Int
    PROVE  ClockOK(FireUntil(c, most, t))
  <1> DEFINE k == (t - c.start) \div most
             l == IF k < 0 THEN 0 ELSE k
  <1>1. k \in Int
    BY DEF ClockOK
  <1>2. DOMAIN [i \in 1 .. k |-> i] = 1 .. k
    OBVIOUS
  <1> HIDE DEF k
  <1>3. l \in Nat /\ 1 .. k = 1 .. l
    BY <1>1
  <1> HIDE DEF l
  <1>4. \A Q \in SUBSET (1 .. l) : Q # {} => Top(most, Q) \in Q /\ \A i \in Q : i <= Top(most, Q)
    BY <1>3, TopIn
  <1>5. FireHolds(most, c, 0)
    BY DEF FireHolds
  <1>6. ASSUME NEW i \in 1 .. l, NEW x, FireHolds(most, x, i - 1)
        PROVE  FireHolds(most, FireOp(most, x, i), i)
    BY <1>6, FireKeeps DEF FireHolds, FireOp
  <1>7. FireHolds(most, Firings!Fold(most, c, 1 .. l), l)
    BY <1>3, <1>4, <1>5, <1>6, Firings!LeftFoldKeeps
  <1>8. FireUntil(c, most, t) = Firings!Fold(most, c, 1 .. l)
    BY <1>2, <1>3, FiringsDef DEF k
  <1> QED BY <1>7, <1>8 DEF FireHolds

LEMMA PushKeeps ==
    ASSUME NEW c, ClockOK(c), NEW m, IsTrade(m), NEW most \in Nat \ {0}, NEW threshold
    PROVE  ClockOK(Push(c, m, most, threshold))
  <1> DEFINE fired == FireUntil(c, most, m.ts)
             full == [fired EXCEPT !.members = Append(@, m)]
             notional == MapThenSumSet(LAMBDA i : full.members[i].size, DOMAIN full.members)
             d == Close(full, "threshold", NoTime)
  <1>1. ClockOK(fired)
    BY FireUntilKeeps DEF IsTrade
  <1> HIDE DEF fired
  <1>2. ClockOK(full)
    <2> DEFINE a == Append(fired.members, m)
    <2>1. Sequence(fired.members) /\ \A i \in DOMAIN fired.members : IsTrade(fired.members[i])
      BY <1>1 DEF ClockOK
    <2>2. Sequence(a) /\ \A i \in DOMAIN a : IsTrade(a[i])
      <3>1. /\ Sequence(a) /\ Len(fired.members) \in Nat
            /\ DOMAIN a = 1 .. Len(fired.members) + 1
            /\ DOMAIN fired.members = 1 .. Len(fired.members)
            /\ \A i \in 1 .. Len(fired.members) : a[i] = fired.members[i]
            /\ a[Len(fired.members) + 1] = m
        BY <2>1, Appending, SequenceFacts
      <3> HIDE DEF a
      <3>2. \A i \in DOMAIN a : i \in DOMAIN fired.members \/ i = Len(fired.members) + 1
        BY <3>1
      <3> QED BY <2>1, <3>1, <3>2
    <2>3. full = [fired EXCEPT !.members = a]
      OBVIOUS
    <2> HIDE DEF a, full
    <2> QED BY <1>1, <2>2, <2>3 DEF ClockOK, ClockFields
  <1> HIDE DEF full
  <1>3. ClockOK(d)
    BY <1>2, CloseIs
  <1> HIDE DEF d
  <1>4. ClockOK([d EXCEPT !.start = m.ts])
    BY <1>3 DEF ClockOK, ClockFields, IsTrade
  <1>5. Push(c, m, most, threshold) = IF notional * threshold.den >= threshold.num
                                      THEN [d EXCEPT !.start = m.ts] ELSE full
    BY DEF Push, fired, full, d
  <1> HIDE DEF notional
  <1> QED BY <1>2, <1>4, <1>5

LEMMA FinishKeeps ==
    ASSUME NEW c, ClockOK(c), NEW most \in Nat \ {0}, NEW day \in Nat
    PROVE  ClockOK(FinishClock(c, most, day))
  <1> DEFINE fired == FireUntil(c, most, DayEnd(day))
  <1>1. DayEnd(day) \in Nat
    BY ScheduleAssumption DEF DayEnd, DayOpen
  <1>2. ClockOK(fired)
    BY <1>1, FireUntilKeeps
  <1> HIDE DEF fired
  <1>3. ClockOK(Close(fired, "day_end", DayEnd(day)))
    BY <1>1, <1>2, CloseIs
  <1>4. FinishClock(c, most, day) = IF fired.members = << >> THEN fired
                                    ELSE Close(fired, "day_end", DayEnd(day))
    BY DEF FinishClock, fired
  <1> QED BY <1>2, <1>3, <1>4

\* Coalescing keeps, in order, bars of distinct times.
LEMMA CoalesceIs ==
    ASSUME NEW bars, IsBars(bars)
    PROVE  /\ Sequence(Coalesce(bars))
           /\ \A k \in DOMAIN Coalesce(bars) : IsBar(Coalesce(bars)[k])
           /\ \A k, m \in DOMAIN Coalesce(bars) : k < m => Coalesce(bars)[k].t < Coalesce(bars)[m].t
  <1> DEFINE S == {i \in DOMAIN bars : i = Len(bars) \/ bars[i + 1].t > bars[i].t}
             s == InOrder(S)
             d == Coalesce(bars)
             l == Len(bars)
  <1>1. l \in Nat /\ DOMAIN bars = 1 .. l
    BY SequenceFacts DEF IsBars
  <1> HIDE DEF l
  <1>2. S \subseteq 1 .. l /\ S \subseteq Nat /\ IsFiniteSet(S)
    <2>1. S \subseteq 1 .. l
      BY <1>1
    <2> HIDE DEF S
    <2>2. S \subseteq Nat
      BY <1>1, <2>1
    <2>3. IsFiniteSet(S)
      BY <1>1, <2>1, PositionsAreFinite
    <2> QED BY <2>1, <2>2, <2>3
  <1>3. \A i \in S : i = l \/ bars[i + 1].t > bars[i].t
    BY DEF l
  <1>4. d = [k \in DOMAIN s |-> bars[s[k]]]
    BY DEF Coalesce
  <1> HIDE DEF S, d
  <1> DEFINE c == Cardinality(S)
  <1>5. /\ c \in Nat /\ DOMAIN s = 1 .. c /\ \A k \in DOMAIN s : s[k] \in S
        /\ \A k, m \in DOMAIN s : k < m => s[k] < s[m]
    BY <1>2, InOrderIs
  <1> HIDE DEF s, c
  <1>6. ASSUME NEW k \in DOMAIN d PROVE IsBar(d[k])
    BY <1>1, <1>2, <1>4, <1>5 DEF IsBars
  <1>7. ASSUME NEW k \in DOMAIN d, NEW m \in DOMAIN d, k < m PROVE d[k].t < d[m].t
    <2> DEFINE i == s[k]
               j == s[m]
    <2>1. i \in S /\ j \in S /\ i < j /\ d[k] = bars[i] /\ d[m] = bars[j]
      BY <1>4, <1>5, <1>7
    <2> HIDE DEF i, j
    <2>2. i \in 1 .. l /\ j \in 1 .. l
      BY <1>2, <2>1
    <2>3. i # l /\ i + 1 \in 1 .. l /\ i + 1 <= j
      BY <1>1, <2>1, <2>2
    <2>4. bars[i + 1].t > bars[i].t /\ bars[i + 1].t <= bars[j].t
      BY <1>1, <1>3, <2>1, <2>2, <2>3 DEF IsBars
    <2>5. bars[i].t \in Nat /\ bars[i + 1].t \in Nat /\ bars[j].t \in Nat
      BY <1>1, <2>2, <2>3 DEF IsBars, IsBar
    <2> QED BY <2>1, <2>4, <2>5
  <1>8. Sequence(d)
    <2>1. d \in [1 .. c -> {bars[i] : i \in S}]
      BY <1>4, <1>5
    <2>2. d \in Seq({bars[i] : i \in S})
      BY <1>5, <2>1
    <2> QED BY <2>2 DEF Sequence
  <1> QED BY <1>6, <1>7, <1>8 DEF d

-----------------------------------------------------------------------------
(* A day *)

LEMMA Concatenating ==
    ASSUME NEW s, Sequence(s), NEW u, Sequence(u)
    PROVE  /\ Sequence(s \o u) /\ Len(s \o u) = Len(s) + Len(u)
           /\ Len(s) \in Nat /\ Len(u) \in Nat /\ DOMAIN (s \o u) = 1 .. Len(s) + Len(u)
           /\ DOMAIN s = 1 .. Len(s) /\ DOMAIN u = 1 .. Len(u)
           /\ \A i \in 1 .. Len(s) : (s \o u)[i] = s[i]
           /\ \A i \in 1 .. Len(u) : (s \o u)[Len(s) + i] = u[i]
  <1>1. PICK S : s \in Seq(S)
    BY DEF Sequence
  <1>2. PICK T : u \in Seq(T)
    BY DEF Sequence
  <1>3. s \in Seq(S \cup T) /\ u \in Seq(S \cup T)
    BY <1>1, <1>2
  <1>4. s \o u \in Seq(S \cup T) /\ Len(s \o u) = Len(s) + Len(u)
    BY <1>3
  <1> QED BY <1>3, <1>4 DEF Sequence

\* An element of two sequences put together is one of theirs.
LEMMA OneOfTwo ==
    ASSUME NEW s, Sequence(s), NEW u, Sequence(u), NEW i \in DOMAIN (s \o u)
    PROVE  \/ i \in DOMAIN s /\ (s \o u)[i] = s[i]
           \/ i - Len(s) \in DOMAIN u /\ (s \o u)[i] = u[i - Len(s)]
  <1> DEFINE j == i - Len(s)
  <1>1. /\ Len(s) \in Nat /\ Len(u) \in Nat /\ i \in 1 .. Len(s) + Len(u)
        /\ DOMAIN s = 1 .. Len(s) /\ DOMAIN u = 1 .. Len(u)
        /\ \A k \in 1 .. Len(s) : (s \o u)[k] = s[k]
        /\ \A k \in 1 .. Len(u) : (s \o u)[Len(s) + k] = u[k]
    BY Concatenating
  <1>2. CASE i <= Len(s)
    BY <1>1, <1>2
  <1>3. CASE ~ i <= Len(s)
    <2>1. j \in 1 .. Len(u) /\ Len(s) + j = i
      BY <1>1, <1>3
    <2> HIDE DEF j
    <2> QED BY <1>1, <2>1 DEF j
  <1> QED BY <1>2, <1>3

\* One product of a day's object.
Product(events) ==
    /\ Sequence(events)
    /\ \A i \in DOMAIN events : Event(events[i])
    /\ \A i, j \in DOMAIN events : i <= j => events[i].ts <= events[j].ts

LEMMA SumIsInt == \A a, b \in Int : a + b \in Int
  OBVIOUS

LEMMA ShiftedIs ==
    ASSUME FrameAssumption, NEW events \in Snapshots \cup Deltas, NEW d \in Nat
    PROVE  Product(Shifted(events, d))
  <1> DEFINE E == Shifted(events, d)
             o == DayOpen(d)
             R == [ts : Int, recv : Int, side : {"bid", "ask"}, price : Nat, size : Nat]
  <1>0. o \in Int
    BY ScheduleAssumption DEF DayOpen
  <1>1. /\ events \in Seq(R)
        /\ \A i \in DOMAIN events : events[i].ts <= events[i].recv
        /\ \A i, j \in DOMAIN events : i <= j => events[i].ts <= events[j].ts
    BY DEF FrameAssumption
  <1>2. E = [i \in DOMAIN events |-> [events[i] EXCEPT !.ts = @ + o, !.recv = @ + o]]
    BY DEF Shifted
  <1> HIDE DEF E, o, R
  <1>3. ASSUME NEW i \in DOMAIN events
        PROVE  /\ E[i] \in R /\ E[i].ts = events[i].ts + o /\ E[i].recv = events[i].recv + o
               /\ events[i].ts \in Int /\ events[i].recv \in Int
    <2>1. events[i] \in R
      BY <1>1
    <2> DEFINE e == events[i]
    <2> HIDE DEF e
    <2>2. E[i] = [e EXCEPT !.ts = @ + o, !.recv = @ + o] /\ e \in R
      BY <1>2, <2>1 DEF e
    <2>3. [e EXCEPT !.ts = @ + o, !.recv = @ + o]
            = [ts |-> e.ts + o, recv |-> e.recv + o, side |-> e.side, price |-> e.price,
               size |-> e.size]
      BY <2>2 DEF R
    <2>4. /\ E[i].ts = e.ts + o /\ E[i].recv = e.recv + o
          /\ E[i].side = e.side /\ E[i].price = e.price /\ E[i].size = e.size
          /\ E[i] = [ts |-> E[i].ts, recv |-> E[i].recv, side |-> E[i].side,
                     price |-> E[i].price, size |-> E[i].size]
      BY <2>2, <2>3
    <2>5. /\ e.ts \in Int /\ e.recv \in Int
          /\ e.side \in {"bid", "ask"} /\ e.price \in Nat /\ e.size \in Nat
      BY <2>2 DEF R
    <2>6. E[i] \in R
      <3>1. E[i].ts \in Int /\ E[i].recv \in Int
        <4>1. E[i].ts = e.ts + o /\ E[i].recv = e.recv + o
          BY <2>4, Zenon
        <4>2. e.ts \in Int /\ e.recv \in Int
          BY <2>5, Zenon
        <4>3. e.ts + o \in Int /\ e.recv + o \in Int
          BY <1>0, <4>2, SumIsInt, Zenon
        <4> QED BY <4>1, <4>3, Zenon
      <3>2. E[i].side \in {"bid", "ask"} /\ E[i].price \in Nat /\ E[i].size \in Nat
        BY <2>4, <2>5
      <3> QED BY <2>4, <3>1, <3>2 DEF R
    <2> QED BY <2>4, <2>5, <2>6 DEF e
  <1>4. DOMAIN E = DOMAIN events /\ E = [i \in DOMAIN events |-> E[i]]
    BY <1>2, Zenon
  <1>7. Sequence(E)
    <2> DEFINE l == Len(events)
    <2>1. DOMAIN events = 1 .. l /\ l \in Nat
      BY <1>1
    <2> HIDE DEF l
    <2>2. \A i \in 1 .. l : E[i] \in R
      BY <1>3, <2>1
    <2>3. E \in [1 .. l -> R]
      BY <1>4, <2>1, <2>2
    <2>4. E \in Seq(R)
      <3>1. l \in Nat
        BY <2>1
      <3> HIDE DEF E, R
      <3> QED BY <2>3, <3>1
    <2> QED BY <2>4 DEF Sequence
  <1>5. \A i \in DOMAIN E : Event(E[i])
    <2> TAKE i \in DOMAIN E
    <2>0. i \in DOMAIN events
      BY <1>4
    <2>1. E[i] \in R /\ E[i].ts <= E[i].recv
      <3>1. events[i].ts <= events[i].recv /\ events[i].ts \in Int /\ events[i].recv \in Int
        BY <1>1, <1>3, <2>0
      <3>2. E[i] \in R /\ E[i].ts = events[i].ts + o /\ E[i].recv = events[i].recv + o
        BY <1>3, <2>0
      <3> QED BY <1>0, <3>1, <3>2
    <2> QED BY <2>1 DEF Event, IsDelta, R
  <1>6. \A i, j \in DOMAIN E : i <= j => E[i].ts <= E[j].ts
    <2> TAKE i, j \in DOMAIN E
    <2> HAVE i <= j
    <2>1. events[i].ts <= events[j].ts
      BY <1>1, <1>4
    <2> QED BY <1>0, <1>3, <1>4, <2>1
  <1> QED BY <1>5, <1>6, <1>7 DEF Product, E

LEMMA SeededDay ==
    ASSUME NEW snap, Product(snap), NEW deltas, Product(deltas), NEW lo \in Int, NEW hi,
           WellFormed(snap, deltas, lo, hi)
    PROVE  Stream(snap \o deltas)
  <1> DEFINE E == snap \o deltas
             l == Len(snap)
  <1>1. /\ l \in Nat /\ Sequence(E) /\ DOMAIN snap = 1 .. l
        /\ DOMAIN deltas = 1 .. Len(deltas) /\ DOMAIN E \subseteq Nat
    BY Concatenating DEF Product
  <1>2. \A i \in DOMAIN E : \/ i \in DOMAIN snap /\ E[i] = snap[i]
                            \/ i - l \in DOMAIN deltas /\ E[i] = deltas[i - l]
    BY OneOfTwo DEF Product
  <1> HIDE DEF E, l
  <1>3. \A i \in DOMAIN E : Event(E[i])
    BY <1>2 DEF Product
  <1>4. ASSUME NEW i \in DOMAIN E, NEW j \in DOMAIN E, i <= j
        PROVE  E[i].ts <= E[j].ts
    <2>0. i \in Nat /\ j \in Nat
      BY <1>1
    <2>1. CASE i \in DOMAIN snap /\ E[i] = snap[i] /\ j \in DOMAIN snap /\ E[j] = snap[j]
      BY <1>4, <2>1 DEF Product
    <2>2. CASE i \in DOMAIN snap /\ E[i] = snap[i] /\ j - l \in DOMAIN deltas /\ E[j] = deltas[j - l]
      <3>1. E[i].ts <= lo /\ lo <= E[j].ts
        BY <2>2 DEF WellFormed
      <3>2. E[i].ts \in Int /\ E[j].ts \in Int
        BY <1>3 DEF Event
      <3> QED BY <3>1, <3>2
    <2>3. CASE i - l \in DOMAIN deltas /\ E[i] = deltas[i - l] /\ j \in DOMAIN snap
      <3>1. i - l >= 1 /\ j <= l
        BY <1>1, <2>3
      <3> QED BY <1>1, <1>4, <2>0, <3>1
    <2>4. CASE i - l \in DOMAIN deltas /\ E[i] = deltas[i - l]
               /\ j - l \in DOMAIN deltas /\ E[j] = deltas[j - l]
      <3>1. i - l <= j - l
        BY <1>1, <1>4, <2>0
      <3> QED BY <2>4, <3>1 DEF Product
    <2> QED BY <1>2, <2>1, <2>2, <2>3, <2>4
  <1> QED BY <1>1, <1>3, <1>4 DEF Stream, E

-----------------------------------------------------------------------------
(* Splits and weights *)

LEMMA TwoMin ==
    ASSUME NEW a \in Int, NEW b \in Int
    PROVE  Min({a, b}) \in {a, b} /\ Min({a, b}) <= a /\ Min({a, b}) <= b
  <1>1. \E m \in {a, b} : \A x \in {a, b} : m <= x
    BY DEF Min
  <1>2. Min({a, b}) \in {a, b} /\ \A x \in {a, b} : Min({a, b}) <= x
    BY <1>1 DEF Min
  <1> QED BY <1>2

\* A span of time from one natural number to another.
IsSpan(s) == s[1] \in Nat /\ s[2] \in Nat /\ s[1] <= s[2]

\* Every span lies in a merged block.
LEMMA SpansAreMerged ==
    ASSUME NEW spans, IsFiniteSet(spans), \A s \in spans : IsSpan(s), NEW s \in spans
    PROVE  \E m \in MergedSpans(spans) :
              m[1] \in Nat /\ m[2] \in Nat /\ m[1] <= s[1] /\ s[2] <= m[2]
  <1> DEFINE starts == {q[1] : q \in {q \in spans : \A z \in spans : z[1] < q[1] => z[2] < q[1]}}
             block(lo) == {q \in spans : lo <= q[1] /\ \A x \in starts : lo < x => q[1] < x}
             begun == {x \in starts : x <= s[1]}
             lo == Max(begun)
             ends == {q[2] : q \in block(lo)}
             hi == Max(ends)
  <1>1. starts \subseteq Nat /\ \A x \in starts : \E q \in spans : x = q[1]
    BY DEF IsSpan
  <1>2. IsFiniteSet({q[1] : q \in spans})
    <2> DEFINE f == [q \in spans |-> q[1]]
    <2>1. DOMAIN f = spans /\ {f[q] : q \in DOMAIN f} = {q[1] : q \in spans}
      OBVIOUS
    <2> HIDE DEF f
    <2>2. IsFiniteSet({f[q] : q \in DOMAIN f})
      BY <2>1, ImageFinite
    <2> QED BY <2>1, <2>2
  <1>3. begun # {}
    <2> DEFINE firsts == {q[1] : q \in spans}
    <2>1. firsts \subseteq Nat /\ firsts # {}
      BY DEF IsSpan
    <2>2. PICK x \in firsts : \A y \in firsts : x <= y
      <3> HIDE DEF firsts
      <3> QED BY <2>1, LeastOfNat
    <2>3. PICK q \in spans : x = q[1]
      OBVIOUS
    <2>4. \A z \in spans : ~ z[1] < q[1]
      <3>1. \A z \in spans : z[1] \in firsts /\ z[1] \in Nat
        BY DEF IsSpan
      <3>2. q[1] \in Nat
        BY <2>3 DEF IsSpan
      <3> HIDE DEF firsts
      <3> QED BY <2>2, <2>3, <3>1, <3>2
    <2>5. q[1] \in starts
      BY <2>3, <2>4
    <2>6. q[1] <= s[1]
      BY <2>2, <2>3
    <2> HIDE DEF starts
    <2> QED BY <2>5, <2>6
  <1>4. lo \in begun /\ \A x \in begun : x <= lo
    <2>1. begun \subseteq {q[1] : q \in spans} /\ begun \subseteq Nat
      BY <1>1
    <2>2. IsFiniteSet(begun)
      <3> HIDE DEF begun
      <3> QED BY <1>2, <2>1, FS_Subset
    <2> HIDE DEF begun
    <2> QED BY <1>3, <2>1, <2>2, MaxOfFinite
  <1> HIDE DEF starts, lo
  <1>5. s \in block(lo)
    <2>1. lo <= s[1] /\ lo \in Nat
      BY <1>1, <1>4
    <2>2. ASSUME NEW x \in starts, lo < x PROVE s[1] < x
      <3>1. x \in Nat /\ s[1] \in Nat
        BY <1>1 DEF IsSpan
      <3>2. ~ x <= s[1]
        BY <1>4, <2>1, <2>2, <3>1
      <3> QED BY <3>1, <3>2
    <2> QED BY <2>1, <2>2
  <1>6. hi \in Nat /\ s[2] <= hi
    <2>1. ends \subseteq Nat /\ s[2] \in ends
      BY <1>5 DEF IsSpan
    <2>2. IsFiniteSet(ends)
      <3> DEFINE B == block(lo)
                 f == [q \in B |-> q[2]]
      <3>1. B \subseteq spans
        OBVIOUS
      <3>2. DOMAIN f = B /\ {f[q] : q \in DOMAIN f} = ends
        OBVIOUS
      <3> HIDE DEF f, B, ends
      <3>3. IsFiniteSet(B)
        BY <3>1, FS_Subset
      <3>4. IsFiniteSet({f[q] : q \in DOMAIN f})
        BY <3>2, <3>3, ImageFinite
      <3> QED BY <3>2, <3>4
    <2> HIDE DEF ends
    <2>3. hi \in ends /\ \A x \in ends : x <= hi
      BY <2>1, <2>2, MaxOfFinite
    <2> QED BY <2>1, <2>3
  <1>7. <<lo, hi>> \in MergedSpans(spans)
    <2>1. MergedSpans(spans) = {<<x, Max({q[2] : q \in block(x)})>> : x \in starts}
      BY DEF MergedSpans, starts
    <2>2. lo \in starts
      BY <1>4
    <2> QED BY <2>1, <2>2
  <1>8. lo \in Nat /\ lo <= s[1]
    BY <1>1, <1>4
  <1> HIDE DEF hi
  <1> QED BY <1>6, <1>7, <1>8

\* A row [t, barrier, fs] whose features look back no further than the cap.
IsRow(r) ==
    /\ r.t \in Nat /\ r.barrier \in Nat /\ r.fs \in Int
    /\ r.t <= r.barrier /\ r.t - r.fs <= LookbackCap

\* Of rows that are not purged, no label overlaps the test's, and no features
\* look back into it.
LEMMA PurgedIsEnough ==
    ASSUME LookbackCap \in Int, NEW own, IsFiniteSet(own), \A r \in own : IsRow(r),
           NEW test \in SUBSET own, NEW a \in own, a \notin Purged(own, test, LookbackCap),
           NEW b \in test
    PROVE  /\ a.barrier < b.t \/ b.barrier < a.t
           /\ b.barrier < a.t => b.barrier < a.fs
  <1> DEFINE spans == {<<r.t, r.barrier>> : r \in test}
             s == <<b.t, b.barrier>>
  <1>1. IsFiniteSet(spans)
    <2> DEFINE f == [r \in test |-> <<r.t, r.barrier>>]
    <2>1. DOMAIN f = test /\ {f[r] : r \in DOMAIN f} = spans
      OBVIOUS
    <2>2. IsFiniteSet(test)
      BY FS_Subset
    <2> HIDE DEF f, spans
    <2>3. IsFiniteSet({f[r] : r \in DOMAIN f})
      BY <2>1, <2>2, ImageFinite
    <2> QED BY <2>1, <2>3
  <1>2. \A q \in spans : IsSpan(q)
    BY DEF IsSpan, IsRow
  <1>3. s \in spans
    OBVIOUS
  <1>4. s[1] = b.t /\ s[2] = b.barrier
    OBVIOUS
  <1>5. \A m \in MergedSpans(spans) : /\ ~ (a.t <= m[2] /\ a.barrier >= m[1])
                                      /\ ~ (m[2] < a.t /\ a.t <= m[2] + LookbackCap)
    BY DEF Purged
  <1> HIDE DEF spans, s
  <1>6. PICK m \in MergedSpans(spans) : m[1] \in Nat /\ m[2] \in Nat /\ m[1] <= s[1] /\ s[2] <= m[2]
    BY <1>1, <1>2, <1>3, SpansAreMerged
  <1>7. IsRow(a) /\ IsRow(b)
    OBVIOUS
  <1> DEFINE lo == m[1]
             hi == m[2]
             cut == LookbackCap
  <1>8. /\ lo \in Nat /\ hi \in Nat /\ lo <= b.t /\ b.barrier <= hi /\ cut \in Int
        /\ ~ (a.t <= hi /\ a.barrier >= lo) /\ ~ (hi < a.t /\ a.t <= hi + cut)
        /\ a.t - a.fs <= cut
    BY <1>4, <1>5, <1>6, <1>7 DEF IsRow
  <1> HIDE DEF lo, hi, cut
  <1>9. a.t \in Nat /\ a.barrier \in Nat /\ a.fs \in Int /\ a.t <= a.barrier
        /\ b.t \in Nat /\ b.barrier \in Nat /\ b.t <= b.barrier
    BY <1>7 DEF IsRow
  <1> QED BY <1>8, <1>9

LEMMA ConcurrencyCounts ==
    ASSUME NEW own, IsFiniteSet(own), \A r \in own : IsRow(r), NEW r \in own
    PROVE  Concurrency(own, r) = Cardinality({q \in own : q.t <= r.t /\ r.t < q.barrier})
  <1> DEFINE started == {q \in own : q.t <= r.t}
             over == {q \in own : q.barrier <= r.t}
             running == {q \in own : q.t <= r.t /\ r.t < q.barrier}
  <1>1. \A q \in own : q.t \in Nat /\ q.barrier \in Nat /\ q.t <= q.barrier /\ r.t \in Nat
    BY DEF IsRow
  <1>2. started \cap over = over /\ running = started \ over
    BY <1>1
  <1>3. Concurrency(own, r) = Cardinality(started) - Cardinality(over)
    BY DEF Concurrency
  <1>4. IsFiniteSet(started)
    <2>1. started \subseteq own
      OBVIOUS
    <2> HIDE DEF started
    <2> QED BY <2>1, FS_Subset
  <1> HIDE DEF started, over, running
  <1>5. Cardinality(started \ over) = Cardinality(started) - Cardinality(started \cap over)
    BY <1>4, FS_Difference
  <1> QED BY <1>2, <1>3, <1>5 DEF running

-----------------------------------------------------------------------------
(* Labels *)

\* A path of <<time, mid>> with integer times.
IsPath(path) == Sequence(path) /\ \A i \in DOMAIN path : path[i][1] \in Int

\* A label of an anchor at t is a rejection, or closes no earlier than t.
IsLabel(x, t) == x = Rejected \/ (x.barrier \in Nat /\ t <= x.barrier)

LabelOp(c, x, k) == LabelAnchor(x, c.path, c.anchors[k], c.h, c.end)
LabelHolds(c, x, k) ==
    /\ x.pts \subseteq DOMAIN c.path
    /\ Sequence(x.out) /\ Len(x.out) = k
    /\ \A i \in 1 .. k : IsLabel(x.out[i], c.anchors[i].t)
Labelled == INSTANCE FoldTheorems WITH Op <- LabelOp, Pick <- Top, Holds <- LabelHolds

LEMMA LabelledDef ==
    ASSUME NEW path, NEW anchors, NEW h, NEW end
    PROVE  Labels(path, anchors, h, end)
             = Labelled!Fold([path |-> path, anchors |-> anchors, h |-> h, end |-> end],
                             NoLabels, DOMAIN anchors)
  BY DEF Labels, FoldLeft, Labelled!Fold, Labelled!IsFold, MapThenFoldSet, LabelOp, Top

LEMMA ResolveIsLabel ==
    ASSUME NEW path, IsPath(path), NEW pts, pts \subseteq DOMAIN path, NEW t \in Nat, NEW h \in Nat,
           \A i \in pts : path[i][1] > t, NEW p0, NEW width
    PROVE  IsLabel(Resolve(path, pts, t, h, p0, width), t)
  <1> DEFINE inside == {i \in pts : path[i][1] <= t + h}
             hits == {i \in inside : Magnitude(path[i][2] - p0) >= width}
             first == path[Min(hits)]
             r == Resolve(path, pts, t, h, p0, width)
  <1>1. r = IF hits # {}
            THEN [label |-> IF first[2] > p0 THEN 1 ELSE -1, barrier |-> first[1],
                  ret |-> first[2] - p0]
            ELSE [label |-> 0, barrier |-> t + h,
                  ret |-> IF inside = {} THEN 0 ELSE path[Max(inside)][2] - p0]
    BY DEF Resolve
  <1>2. CASE hits # {}
    <2>1. hits \subseteq pts /\ hits \subseteq Nat
      <3>1. DOMAIN path \subseteq Nat
        BY SequenceFacts DEF IsPath
      <3> QED BY <3>1
    <2>2. Min(hits) \in hits
      <3> HIDE DEF hits
      <3> QED BY <1>2, <2>1, MinOfNat
    <2>3. first[1] \in Int /\ first[1] > t
      BY <2>1, <2>2 DEF IsPath
    <2> HIDE DEF r, first, hits
    <2>4. r.barrier = first[1]
      BY <1>1, <1>2
    <2> QED BY <2>3, <2>4 DEF IsLabel, r
  <1>3. CASE hits = {}
    <2> HIDE DEF r, first, hits, inside
    <2>1. r.barrier = t + h
      BY <1>1, <1>3
    <2> QED BY <2>1 DEF IsLabel, r
  <1> QED BY <1>2, <1>3

LEMMA LabelStep ==
    ASSUME NEW path, IsPath(path), NEW a, a.t \in Nat, NEW h \in Nat, NEW end,
           NEW x, x.pts \subseteq DOMAIN path, Sequence(x.out)
    PROVE  LET y == LabelAnchor(x, path, a, h, end)
           IN /\ y.pts \subseteq DOMAIN path
              /\ Sequence(y.out) /\ Len(y.out) = Len(x.out) + 1
              /\ \A i \in 1 .. Len(x.out) : y.out[i] = x.out[i]
              /\ IsLabel(y.out[Len(x.out) + 1], a.t)
  <1> DEFINE all == x.pts \cup LastOfEach(path, Pulled(path, x.next, a.t + h))
             trail == x.trail \cup {i \in all : path[i][1] <= a.t}
             pts == {i \in all : path[i][1] > a.t}
             width == Width(path, trail)
             usable == Cardinality(trail) > MinReturns /\ width > 0
             r == IF usable THEN Resolve(path, pts, a.t, h, a.p0, width) ELSE Rejected
             y == LabelAnchor(x, path, a, h, end)
  <1>1. y.pts = pts /\ y.out = Append(x.out, r)
    BY DEF LabelAnchor
  <1>2. pts \subseteq DOMAIN path /\ \A i \in pts : path[i][1] > a.t
    BY DEF LastOfEach, Pulled
  <1> HIDE DEF y, pts, width, usable
  <1>3. IsLabel(Resolve(path, pts, a.t, h, a.p0, width), a.t)
    BY <1>2, ResolveIsLabel
  <1>4. IsLabel(r, a.t)
    BY <1>3 DEF IsLabel
  <1> HIDE DEF r
  <1> QED BY <1>1, <1>2, <1>4, Appending DEF y

LEMMA LabelsAre ==
    ASSUME NEW path, IsPath(path), NEW anchors, Sequence(anchors),
           \A k \in DOMAIN anchors : anchors[k].t \in Nat, NEW h \in Nat, NEW end
    PROVE  \A k \in DOMAIN anchors : IsLabel(Labels(path, anchors, h, end).out[k], anchors[k].t)
  <1> DEFINE c == [path |-> path, anchors |-> anchors, h |-> h, end |-> end]
             l == Len(anchors)
  <1>0. c.path = path /\ c.anchors = anchors /\ c.h = h /\ c.end = end
    OBVIOUS
  <1>1. l \in Nat /\ DOMAIN anchors = 1 .. l
    BY SequenceFacts
  <1>2. Labels(path, anchors, h, end) = Labelled!Fold(c, NoLabels, 1 .. l)
    BY <1>1, LabelledDef
  <1> HIDE DEF c, l
  <1>3. \A Q \in SUBSET (1 .. l) : Q # {} => Top(c, Q) \in Q /\ \A i \in Q : i <= Top(c, Q)
    BY <1>1, TopIn
  <1>4. LabelHolds(c, NoLabels, 0)
    BY <1>0, EmptySequence DEF LabelHolds, NoLabels
  <1>5. ASSUME NEW k \in 1 .. l, NEW x, LabelHolds(c, x, k - 1)
        PROVE  LabelHolds(c, LabelOp(c, x, k), k)
    <2> DEFINE a == anchors[k]
               y == LabelAnchor(x, path, a, h, end)
    <2>1. a.t \in Nat
      BY <1>1
    <2>2. /\ x.pts \subseteq DOMAIN path /\ Sequence(x.out) /\ Len(x.out) = k - 1
          /\ \A i \in 1 .. k - 1 : IsLabel(x.out[i], anchors[i].t)
      BY <1>0, <1>5 DEF LabelHolds
    <2> HIDE DEF a, y
    <2>3. /\ y.pts \subseteq DOMAIN path
          /\ Sequence(y.out) /\ Len(y.out) = Len(x.out) + 1
          /\ \A i \in 1 .. Len(x.out) : y.out[i] = x.out[i]
          /\ IsLabel(y.out[Len(x.out) + 1], a.t)
      BY <2>1, <2>2, LabelStep DEF y
    <2>4. (k - 1) + 1 = k /\ \A i \in 1 .. k : i \in 1 .. k - 1 \/ i = k
      OBVIOUS
    <2>5. \A i \in 1 .. k : IsLabel(y.out[i], anchors[i].t)
      BY <2>2, <2>3, <2>4 DEF a
    <2> QED BY <1>0, <2>2, <2>3, <2>4, <2>5 DEF LabelHolds, LabelOp, y, a
  <1>6. LabelHolds(c, Labelled!Fold(c, NoLabels, 1 .. l), l)
    BY <1>1, <1>3, <1>4, <1>5, Labelled!LeftFoldKeeps
  <1> QED BY <1>0, <1>1, <1>2, <1>6 DEF LabelHolds

\* The candidates of a segment.
AreRecords(recs) ==
    /\ Sequence(recs)
    /\ \A k \in DOMAIN recs : recs[k].t \in Nat /\ recs[k].fs \in Int
                              /\ recs[k].t - recs[k].fs <= LookbackCap

LEMMA HorizonRows ==
    ASSUME NEW recs, AreRecords(recs), NEW path, IsPath(path), NEW invalid, NEW h,
           Horizons[h] \in Nat
    PROVE  /\ IsFiniteSet(LabelHorizon(recs, path, invalid, h).rows)
           /\ \A r \in LabelHorizon(recs, path, invalid, h).rows : IsRow(r)
  <1> DEFINE S == {i \in DOMAIN recs : Gate(recs[i], h) = "survives"}
             s == InOrder(S)
             alive == [k \in DOMAIN s |-> recs[s[k]]]
             labelled == Labels(path, alive, Horizons[h], Bound)
             outcome == [i \in DOMAIN alive |-> LabelOutcome(alive[i], labelled.out[i], invalid)]
             kept == {i \in DOMAIN alive : outcome[i] = "row"}
             made == {Row(alive[i], h, labelled.out[i]) : i \in kept}
  <1>1. LabelHorizon(recs, path, invalid, h).rows = made
    BY DEF LabelHorizon
  <1>2. S \subseteq DOMAIN recs /\ S \subseteq Nat /\ IsFiniteSet(S)
    <2>1. Len(recs) \in Nat /\ DOMAIN recs = 1 .. Len(recs)
      BY SequenceFacts DEF AreRecords
    <2>2. S \subseteq DOMAIN recs
      OBVIOUS
    <2> HIDE DEF S
    <2>3. S \subseteq Nat
      BY <2>1, <2>2
    <2>4. IsFiniteSet(S)
      BY <2>1, <2>2, PositionsAreFinite
    <2> QED BY <2>2, <2>3, <2>4
  <1> HIDE DEF S
  <1> DEFINE l == Cardinality(S)
  <1>3. l \in Nat /\ DOMAIN s = 1 .. l /\ \A k \in DOMAIN s : s[k] \in S
    BY <1>2, InOrderIs
  <1> HIDE DEF s, l
  <1>4. DOMAIN alive = 1 .. l /\ \A k \in 1 .. l : alive[k] = recs[s[k]] /\ s[k] \in DOMAIN recs
    BY <1>2, <1>3
  <1>5. Sequence(alive)
    <2> DEFINE R == {recs[i] : i \in S}
    <2>1. \A k \in 1 .. l : recs[s[k]] \in R
      BY <1>3
    <2>2. alive = [k \in 1 .. l |-> recs[s[k]]]
      BY <1>3
    <2> HIDE DEF R, alive
    <2>3. alive \in [1 .. l -> R]
      BY <2>1, <2>2
    <2>4. alive \in Seq(R)
      BY <1>3, <2>3
    <2> QED BY <2>4 DEF Sequence
  <1> HIDE DEF alive
  <1>6. \A k \in DOMAIN alive : /\ alive[k].t \in Nat /\ alive[k].fs \in Int
                                /\ alive[k].t - alive[k].fs <= LookbackCap
    BY <1>4 DEF AreRecords
  <1>7. \A k \in DOMAIN alive : IsLabel(labelled.out[k], alive[k].t)
    BY <1>5, <1>6, LabelsAre
  <1> HIDE DEF labelled
  <1>8. \A i \in kept : IsRow(Row(alive[i], h, labelled.out[i]))
    <2> TAKE i \in kept
    <2>1. i \in DOMAIN alive /\ LabelOutcome(alive[i], labelled.out[i], invalid) = "row"
      OBVIOUS
    <2>2. labelled.out[i] # Rejected
      BY <2>1 DEF LabelOutcome
    <2> QED BY <1>6, <1>7, <2>1, <2>2 DEF IsLabel, IsRow, Row
  <1>9. IsFiniteSet(made)
    <2> DEFINE f == [i \in kept |-> Row(alive[i], h, labelled.out[i])]
    <2>1. kept \subseteq 1 .. l
      BY <1>4
    <2>2. DOMAIN f = kept /\ {f[i] : i \in DOMAIN f} = made
      OBVIOUS
    <2> HIDE DEF f, kept, made
    <2>3. IsFiniteSet(kept)
      BY <1>3, <2>1, PositionsAreFinite
    <2>4. IsFiniteSet({f[i] : i \in DOMAIN f})
      BY <2>2, <2>3, ImageFinite
    <2> QED BY <2>2, <2>4
  <1> QED BY <1>1, <1>8, <1>9

-----------------------------------------------------------------------------
(* The frame *)

BookStream(o) == o.snap \o o.deltas

\* Of the objects objs, one of that day was read at t.
Made(day, t, read, objs) ==
    \E j \in DOMAIN objs : objs[j].day = day /\ AsOf(read, BookStream(objs[j]), t, StalenessCap)

Decision(e, objs) == IsBar(e.bar) /\ Made(e.day, e.bar.t, e.read, objs)

AreDecisions(es, objs) == Sequence(es) /\ \A k \in DOMAIN es : Decision(es[k], objs)

EntriesMade(entries, objs) ==
    /\ Sequence(entries)
    /\ \A k \in DOMAIN entries : Made(entries[k].day, entries[k].t, entries[k].read, objs)

\* The objects are those of the days so far.
ObjectsInv ==
    /\ days \in DayLists /\ cap \in Caps /\ at \in DOMAIN days
    /\ Sequence(objects)
    /\ \A j \in DOMAIN objects : j \in DOMAIN days /\ objects[j].day = days[j]
    /\ phase = "open" => Len(objects) = at - 1
    /\ phase \in {"clock", "segment"} => Len(objects) = at
    /\ phase = "clock" => Stream(BookStream(objects[at]))

OpenClockInv == ClockOK(clock) /\ \A t \in queue : IsTrade(t)

DecidedInv ==
    /\ AreDecisions(carry, objects)
    /\ EntriesMade(decided, objects)

RowsInv ==
    /\ \A j \in DOMAIN objects : Product(objects[j].snap) /\ Product(objects[j].deltas)
    /\ prior.ts \in Int /\ AreRecords(records)
    /\ IsFiniteSet(rows) /\ \A r \in rows : IsRow(r)

FrameInv == ObjectsInv /\ OpenClockInv /\ DecidedInv /\ RowsInv

LEMMA DaysFacts ==
    ASSUME FrameAssumption, days \in DayLists
    PROVE  /\ Sequence(days) /\ Len(days) \in Nat /\ Len(days) # 0
           /\ DOMAIN days = 1 .. Len(days) /\ \A i \in DOMAIN days : days[i] \in Nat
           /\ \A i, j \in DOMAIN days : i < j => days[i] < days[j]
  <1>1. days \in Seq(Nat) /\ days # << >> /\ \A i, j \in DOMAIN days : i < j => days[i] < days[j]
    BY DEF FrameAssumption
  <1>2. Sequence(days)
    BY <1>1 DEF Sequence
  <1> QED BY <1>1, <1>2, SequenceFacts

LEMMA NewClockIs ==
    ASSUME NEW day \in Nat, NEW watermark \in Nat
    PROVE  ClockOK(NewClock(day, watermark))
  <1>1. DayOpen(day) \in Nat
    BY ScheduleAssumption DEF DayOpen
  <1>2. IsBars(<< >>)
    BY EmptySequence DEF IsBars
  <1> QED BY <1>1, <1>2, EmptySequence DEF ClockOK, ClockFields, NewClock

LEMMA FrameInvInit == ASSUME FrameAssumption, Init PROVE FrameInv
  <1>1. days \in DayLists /\ cap \in Caps /\ at = 1 /\ objects = << >> /\ phase = "open"
        /\ queue = {} /\ clock = NewClock(Head(days), 0) /\ carry = << >> /\ decided = << >>
        /\ prior = [t |-> None, ts |-> 0, obs |-> EmptyBook] /\ records = << >> /\ rows = {}
    BY DEF Init
  <1>2. /\ Len(days) \in Nat /\ Len(days) # 0 /\ DOMAIN days = 1 .. Len(days)
        /\ \A i \in DOMAIN days : days[i] \in Nat
    BY <1>1, DaysFacts
  <1>3. 1 \in DOMAIN days /\ Head(days) = days[1]
    BY <1>2
  <1>4. ObjectsInv
    BY <1>1, <1>3, EmptySequence DEF ObjectsInv
  <1>5. OpenClockInv
    BY <1>1, <1>2, <1>3, NewClockIs DEF OpenClockInv
  <1>6. DecidedInv
    BY <1>1, EmptySequence DEF DecidedInv, AreDecisions, EntriesMade
  <1>7. RowsInv
    BY <1>1, EmptySequence, FS_EmptySet DEF RowsInv, AreRecords
  <1> QED BY <1>4, <1>5, <1>6, <1>7 DEF FrameInv

\* What was made of some objects is made of more of them.
LEMMA MadeOfMore ==
    ASSUME NEW objs, Sequence(objs), NEW o
    PROVE  /\ \A day, t, read : Made(day, t, read, objs) => Made(day, t, read, Append(objs, o))
           /\ \A entries : EntriesMade(entries, objs) => EntriesMade(entries, Append(objs, o))
           /\ \A e : Decision(e, objs) => Decision(e, Append(objs, o))
  <1>1. \A j \in DOMAIN objs : j \in DOMAIN Append(objs, o) /\ Append(objs, o)[j] = objs[j]
    <2>1. /\ Len(objs) \in Nat /\ DOMAIN objs = 1 .. Len(objs)
          /\ DOMAIN Append(objs, o) = 1 .. Len(objs) + 1
          /\ \A j \in 1 .. Len(objs) : Append(objs, o)[j] = objs[j]
      BY Appending, SequenceFacts
    <2> QED BY <2>1
  <1>2. \A day, t, read : Made(day, t, read, objs) => Made(day, t, read, Append(objs, o))
    BY <1>1 DEF Made
  <1> QED BY <1>2 DEF EntriesMade, Decision

LEMMA TradeShifts ==
    ASSUME NEW m \in [ts : Nat, seq : Nat, recv : Nat, size : Nat], NEW o \in Nat
    PROVE  IsTrade([m EXCEPT !.ts = @ + o, !.recv = @ + o])
  <1>1. /\ [m EXCEPT !.ts = @ + o, !.recv = @ + o].ts = m.ts + o
        /\ [m EXCEPT !.ts = @ + o, !.recv = @ + o].recv = m.recv + o
    OBVIOUS
  <1>2. m.ts + o \in Nat /\ m.recv + o \in Nat
    OBVIOUS
  <1> QED BY <1>1, <1>2 DEF IsTrade

LEMMA FrameOpenDay ==
    ASSUME FrameAssumption, FrameInv, OpenDay
    PROVE  FrameInv'
  <1>1. PICK ts \in Trades, snap \in Snapshots, deltas \in Deltas :
          LET o == [day |-> Day, trades |-> ToSet(Shifted(ts, Day)), snap |-> Shifted(snap, Day),
                    deltas |-> Shifted(deltas, Day)]
          IN /\ objects' = Append(objects, o)
             /\ queue' = o.trades
             /\ IF /\ WellFormed(o.snap, o.deltas, DayOpen(Day), DayEnd(Day))
                   /\ ThresholdFor(history, Day).num > 0
                THEN phase' = "clock" ELSE Fail
    BY DEF OpenDay
  <1> DEFINE o == [day |-> Day, trades |-> ToSet(Shifted(ts, Day)), snap |-> Shifted(snap, Day),
                   deltas |-> Shifted(deltas, Day)]
  <1>2. /\ objects' = Append(objects, o) /\ queue' = ToSet(Shifted(ts, Day))
        /\ \/ phase' = "clock" /\ WellFormed(Shifted(snap, Day), Shifted(deltas, Day), DayOpen(Day), DayEnd(Day))
           \/ phase' = "failed"
    BY <1>1 DEF Fail
  <1>3. /\ phase = "open" /\ clock' = NewClock(Day, clock.watermark)
        /\ days' = days /\ cap' = cap /\ at' = at /\ carry' = carry /\ decided' = decided
        /\ prior' = prior /\ records' = records /\ rows' = rows
    BY DEF OpenDay
  <1>4. /\ days \in DayLists /\ cap \in Caps /\ at \in DOMAIN days /\ Sequence(objects)
        /\ \A j \in DOMAIN objects : j \in DOMAIN days /\ objects[j].day = days[j]
        /\ Len(objects) = at - 1
    BY <1>3 DEF FrameInv, ObjectsInv
  <1>5. Day \in Nat /\ Day = days[at] /\ Day' = Day /\ at \in Nat
    BY <1>3, <1>4, DaysFacts DEF Day
  <1> DEFINE d == Day
             S == Shifted(snap, d)
             D == Shifted(deltas, d)
  <1>6. o.day = d /\ o.snap = S /\ o.deltas = D
    OBVIOUS
  <1> HIDE DEF o, d, S, D
  <1>7. /\ Sequence(objects') /\ DOMAIN objects' = 1 .. at /\ DOMAIN objects = 1 .. at - 1
        /\ Len(objects') = at /\ objects'[at] = o
        /\ \A j \in 1 .. at - 1 : objects'[j] = objects[j]
    <2>1. /\ Sequence(objects') /\ DOMAIN objects' = 1 .. Len(objects) + 1
          /\ Len(objects') = Len(objects) + 1 /\ objects'[Len(objects) + 1] = o
          /\ DOMAIN objects = 1 .. Len(objects)
          /\ \A j \in 1 .. Len(objects) : objects'[j] = objects[j]
      BY <1>2, <1>4, Appending, SequenceFacts
    <2>2. Len(objects) + 1 = at
      BY <1>4, <1>5
    <2> QED BY <1>4, <2>1, <2>2
  <1>11. Product(S) /\ Product(D)
    BY <1>5, ShiftedIs DEF S, D, d
  <1>8. ObjectsInv'
    <2>1. \A j \in DOMAIN objects' : j \in DOMAIN days /\ objects'[j].day = days[j]
      <3>1. \A j \in 1 .. at : j = at \/ j \in 1 .. at - 1
        BY <1>5
      <3> QED BY <1>4, <1>5, <1>6, <1>7, <3>1 DEF d
    <2>2. phase' = "clock" => Stream(BookStream(objects'[at]))
      <3>1. Product(S) /\ Product(D)
        BY <1>11
      <3>2. DayOpen(d) \in Int
        BY <1>5, ScheduleAssumption DEF DayOpen, d
      <3>3. phase' = "clock" => WellFormed(S, D, DayOpen(d), DayEnd(d))
        BY <1>2 DEF S, D, d
      <3>4. phase' = "clock" => Stream(S \o D)
        BY <3>1, <3>2, <3>3, SeededDay
      <3> QED BY <1>6, <1>7, <3>4 DEF BookStream
    <2>3. phase' # "open" /\ Len(objects') = at
      BY <1>2, <1>7
    <2> QED BY <1>3, <1>4, <1>7, <2>1, <2>2, <2>3 DEF ObjectsInv
  <1>9. OpenClockInv'
    <2>1. clock.watermark \in Nat
      BY DEF FrameInv, OpenClockInv, ClockOK
    <2>2. ClockOK(clock')
      BY <1>3, <1>5, <2>1, NewClockIs
    <2>3. \A t \in ToSet(Shifted(ts, Day)) : IsTrade(t)
      <3> DEFINE R == [ts : Nat, seq : Nat, recv : Nat, size : Nat]
      <3>0. ts \in Seq(R)
        BY DEF FrameAssumption
      <3>1. \A i \in DOMAIN ts : ts[i] \in R
        <4> HIDE DEF R
        <4> QED BY <3>0
      <3>2. DayOpen(Day) \in Nat
        BY <1>5, ScheduleAssumption DEF DayOpen
      <3>3. ASSUME NEW i \in DOMAIN ts
            PROVE  IsTrade([ts[i] EXCEPT !.ts = @ + DayOpen(Day), !.recv = @ + DayOpen(Day)])
        <4>1. ts[i] \in R
          BY <3>1
        <4> QED BY <3>2, <4>1, TradeShifts
      <3> QED BY <3>3 DEF ToSet, Shifted
    <2> QED BY <1>2, <2>2, <2>3 DEF OpenClockInv
  <1>10. DecidedInv'
    BY <1>2, <1>3, <1>4, MadeOfMore DEF FrameInv, DecidedInv, AreDecisions
  <1>12. RowsInv'
    <2>1. \A j \in 1 .. at - 1 : Product(objects[j].snap) /\ Product(objects[j].deltas)
      BY <1>7 DEF FrameInv, RowsInv
    <2>2. \A j \in 1 .. at : j = at \/ j \in 1 .. at - 1
      BY <1>5
    <2>3. \A j \in DOMAIN objects' : Product(objects'[j].snap) /\ Product(objects'[j].deltas)
      BY <1>6, <1>7, <1>11, <2>1, <2>2
    <2> QED BY <1>3, <2>3 DEF FrameInv, RowsInv
  <1> QED BY <1>8, <1>9, <1>10, <1>12 DEF FrameInv

LEMMA FramePushTrade ==
    ASSUME FrameAssumption, FrameInv, PushTrade
    PROVE  FrameInv'
  <1>1. PICK m \in queue : clock' = Push(clock, m, cap, ThresholdFor(history, Day))
                           /\ queue' = queue \ {m}
    BY DEF PushTrade
  <1>2. cap \in Nat \ {0}
    BY DEF FrameInv, ObjectsInv, FrameAssumption
  <1>3. OpenClockInv'
    BY <1>1, <1>2, PushKeeps DEF FrameInv, OpenClockInv
  <1>4. ObjectsInv' /\ DecidedInv' /\ RowsInv'
    BY DEF PushTrade, FrameInv, ObjectsInv, DecidedInv, RowsInv, inputVars
  <1> QED BY <1>3, <1>4 DEF FrameInv

ClassifyOp(c, x, k) == Classify(x, c.es[k])
EntryHolds(c, x, k) == EntriesMade(x.decided, c.objs)
Entries == INSTANCE FoldTheorems WITH Op <- ClassifyOp, Pick <- Top, Holds <- EntryHolds

LEMMA EntriesDef ==
    ASSUME NEW es, NEW objs
    PROVE  ClassifyAll(es)
             = Entries!Fold([es |-> es, objs |-> objs],
                            [broken |-> FALSE, prior |-> prior, drops |-> drops,
                             records |-> records, decided |-> decided], DOMAIN es)
  BY DEF ClassifyAll, FoldLeft, Entries!Fold, Entries!IsFold, MapThenFoldSet, ClassifyOp, Top

LEMMA ClassifyMakes ==
    ASSUME NEW es, Sequence(es), NEW objs, EntriesMade(decided, objs),
           \A k \in DOMAIN es : Decision(es[k], objs)
    PROVE  EntriesMade(ClassifyAll(es).decided, objs)
  <1> DEFINE c == [es |-> es, objs |-> objs]
             base == [broken |-> FALSE, prior |-> prior, drops |-> drops,
                      records |-> records, decided |-> decided]
             l == Len(es)
  <1>0. c.es = es /\ c.objs = objs /\ base.decided = decided
    OBVIOUS
  <1>1. l \in Nat /\ DOMAIN es = 1 .. l
    BY SequenceFacts
  <1>2. ClassifyAll(es) = Entries!Fold(c, base, 1 .. l)
    BY <1>1, EntriesDef
  <1> HIDE DEF c, base, l
  <1>3. \A Q \in SUBSET (1 .. l) : Q # {} => Top(c, Q) \in Q /\ \A i \in Q : i <= Top(c, Q)
    BY <1>1, TopIn
  <1>4. EntryHolds(c, base, 0)
    BY <1>0 DEF EntryHolds
  <1>5. ASSUME NEW k \in 1 .. l, NEW x, EntryHolds(c, x, k - 1)
        PROVE  EntryHolds(c, ClassifyOp(c, x, k), k)
    <2> DEFINE e == es[k]
               d == [day |-> e.day, t |-> e.bar.t, read |-> e.read, outcome |-> Outcome(x.prior, e)]
    <2>1. ClassifyOp(c, x, k).decided = Append(x.decided, d)
      BY <1>0 DEF ClassifyOp, Classify
    <2>2. Made(d.day, d.t, d.read, objs)
      BY <1>1 DEF Decision
    <2> HIDE DEF d
    <2>3. Sequence(x.decided)
          /\ \A i \in DOMAIN x.decided : Made(x.decided[i].day, x.decided[i].t, x.decided[i].read, objs)
      BY <1>0, <1>5 DEF EntryHolds, EntriesMade
    <2> DEFINE s == Append(x.decided, d)
               m == Len(x.decided)
    <2>4. /\ m \in Nat /\ Sequence(s) /\ DOMAIN s = 1 .. m + 1 /\ DOMAIN x.decided = 1 .. m
          /\ \A i \in 1 .. m : s[i] = x.decided[i]
          /\ s[m + 1] = d
      BY <2>3, Appending, SequenceFacts
    <2> HIDE DEF s, m
    <2>5. \A i \in 1 .. m + 1 : i \in 1 .. m \/ i = m + 1
      BY <2>4
    <2>6. EntriesMade(s, objs)
      BY <2>2, <2>3, <2>4, <2>5 DEF EntriesMade
    <2> QED BY <1>0, <2>1, <2>6 DEF EntryHolds, s
  <1>6. EntryHolds(c, Entries!Fold(c, base, 1 .. l), l)
    BY <1>1, <1>3, <1>4, <1>5, Entries!LeftFoldKeeps
  <1> QED BY <1>0, <1>2, <1>6 DEF EntryHolds

RecordHolds(c, x, k) == x.prior.ts \in Int /\ AreRecords(x.records)
Recorded == INSTANCE FoldTheorems WITH Op <- ClassifyOp, Pick <- Top, Holds <- RecordHolds

LEMMA RecordedDef ==
    ASSUME NEW es, NEW objs
    PROVE  ClassifyAll(es)
             = Recorded!Fold([es |-> es, objs |-> objs],
                             [broken |-> FALSE, prior |-> prior, drops |-> drops,
                              records |-> records, decided |-> decided], DOMAIN es)
  BY DEF ClassifyAll, FoldLeft, Recorded!Fold, Recorded!IsFold, MapThenFoldSet, ClassifyOp, Top

\* A candidate looks back no further than the cap.
LEMMA ClassifyStep ==
    ASSUME LookbackCap \in Int, NEW e, NEW objs, Decision(e, objs),
           NEW x, x.prior.ts \in Int, AreRecords(x.records)
    PROVE  Classify(x, e).prior.ts \in Int /\ AreRecords(Classify(x, e).records)
  <1> DEFINE outcome == Outcome(x.prior, e)
             fs == FeatureStart(e.bar, x.prior)
             d == [t |-> e.bar.t, p0 |-> e.read.mid, fs |-> fs]
             y == Classify(x, e)
  <1>1. /\ y.prior = IF Builds(e) THEN [t |-> e.bar.t, ts |-> e.read.ts, obs |-> e.read.obs]
                     ELSE x.prior
        /\ y.records = IF outcome = "candidate" THEN Append(x.records, d) ELSE x.records
    BY DEF Classify
  <1>2. e.bar.t \in Nat /\ e.bar.start \in Nat
    BY DEF Decision, IsBar
  <1>3. e.read.reject = "none" => e.read.ts \in Int
    BY DEF Decision, Made, AsOf
  <1>4. fs \in Int
    <2>1. e.bar.start \in Int /\ x.prior.ts \in Int
      BY <1>2
    <2> QED BY <2>1, TwoMin DEF FeatureStart
  <1>5. outcome = "candidate" => e.bar.t - fs <= LookbackCap
    <2>1. outcome = "candidate" => ~ e.bar.t - fs > LookbackCap
      BY DEF Outcome
    <2> HIDE DEF outcome, fs
    <2> QED BY <1>2, <1>4, <2>1
  <1>6. y.prior.ts \in Int
    <2> HIDE DEF y
    <2> QED BY <1>1, <1>3 DEF Builds
  <1>7. outcome = "candidate" => AreRecords(Append(x.records, d))
    <2> SUFFICES ASSUME outcome = "candidate" PROVE AreRecords(Append(x.records, d))
      OBVIOUS
    <2>1. d.t \in Nat /\ d.fs \in Int /\ d.t - d.fs <= LookbackCap
      BY <1>2, <1>4, <1>5
    <2> HIDE DEF d
    <2> DEFINE s == Append(x.records, d)
               m == Len(x.records)
    <2>2. /\ m \in Nat /\ Sequence(s) /\ DOMAIN s = 1 .. m + 1 /\ DOMAIN x.records = 1 .. m
          /\ \A i \in 1 .. m : s[i] = x.records[i]
          /\ s[m + 1] = d
      BY Appending, SequenceFacts DEF AreRecords
    <2> HIDE DEF s, m
    <2>3. \A i \in 1 .. m + 1 : i \in 1 .. m \/ i = m + 1
      BY <2>2
    <2>4. AreRecords(s)
      BY <2>1, <2>2, <2>3 DEF AreRecords
    <2> QED BY <2>4 DEF s
  <1> HIDE DEF y, d, outcome
  <1> QED BY <1>1, <1>6, <1>7 DEF y

LEMMA ClassifyRecords ==
    ASSUME FrameAssumption, NEW es, Sequence(es), NEW objs, \A k \in DOMAIN es : Decision(es[k], objs),
           prior.ts \in Int, AreRecords(records)
    PROVE  ClassifyAll(es).prior.ts \in Int /\ AreRecords(ClassifyAll(es).records)
  <1> DEFINE c == [es |-> es, objs |-> objs]
             base == [broken |-> FALSE, prior |-> prior, drops |-> drops,
                      records |-> records, decided |-> decided]
             l == Len(es)
  <1>0. c.es = es /\ base.prior = prior /\ base.records = records
    OBVIOUS
  <1>1. l \in Nat /\ DOMAIN es = 1 .. l
    BY SequenceFacts
  <1>2. ClassifyAll(es) = Recorded!Fold(c, base, 1 .. l)
    BY <1>1, RecordedDef
  <1> HIDE DEF c, base, l
  <1>3. \A Q \in SUBSET (1 .. l) : Q # {} => Top(c, Q) \in Q /\ \A i \in Q : i <= Top(c, Q)
    BY <1>1, TopIn
  <1>4. RecordHolds(c, base, 0)
    BY <1>0 DEF RecordHolds
  <1>5. ASSUME NEW k \in 1 .. l, NEW x, RecordHolds(c, x, k - 1)
        PROVE  RecordHolds(c, ClassifyOp(c, x, k), k)
    <2>1. LookbackCap \in Int
      BY DEF FrameAssumption
    <2> DEFINE e == es[k]
    <2>2. Decision(e, objs)
      BY <1>1
    <2> HIDE DEF e
    <2>3. Classify(x, e).prior.ts \in Int /\ AreRecords(Classify(x, e).records)
      BY <1>5, <2>1, <2>2, ClassifyStep DEF RecordHolds
    <2> QED BY <1>0, <2>3 DEF RecordHolds, ClassifyOp, e
  <1>6. RecordHolds(c, Recorded!Fold(c, base, 1 .. l), l)
    BY <1>1, <1>3, <1>4, <1>5, Recorded!LeftFoldKeeps
  <1> QED BY <1>2, <1>6 DEF RecordHolds

\* The true mid path of a day, and of a segment.
LEMMA MidPathIs ==
    ASSUME NEW snap, Product(snap), NEW deltas, Product(deltas), NEW lo \in Int
    PROVE  IsPath(MidPath(snap, deltas, lo))
  <1> DEFINE E == snap \o deltas
             point(i) == IF i <= Len(snap) THEN <<lo, Mid2(BookAfter(E, i))>>
                                           ELSE <<E[i].ts, Mid2(BookAfter(E, i))>>
             S == {i \in DOMAIN E : i >= Len(snap) /\ Usable(BookAfter(E, i))}
             s == InOrder(S)
             p == MidPath(snap, deltas, lo)
             l == Cardinality(S)
  <1>1. p = [k \in DOMAIN s |-> point(s[k])]
    BY DEF MidPath
  <1>2. Sequence(E) /\ \A i \in DOMAIN E : E[i].ts \in Int
    <2>1. Sequence(E)
      BY Concatenating DEF Product
    <2>2. \A i \in DOMAIN E : \/ i \in DOMAIN snap /\ E[i] = snap[i]
                              \/ i - Len(snap) \in DOMAIN deltas /\ E[i] = deltas[i - Len(snap)]
      BY OneOfTwo DEF Product
    <2> HIDE DEF E
    <2> QED BY <2>1, <2>2 DEF Product, Event
  <1> HIDE DEF E
  <1>3. S \subseteq DOMAIN E /\ S \subseteq Nat /\ IsFiniteSet(S)
    <2>1. Len(E) \in Nat /\ DOMAIN E = 1 .. Len(E)
      BY <1>2, SequenceFacts
    <2>2. S \subseteq DOMAIN E
      OBVIOUS
    <2> HIDE DEF S
    <2>3. S \subseteq Nat
      BY <2>1, <2>2
    <2>4. IsFiniteSet(S)
      BY <2>1, <2>2, PositionsAreFinite
    <2> QED BY <2>2, <2>3, <2>4
  <1>4. \A i \in S : point(i)[1] \in Int
    BY <1>2, <1>3
  <1> HIDE DEF S, p, point
  <1>5. l \in Nat /\ DOMAIN s = 1 .. l /\ \A k \in DOMAIN s : s[k] \in S
    BY <1>3, InOrderIs
  <1> HIDE DEF s, l
  <1>6. Sequence(p)
    <2> DEFINE R == {point(i) : i \in S}
    <2>1. \A k \in 1 .. l : point(s[k]) \in R
      BY <1>5
    <2>2. p = [k \in 1 .. l |-> point(s[k])]
      BY <1>1, <1>5
    <2> HIDE DEF R
    <2>3. p \in [1 .. l -> R]
      BY <2>1, <2>2
    <2>4. p \in Seq(R)
      BY <1>5, <2>3
    <2> QED BY <2>4 DEF Sequence
  <1>7. \A k \in DOMAIN p : p[k][1] \in Int
    BY <1>1, <1>4, <1>5
  <1> QED BY <1>6, <1>7 DEF IsPath, p

PathOp(c, x, k) == x \o MidPath(c[k].snap, c[k].deltas, DayOpen(c[k].day))
PathHolds(c, x, k) == IsPath(x)
Paths == INSTANCE FoldTheorems WITH Op <- PathOp, Pick <- Top, Holds <- PathHolds

LEMMA PathsDef == SegmentPath = Paths!Fold(SegmentObjects, << >>, DOMAIN SegmentObjects)
  BY DEF SegmentPath, FoldLeft, Paths!Fold, Paths!IsFold, MapThenFoldSet, PathOp, Top

LEMMA SegmentPathIs ==
    ASSUME FrameAssumption, ObjectsInv, RowsInv, phase = "segment"
    PROVE  IsPath(SegmentPath)
  <1> DEFINE c == SegmentObjects
             l == Len(c)
             from == SegmentStart(at)
  <1>1. /\ Sequence(objects) /\ Len(objects) = at /\ at \in Nat /\ at # 0 /\ days \in DayLists
        /\ at \in DOMAIN days
    BY DaysFacts DEF ObjectsInv
  <1>2. from \in 1 .. at
    <2> DEFINE S == {j \in 1 .. at : \A m \in j + 1 .. at : days[m] = days[m - 1] + 1}
    <2>1. S \subseteq 1 .. at /\ S \subseteq Nat
      OBVIOUS
    <2>2. at \in S
      BY <1>1
    <2> HIDE DEF S
    <2>3. Min(S) \in S
      BY <2>1, <2>2, MinOfNat
    <2> QED BY <2>1, <2>3 DEF SegmentStart, S
  <1> HIDE DEF from
  <1>3. /\ Sequence(c) /\ DOMAIN c = 1 .. l /\ l \in Nat
        /\ \A k \in 1 .. l : \E j \in DOMAIN objects : c[k] = objects[j]
    <2>1. PICK S : objects \in Seq(S)
      BY <1>1 DEF Sequence
    <2>2. c = SubSeq(objects, from, at)
      BY DEF SegmentObjects, from
    <2> HIDE DEF c
    <2>3. /\ c \in Seq(S) /\ Len(c) = at - from + 1
          /\ \A k \in 1 .. at - from + 1 : c[k] = objects[from + k - 1]
      BY <1>1, <1>2, <2>1, <2>2
    <2>4. \A k \in 1 .. at - from + 1 : from + k - 1 \in DOMAIN objects
      BY <1>1, <1>2, <2>1
    <2>5. Sequence(c)
      BY <2>3 DEF Sequence
    <2>6. l \in Nat /\ DOMAIN c = 1 .. l /\ l = at - from + 1
      BY <2>3, <2>5, SequenceFacts
    <2> QED BY <2>3, <2>4, <2>5, <2>6
  <1> HIDE DEF c, l
  <1>4. \A Q \in SUBSET (1 .. l) : Q # {} => Top(c, Q) \in Q /\ \A i \in Q : i <= Top(c, Q)
    BY <1>3, TopIn
  <1>5. PathHolds(c, << >>, 0)
    BY EmptySequence DEF PathHolds, IsPath
  <1>6. ASSUME NEW k \in 1 .. l, NEW x, PathHolds(c, x, k - 1)
        PROVE  PathHolds(c, PathOp(c, x, k), k)
    <2> DEFINE o == c[k]
               p == MidPath(o.snap, o.deltas, DayOpen(o.day))
    <2>1. PICK j \in DOMAIN objects : o = objects[j]
      BY <1>3
    <2>2. Product(o.snap) /\ Product(o.deltas) /\ o.day \in Nat
      BY <1>1, <2>1, DaysFacts DEF RowsInv, ObjectsInv
    <2> HIDE DEF o
    <2>3. DayOpen(o.day) \in Int
      BY <2>2, ScheduleAssumption DEF DayOpen
    <2>4. IsPath(p)
      BY <2>2, <2>3, MidPathIs
    <2> HIDE DEF p
    <2>5. IsPath(x)
      BY <1>6 DEF PathHolds
    <2>6. \A i \in DOMAIN (x \o p) : \/ i \in DOMAIN x /\ (x \o p)[i] = x[i]
                                     \/ i - Len(x) \in DOMAIN p /\ (x \o p)[i] = p[i - Len(x)]
      BY <2>4, <2>5, OneOfTwo DEF IsPath
    <2>7. Sequence(x \o p)
      BY <2>4, <2>5, Concatenating DEF IsPath
    <2>8. IsPath(x \o p)
      BY <2>4, <2>5, <2>6, <2>7 DEF IsPath
    <2> QED BY <2>8 DEF PathHolds, PathOp, p, o
  <1>7. PathHolds(c, Paths!Fold(c, << >>, 1 .. l), l)
    BY <1>3, <1>4, <1>5, <1>6, Paths!LeftFoldKeeps
  <1>8. SegmentPath = Paths!Fold(c, << >>, 1 .. l)
    BY <1>3, PathsDef DEF c
  <1> QED BY <1>7, <1>8 DEF PathHolds

\* The decisions of a day's bars.
LEMMA DecisionsAre ==
    ASSUME FrameAssumption, ObjectsInv, phase = "clock", NEW bars, Sequence(bars),
           \A k \in DOMAIN bars : IsBar(bars[k]),
           \A k, m \in DOMAIN bars : k < m => bars[k].t < bars[m].t
    PROVE  /\ Sequence(Decisions(bars)) /\ DOMAIN Decisions(bars) = DOMAIN bars
           /\ \A k \in DOMAIN bars :
                 /\ Decisions(bars)[k].bar = bars[k] /\ Decisions(bars)[k].day = Day
                 /\ Made(Day, bars[k].t, Decisions(bars)[k].read, objects)
  <1> DEFINE o == Last(objects)
             E == BookStream(o)
             ts == [k \in DOMAIN bars |-> bars[k].t]
             reads == DualBookReads(E, ts, StalenessCap)
             es == Decisions(bars)
             l == Len(bars)
  <1>1. l \in Nat /\ DOMAIN bars = 1 .. l
    BY SequenceFacts
  <1>2. o = objects[at] /\ at \in DOMAIN objects /\ o.day = Day /\ Stream(E)
    <2>1. Len(objects) = at /\ Sequence(objects) /\ at \in DOMAIN days
      BY DEF ObjectsInv
    <2>2. at \in Nat /\ at # 0
      BY <2>1, DaysFacts DEF ObjectsInv
    <2>3. DOMAIN objects = 1 .. at
      BY <2>1, SequenceFacts
    <2>4. at \in DOMAIN objects
      BY <2>2, <2>3
    <2>5. Last(objects) = objects[at]
      BY <2>1 DEF Last
    <2> QED BY <2>4, <2>5 DEF ObjectsInv, Day
  <1>3. es = [k \in DOMAIN bars |->
                [day |-> Day, bar |-> bars[k], read |-> reads[k],
                 warmup |-> ThresholdFor(history, Day).warmup,
                 segment |-> DayOpen(days[SegmentStart(at)])]]
    BY DEF Decisions, BookStream
  <1>4. DOMAIN ts = 1 .. l /\ \A k \in 1 .. l : ts[k] = bars[k].t
    BY <1>1
  <1> HIDE DEF es, ts, l, reads, E, o
  <1>5. Instants(ts)
    <2>1. \A k \in 1 .. l : bars[k].t \in Int
      BY <1>1 DEF IsBar
    <2>2. ts = [k \in 1 .. l |-> bars[k].t]
      BY <1>1 DEF ts
    <2>3. ts \in Seq(Int)
      BY <1>1, <2>1, <2>2
    <2>4. ASSUME NEW i \in 1 .. l, NEW j \in 1 .. l, i <= j PROVE ts[i] <= ts[j]
      <3>1. i = j \/ i < j
        BY <2>4
      <3>2. bars[i].t \in Int /\ bars[j].t \in Int /\ (i < j => bars[i].t < bars[j].t)
        BY <1>1, <2>1
      <3> QED BY <1>4, <3>1, <3>2
    <2> QED BY <1>4, <2>1, <2>3, <2>4 DEF Instants, Sequence
  <1>6. \A k \in 1 .. l : AsOf(reads[k], E, ts[k], StalenessCap)
    <2>1. StalenessCap \in Int
      BY DEF FrameAssumption
    <2> QED BY <1>2, <1>4, <1>5, <2>1, ReadsAsOf DEF reads
  <1>7. \A k \in 1 .. l : Made(Day, bars[k].t, reads[k], objects)
    BY <1>2, <1>4, <1>6 DEF Made, E
  <1>8. DOMAIN es = 1 .. l /\ \A k \in 1 .. l : es[k].bar = bars[k] /\ es[k].day = Day /\ es[k].read = reads[k]
    BY <1>1, <1>3
  <1>9. Sequence(es)
    <2> DEFINE R == {es[k] : k \in 1 .. l}
    <2>1. es = [k \in 1 .. l |-> es[k]]
      BY <1>1, <1>3, Zenon
    <2>2. \A k \in 1 .. l : es[k] \in R
      OBVIOUS
    <2> HIDE DEF R
    <2>3. es \in [1 .. l -> R]
      BY <2>1, <2>2
    <2>4. es \in Seq(R)
      <3>1. l \in Nat
        BY <1>1
      <3> QED BY <2>3, <3>1
    <2> QED BY <2>4 DEF Sequence
  <1> QED BY <1>1, <1>7, <1>8, <1>9 DEF es

LEMMA MoreDays ==
    ASSUME FrameAssumption, days \in DayLists, at \in DOMAIN days, SegmentLast(at) # at
    PROVE  at + 1 \in DOMAIN days
  <1>1. Len(days) \in Nat /\ DOMAIN days = 1 .. Len(days) /\ at \in Nat
    BY DaysFacts
  <1>2. ASSUME at = Len(days) PROVE SegmentLast(at) = at
    <2> DEFINE S == {j \in at .. Len(days) : \A m \in at + 1 .. j : days[m] = days[m - 1] + 1}
    <2>1. S = {at}
      BY <1>1, <1>2
    <2>2. Max({at}) = at
      <3> DEFINE T == {at}
      <3>1. T \subseteq Nat /\ at \in T /\ \A x \in T : x <= at
        BY <1>1
      <3> HIDE DEF T
      <3> QED BY <3>1, MaxIs DEF T
    <2> QED BY <2>1, <2>2 DEF SegmentLast
  <1> QED BY <1>1, <1>2

\* No decision and one decision are sequences of decisions.
LEMMA FewDecisions ==
    ASSUME NEW objs
    PROVE  AreDecisions(<< >>, objs) /\ \A x : Decision(x, objs) => AreDecisions(<<x>>, objs)
  <1>1. AreDecisions(<< >>, objs)
    BY EmptySequence DEF AreDecisions
  <1>2. ASSUME NEW x, Decision(x, objs) PROVE AreDecisions(<<x>>, objs)
    <2>1. <<x>> \in Seq({x}) /\ DOMAIN <<x>> = {1} /\ <<x>>[1] = x
      OBVIOUS
    <2> QED BY <1>2, <2>1 DEF AreDecisions, Sequence
  <1> QED BY <1>1, <1>2

LEMMA AdvanceKeeps ==
    ASSUME FrameAssumption, ObjectsInv, phase = "clock", UNCHANGED <<days, cap, objects>>,
           \/ Advance
           \/ at' = at /\ phase' \in {"failed", "misfed"}
    PROVE  ObjectsInv'
  <1>1. /\ days \in DayLists /\ at \in DOMAIN days /\ Len(objects) = at /\ at \in Nat
    BY DaysFacts DEF ObjectsInv
  <1>2. CASE at' = at /\ phase' \in {"failed", "misfed", "segment"}
    BY <1>1, <1>2 DEF ObjectsInv
  <1>3. CASE Advance /\ SegmentLast(at) # at
    <2>1. phase' = "open" /\ at' = at + 1 /\ at + 1 \in DOMAIN days /\ Len(objects) = (at + 1) - 1
      BY <1>1, <1>3, MoreDays DEF Advance
    <2> QED BY <2>1 DEF ObjectsInv
  <1>4. CASE Advance /\ SegmentLast(at) = at
    BY <1>2, <1>4 DEF Advance
  <1> QED BY <1>2, <1>3, <1>4

LEMMA FrameCloseDay ==
    ASSUME FrameAssumption, FrameInv, CloseDay
    PROVE  FrameInv'
  <1> DEFINE closed == FinishClock(clock, cap, Day)
             bars == Coalesce(closed.bars)
             es == Decisions(bars)
             held == IF Superseded(bars) THEN << >> ELSE carry
             st == ClassifyAll(held \o Front(es))
  <1>1. /\ phase = "clock" /\ UNCHANGED <<days, cap, objects, queue, rows>>
        /\ clock' = [closed EXCEPT !.bars = << >>]
        /\ IF bars = << >>
           THEN Advance /\ UNCHANGED <<carry, lastT, prior, records, drops, decided>>
           ELSE /\ carry' = <<Last(es)>> /\ decided' = st.decided
                /\ prior' = st.prior /\ records' = st.records
                /\ IF lastT # None /\ Head(bars).t <= lastT
                   THEN Fail /\ at' = at
                   ELSE IF st.broken \/ Regressed(bars) THEN Misfeed /\ at' = at ELSE Advance
    BY DEF CloseDay, inputVars
  <1>2. Day \in Nat /\ cap \in Nat \ {0}
    <2>1. cap \in Nat \ {0} /\ days \in DayLists /\ at \in DOMAIN days
      BY DEF FrameInv, ObjectsInv, FrameAssumption
    <2> QED BY <2>1, DaysFacts DEF Day
  <1>3. ClockOK(closed)
    BY <1>2, FinishKeeps DEF FrameInv, OpenClockInv
  <1> HIDE DEF closed
  <1>4. OpenClockInv'
    <2>1. ClockOK([closed EXCEPT !.bars = << >>])
      <3>1. IsBars(<< >>)
        BY EmptySequence DEF IsBars
      <3> QED BY <1>3, <3>1, EmptySequence DEF ClockOK, ClockFields
    <2> QED BY <1>1, <2>1 DEF FrameInv, OpenClockInv
  <1>5. IsBars(closed.bars)
    BY <1>3 DEF ClockOK
  <1>6. /\ Sequence(bars) /\ \A k \in DOMAIN bars : IsBar(bars[k])
        /\ \A k, m \in DOMAIN bars : k < m => bars[k].t < bars[m].t
    BY <1>5, CoalesceIs
  <1> HIDE DEF bars
  <1>7. ObjectsInv'
    <2>1. Advance \/ (at' = at /\ phase' \in {"failed", "misfed"})
      <3> HIDE DEF es, st
      <3> QED BY <1>1 DEF Fail, Misfeed
    <2> QED BY <1>1, <2>1, AdvanceKeeps DEF FrameInv
  <1>8. DecidedInv' /\ RowsInv'
    <2>0. /\ AreDecisions(carry, objects)
          /\ EntriesMade(decided, objects)
          /\ RowsInv
      BY DEF FrameInv, DecidedInv
    <2>1. CASE bars = << >>
      BY <1>1, <2>0, <2>1 DEF DecidedInv, RowsInv
    <2>2. CASE bars # << >>
      <3> DEFINE l == Len(bars)
                 front == Front(es)
                 all == held \o front
      <3>1. l \in Nat /\ l # 0 /\ DOMAIN bars = 1 .. l
        BY <1>6, <2>2, SequenceFacts
      <3>2. /\ Sequence(es) /\ DOMAIN es = 1 .. l
            /\ \A k \in 1 .. l : Decision(es[k], objects)
        <4>1. /\ Sequence(es) /\ DOMAIN es = DOMAIN bars
              /\ \A k \in DOMAIN bars : /\ es[k].bar = bars[k] /\ es[k].day = Day
                                        /\ Made(Day, bars[k].t, es[k].read, objects)
          BY <1>1, <1>6, DecisionsAre DEF FrameInv
        <4> HIDE DEF es, l
        <4> QED BY <1>6, <3>1, <4>1 DEF Decision
      <3> HIDE DEF es, l
      <3>3. Len(es) = l
        BY <3>1, <3>2, SequenceFacts
      <3>4. Decision(Last(es), objects)
        BY <3>1, <3>2, <3>3 DEF Last
      <3>5. Sequence(front) /\ DOMAIN front = 1 .. l - 1 /\ \A k \in 1 .. l - 1 : front[k] = es[k]
        <4>1. PICK S : es \in Seq(S)
          BY <3>2 DEF Sequence
        <4>2. front = SubSeq(es, 1, l - 1)
          BY <3>3 DEF Front
        <4>3. front \in Seq(S) /\ Len(front) = l - 1 /\ \A k \in 1 .. l - 1 : front[k] = es[k]
          BY <3>1, <3>3, <4>1, <4>2
        <4> QED BY <3>1, <4>3 DEF Sequence
      <3>6. \A k \in DOMAIN front : Decision(front[k], objects)
        <4>1. \A k \in 1 .. l - 1 : k \in 1 .. l
          BY <3>1
        <4> HIDE DEF front
        <4> QED BY <3>2, <3>5, <4>1
      <3>7. Sequence(held) /\ \A k \in DOMAIN held : Decision(held[k], objects)
        BY <2>0, FewDecisions DEF AreDecisions
      <3> HIDE DEF front, held
      <3>8. Sequence(all) /\ \A k \in DOMAIN all : Decision(all[k], objects)
        <4>1. \A k \in DOMAIN all : \/ k \in DOMAIN held /\ all[k] = held[k]
                                    \/ k - Len(held) \in DOMAIN front /\ all[k] = front[k - Len(held)]
          BY <3>5, <3>7, OneOfTwo
        <4>2. Sequence(all)
          BY <3>5, <3>7, Concatenating
        <4> HIDE DEF all
        <4> QED BY <3>6, <3>7, <4>1, <4>2
      <3> HIDE DEF all
      <3>9. EntriesMade(ClassifyAll(all).decided, objects)
        BY <2>0, <3>8, ClassifyMakes
      <3>10. ClassifyAll(all).prior.ts \in Int /\ AreRecords(ClassifyAll(all).records)
        BY <2>0, <3>8, ClassifyRecords DEF RowsInv
      <3>11. /\ carry' = <<Last(es)>> /\ decided' = ClassifyAll(all).decided /\ objects' = objects
             /\ prior' = ClassifyAll(all).prior /\ records' = ClassifyAll(all).records
             /\ rows' = rows
        BY <1>1, <2>2 DEF all, front
      <3> QED BY <2>0, <3>4, <3>9, <3>10, <3>11, FewDecisions DEF DecidedInv, RowsInv
    <2> QED BY <2>1, <2>2
  <1> QED BY <1>4, <1>7, <1>8 DEF FrameInv

LEMMA FrameEndSegment ==
    ASSUME FrameAssumption, FrameInv, EndSegment
    PROVE  FrameInv'
  <1>1. /\ phase = "segment" /\ UNCHANGED <<days, cap, objects, queue, clock>>
        /\ decided' = ClassifyAll(carry).decided /\ carry' = << >>
        /\ \/ phase' = "misfed" /\ at' = at
           \/ phase' = "finish" /\ at' = at
           \/ phase' = "open" /\ at # Len(days) /\ at' = at + 1
    BY DEF EndSegment, inputVars
  <1>2. /\ AreDecisions(carry, objects)
        /\ EntriesMade(decided, objects)
    BY DEF FrameInv, DecidedInv
  <1>3. Sequence(carry) /\ \A k \in DOMAIN carry : Decision(carry[k], objects)
    BY <1>2 DEF AreDecisions
  <1>4. EntriesMade(ClassifyAll(carry).decided, objects)
    BY <1>2, <1>3, ClassifyMakes
  <1>5. DecidedInv'
    BY <1>1, <1>4, FewDecisions DEF DecidedInv
  <1>6. OpenClockInv'
    BY <1>1 DEF FrameInv, OpenClockInv
  <1>7. ObjectsInv'
    <2>1. /\ days \in DayLists /\ at \in DOMAIN days /\ Len(objects) = at /\ at \in Nat
          /\ Len(days) \in Nat /\ DOMAIN days = 1 .. Len(days)
      BY <1>1, DaysFacts DEF FrameInv, ObjectsInv
    <2>2. at # Len(days) => at + 1 \in DOMAIN days /\ Len(objects) = (at + 1) - 1
      BY <2>1
    <2> QED BY <1>1, <2>1, <2>2 DEF FrameInv, ObjectsInv
  <1>8. ClassifyAll(carry).prior.ts \in Int /\ AreRecords(ClassifyAll(carry).records)
    BY <1>3, ClassifyRecords DEF FrameInv, RowsInv
  <1>9. RowsInv'
    <2> DEFINE recs == ClassifyAll(carry).records
               made(h) == LabelHorizon(recs, SegmentPath, SegmentInvalid, h).rows
               sets == {made(h) : h \in Tags}
    <2>1. /\ rows' = rows \cup UNION sets /\ prior' = ClassifyAll(carry).prior /\ records' = << >>
          /\ objects' = objects
      BY DEF EndSegment, inputVars
    <2>2. IsPath(SegmentPath)
      BY <1>1, SegmentPathIs DEF FrameInv
    <2>3. \A h \in Tags : IsFiniteSet(made(h)) /\ \A r \in made(h) : IsRow(r)
      BY <1>8, <2>2, HorizonRows DEF FrameAssumption
    <2>4. IsFiniteSet(sets)
      <3> DEFINE f == [h \in Tags |-> made(h)]
      <3>1. DOMAIN f = Tags /\ {f[h] : h \in DOMAIN f} = sets
        OBVIOUS
      <3>2. IsFiniteSet(Tags)
        BY DEF FrameAssumption
      <3> HIDE DEF f, sets
      <3>3. IsFiniteSet({f[h] : h \in DOMAIN f})
        BY <3>1, <3>2, ImageFinite
      <3> QED BY <3>1, <3>3
    <2> HIDE DEF made
    <2>5. \A T \in sets : IsFiniteSet(T) /\ \A r \in T : IsRow(r)
      BY <2>3
    <2> HIDE DEF sets
    <2>6. IsFiniteSet(UNION sets) /\ \A r \in UNION sets : IsRow(r)
      BY <2>4, <2>5, FS_UNION
    <2>7. IsFiniteSet(rows \cup UNION sets) /\ \A r \in rows \cup UNION sets : IsRow(r)
      BY <2>6, FS_Union DEF FrameInv, RowsInv
    <2>8. AreRecords(<< >>)
      BY EmptySequence DEF AreRecords
    <2> QED BY <1>8, <2>1, <2>7, <2>8 DEF FrameInv, RowsInv
  <1> QED BY <1>5, <1>6, <1>7, <1>9 DEF FrameInv

LEMMA FrameInvStep ==
    ASSUME FrameAssumption, FrameInv, [Next]_vars
    PROVE  FrameInv'
  <1>1. CASE Finish
    BY <1>1 DEF Finish, inputVars, FrameInv, ObjectsInv, OpenClockInv, DecidedInv, RowsInv
  <1>2. CASE UNCHANGED vars
    BY <1>2 DEF vars, inputVars, FrameInv, ObjectsInv, OpenClockInv, DecidedInv, RowsInv
  <1> QED BY <1>1, <1>2, FrameOpenDay, FramePushTrade, FrameCloseDay, FrameEndSegment DEF Next

\* Every decision, also the one held back, was read from its day's stream as
\* of its time.
THEOREM FrameInvariant == ASSUME FrameAssumption PROVE Spec => []FrameInv
  <1>1. Init => FrameInv
    BY FrameInvInit
  <1>2. FrameInv /\ [Next]_vars => FrameInv'
    BY FrameInvStep
  <1> QED BY <1>1, <1>2, PTL DEF Spec

\* A decision reads the book of what had been received by then, and its label
\* starts from the book of what had happened (dual_book_reads).
THEOREM ReadsAreAsOfTheorem == ASSUME FrameAssumption PROVE Spec => []ReadsAreAsOf
  <1>1. ASSUME FrameInv PROVE ReadsAreAsOf
    <2> SUFFICES ASSUME NEW k \in DOMAIN decided
                 PROVE LET e == decided[k]
                           o == CHOOSE o \in ToSet(objects) : o.day = e.day
                           events == o.snap \o o.deltas
                           happened == {i \in DOMAIN events : events[i].ts <= e.t}
                           known == {i \in happened : events[i].recv <= e.t}
                           obs == BookOf(events, known)
                           label == BookOf(events, happened)
                           latest == events[Max(known)].ts
                       IN CASE e.read.reject = "none" ->
                                  /\ e.read.obs = obs /\ Usable(obs)
                                  /\ Usable(label) /\ e.read.mid = Mid2(label)
                                  /\ e.read.ts = latest /\ e.t - latest <= StalenessCap
                            [] e.read.reject = "stale" -> e.t - latest > StalenessCap
                            [] OTHER -> ~ Usable(obs) \/ ~ Usable(label)
      BY DEF ReadsAreAsOf
    <2> DEFINE e == decided[k]
               o == CHOOSE o \in ToSet(objects) : o.day = e.day
    <2>1. PICK j \in DOMAIN objects : objects[j].day = e.day
                                      /\ AsOf(e.read, BookStream(objects[j]), e.t, StalenessCap)
      BY <1>1 DEF FrameInv, DecidedInv, EntriesMade, Made
    <2>2. o = objects[j]
      <3>1. ToSet(objects) = {objects[i] : i \in DOMAIN objects}
        BY DEF ToSet
      <3>2. o \in ToSet(objects) /\ o.day = e.day
        <4>1. \E x \in ToSet(objects) : x.day = e.day
          BY <2>1, <3>1
        <4> HIDE DEF e
        <4> QED BY <4>1
      <3> HIDE DEF o, e
      <3>3. PICK i \in DOMAIN objects : o = objects[i]
        BY <3>1, <3>2
      <3>4. i = j
        <4>1. i \in DOMAIN days /\ j \in DOMAIN days /\ days[i] = days[j] /\ days \in DayLists
          BY <1>1, <2>1, <3>2, <3>3 DEF FrameInv, ObjectsInv
        <4>2. i \in Nat /\ j \in Nat /\ days[i] \in Nat /\ days[j] \in Nat
              /\ (i < j => days[i] < days[j]) /\ (j < i => days[j] < days[i])
          BY <4>1, DaysFacts
        <4> QED BY <4>1, <4>2
      <3> QED BY <3>3, <3>4
    <2> HIDE DEF o, e
    <2>3. AsOf(e.read, o.snap \o o.deltas, e.t, StalenessCap)
      BY <2>1, <2>2 DEF BookStream
    <2> QED BY <2>3 DEF AsOf, Known, Happened, e, o
  <1> QED BY <1>1, FrameInvariant, PTL

\* The embargo is enough: in no split does a training label overlap a test
\* label, or a training row look back into the test block before it, and a
\* weight counts the labels open at its decision (cpcv_splits,
\* concurrency_uniqueness).
THEOREM SplitsDoNotLeakTheorem == ASSUME FrameAssumption PROVE Spec => []SplitsDoNotLeak
  <1>1. ASSUME FrameInv PROVE SplitsDoNotLeak
    <2> SUFFICES ASSUME NEW h \in Tags
                 PROVE LET own == {r \in rows : r.horizon = h}
                       IN /\ \A s \in Splits(own, Groups, 1, LookbackCap), a \in own, b \in own :
                                a \in s.train /\ b \in s.test =>
                                   /\ a.barrier < b.t \/ b.barrier < a.t
                                   /\ b.barrier < a.t => b.barrier < a.fs
                          /\ \A r \in own : Concurrency(own, r)
                                = Cardinality({q \in own : q.t <= r.t /\ r.t < q.barrier})
      BY DEF SplitsDoNotLeak
    <2> DEFINE own == {r \in rows : r.horizon = h}
    <2>1. own \subseteq rows
      OBVIOUS
    <2> HIDE DEF own
    <2>2. IsFiniteSet(own) /\ \A r \in own : IsRow(r)
      BY <1>1, <2>1, FS_Subset DEF FrameInv, RowsInv
    <2>3. LookbackCap \in Int
      BY DEF FrameAssumption
    <2>4. ASSUME NEW s \in Splits(own, Groups, 1, LookbackCap), NEW a \in own, NEW b \in own,
                 a \in s.train, b \in s.test
          PROVE  /\ a.barrier < b.t \/ b.barrier < a.t
                 /\ b.barrier < a.t => b.barrier < a.fs
      <3>1. PICK groups \in kSubset(1, 0 .. Groups - 1) :
              s = LET test == {r \in own : GroupOf(own, Groups, r) \in groups}
                  IN [test |-> test, train |-> (own \ test) \ Purged(own, test, LookbackCap)]
        BY <2>4 DEF Splits
      <3> DEFINE test == {r \in own : GroupOf(own, Groups, r) \in groups}
      <3>2. s.test = test /\ s.train = (own \ test) \ Purged(own, test, LookbackCap)
        BY <3>1
      <3>3. test \in SUBSET own
        OBVIOUS
      <3> HIDE DEF test
      <3>4. a \notin Purged(own, test, LookbackCap) /\ b \in test
        BY <2>4, <3>2
      <3> QED BY <2>2, <2>3, <3>3, <3>4, PurgedIsEnough
    <2>5. \A r \in own : Concurrency(own, r)
                           = Cardinality({q \in own : q.t <= r.t /\ r.t < q.barrier})
      BY <2>2, ConcurrencyCounts
    <2> QED BY <2>4, <2>5 DEF own
  <1> QED BY <1>1, FrameInvariant, PTL

-----------------------------------------------------------------------------
(* Causality *)

\* A bar is decided after what it depends on.
Knowable(b) ==
    /\ \A m \in ToSet(b.members) : m.recv <= b.t
    /\ b.fire # NoTime => b.fire <= b.t

\* The trades a clock has seen: of each bar, then of the open interval.
Parts(c) == Append([i \in DOMAIN c.bars |-> c.bars[i].members], c.members)

Spread(p) == UNION {ToSet(p[i]) : i \in DOMAIN p}

Ordered(p) ==
    \A i, j \in DOMAIN p : \A k \in DOMAIN p[i], l \in DOMAIN p[j] :
        i < j \/ (i = j /\ k < l) => TradeBefore(p[i][k], p[j][l])

\* A clock that has seen the trades S, in their order, since the time base.
CausalClock(c, base, S) ==
    /\ ClockOK(c) /\ base \in Nat /\ base <= c.watermark
    /\ \A i \in DOMAIN c.bars : base <= c.bars[i].t /\ Knowable(c.bars[i])
    /\ Spread(Parts(c)) = S /\ Ordered(Parts(c))

LEMMA PartsAre ==
    ASSUME NEW c, Sequence(c.bars)
    PROVE  /\ Len(c.bars) \in Nat /\ DOMAIN c.bars = 1 .. Len(c.bars)
           /\ DOMAIN Parts(c) = 1 .. Len(c.bars) + 1
           /\ \A i \in 1 .. Len(c.bars) : Parts(c)[i] = c.bars[i].members
           /\ Parts(c)[Len(c.bars) + 1] = c.members
  <1> DEFINE l == Len(c.bars)
             s == [i \in DOMAIN c.bars |-> c.bars[i].members]
             R == {c.bars[i].members : i \in DOMAIN c.bars}
  <1>1. l \in Nat /\ DOMAIN c.bars = 1 .. l
    BY SequenceFacts
  <1>2. s \in [1 .. l -> R] /\ \A i \in 1 .. l : s[i] = c.bars[i].members
    BY <1>1
  <1> HIDE DEF s, R, l
  <1>3. s \in Seq(R)
    BY <1>1, <1>2
  <1>4. Sequence(s) /\ Len(s) = l
    <2>1. DOMAIN s = 1 .. l
      BY <1>2
    <2>2. Sequence(s)
      BY <1>3 DEF Sequence
    <2>3. Len(s) = l
      BY <1>1, <1>3, <2>1
    <2> QED BY <2>2, <2>3
  <1>5. /\ DOMAIN Append(s, c.members) = 1 .. l + 1
        /\ \A i \in 1 .. l : Append(s, c.members)[i] = s[i]
        /\ Append(s, c.members)[l + 1] = c.members
    BY <1>4, Appending
  <1> QED BY <1>1, <1>2, <1>5 DEF Parts, s, l

LEMMA OneMorePart ==
    ASSUME NEW p, NEW q, NEW z \in Nat, DOMAIN p = 1 .. z, DOMAIN q = 1 .. z + 1,
           \A i \in 1 .. z : q[i] = p[i], q[z + 1] = << >>
    PROVE  Spread(q) = Spread(p) /\ (Ordered(p) => Ordered(q))
  <1>1. \A i \in DOMAIN q : (i \in DOMAIN p /\ q[i] = p[i]) \/ q[i] = << >>
    <2>1. \A i \in 1 .. z + 1 : i \in 1 .. z \/ i = z + 1
      OBVIOUS
    <2> QED BY <2>1
  <1>2. DOMAIN p \subseteq DOMAIN q /\ \A i \in DOMAIN p : q[i] = p[i]
    OBVIOUS
  <1>3. DOMAIN << >> = {} /\ ToSet(<< >>) = {}
    BY EmptySequence DEF ToSet
  <1>4. Spread(q) = Spread(p)
    <2>1. ASSUME NEW x \in Spread(q) PROVE x \in Spread(p)
      <3>1. PICK i \in DOMAIN q : x \in ToSet(q[i])
        BY DEF Spread
      <3> QED BY <1>1, <1>3, <3>1 DEF Spread
    <2>2. ASSUME NEW x \in Spread(p) PROVE x \in Spread(q)
      <3>1. PICK i \in DOMAIN p : x \in ToSet(p[i])
        BY DEF Spread
      <3> QED BY <1>2, <3>1 DEF Spread
    <2> QED BY <2>1, <2>2
  <1>5. ASSUME Ordered(p) PROVE Ordered(q)
    <2> SUFFICES ASSUME NEW i \in DOMAIN q, NEW j \in DOMAIN q, NEW k \in DOMAIN q[i],
                        NEW l \in DOMAIN q[j], i < j \/ (i = j /\ k < l)
                 PROVE  TradeBefore(q[i][k], q[j][l])
      BY DEF Ordered
    <2>1. i \in DOMAIN p /\ q[i] = p[i] /\ j \in DOMAIN p /\ q[j] = p[j]
      BY <1>1, <1>3
    <2> QED BY <1>5, <2>1 DEF Ordered
  <1> QED BY <1>4, <1>5

LEMMA CloseCausal ==
    ASSUME NEW c, NEW base, NEW S, CausalClock(c, base, S), NEW reason,
           NEW fire \in Nat \cup {NoTime}
    PROVE  CausalClock(Close(c, reason, fire), base, S) /\ Close(c, reason, fire).members = << >>
  <1> DEFINE d == Close(c, reason, fire)
             b == Last(d.bars)
             l == Len(c.bars)
  <1>1. ClockOK(c)
    BY DEF CausalClock
  <1>2. /\ ClockOK(d) /\ d.members = << >> /\ d.bars = Append(c.bars, b)
        /\ b.t = d.watermark /\ c.watermark <= b.t
        /\ b.members = c.members /\ Knowable(b)
    BY <1>1, CloseIs DEF Knowable
  <1> HIDE DEF d, b
  <1>3. Sequence(c.bars) /\ Sequence(d.bars)
    BY <1>1, <1>2 DEF ClockOK, IsBars
  <1>4. /\ l \in Nat /\ DOMAIN c.bars = 1 .. l /\ DOMAIN d.bars = 1 .. l + 1
        /\ Len(d.bars) = l + 1
        /\ \A i \in 1 .. l : d.bars[i] = c.bars[i]
        /\ d.bars[l + 1] = b
    BY <1>2, <1>3, Appending, SequenceFacts
  <1> HIDE DEF l
  <1>5. base \in Nat /\ base <= d.watermark /\ base <= b.t
    <2>1. c.watermark \in Nat /\ d.watermark \in Nat /\ base \in Nat /\ base <= c.watermark
      BY <1>1, <1>2 DEF CausalClock, ClockOK
    <2> QED BY <1>2, <2>1
  <1>6. \A i \in DOMAIN d.bars : base <= d.bars[i].t /\ Knowable(d.bars[i])
    <2>1. \A i \in 1 .. l + 1 : i \in 1 .. l \/ i = l + 1
      BY <1>4
    <2>2. \A i \in 1 .. l : base <= c.bars[i].t /\ Knowable(c.bars[i])
      BY <1>4 DEF CausalClock
    <2> QED BY <1>2, <1>4, <1>5, <2>1, <2>2
  <1>7. Spread(Parts(d)) = S /\ Ordered(Parts(d))
    <2> DEFINE p == Parts(c)
               q == Parts(d)
               z == l + 1
    <2>1. /\ DOMAIN p = 1 .. z /\ \A i \in 1 .. l : p[i] = c.bars[i].members
          /\ p[z] = c.members
      BY <1>3, PartsAre DEF l
    <2>2. /\ DOMAIN q = 1 .. z + 1 /\ \A i \in 1 .. z : q[i] = d.bars[i].members
          /\ q[z + 1] = << >>
      BY <1>2, <1>3, <1>4, PartsAre
    <2>3. \A i \in 1 .. z : q[i] = p[i]
      <3>1. \A i \in 1 .. z : i \in 1 .. l \/ i = z
        BY <1>4
      <3> HIDE DEF p, q
      <3> QED BY <1>2, <1>4, <2>1, <2>2, <3>1
    <2>4. z \in Nat
      BY <1>4
    <2> HIDE DEF p, q, z
    <2>5. Spread(q) = Spread(p) /\ (Ordered(p) => Ordered(q))
      BY <2>1, <2>2, <2>3, <2>4, OneMorePart
    <2> QED BY <2>5 DEF CausalClock, p, q
  <1> QED BY <1>2, <1>5, <1>6, <1>7 DEF CausalClock, d

LEMMA StartCausal ==
    ASSUME NEW c, NEW base, NEW S, CausalClock(c, base, S), NEW at0 \in Nat
    PROVE  CausalClock([c EXCEPT !.start = at0], base, S)
  <1> DEFINE d == [c EXCEPT !.start = at0]
  <1>1. ClockOK(c)
    BY DEF CausalClock
  <1>2. d.bars = c.bars /\ d.members = c.members /\ d.watermark = c.watermark /\ d.start = at0
        /\ ClockFields(d)
    BY <1>1 DEF ClockOK, ClockFields
  <1> HIDE DEF d
  <1>3. Parts(d) = Parts(c)
    BY <1>2 DEF Parts
  <1>4. ClockOK(d)
    BY <1>1, <1>2 DEF ClockOK
  <1> QED BY <1>2, <1>3, <1>4 DEF CausalClock, d

LEMMA AppendCausal ==
    ASSUME NEW c, NEW base, NEW S, CausalClock(c, base, S), NEW m, IsTrade(m),
           \A u \in S : TradeBefore(u, m)
    PROVE  CausalClock([c EXCEPT !.members = Append(@, m)], base, S \cup {m})
  <1> DEFINE a == Append(c.members, m)
             d == [c EXCEPT !.members = Append(@, m)]
             l == Len(c.bars)
             z == Len(c.members)
             p == Parts(c)
             q == Parts(d)
  <1>1. ClockOK(c) /\ Sequence(c.bars) /\ Sequence(c.members)
    BY DEF CausalClock, ClockOK, IsBars
  <1>2. /\ d.bars = c.bars /\ d.members = a /\ d.watermark = c.watermark /\ d.start = c.start
        /\ ClockFields(d)
    BY <1>1 DEF ClockOK, ClockFields
  <1>3. /\ z \in Nat /\ Sequence(a) /\ DOMAIN a = 1 .. z + 1 /\ DOMAIN c.members = 1 .. z
        /\ \A i \in 1 .. z : a[i] = c.members[i]
        /\ a[z + 1] = m
    BY <1>1, Appending, SequenceFacts
  <1> HIDE DEF a, d, z
  <1>4. \A i \in DOMAIN a : (i \in DOMAIN c.members /\ a[i] = c.members[i]) \/ i = z + 1
    <2>1. \A i \in 1 .. z + 1 : i \in 1 .. z \/ i = z + 1
      BY <1>3
    <2> QED BY <1>3, <2>1
  <1>5. ClockOK(d)
    BY <1>1, <1>2, <1>3, <1>4 DEF ClockOK
  <1>6. /\ l \in Nat /\ DOMAIN p = 1 .. l + 1 /\ \A i \in 1 .. l : p[i] = c.bars[i].members
        /\ p[l + 1] = c.members
    BY <1>1, PartsAre
  <1>7. /\ DOMAIN q = 1 .. l + 1 /\ \A i \in 1 .. l : q[i] = c.bars[i].members
        /\ q[l + 1] = a
    BY <1>1, <1>2, PartsAre
  <1> HIDE DEF p, q, l
  <1>8. \A i \in DOMAIN q : (i # l + 1 /\ q[i] = p[i] /\ i < l + 1) \/ (i = l + 1 /\ q[i] = a)
    <2>1. \A i \in 1 .. l + 1 : i \in 1 .. l \/ i = l + 1
      BY <1>6
    <2>2. \A i \in 1 .. l : i < l + 1 /\ i # l + 1
      BY <1>6
    <2> QED BY <1>6, <1>7, <2>1, <2>2
  <1>9. DOMAIN q = DOMAIN p /\ l + 1 \in DOMAIN p /\ \A i \in DOMAIN p : i <= l + 1 /\ i \in Nat
    BY <1>6, <1>7
  <1>10. Spread(p) = S /\ Ordered(p)
    BY DEF CausalClock, p
  <1>11. ToSet(a) = ToSet(c.members) \cup {m}
    <2>1. ASSUME NEW x \in ToSet(a) PROVE x \in ToSet(c.members) \cup {m}
      BY <1>3, <1>4 DEF ToSet
    <2>2. ASSUME NEW x \in ToSet(c.members) PROVE x \in ToSet(a)
      <3>1. PICK i \in DOMAIN c.members : x = c.members[i]
        BY DEF ToSet
      <3>2. i \in DOMAIN a
        BY <1>3, <3>1
      <3> QED BY <1>3, <3>1, <3>2 DEF ToSet
    <2>3. m \in ToSet(a)
      <3>1. z + 1 \in DOMAIN a
        BY <1>3
      <3> QED BY <1>3, <3>1 DEF ToSet
    <2> QED BY <2>1, <2>2, <2>3
  <1>12. Spread(q) = S \cup {m}
    <2>1. ASSUME NEW x \in Spread(q) PROVE x \in S \cup {m}
      <3>1. PICK i \in DOMAIN q : x \in ToSet(q[i])
        BY DEF Spread
      <3>2. x \in ToSet(p[i]) \/ x = m
        BY <1>6, <1>8, <1>11, <3>1
      <3> QED BY <1>9, <1>10, <3>1, <3>2 DEF Spread
    <2>2. ASSUME NEW x \in S PROVE x \in Spread(q)
      <3>1. PICK i \in DOMAIN p : x \in ToSet(p[i])
        BY <1>10 DEF Spread
      <3>2. x \in ToSet(q[i])
        BY <1>6, <1>8, <1>9, <1>11, <3>1
      <3> QED BY <1>9, <3>1, <3>2 DEF Spread
    <2>3. m \in Spread(q)
      BY <1>7, <1>9, <1>11 DEF Spread
    <2> QED BY <2>1, <2>2, <2>3
  <1>13. Ordered(q)
    <2> SUFFICES ASSUME NEW i \in DOMAIN q, NEW j \in DOMAIN q, NEW k \in DOMAIN q[i],
                        NEW h \in DOMAIN q[j], i < j \/ (i = j /\ k < h)
                 PROVE  TradeBefore(q[i][k], q[j][h])
      BY DEF Ordered
    <2>0. i \in DOMAIN p /\ j \in DOMAIN p /\ i <= l + 1 /\ j <= l + 1 /\ i \in Nat /\ j \in Nat
      BY <1>9
    <2>1. i = l + 1 => j = l + 1 /\ k < h
      BY <1>6, <2>0
    <2>2. k \in DOMAIN p[i] /\ q[i][k] = p[i][k]
      <3>1. CASE i # l + 1
        BY <1>8, <3>1
      <3>2. CASE i = l + 1
        <4>1. k \in DOMAIN a /\ h \in DOMAIN a /\ k < h
          BY <1>7, <2>1, <3>2
        <4>2. k # z + 1
          BY <1>3, <4>1
        <4> QED BY <1>4, <1>6, <1>7, <3>2, <4>1, <4>2
      <3> QED BY <3>1, <3>2
    <2>3. CASE j = l + 1 /\ h = z + 1
      <3>1. q[j][h] = m
        BY <1>3, <1>7, <2>3
      <3>2. p[i][k] \in S
        <4>1. p[i][k] \in ToSet(p[i])
          BY <2>2 DEF ToSet
        <4> QED BY <1>10, <2>0, <4>1 DEF Spread
      <3> QED BY <2>2, <3>1, <3>2
    <2>4. CASE ~ (j = l + 1 /\ h = z + 1)
      <3>1. h \in DOMAIN p[j] /\ q[j][h] = p[j][h]
        <4>1. CASE j # l + 1
          BY <1>8, <4>1
        <4>2. CASE j = l + 1
          BY <1>4, <1>6, <1>7, <2>4, <4>2
        <4> QED BY <4>1, <4>2
      <3> QED BY <1>10, <2>0, <2>2, <3>1 DEF Ordered
    <2> QED BY <2>3, <2>4
  <1>14. base \in Nat /\ base <= d.watermark
         /\ \A i \in DOMAIN d.bars : base <= d.bars[i].t /\ Knowable(d.bars[i])
    BY <1>2 DEF CausalClock
  <1> QED BY <1>5, <1>12, <1>13, <1>14 DEF CausalClock, q, d

LEMMA FireCausal ==
    ASSUME NEW c, NEW base, NEW S, CausalClock(c, base, S), NEW most \in Nat \ {0}
    PROVE  CausalClock(Fire(c, most), base, S)
  <1> DEFINE b == c.start + most
             d == Close(c, "time_cap", b)
  <1>1. b \in Nat
    BY DEF CausalClock, ClockOK
  <1> HIDE DEF b
  <1>2. CausalClock(d, base, S)
    BY <1>1, CloseCausal
  <1> HIDE DEF d
  <1>3. CausalClock([d EXCEPT !.start = b], base, S)
    BY <1>1, <1>2, StartCausal
  <1> QED BY <1>3 DEF Fire, b, d

CausalOp(c, x, k) == Fire(x, c.most)
CausalHolds(c, x, k) == CausalClock(x, c.base, c.seen)
Causally == INSTANCE FoldTheorems WITH Op <- CausalOp, Pick <- Top, Holds <- CausalHolds

LEMMA CausallyDef ==
    ASSUME NEW c, NEW most, NEW base, NEW S, NEW t
    PROVE  FireUntil(c, most, t)
             = Causally!Fold([most |-> most, base |-> base, seen |-> S], c,
                             DOMAIN [i \in 1 .. (t - c.start) \div most |-> i])
  BY DEF FireUntil, FoldLeft, Causally!Fold, Causally!IsFold, MapThenFoldSet, CausalOp, Top

LEMMA FireUntilCausal ==
    ASSUME NEW c, NEW base, NEW S, CausalClock(c, base, S), NEW most \in Nat \ {0}, NEW t \in Int
    PROVE  CausalClock(FireUntil(c, most, t), base, S)
  <1> DEFINE k == (t - c.start) \div most
             l == IF k < 0 THEN 0 ELSE k
             e == [most |-> most, base |-> base, seen |-> S]
  <1>0. e.most = most /\ e.base = base /\ e.seen = S
    OBVIOUS
  <1>1. k \in Int
    BY DEF CausalClock, ClockOK
  <1>2. DOMAIN [i \in 1 .. k |-> i] = 1 .. k
    OBVIOUS
  <1>8. FireUntil(c, most, t) = Causally!Fold(e, c, DOMAIN [i \in 1 .. k |-> i])
    BY CausallyDef
  <1> HIDE DEF k, e
  <1>3. l \in Nat /\ 1 .. k = 1 .. l
    BY <1>1
  <1> HIDE DEF l
  <1>4. \A Q \in SUBSET (1 .. l) : Q # {} => Top(e, Q) \in Q /\ \A i \in Q : i <= Top(e, Q)
    BY <1>3, TopIn
  <1>5. CausalHolds(e, c, 0)
    BY <1>0 DEF CausalHolds
  <1>6. ASSUME NEW i \in 1 .. l, NEW x, CausalHolds(e, x, i - 1)
        PROVE  CausalHolds(e, CausalOp(e, x, i), i)
    BY <1>0, <1>6, FireCausal DEF CausalHolds, CausalOp
  <1>7. CausalHolds(e, Causally!Fold(e, c, 1 .. l), l)
    BY <1>3, <1>4, <1>5, <1>6, Causally!LeftFoldKeeps
  <1> QED BY <1>0, <1>2, <1>3, <1>7, <1>8 DEF CausalHolds

LEMMA PushCausal ==
    ASSUME NEW c, NEW base, NEW S, CausalClock(c, base, S), NEW m, IsTrade(m),
           \A u \in S : TradeBefore(u, m), NEW most \in Nat \ {0}, NEW threshold
    PROVE  CausalClock(Push(c, m, most, threshold), base, S \cup {m})
  <1> DEFINE fired == FireUntil(c, most, m.ts)
             full == [fired EXCEPT !.members = Append(@, m)]
             notional == MapThenSumSet(LAMBDA i : full.members[i].size, DOMAIN full.members)
             d == Close(full, "threshold", NoTime)
  <1>1. CausalClock(fired, base, S)
    BY FireUntilCausal DEF IsTrade
  <1> HIDE DEF fired
  <1>2. CausalClock(full, base, S \cup {m})
    BY <1>1, AppendCausal
  <1> HIDE DEF full
  <1>3. CausalClock(d, base, S \cup {m})
    BY <1>2, CloseCausal
  <1> HIDE DEF d
  <1>4. CausalClock([d EXCEPT !.start = m.ts], base, S \cup {m})
    BY <1>3, StartCausal DEF IsTrade
  <1>5. Push(c, m, most, threshold) = IF notional * threshold.den >= threshold.num
                                      THEN [d EXCEPT !.start = m.ts] ELSE full
    BY DEF Push, fired, full, d
  <1> HIDE DEF notional
  <1> QED BY <1>2, <1>4, <1>5

LEMMA FinishCausal ==
    ASSUME NEW c, NEW base, NEW S, CausalClock(c, base, S), NEW most \in Nat \ {0}, NEW day \in Nat
    PROVE  /\ CausalClock(FinishClock(c, most, day), base, S)
           /\ FinishClock(c, most, day).members = << >>
  <1> DEFINE fired == FireUntil(c, most, DayEnd(day))
  <1>1. DayEnd(day) \in Nat
    BY ScheduleAssumption DEF DayEnd, DayOpen
  <1>2. CausalClock(fired, base, S)
    BY <1>1, FireUntilCausal
  <1> HIDE DEF fired
  <1>3. /\ CausalClock(Close(fired, "day_end", DayEnd(day)), base, S)
        /\ Close(fired, "day_end", DayEnd(day)).members = << >>
    BY <1>1, <1>2, CloseCausal
  <1>4. FinishClock(c, most, day) = IF fired.members = << >> THEN fired
                                    ELSE Close(fired, "day_end", DayEnd(day))
    BY DEF FinishClock, fired
  <1> QED BY <1>2, <1>3, <1>4

-----------------------------------------------------------------------------
(* Coalescing a sequence that grows *)

\* Times that never go back, and the last position of every time.
Timed(b) ==
    /\ Sequence(b) /\ \A i \in DOMAIN b : b[i].t \in Nat
    /\ \A i, j \in DOMAIN b : i <= j => b[i].t <= b[j].t

IsLast(b, i) == i = Len(b) \/ b[i + 1].t > b[i].t

\* The sequence m has, in order, the last of every time of b.
IsCoalesced(m, b) ==
    /\ Sequence(m)
    /\ \A k, j \in DOMAIN m : k < j => m[k].t < m[j].t
    /\ \A k \in DOMAIN m : \E i \in DOMAIN b : IsLast(b, i) /\ m[k] = b[i]
    /\ \A i \in DOMAIN b : IsLast(b, i) => \E k \in DOMAIN m : m[k] = b[i]

\* One of two sequences of growing times with the same elements is as long as the
\* other, and equal to it.
LEMMA GrowsWithin ==
    ASSUME NEW x, Sequence(x), NEW y, Sequence(y),
           \A k \in DOMAIN x : x[k].t \in Nat, \A k \in DOMAIN y : y[k].t \in Nat,
           \A k, j \in DOMAIN x : k < j => x[k].t < x[j].t,
           \A k, j \in DOMAIN y : k < j => y[k].t < y[j].t,
           \A k \in DOMAIN x : \E j \in DOMAIN y : x[k] = y[j],
           \A k \in DOMAIN y : \E j \in DOMAIN x : y[k] = x[j]
    PROVE  x = y
  <1> DEFINE good(k) == k \in DOMAIN x /\ k \in DOMAIN y /\ x[k] = y[k]
             bad == {k \in DOMAIN x \cup DOMAIN y : ~ good(k)}
  <1>1. /\ Len(x) \in Nat /\ DOMAIN x = 1 .. Len(x) /\ Len(y) \in Nat /\ DOMAIN y = 1 .. Len(y)
    BY SequenceFacts
  <1>2. bad = {}
    <2> SUFFICES ASSUME bad # {} PROVE FALSE
      OBVIOUS
    <2>1. bad \subseteq Nat
      BY <1>1
    <2>2. PICK k \in bad : \A j \in bad : k <= j
      <3> HIDE DEF bad
      <3> QED BY <2>1, LeastOfNat
    <2>3. k \in Nat /\ \A j \in DOMAIN x \cup DOMAIN y : j < k => good(j)
      <3>1. \A j \in DOMAIN x \cup DOMAIN y : j \in Nat
        BY <1>1
      <3> QED BY <2>1, <2>2, <3>1
    <2>4. k \in DOMAIN x \/ k \in DOMAIN y
      OBVIOUS
    <2>5. k \notin DOMAIN x \/ k \notin DOMAIN y \/ x[k] # y[k]
      OBVIOUS
    <2> HIDE DEF bad
    <2>6. ASSUME k \in DOMAIN x PROVE FALSE
      <3>1. PICK j \in DOMAIN y : x[k] = y[j]
        BY <2>6
      <3>2. j \in Nat /\ x[k].t \in Nat
        BY <1>1, <2>6
      <3>3. CASE j < k
        <4>1. j \in DOMAIN x /\ x[j] = y[j]
          BY <2>3, <3>3
        <4> QED BY <2>6, <3>1, <3>2, <3>3, <4>1
      <3>4. CASE j = k
        <4>1. k \in DOMAIN y /\ x[k] = y[k]
          BY <3>1, <3>4
        <4> QED BY <2>5, <2>6, <4>1, Zenon
      <3>5. CASE k < j
        <4>1. k \in DOMAIN y /\ y[k].t < y[j].t /\ y[k].t \in Nat
          <5>1. k \in DOMAIN y
            BY <1>1, <2>6, <3>1, <3>5
          <5> QED BY <3>1, <3>5, <5>1
        <4>2. PICK i \in DOMAIN x : y[k] = x[i]
          BY <4>1
        <4>3. i \in Nat /\ x[i].t < x[k].t
          BY <1>1, <3>1, <4>1, <4>2
        <4>4. i < k
          BY <2>3, <2>6, <3>2, <4>1, <4>2, <4>3
        <4>5. i \in DOMAIN y /\ y[i] = y[k]
          BY <2>3, <4>2, <4>4
        <4> QED BY <4>1, <4>4, <4>5
      <3> QED BY <2>3, <3>2, <3>3, <3>4, <3>5
    <2>7. ASSUME k \in DOMAIN y PROVE FALSE
      <3>1. PICK j \in DOMAIN x : y[k] = x[j]
        BY <2>7
      <3>2. j \in Nat /\ y[k].t \in Nat
        BY <1>1, <2>7
      <3>3. CASE j < k
        <4>1. j \in DOMAIN y /\ x[j] = y[j]
          BY <2>3, <3>3
        <4> QED BY <2>7, <3>1, <3>2, <3>3, <4>1
      <3>4. CASE ~ j < k
        <4>1. k \in DOMAIN x
          BY <1>1, <2>3, <2>7, <3>2, <3>4
        <4> QED BY <2>6, <4>1
      <3> QED BY <3>3, <3>4
    <2> QED BY <2>4, <2>6, <2>7
  <1>3. DOMAIN x = DOMAIN y /\ \A k \in DOMAIN x : x[k] = y[k]
    BY <1>2
  <1>4. x = [k \in DOMAIN x |-> x[k]] /\ y = [k \in DOMAIN y |-> y[k]]
    <2>1. PICK A : x \in Seq(A)
      BY DEF Sequence
    <2>2. PICK B : y \in Seq(B)
      BY DEF Sequence
    <2> QED BY <2>1, <2>2
  <1> QED BY <1>3, <1>4, Zenon

\* Coalescing is what its name says.
LEMMA CoalescedIs ==
    ASSUME NEW b, Timed(b)
    PROVE  IsCoalesced(Coalesce(b), b)
  <1> DEFINE S == {i \in DOMAIN b : i = Len(b) \/ b[i + 1].t > b[i].t}
             s == InOrder(S)
             d == Coalesce(b)
             l == Len(b)
             w == Cardinality(S)
  <1>1. l \in Nat /\ DOMAIN b = 1 .. l
    BY SequenceFacts DEF Timed
  <1>2. S \subseteq 1 .. l /\ S \subseteq Nat /\ IsFiniteSet(S)
    <2>1. S \subseteq 1 .. l
      BY <1>1
    <2> HIDE DEF S, l
    <2>2. S \subseteq Nat
      BY <1>1, <2>1
    <2>3. IsFiniteSet(S)
      BY <1>1, <2>1, PositionsAreFinite
    <2> QED BY <2>1, <2>2, <2>3
  <1>3. \A i : i \in S <=> i \in DOMAIN b /\ IsLast(b, i)
    BY DEF IsLast
  <1>4. d = [k \in DOMAIN s |-> b[s[k]]]
    BY DEF Coalesce
  <1> HIDE DEF S, d, l
  <1>5. /\ w \in Nat /\ DOMAIN s = 1 .. w /\ \A k \in DOMAIN s : s[k] \in S
        /\ \A k, m \in DOMAIN s : k < m => s[k] < s[m]
        /\ \A i \in S : \E k \in DOMAIN s : s[k] = i
    BY <1>2, InOrderIs
  <1> HIDE DEF s, w
  <1>6. ASSUME NEW k \in DOMAIN d, NEW m \in DOMAIN d, k < m PROVE d[k].t < d[m].t
    <2> DEFINE i == s[k]
               j == s[m]
    <2>1. i \in S /\ j \in S /\ i < j /\ d[k] = b[i] /\ d[m] = b[j]
      BY <1>4, <1>5, <1>6
    <2> HIDE DEF i, j
    <2>2. i \in 1 .. l /\ j \in 1 .. l
      BY <1>2, <2>1
    <2>3. i # l /\ i + 1 \in 1 .. l /\ i + 1 <= j
      BY <1>1, <2>1, <2>2
    <2>4. b[i + 1].t > b[i].t /\ b[i + 1].t <= b[j].t
      BY <1>1, <1>3, <2>1, <2>2, <2>3 DEF Timed, IsLast, l
    <2>5. b[i].t \in Nat /\ b[i + 1].t \in Nat /\ b[j].t \in Nat
      BY <1>1, <2>2, <2>3 DEF Timed
    <2> QED BY <2>1, <2>4, <2>5
  <1>7. Sequence(d)
    <2>1. d \in [1 .. w -> {b[i] : i \in S}]
      BY <1>4, <1>5
    <2>2. d \in Seq({b[i] : i \in S})
      BY <1>5, <2>1
    <2> QED BY <2>2 DEF Sequence
  <1>8. \A k \in DOMAIN d : \E i \in DOMAIN b : IsLast(b, i) /\ d[k] = b[i]
    BY <1>3, <1>4, <1>5
  <1>9. ASSUME NEW i \in DOMAIN b, IsLast(b, i) PROVE \E k \in DOMAIN d : d[k] = b[i]
    <2>1. i \in S
      BY <1>3, <1>9
    <2>2. PICK k \in DOMAIN s : s[k] = i
      BY <1>5, <2>1
    <2> QED BY <1>4, <2>2
  <1> QED BY <1>6, <1>7, <1>8, <1>9 DEF IsCoalesced, d

LEMMA OneCoalesced ==
    ASSUME NEW b, Timed(b), NEW m, IsCoalesced(m, b)
    PROVE  m = Coalesce(b)
  <1> DEFINE d == Coalesce(b)
  <1>1. IsCoalesced(d, b)
    BY CoalescedIs
  <1> HIDE DEF d
  <1>2. \A k \in DOMAIN m : m[k].t \in Nat
    BY DEF IsCoalesced, Timed
  <1>3. \A k \in DOMAIN d : d[k].t \in Nat
    BY <1>1 DEF IsCoalesced, Timed
  <1>4. \A k \in DOMAIN m : \E j \in DOMAIN d : m[k] = d[j]
    BY <1>1 DEF IsCoalesced
  <1>5. \A k \in DOMAIN d : \E j \in DOMAIN m : d[k] = m[j]
    BY <1>1 DEF IsCoalesced
  <1>6. m = d
    BY <1>1, <1>2, <1>3, <1>4, <1>5, GrowsWithin DEF IsCoalesced
  <1> QED BY <1>6 DEF d

\* The last of the times is in what is coalesced, as its last.
LEMMA LastCoalesced ==
    ASSUME NEW b, Timed(b), NEW m, IsCoalesced(m, b), b # << >>
    PROVE  /\ Len(m) \in Nat /\ Len(m) # 0 /\ DOMAIN m = 1 .. Len(m) /\ Len(b) \in DOMAIN b
           /\ m[Len(m)] = b[Len(b)]
  <1> DEFINE l == Len(b)
             w == Len(m)
  <1>1. l \in Nat /\ l # 0 /\ DOMAIN b = 1 .. l
    BY SequenceFacts DEF Timed
  <1>2. w \in Nat /\ DOMAIN m = 1 .. w
    BY SequenceFacts DEF IsCoalesced
  <1>3. PICK k \in DOMAIN m : m[k] = b[l]
    <2>1. l \in DOMAIN b /\ IsLast(b, l)
      BY <1>1 DEF IsLast
    <2> QED BY <2>1 DEF IsCoalesced
  <1> HIDE DEF l, w
  <1>4. k = w
    <2> SUFFICES ASSUME k # w PROVE FALSE
      OBVIOUS
    <2>1. w \in DOMAIN m /\ k < w
      BY <1>2
    <2>2. PICK i \in DOMAIN b : m[w] = b[i]
      BY <2>1 DEF IsCoalesced
    <2>3. b[l].t < b[i].t
      BY <1>3, <2>1, <2>2 DEF IsCoalesced
    <2>4. b[i].t <= b[l].t /\ b[i].t \in Nat /\ b[l].t \in Nat
      BY <1>1 DEF Timed
    <2> QED BY <2>3, <2>4
  <1>5. w # 0 /\ l \in DOMAIN b
    BY <1>1, <1>2
  <1> QED BY <1>2, <1>3, <1>4, <1>5 DEF l, w

\* The first of what is coalesced has the first time.
LEMMA FirstCoalesced ==
    ASSUME NEW b, Timed(b), NEW m, IsCoalesced(m, b), b # << >>
    PROVE  /\ 1 \in DOMAIN b /\ 1 \in DOMAIN m /\ m[1].t = b[1].t
           /\ \A k \in DOMAIN m : b[1].t <= m[k].t
  <1> DEFINE l == Len(b)
             same == {i \in DOMAIN b : b[i].t = b[1].t}
             i == Max(same)
  <1>1. l \in Nat /\ l # 0 /\ DOMAIN b = 1 .. l /\ 1 \in DOMAIN b
    BY SequenceFacts DEF Timed
  <1>2. Len(m) \in Nat /\ Len(m) # 0 /\ DOMAIN m = 1 .. Len(m)
    BY LastCoalesced
  <1>3. i \in same /\ \A j \in same : j <= i
    <2>1. same \subseteq 1 .. l /\ same \subseteq Nat /\ same # {}
      BY <1>1
    <2> HIDE DEF same, l
    <2>2. IsFiniteSet(same)
      BY <1>1, <2>1, PositionsAreFinite
    <2> QED BY <2>1, <2>2, MaxOfFinite
  <1> HIDE DEF i, l
  <1>4. i \in DOMAIN b /\ b[i].t = b[1].t /\ i \in Nat
    BY <1>1, <1>3
  <1>5. IsLast(b, i)
    <2> SUFFICES ASSUME i # l PROVE b[i + 1].t > b[i].t
      BY DEF IsLast, l
    <2>1. i + 1 \in DOMAIN b /\ ~ i + 1 <= i
      BY <1>1, <1>4
    <2>2. b[i + 1].t # b[1].t
      BY <1>3, <2>1
    <2>3. b[i].t <= b[i + 1].t /\ b[i].t \in Nat /\ b[i + 1].t \in Nat
      BY <1>4, <2>1 DEF Timed
    <2> QED BY <1>4, <2>2, <2>3
  <1> HIDE DEF same
  <1>6. PICK k \in DOMAIN m : m[k] = b[i]
    BY <1>4, <1>5 DEF IsCoalesced
  <1>7. \A j \in DOMAIN m : m[j].t \in Nat /\ b[1].t <= m[j].t
    <2> TAKE j \in DOMAIN m
    <2>1. PICK q \in DOMAIN b : m[j] = b[q]
      BY DEF IsCoalesced
    <2>2. 1 <= q
      BY <1>1
    <2> QED BY <1>1, <2>1, <2>2 DEF Timed
  <1>8. 1 \in DOMAIN m /\ (k = 1 \/ 1 < k)
    BY <1>2
  <1>9. m[1].t = b[1].t
    <2>1. m[k].t = b[1].t /\ m[1].t \in Nat /\ b[1].t <= m[1].t /\ b[1].t \in Nat
      BY <1>1, <1>4, <1>6, <1>7, <1>8 DEF Timed
    <2>2. 1 < k => m[1].t < m[k].t
      BY <1>8 DEF IsCoalesced
    <2> QED BY <1>8, <2>1, <2>2
  <1> QED BY <1>1, <1>7, <1>8, <1>9

LEMMA JoinTimed ==
    ASSUME NEW b, Timed(b), NEW d, Timed(d), \A i \in DOMAIN b, j \in DOMAIN d : b[i].t <= d[j].t
    PROVE  Timed(b \o d)
  <1> DEFINE c == b \o d
             l == Len(b)
  <1>1. /\ Sequence(c) /\ l \in Nat /\ DOMAIN b = 1 .. l /\ DOMAIN d = 1 .. Len(d)
        /\ DOMAIN c \subseteq Nat
    BY Concatenating DEF Timed
  <1>2. \A i \in DOMAIN c : \/ i \in DOMAIN b /\ c[i] = b[i]
                            \/ i - l \in DOMAIN d /\ c[i] = d[i - l]
    BY OneOfTwo DEF Timed
  <1> HIDE DEF c, l
  <1>3. \A i \in DOMAIN c : c[i].t \in Nat
    BY <1>2 DEF Timed
  <1>4. ASSUME NEW i \in DOMAIN c, NEW j \in DOMAIN c, i <= j PROVE c[i].t <= c[j].t
    <2>0. i \in Nat /\ j \in Nat
      BY <1>1
    <2>1. CASE i \in DOMAIN b /\ c[i] = b[i] /\ j \in DOMAIN b /\ c[j] = b[j]
      BY <1>4, <2>1 DEF Timed
    <2>2. CASE i \in DOMAIN b /\ c[i] = b[i] /\ j - l \in DOMAIN d /\ c[j] = d[j - l]
      BY <2>2
    <2>3. CASE i - l \in DOMAIN d /\ c[i] = d[i - l] /\ j \in DOMAIN b
      BY <1>1, <1>4, <2>0, <2>3
    <2>4. CASE i - l \in DOMAIN d /\ c[i] = d[i - l] /\ j - l \in DOMAIN d /\ c[j] = d[j - l]
      <3>1. i - l <= j - l
        BY <1>1, <1>4, <2>0
      <3> QED BY <2>4, <3>1 DEF Timed
    <2> QED BY <1>2, <2>1, <2>2, <2>3, <2>4
  <1> QED BY <1>1, <1>3, <1>4 DEF Timed, c

\* The last positions of two sequences put together.
LEMMA JoinLast ==
    ASSUME NEW b, Timed(b), NEW d, Timed(d), d # << >>, \A i \in DOMAIN b : b[i].t <= d[1].t
    PROVE  /\ \A i \in DOMAIN b : IsLast(b \o d, i) <=> IsLast(b, i) /\ b[i].t < d[1].t
           /\ \A i \in DOMAIN d : IsLast(b \o d, Len(b) + i) <=> IsLast(d, i)
  <1> DEFINE c == b \o d
             l == Len(b)
             w == Len(d)
  <1>1. /\ Sequence(c) /\ l \in Nat /\ DOMAIN b = 1 .. l /\ DOMAIN d = 1 .. w
        /\ w \in Nat /\ Len(c) = l + w
        /\ \A i \in 1 .. l : c[i] = b[i]
        /\ \A i \in 1 .. w : c[l + i] = d[i]
    BY Concatenating DEF Timed
  <1>2. w # 0
    BY SequenceFacts DEF Timed
  <1> HIDE DEF c, l, w
  <1>3. ASSUME NEW i \in DOMAIN b PROVE IsLast(c, i) <=> IsLast(b, i) /\ b[i].t < d[1].t
    <2>0. b[i].t \in Nat /\ d[1].t \in Nat /\ b[i].t <= d[1].t /\ i \in 1 .. l /\ c[i] = b[i]
      BY <1>1, <1>2 DEF Timed
    <2>1. CASE i = l
      <3>0. 1 \in 1 .. w
        BY <1>1, <1>2
      <3>1. c[i + 1] = d[1] /\ i # Len(c)
        BY <1>1, <1>2, <2>1, <3>0
      <3>2. IsLast(b, i)
        BY <2>1 DEF IsLast, l
      <3> QED BY <2>0, <3>1, <3>2 DEF IsLast
    <2>2. CASE i # l
      <3>1. i + 1 \in 1 .. l /\ i # Len(c) /\ c[i + 1] = b[i + 1]
        BY <1>1, <2>0, <2>2
      <3>2. b[i + 1].t \in Nat /\ b[i + 1].t <= d[1].t
        BY <1>1, <3>1 DEF Timed
      <3>3. IsLast(c, i) <=> b[i + 1].t > b[i].t
        BY <2>0, <3>1 DEF IsLast
      <3>4. IsLast(b, i) <=> b[i + 1].t > b[i].t
        BY <2>2 DEF IsLast, l
      <3> QED BY <2>0, <3>2, <3>3, <3>4
    <2> QED BY <2>1, <2>2
  <1>4. ASSUME NEW i \in DOMAIN d PROVE IsLast(c, l + i) <=> IsLast(d, i)
    <2>1. i \in 1 .. w /\ c[l + i] = d[i]
      BY <1>1
    <2>2. CASE i = w
      <3>1. IsLast(c, l + i)
        BY <1>1, <2>2 DEF IsLast
      <3>2. IsLast(d, i)
        BY <2>2 DEF IsLast, w
      <3> QED BY <3>1, <3>2
    <2>3. CASE i # w
      <3>1. i + 1 \in 1 .. w
        BY <1>1, <2>1, <2>3
      <3>2. l + (i + 1) = (l + i) + 1 /\ l + i # Len(c)
        BY <1>1, <2>1, <2>3
      <3>3. c[(l + i) + 1] = d[i + 1]
        BY <1>1, <3>1, <3>2
      <3>4. IsLast(c, l + i) <=> d[i + 1].t > d[i].t
        BY <2>1, <3>2, <3>3 DEF IsLast
      <3>5. IsLast(d, i) <=> d[i + 1].t > d[i].t
        BY <2>3 DEF IsLast, w
      <3> QED BY <3>4, <3>5
    <2> QED BY <2>2, <2>3
  <1> QED BY <1>3, <1>4 DEF c, l

\* What is coalesced of the first part, but for what the second supersedes, and
\* then of the second, is coalesced of both.
LEMMA JoinCoalesced ==
    ASSUME NEW b, Timed(b), NEW d, Timed(d), d # << >>, \A i \in DOMAIN b : b[i].t <= d[1].t,
           NEW m, Sequence(m), NEW e, IsCoalesced(e, d),
           \A k, j \in DOMAIN m : k < j => m[k].t < m[j].t,
           \A k \in DOMAIN m : \E i \in DOMAIN b : IsLast(b, i) /\ b[i].t < d[1].t /\ m[k] = b[i],
           \A i \in DOMAIN b : IsLast(b, i) /\ b[i].t < d[1].t => \E k \in DOMAIN m : m[k] = b[i]
    PROVE  IsCoalesced(m \o e, b \o d)
  <1> DEFINE c == b \o d
             q == m \o e
             l == Len(b)
             w == Len(m)
  <1>1. /\ Sequence(c) /\ l \in Nat /\ DOMAIN b = 1 .. l /\ DOMAIN d = 1 .. Len(d) /\ Len(d) \in Nat
        /\ DOMAIN c = 1 .. l + Len(d)
        /\ \A i \in 1 .. l : c[i] = b[i]
        /\ \A i \in 1 .. Len(d) : c[l + i] = d[i]
    BY Concatenating DEF Timed
  <1>2. /\ Sequence(q) /\ w \in Nat /\ DOMAIN m = 1 .. w /\ DOMAIN e = 1 .. Len(e) /\ Len(e) \in Nat
        /\ DOMAIN q = 1 .. w + Len(e)
        /\ \A i \in 1 .. w : q[i] = m[i]
        /\ \A i \in 1 .. Len(e) : q[w + i] = e[i]
    BY Concatenating DEF IsCoalesced
  <1>3. \A i \in DOMAIN q : \/ i \in DOMAIN m /\ q[i] = m[i]
                            \/ i - w \in DOMAIN e /\ q[i] = e[i - w]
    BY OneOfTwo DEF IsCoalesced
  <1>4. \A i \in DOMAIN c : \/ i \in DOMAIN b /\ c[i] = b[i]
                            \/ i - l \in DOMAIN d /\ c[i] = d[i - l]
    BY OneOfTwo DEF Timed
  <1>5. /\ \A i \in DOMAIN b : IsLast(c, i) <=> IsLast(b, i) /\ b[i].t < d[1].t
        /\ \A i \in DOMAIN d : IsLast(c, l + i) <=> IsLast(d, i)
    BY JoinLast
  <1>6. \A k \in DOMAIN e : d[1].t <= e[k].t /\ e[k].t \in Nat /\ d[1].t \in Nat
    <2>1. \A k \in DOMAIN e : d[1].t <= e[k].t /\ 1 \in DOMAIN d
      BY FirstCoalesced
    <2>2. \A k \in DOMAIN e : \E i \in DOMAIN d : e[k] = d[i]
      BY DEF IsCoalesced
    <2> QED BY <2>1, <2>2 DEF Timed
  <1> HIDE DEF c, q, l, w
  <1>7. \A k \in DOMAIN m : m[k].t \in Nat /\ m[k].t < d[1].t
    BY DEF Timed
  <1>8. ASSUME NEW k \in DOMAIN q, NEW j \in DOMAIN q, k < j PROVE q[k].t < q[j].t
    <2>0. k \in Nat /\ j \in Nat
      BY <1>2
    <2>1. CASE k \in DOMAIN m /\ q[k] = m[k] /\ j \in DOMAIN m /\ q[j] = m[j]
      BY <1>8, <2>1
    <2>2. CASE k \in DOMAIN m /\ q[k] = m[k] /\ j - w \in DOMAIN e /\ q[j] = e[j - w]
      BY <1>6, <1>7, <2>2
    <2>3. CASE k - w \in DOMAIN e /\ q[k] = e[k - w] /\ j \in DOMAIN m
      BY <1>2, <1>8, <2>0, <2>3
    <2>4. CASE k - w \in DOMAIN e /\ q[k] = e[k - w] /\ j - w \in DOMAIN e /\ q[j] = e[j - w]
      <3>1. k - w < j - w
        BY <1>2, <1>8, <2>0
      <3> QED BY <2>4, <3>1 DEF IsCoalesced
    <2> QED BY <1>3, <2>1, <2>2, <2>3, <2>4
  <1>9. ASSUME NEW k \in DOMAIN q PROVE \E i \in DOMAIN c : IsLast(c, i) /\ q[k] = c[i]
    <2>1. CASE k \in DOMAIN m /\ q[k] = m[k]
      <3>1. PICK i \in DOMAIN b : IsLast(b, i) /\ b[i].t < d[1].t /\ m[k] = b[i]
        BY <2>1
      <3>2. i \in DOMAIN c /\ c[i] = b[i] /\ IsLast(c, i)
        BY <1>1, <1>5, <3>1
      <3> QED BY <2>1, <3>1, <3>2
    <2>2. CASE k - w \in DOMAIN e /\ q[k] = e[k - w]
      <3>1. PICK i \in DOMAIN d : IsLast(d, i) /\ e[k - w] = d[i]
        BY <2>2 DEF IsCoalesced
      <3>2. l + i \in DOMAIN c /\ c[l + i] = d[i] /\ IsLast(c, l + i)
        BY <1>1, <1>5, <3>1
      <3> QED BY <2>2, <3>1, <3>2
    <2> QED BY <1>3, <2>1, <2>2
  <1>10. ASSUME NEW i \in DOMAIN c, IsLast(c, i) PROVE \E k \in DOMAIN q : q[k] = c[i]
    <2>1. CASE i \in DOMAIN b /\ c[i] = b[i]
      <3>1. PICK k \in DOMAIN m : m[k] = b[i]
        BY <1>5, <1>10, <2>1
      <3>2. k \in DOMAIN q /\ q[k] = m[k]
        BY <1>2
      <3> QED BY <2>1, <3>1, <3>2
    <2>2. CASE i - l \in DOMAIN d /\ c[i] = d[i - l]
      <3> DEFINE j == i - l
      <3>1. l + j = i /\ j \in DOMAIN d
        BY <1>1, <2>2
      <3> HIDE DEF j
      <3>2. IsLast(d, j)
        BY <1>5, <1>10, <3>1
      <3>3. PICK k \in DOMAIN e : e[k] = d[j]
        BY <3>1, <3>2 DEF IsCoalesced
      <3>4. w + k \in DOMAIN q /\ q[w + k] = e[k]
        BY <1>2
      <3> QED BY <2>2, <3>3, <3>4 DEF j
    <2> QED BY <1>4, <2>1, <2>2
  <1> QED BY <1>2, <1>8, <1>9, <1>10 DEF IsCoalesced, q, c

\* The decisions m made of the bars b and one of b held back, or none, become those
\* of b and the next bars d: one held at the first instant of d is superseded.
LEMMA CarryOn ==
    ASSUME NEW b, Timed(b), NEW d, Timed(d), d # << >>, \A i \in DOMAIN b : b[i].t <= d[1].t,
           NEW m, Sequence(m), NEW h, Sequence(h), h # << >> => Len(h) = 1,
           IsCoalesced(m \o h, b), h = << >> => \A i \in DOMAIN b : b[i].t < d[1].t,
           NEW e, IsCoalesced(e, d),
           NEW g, g = IF h # << >> /\ h[1].t = e[1].t THEN << >> ELSE h
    PROVE  IsCoalesced((m \o g) \o e, b \o d)
  <1> DEFINE q == m \o h
             w == Len(m)
  <1>1. /\ Sequence(q) /\ w \in Nat /\ DOMAIN m = 1 .. w /\ DOMAIN h = 1 .. Len(h) /\ Len(h) \in Nat
        /\ Len(q) = w + Len(h)
        /\ DOMAIN q = 1 .. w + Len(h)
        /\ \A i \in 1 .. w : q[i] = m[i]
        /\ \A i \in 1 .. Len(h) : q[w + i] = h[i]
    BY Concatenating
  <1>2. e[1].t = d[1].t /\ 1 \in DOMAIN d /\ d[1].t \in Nat
    BY FirstCoalesced DEF Timed
  <1>3. h # << >> => /\ b # << >> /\ h[1] = b[Len(b)] /\ Len(b) \in DOMAIN b
                     /\ \A i \in DOMAIN b : b[i].t \in Nat /\ b[i].t <= b[Len(b)].t
    <2> SUFFICES ASSUME h # << >>
                 PROVE  /\ b # << >> /\ h[1] = b[Len(b)] /\ Len(b) \in DOMAIN b
                        /\ \A i \in DOMAIN b : b[i].t \in Nat /\ b[i].t <= b[Len(b)].t
      OBVIOUS
    <2>1. w + 1 \in DOMAIN q /\ q[w + 1] = h[1] /\ Len(q) = w + 1
      BY <1>1
    <2>2. \E i \in DOMAIN b : q[w + 1] = b[i]
      BY <2>1 DEF IsCoalesced, q
    <2>3. b # << >>
      BY <2>2, EmptySequence
    <2>4. q[Len(q)] = b[Len(b)] /\ Len(b) \in DOMAIN b
      BY <2>3, LastCoalesced DEF q
    <2>5. \A i \in DOMAIN b : i <= Len(b)
      BY SequenceFacts DEF Timed
    <2>6. \A i \in DOMAIN b : b[i].t \in Nat /\ b[i].t <= b[Len(b)].t
      BY <2>4, <2>5 DEF Timed
    <2> QED BY <2>1, <2>3, <2>4, <2>6
  <1>4. IsCoalesced(q, b)
    OBVIOUS
  <1> HIDE DEF q, w
  <1>5. CASE h = << >> \/ h[1].t # e[1].t
    <2>1. g = h
      BY <1>5
    <2>2. \A i \in DOMAIN b : b[i].t < d[1].t
      <3>1. CASE h = << >>
        BY <3>1
      <3>2. CASE h # << >>
        <4>1. b[Len(b)].t # d[1].t /\ b[Len(b)].t <= d[1].t /\ b[Len(b)].t \in Nat
          BY <1>2, <1>3, <1>5, <3>2
        <4>2. b[Len(b)].t < d[1].t
          BY <1>2, <4>1
        <4> QED BY <1>2, <1>3, <3>2, <4>1, <4>2
      <3> QED BY <3>1, <3>2
    <2>3. /\ \A k, j \in DOMAIN q : k < j => q[k].t < q[j].t
          /\ \A k \in DOMAIN q : \E i \in DOMAIN b : IsLast(b, i) /\ b[i].t < d[1].t /\ q[k] = b[i]
          /\ \A i \in DOMAIN b : IsLast(b, i) /\ b[i].t < d[1].t => \E k \in DOMAIN q : q[k] = b[i]
      BY <1>4, <2>2 DEF IsCoalesced
    <2>4. IsCoalesced(q \o e, b \o d)
      BY <1>1, <2>3, JoinCoalesced
    <2> QED BY <2>1, <2>4 DEF q
  <1>6. CASE h # << >> /\ h[1].t = e[1].t
    <2>1. g = << >> /\ m \o g = m
      <3>1. PICK A : m \in Seq(A)
        BY DEF Sequence
      <3>2. m \o << >> = m
        BY <3>1
      <3> QED BY <1>6, <3>2
    <2>2. /\ DOMAIN q = 1 .. w + 1 /\ q[w + 1].t = d[1].t
          /\ \A k \in 1 .. w : q[k] = m[k]
      BY <1>1, <1>2, <1>6
    <2>3. \A k \in DOMAIN m : k \in DOMAIN q /\ q[k] = m[k] /\ k < w + 1 /\ w + 1 \in DOMAIN q
      BY <1>1, <2>2
    <2>4. \A k, j \in DOMAIN m : k < j => m[k].t < m[j].t
      BY <1>4, <2>3 DEF IsCoalesced
    <2>5. \A k \in DOMAIN m : \E i \in DOMAIN b : IsLast(b, i) /\ b[i].t < d[1].t /\ m[k] = b[i]
      <3> TAKE k \in DOMAIN m
      <3>1. q[k].t < q[w + 1].t
        BY <1>4, <2>3 DEF IsCoalesced
      <3>2. PICK i \in DOMAIN b : IsLast(b, i) /\ q[k] = b[i]
        BY <1>4, <2>3 DEF IsCoalesced
      <3> QED BY <2>2, <2>3, <3>1, <3>2
    <2>6. ASSUME NEW i \in DOMAIN b, IsLast(b, i), b[i].t < d[1].t
          PROVE  \E k \in DOMAIN m : m[k] = b[i]
      <3>1. PICK k \in DOMAIN q : q[k] = b[i]
        BY <1>4, <2>6 DEF IsCoalesced
      <3>2. k # w + 1
        <4>1. b[i].t \in Nat
          BY DEF Timed
        <4> QED BY <1>2, <2>2, <2>6, <3>1, <4>1
      <3>3. k \in 1 .. w
        BY <1>1, <2>2, <3>2
      <3> QED BY <1>1, <2>2, <3>1, <3>3
    <2>7. IsCoalesced(m \o e, b \o d)
      BY <2>4, <2>5, <2>6, JoinCoalesced
    <2> QED BY <2>1, <2>7
  <1> QED BY <1>5, <1>6

-----------------------------------------------------------------------------
(* Bars and decisions, as days and times *)

BarTimes(bars) == [i \in DOMAIN bars |-> [day |-> bars[i].day, t |-> bars[i].bar.t]]
EntryTimes(entries) == [k \in DOMAIN entries |-> [day |-> entries[k].day, t |-> entries[k].t]]

LEMMA Sequenced ==
    ASSUME NEW l \in Nat, NEW f, DOMAIN f = 1 .. l, f = [k \in 1 .. l |-> f[k]]
    PROVE  Sequence(f) /\ Len(f) = l
  <1> DEFINE R == {f[k] : k \in 1 .. l}
  <1>1. \A k \in 1 .. l : f[k] \in R
    OBVIOUS
  <1> HIDE DEF R
  <1>2. f \in [1 .. l -> R]
    BY <1>1
  <1>3. f \in Seq(R)
    BY <1>2
  <1>4. Sequence(f)
    BY <1>3 DEF Sequence
  <1>5. Len(f) = l
    BY <1>3
  <1> QED BY <1>4, <1>5

LEMMA SameSequence ==
    ASSUME NEW x, Sequence(x), NEW y, Sequence(y), Len(x) = Len(y),
           \A k \in 1 .. Len(x) : x[k] = y[k]
    PROVE  x = y
  <1>1. DOMAIN x = 1 .. Len(x) /\ DOMAIN y = 1 .. Len(y)
    BY SequenceFacts
  <1>2. x = [k \in DOMAIN x |-> x[k]] /\ y = [k \in DOMAIN y |-> y[k]]
    <2>1. PICK A : x \in Seq(A)
      BY DEF Sequence
    <2>2. PICK B : y \in Seq(B)
      BY DEF Sequence
    <2> QED BY <2>1, <2>2
  <1>3. DOMAIN x = DOMAIN y /\ \A k \in DOMAIN x : x[k] = y[k]
    BY <1>1
  <1> QED BY <1>2, <1>3, Zenon

LEMMA TimesAre ==
    ASSUME NEW s, Sequence(s)
    PROVE  /\ Len(s) \in Nat /\ DOMAIN s = 1 .. Len(s)
           /\ Sequence(BarTimes(s)) /\ Len(BarTimes(s)) = Len(s) /\ DOMAIN BarTimes(s) = DOMAIN s
           /\ \A k \in DOMAIN s : BarTimes(s)[k] = [day |-> s[k].day, t |-> s[k].bar.t]
           /\ Sequence(EntryTimes(s)) /\ Len(EntryTimes(s)) = Len(s)
           /\ DOMAIN EntryTimes(s) = DOMAIN s
           /\ \A k \in DOMAIN s : EntryTimes(s)[k] = [day |-> s[k].day, t |-> s[k].t]
  <1> DEFINE l == Len(s)
             f == BarTimes(s)
             g == EntryTimes(s)
  <1>1. l \in Nat /\ DOMAIN s = 1 .. l
    BY SequenceFacts
  <1> HIDE DEF l
  <1>2. /\ DOMAIN f = 1 .. l /\ f = [k \in 1 .. l |-> f[k]]
        /\ \A k \in DOMAIN s : f[k] = [day |-> s[k].day, t |-> s[k].bar.t]
    BY <1>1 DEF BarTimes
  <1>3. /\ DOMAIN g = 1 .. l /\ g = [k \in 1 .. l |-> g[k]]
        /\ \A k \in DOMAIN s : g[k] = [day |-> s[k].day, t |-> s[k].t]
    BY <1>1 DEF EntryTimes
  <1> HIDE DEF f, g
  <1>4. Sequence(f) /\ Len(f) = l /\ Sequence(g) /\ Len(g) = l
    BY <1>1, <1>2, <1>3, Sequenced
  <1> QED BY <1>1, <1>2, <1>3, <1>4 DEF f, g, l

LEMMA Associating ==
    ASSUME NEW a, Sequence(a), NEW b, Sequence(b), NEW c, Sequence(c)
    PROVE  (a \o b) \o c = a \o (b \o c)
  <1>1. PICK A : a \in Seq(A)
    BY DEF Sequence
  <1>2. PICK B : b \in Seq(B)
    BY DEF Sequence
  <1>3. PICK C : c \in Seq(C)
    BY DEF Sequence
  <1> DEFINE D == A \cup B \cup C
  <1>4. a \in Seq(D) /\ b \in Seq(D) /\ c \in Seq(D)
    BY <1>1, <1>2, <1>3
  <1> HIDE DEF D
  <1> QED BY <1>4

\* The sequence p has the elements of f, then those of g.
Joins(p, f, g) ==
    /\ Sequence(p) /\ Sequence(f) /\ Sequence(g) /\ Len(p) = Len(f) + Len(g)
    /\ \A i \in 1 .. Len(f) : p[i] = f[i]
    /\ \A i \in 1 .. Len(g) : p[Len(f) + i] = g[i]

LEMMA Pieces == ASSUME NEW p, NEW f, NEW g, Joins(p, f, g) PROVE p = f \o g
  <1>0. Sequence(p) /\ Sequence(f) /\ Sequence(g)
    BY DEF Joins
  <1> DEFINE q == f \o g
             l == Len(f)
             w == Len(g)
  <1>1. /\ Sequence(q) /\ Len(q) = l + w /\ l \in Nat /\ w \in Nat
        /\ \A i \in 1 .. l : q[i] = f[i]
        /\ \A i \in 1 .. w : q[l + i] = g[i]
    BY <1>0, Concatenating
  <1>2. /\ Len(p) = l + w
        /\ \A i \in 1 .. l : p[i] = f[i]
        /\ \A i \in 1 .. w : p[l + i] = g[i]
    BY DEF Joins
  <1> HIDE DEF q, l, w
  <1>3. \A k \in 1 .. l + w : p[k] = q[k]
    <2> TAKE k \in 1 .. l + w
    <2>1. CASE k \in 1 .. l
      BY <1>1, <1>2, <2>1
    <2>2. CASE k \notin 1 .. l
      <3> DEFINE j == k - l
      <3>1. j \in 1 .. w /\ l + j = k
        BY <1>1, <2>2
      <3> HIDE DEF j
      <3>2. p[l + j] = q[l + j]
        BY <1>1, <1>2, <3>1
      <3> QED BY <3>1, <3>2
    <2> QED BY <2>1, <2>2
  <1>4. p = q
    BY <1>0, <1>1, <1>2, <1>3, SameSequence
  <1> QED BY <1>4 DEF q

LEMMA TimesOfTwo ==
    ASSUME NEW x, Sequence(x), NEW y, Sequence(y)
    PROVE  BarTimes(x \o y) = BarTimes(x) \o BarTimes(y)
  <1> DEFINE u == x \o y
             p == BarTimes(u)
             l == Len(x)
             w == Len(y)
             f == BarTimes(x)
             g == BarTimes(y)
  <1>1. /\ Sequence(u) /\ l \in Nat /\ w \in Nat
        /\ DOMAIN u = 1 .. l + w /\ DOMAIN x = 1 .. l /\ DOMAIN y = 1 .. w
        /\ \A i \in 1 .. l : u[i] = x[i]
        /\ \A i \in 1 .. w : u[l + i] = y[i]
    BY Concatenating
  <1>2. /\ Sequence(f) /\ Len(f) = l /\ Sequence(g) /\ Len(g) = w
        /\ \A k \in DOMAIN x : f[k] = [day |-> x[k].day, t |-> x[k].bar.t]
        /\ \A k \in DOMAIN y : g[k] = [day |-> y[k].day, t |-> y[k].bar.t]
    BY TimesAre
  <1> HIDE DEF u, f, g, l, w
  <1>3. /\ Sequence(p) /\ Len(p) = Len(u) /\ Len(u) \in Nat /\ DOMAIN u = 1 .. Len(u)
        /\ \A k \in DOMAIN u : p[k] = [day |-> u[k].day, t |-> u[k].bar.t]
    BY <1>1, TimesAre
  <1>4. Len(u) = l + w
    BY <1>1, <1>3
  <1> HIDE DEF p
  <1>5. ASSUME NEW i \in 1 .. l PROVE p[i] = f[i]
    <2>1. i \in DOMAIN u /\ i \in DOMAIN x /\ u[i] = x[i]
      BY <1>1
    <2> QED BY <1>2, <1>3, <2>1
  <1>6. ASSUME NEW i \in 1 .. w PROVE p[l + i] = g[i]
    <2>1. l + i \in DOMAIN u /\ i \in DOMAIN y /\ u[l + i] = y[i]
      BY <1>1
    <2> QED BY <1>2, <1>3, <2>1
  <1>7. \A i \in 1 .. l : p[i] = f[i]
    BY <1>5
  <1>8. \A i \in 1 .. w : p[l + i] = g[i]
    BY <1>6
  <1>9. p = f \o g
    <2>1. Len(p) = Len(f) + Len(g)
      BY <1>2, <1>3, <1>4
    <2>2. \A i \in 1 .. Len(f) : p[i] = f[i]
      BY <1>2, <1>7
    <2>3. \A i \in 1 .. Len(g) : p[Len(f) + i] = g[i]
      BY <1>2, <1>8
    <2>4. Sequence(p) /\ Sequence(f) /\ Sequence(g)
      BY <1>2, <1>3
    <2>5. Joins(p, f, g)
      BY <2>1, <2>2, <2>3, <2>4 DEF Joins
    <2> QED BY <2>5, Pieces
  <1> QED BY <1>9 DEF p, f, g, u

AddOp(c, x, k) == Classify(x, c.es[k])
AddHolds(c, x, k) ==
    /\ Sequence(x.decided) /\ Len(x.decided) = Len(c.was) + k
    /\ \A i \in 1 .. Len(c.was) : x.decided[i] = c.was[i]
    /\ \A i \in 1 .. k : /\ x.decided[Len(c.was) + i].day = c.es[i].day
                         /\ x.decided[Len(c.was) + i].t = c.es[i].bar.t
Adding == INSTANCE FoldTheorems WITH Op <- AddOp, Pick <- Top, Holds <- AddHolds

LEMMA AddingDef ==
    ASSUME NEW es
    PROVE  ClassifyAll(es)
             = Adding!Fold([es |-> es, was |-> decided],
                           [broken |-> FALSE, prior |-> prior, drops |-> drops,
                            records |-> records, decided |-> decided], DOMAIN es)
  BY DEF ClassifyAll, FoldLeft, Adding!Fold, Adding!IsFold, MapThenFoldSet, AddOp, Top

\* Every decision classified is entered, and nothing else.
LEMMA ClassifyAdds ==
    ASSUME NEW es, Sequence(es), Sequence(decided)
    PROVE  EntryTimes(ClassifyAll(es).decided) = EntryTimes(decided) \o BarTimes(es)
  <1> DEFINE c == [es |-> es, was |-> decided]
             base == [broken |-> FALSE, prior |-> prior, drops |-> drops,
                      records |-> records, decided |-> decided]
             l == Len(es)
             w == Len(decided)
  <1>0. c.es = es /\ c.was = decided /\ base.decided = decided
    OBVIOUS
  <1>1. l \in Nat /\ DOMAIN es = 1 .. l /\ w \in Nat /\ DOMAIN decided = 1 .. w
    BY SequenceFacts
  <1>2. ClassifyAll(es) = Adding!Fold(c, base, 1 .. l)
    BY <1>1, AddingDef
  <1> HIDE DEF c, base, l
  <1>3. \A Q \in SUBSET (1 .. l) : Q # {} => Top(c, Q) \in Q /\ \A i \in Q : i <= Top(c, Q)
    BY <1>1, TopIn
  <1>4. AddHolds(c, base, 0)
    BY <1>0, <1>1 DEF AddHolds
  <1>5. ASSUME NEW k \in 1 .. l, NEW x, AddHolds(c, x, k - 1)
        PROVE  AddHolds(c, AddOp(c, x, k), k)
    <2> DEFINE e == es[k]
               d == [day |-> e.day, t |-> e.bar.t, read |-> e.read, outcome |-> Outcome(x.prior, e)]
               s == Append(x.decided, d)
    <2>1. AddOp(c, x, k).decided = s
      BY <1>0 DEF AddOp, Classify
    <2>2. d.day = es[k].day /\ d.t = es[k].bar.t
      OBVIOUS
    <2> HIDE DEF d, e
    <2>3. /\ Sequence(x.decided) /\ Len(x.decided) = w + (k - 1)
          /\ \A i \in 1 .. w : x.decided[i] = decided[i]
          /\ \A i \in 1 .. k - 1 : x.decided[w + i].day = es[i].day /\ x.decided[w + i].t = es[i].bar.t
      BY <1>0, <1>5 DEF AddHolds
    <2>4. /\ Sequence(s) /\ Len(s) = (w + (k - 1)) + 1
          /\ \A i \in 1 .. w + (k - 1) : s[i] = x.decided[i]
          /\ s[(w + (k - 1)) + 1] = d
      BY <2>3, Appending
    <2> HIDE DEF s
    <2>5. Len(s) = w + k /\ s[w + k] = d
      BY <1>1, <2>4
    <2>6. \A i \in 1 .. w : s[i] = decided[i]
      <3>1. \A i \in 1 .. w : i \in 1 .. w + (k - 1)
        BY <1>1
      <3> QED BY <2>3, <2>4, <3>1
    <2>7. \A i \in 1 .. k : s[w + i].day = es[i].day /\ s[w + i].t = es[i].bar.t
      <3> TAKE i \in 1 .. k
      <3>1. CASE i = k
        BY <2>2, <2>5, <3>1
      <3>2. CASE i # k
        <4>1. i \in 1 .. k - 1 /\ w + i \in 1 .. w + (k - 1)
          BY <1>1, <3>2
        <4> QED BY <2>3, <2>4, <4>1
      <3> QED BY <3>1, <3>2
    <2> QED BY <1>0, <2>1, <2>4, <2>5, <2>6, <2>7 DEF AddHolds
  <1>6. AddHolds(c, Adding!Fold(c, base, 1 .. l), l)
    BY <1>1, <1>3, <1>4, <1>5, Adding!LeftFoldKeeps
  <1> DEFINE z == ClassifyAll(es).decided
             f == EntryTimes(decided)
             g == BarTimes(es)
             p == EntryTimes(z)
  <1>7. /\ Sequence(z) /\ Len(z) = w + l
        /\ \A i \in 1 .. w : z[i] = decided[i]
        /\ \A i \in 1 .. l : z[w + i].day = es[i].day /\ z[w + i].t = es[i].bar.t
    BY <1>0, <1>2, <1>6 DEF AddHolds
  <1> HIDE DEF z
  <1>8. /\ Sequence(p) /\ Len(p) = w + l /\ DOMAIN z = 1 .. w + l
        /\ \A k \in DOMAIN z : p[k] = [day |-> z[k].day, t |-> z[k].t]
    BY <1>7, TimesAre
  <1>9. /\ Sequence(f) /\ Len(f) = w /\ Sequence(g) /\ Len(g) = l
        /\ \A k \in DOMAIN decided : f[k] = [day |-> decided[k].day, t |-> decided[k].t]
        /\ \A k \in DOMAIN es : g[k] = [day |-> es[k].day, t |-> es[k].bar.t]
    BY TimesAre DEF l
  <1> HIDE DEF p, f, g, w
  <1>10. ASSUME NEW i \in 1 .. w PROVE p[i] = f[i]
    <2>1. i \in DOMAIN z /\ i \in DOMAIN decided /\ z[i] = decided[i]
      BY <1>1, <1>7, <1>8
    <2> QED BY <1>8, <1>9, <2>1
  <1>11. ASSUME NEW i \in 1 .. l PROVE p[w + i] = g[i]
    <2>1. w + i \in DOMAIN z /\ i \in DOMAIN es
      BY <1>1, <1>8
    <2>2. p[w + i] = [day |-> z[w + i].day, t |-> z[w + i].t]
      BY <1>8, <2>1
    <2>3. g[i] = [day |-> es[i].day, t |-> es[i].bar.t]
      BY <1>9, <2>1
    <2> QED BY <1>7, <2>2, <2>3
  <1>12. \A i \in 1 .. w : p[i] = f[i]
    BY <1>10
  <1>13. \A i \in 1 .. l : p[w + i] = g[i]
    BY <1>11
  <1>14. p = f \o g
    <2>1. Len(p) = Len(f) + Len(g)
      BY <1>8, <1>9
    <2>2. \A i \in 1 .. Len(f) : p[i] = f[i]
      BY <1>9, <1>12
    <2>3. \A i \in 1 .. Len(g) : p[Len(f) + i] = g[i]
      BY <1>9, <1>13
    <2>4. Sequence(p) /\ Sequence(f) /\ Sequence(g)
      BY <1>8, <1>9
    <2>5. Joins(p, f, g)
      BY <2>1, <2>2, <2>3, <2>4 DEF Joins
    <2> QED BY <2>5, Pieces
  <1> QED BY <1>14 DEF p, f, g, z

\* The sequence u has the times of b on the day d.
OnDay(u, b, d) ==
    /\ Sequence(u) /\ DOMAIN u = DOMAIN b
    /\ \A i \in DOMAIN b : u[i] = [day |-> d, t |-> b[i].t]

LEMMA ImageCoalesced ==
    ASSUME NEW b, Timed(b), NEW m, IsCoalesced(m, b), NEW d, NEW u, OnDay(u, b, d),
           NEW v, OnDay(v, m, d)
    PROVE  Timed(u) /\ IsCoalesced(v, u)
  <1>0. /\ Sequence(u) /\ DOMAIN u = DOMAIN b
        /\ \A i \in DOMAIN b : u[i] = [day |-> d, t |-> b[i].t]
        /\ Sequence(v) /\ DOMAIN v = DOMAIN m
        /\ \A k \in DOMAIN m : v[k] = [day |-> d, t |-> m[k].t]
    BY DEF OnDay
  <1>1. \A i \in DOMAIN b : u[i].t = b[i].t
    BY <1>0
  <1>2. \A k \in DOMAIN m : v[k].t = m[k].t
    BY <1>0
  <1>3. Timed(u)
    BY <1>0, <1>1 DEF Timed
  <1>4. ASSUME NEW i \in DOMAIN b PROVE IsLast(u, i) <=> IsLast(b, i)
    <2> DEFINE l == Len(b)
               w == Len(u)
    <2>1. w \in Nat /\ DOMAIN u = 1 .. w /\ l \in Nat /\ DOMAIN b = 1 .. l
      BY <1>0, SequenceFacts DEF Timed
    <2> HIDE DEF l, w
    <2>2. w = l
      <3>1. 1 .. w = 1 .. l
        BY <1>0, <2>1
      <3> QED BY <2>1, <3>1
    <2>3. CASE i = l
      BY <2>2, <2>3 DEF IsLast, l, w
    <2>4. CASE i # l
      <3>1. i \in 1 .. l
        BY <2>1
      <3>2. i + 1 \in 1 .. l
        BY <2>1, <2>4, <3>1
      <3>3. i + 1 \in DOMAIN b
        BY <2>1, <3>2, Zenon
      <3> QED BY <1>0, <1>1, <2>2, <2>4, <3>3 DEF IsLast, l, w
    <2> QED BY <2>3, <2>4
  <1>5. \A k, j \in DOMAIN v : k < j => v[k].t < v[j].t
    BY <1>0, <1>2 DEF IsCoalesced
  <1>6. ASSUME NEW k \in DOMAIN v PROVE \E i \in DOMAIN u : IsLast(u, i) /\ v[k] = u[i]
    <2>1. PICK i \in DOMAIN b : IsLast(b, i) /\ m[k] = b[i]
      BY <1>0 DEF IsCoalesced
    <2>2. IsLast(u, i)
      BY <1>4, <2>1
    <2> QED BY <1>0, <2>1, <2>2
  <1>7. ASSUME NEW i \in DOMAIN u, IsLast(u, i) PROVE \E k \in DOMAIN v : v[k] = u[i]
    <2>1. IsLast(b, i) /\ i \in DOMAIN b
      BY <1>0, <1>4, <1>7
    <2>2. PICK k \in DOMAIN m : m[k] = b[i]
      BY <2>1 DEF IsCoalesced
    <2> QED BY <1>0, <2>1, <2>2
  <1> QED BY <1>0, <1>3, <1>5, <1>6, <1>7 DEF IsCoalesced

-----------------------------------------------------------------------------
(* The bars and decisions of a frame *)

RawEnd == IF raw = << >> THEN 0 ELSE raw[Len(raw)].bar.t

\* The objects of the first Closed days have been folded in full.
Closed == IF phase = "clock" THEN Len(objects) - 1 ELSE Len(objects)

\* The bars r of a day partition its trades in clock order.
DayDone(r, o) ==
    LET own == {i \in DOMAIN r : r[i].day = o.day}
    IN /\ UNION {ToSet(r[i].bar.members) : i \in own} = o.trades
       /\ \A i, j \in own : \A k \in DOMAIN r[i].bar.members, l \in DOMAIN r[j].bar.members :
              i < j \/ (i = j /\ k < l)
                 => TradeBefore(r[i].bar.members[k], r[j].bar.members[l])

RawInv ==
    /\ Sequence(raw) /\ Timed(BarTimes(raw))
    /\ \A i \in DOMAIN raw : Knowable(raw[i].bar) /\ raw[i].bar.t <= clock.watermark

DaysInv ==
    /\ \A i \in DOMAIN raw : \E j \in 1 .. Closed : raw[i].day = objects[j].day
    /\ \A j \in 1 .. Closed : DayDone(raw, objects[j])

\* The clock of the open day has seen its first trades.
DayInv ==
    phase = "clock" =>
        LET trades == objects[at].trades
        IN /\ queue \subseteq trades
           /\ CausalClock(clock, RawEnd, trades \ queue)
           /\ \A u \in trades \ queue, v \in queue : TradeBefore(u, v)

\* What was decided, with the decision held back, coalesces every bar; without
\* one the last bar's time is the segment's last.
HeldInv ==
    /\ carry # << >> => Len(carry) = 1
    /\ carry = << >> /\ raw # << >> => lastT = RawEnd
    /\ IsCoalesced(EntryTimes(decided) \o BarTimes(carry), BarTimes(raw))

CausalInv == phase \notin {"failed", "misfed"} => RawInv /\ DaysInv /\ DayInv /\ HeldInv

LEMMA EmptyTimes ==
    /\ BarTimes(<< >>) = << >> /\ EntryTimes(<< >>) = << >> /\ << >> \o << >> = << >>
    /\ Timed(<< >>) /\ IsCoalesced(<< >>, << >>)
  <1>1. BarTimes(<< >>) = << >> /\ EntryTimes(<< >>) = << >> /\ << >> \o << >> = << >>
    BY DEF BarTimes, EntryTimes
  <1>2. Timed(<< >>) /\ IsCoalesced(<< >>, << >>)
    BY EmptySequence DEF Timed, IsCoalesced
  <1> QED BY <1>1, <1>2

LEMMA RawEndIs ==
    ASSUME RawInv, ClockOK(clock)
    PROVE  /\ RawEnd \in Nat /\ RawEnd <= clock.watermark
           /\ \A i \in DOMAIN raw : raw[i].bar.t \in Nat /\ raw[i].bar.t <= RawEnd
           /\ Len(raw) \in Nat /\ DOMAIN raw = 1 .. Len(raw)
           /\ raw # << >> => Len(raw) \in DOMAIN raw
  <1> DEFINE b == BarTimes(raw)
             l == Len(raw)
  <1>1. /\ l \in Nat /\ DOMAIN raw = 1 .. l /\ DOMAIN b = 1 .. l
        /\ \A i \in DOMAIN raw : b[i] = [day |-> raw[i].day, t |-> raw[i].bar.t]
        /\ raw # << >> => l # 0
    BY TimesAre, SequenceFacts DEF RawInv
  <1>2. Timed(b)
    BY DEF RawInv
  <1> HIDE DEF b, l
  <1>3. \A i \in DOMAIN raw : b[i].t = raw[i].bar.t
    BY <1>1
  <1>4. \A i \in DOMAIN raw : raw[i].bar.t \in Nat
    BY <1>1, <1>2, <1>3 DEF Timed
  <1>5. \A i, j \in DOMAIN raw : i <= j => raw[i].bar.t <= raw[j].bar.t
    BY <1>1, <1>2, <1>3 DEF Timed
  <1>6. CASE raw = << >>
    <2>1. DOMAIN raw = {}
      BY <1>6, EmptySequence
    <2>2. RawEnd = 0 /\ clock.watermark \in Nat
      BY <1>6 DEF RawEnd, ClockOK
    <2> QED BY <1>1, <1>6, <2>1, <2>2 DEF l
  <1>7. CASE raw # << >>
    <2>1. l \in DOMAIN raw /\ \A i \in DOMAIN raw : i <= l
      BY <1>1, <1>7
    <2>2. RawEnd = raw[l].bar.t
      BY <1>7 DEF RawEnd, l
    <2> QED BY <1>1, <1>4, <1>5, <2>1, <2>2 DEF RawInv, l
  <1> QED BY <1>6, <1>7

LEMMA CausalInvInit == ASSUME FrameAssumption, Init PROVE CausalInv
  <1>1. /\ objects = << >> /\ phase = "open" /\ carry = << >> /\ raw = << >> /\ decided = << >>
    BY DEF Init
  <1>2. Closed = 0 /\ 1 .. 0 = {} /\ DOMAIN raw = {}
    BY <1>1, EmptySequence DEF Closed
  <1>3. RawInv
    BY <1>1, <1>2, EmptyTimes, EmptySequence DEF RawInv
  <1>4. DaysInv /\ DayInv
    BY <1>1, <1>2 DEF DaysInv, DayInv
  <1>5. HeldInv
    BY <1>1, EmptyTimes DEF HeldInv
  <1> QED BY <1>3, <1>4, <1>5 DEF CausalInv

LEMMA CausalOpenDay ==
    ASSUME FrameAssumption, FrameInv, CausalInv, OpenDay
    PROVE  CausalInv'
  <1>1. PICK ts \in Trades, snap \in Snapshots, deltas \in Deltas :
          LET o == [day |-> Day, trades |-> ToSet(Shifted(ts, Day)), snap |-> Shifted(snap, Day),
                    deltas |-> Shifted(deltas, Day)]
          IN /\ objects' = Append(objects, o)
             /\ queue' = o.trades
             /\ IF /\ WellFormed(o.snap, o.deltas, DayOpen(Day), DayEnd(Day))
                   /\ ThresholdFor(history, Day).num > 0
                THEN phase' = "clock" ELSE Fail
    BY DEF OpenDay
  <1> DEFINE o == [day |-> Day, trades |-> ToSet(Shifted(ts, Day)), snap |-> Shifted(snap, Day),
                   deltas |-> Shifted(deltas, Day)]
  <1>2. /\ objects' = Append(objects, o) /\ queue' = o.trades
        /\ phase' = "clock" \/ phase' = "failed"
    BY <1>1 DEF Fail
  <1> HIDE DEF o
  <1>3. /\ phase = "open" /\ clock' = NewClock(Day, clock.watermark)
        /\ at' = at /\ carry' = carry /\ decided' = decided /\ lastT' = lastT /\ raw' = raw
    BY DEF OpenDay
  <1>4. /\ days \in DayLists /\ at \in DOMAIN days /\ Sequence(objects) /\ Len(objects) = at - 1
        /\ ClockOK(clock)
    BY <1>3 DEF FrameInv, ObjectsInv, OpenClockInv
  <1>5. Day \in Nat /\ at \in Nat
    BY <1>4, DaysFacts DEF Day
  <1>6. SUFFICES ASSUME phase' = "clock" PROVE CausalInv'
    BY <1>2 DEF CausalInv
  <1>7. RawInv /\ DaysInv /\ HeldInv
    BY <1>3 DEF CausalInv
  <1>8. /\ DOMAIN objects = 1 .. at - 1 /\ Len(objects') = at /\ objects'[at] = o
        /\ \A j \in 1 .. at - 1 : objects'[j] = objects[j]
    <2>1. /\ Len(objects') = Len(objects) + 1 /\ objects'[Len(objects) + 1] = o
          /\ DOMAIN objects = 1 .. Len(objects)
          /\ \A j \in 1 .. Len(objects) : objects'[j] = objects[j]
      BY <1>2, <1>4, Appending, SequenceFacts
    <2>2. Len(objects) + 1 = at
      BY <1>4, <1>5
    <2> QED BY <1>4, <2>1, <2>2
  <1>9. Closed = at - 1 /\ Closed' = at - 1
    BY <1>3, <1>4, <1>6, <1>8 DEF Closed
  <1>10. clock'.watermark = clock.watermark /\ clock'.bars = << >> /\ clock'.members = << >>
    BY <1>3 DEF NewClock
  <1>11. RawInv'
    BY <1>3, <1>7, <1>10 DEF RawInv
  <1>12. DaysInv'
    <2>1. \A j \in 1 .. Closed : objects'[j] = objects[j]
      BY <1>8, <1>9
    <2>2. \A i \in DOMAIN raw : \E j \in 1 .. Closed : raw[i].day = objects'[j].day
      BY <1>7, <2>1 DEF DaysInv
    <2>3. \A j \in 1 .. Closed : DayDone(raw, objects'[j])
      BY <1>7, <2>1 DEF DaysInv
    <2> QED BY <1>3, <1>9, <2>2, <2>3 DEF DaysInv
  <1>13. HeldInv'
    BY <1>3, <1>7 DEF HeldInv, RawEnd
  <1>14. DayInv'
    <2>1. ClockOK(clock')
      <3>1. clock.watermark \in Nat
        BY <1>4 DEF ClockOK
      <3> QED BY <1>3, <1>5, <3>1, NewClockIs
    <2>2. RawEnd' = RawEnd /\ RawEnd \in Nat /\ RawEnd <= clock'.watermark
      BY <1>3, <1>4, <1>7, <1>10, RawEndIs DEF RawEnd
    <2>3. DOMAIN clock'.bars = {}
      BY <1>10, EmptySequence
    <2>4. Spread(Parts(clock')) = {} /\ Ordered(Parts(clock'))
      <3> DEFINE p == Parts(clock')
      <3>1. DOMAIN p = 1 .. 0 + 1 /\ p[0 + 1] = << >>
        BY <1>10, EmptySequence, PartsAre
      <3>2. DOMAIN p = {1} /\ p[1] = << >>
        BY <3>1
      <3> HIDE DEF p
      <3>3. Spread(p) = {} /\ Ordered(p)
        BY <3>2, EmptySequence DEF Spread, Ordered, ToSet
      <3> QED BY <3>3 DEF p
    <2>5. CausalClock(clock', RawEnd', {})
      BY <2>1, <2>2, <2>3, <2>4 DEF CausalClock
    <2>6. queue' = objects'[at'].trades
      BY <1>2, <1>3, <1>8
    <2>7. objects'[at'].trades \ queue' = {}
      BY <2>6
    <2> HIDE DEF CausalClock
    <2> QED BY <2>5, <2>6, <2>7 DEF DayInv
  <1> QED BY <1>11, <1>12, <1>13, <1>14 DEF CausalInv

LEMMA CausalPushTrade ==
    ASSUME FrameAssumption, FrameInv, CausalInv, PushTrade
    PROVE  CausalInv'
  <1>1. PICK m \in queue : /\ \A u \in queue \ {m} : TradeBefore(m, u)
                          /\ clock' = Push(clock, m, cap, ThresholdFor(history, Day))
                          /\ queue' = queue \ {m}
    BY DEF PushTrade
  <1>2. /\ phase = "clock" /\ phase' = phase /\ at' = at /\ objects' = objects /\ raw' = raw
        /\ carry' = carry /\ decided' = decided /\ lastT' = lastT
    BY DEF PushTrade, inputVars
  <1>3. cap \in Nat \ {0} /\ IsTrade(m)
    BY DEF FrameInv, ObjectsInv, OpenClockInv, FrameAssumption
  <1>4. RawInv /\ DaysInv /\ DayInv /\ HeldInv
    BY <1>2 DEF CausalInv
  <1> DEFINE trades == objects[at].trades
             S == trades \ queue
  <1>5. /\ queue \subseteq trades /\ CausalClock(clock, RawEnd, S)
        /\ \A u \in S, v \in queue : TradeBefore(u, v)
    BY <1>2, <1>4 DEF DayInv
  <1>6. trades \ queue' = S \cup {m}
    BY <1>1, <1>5
  <1> HIDE DEF trades, S
  <1>7. CausalClock(clock', RawEnd, S \cup {m})
    <2>1. \A u \in S : TradeBefore(u, m)
      BY <1>5
    <2> QED BY <1>1, <1>3, <1>5, <2>1, PushCausal
  <1>8. RawEnd' = RawEnd
    BY <1>2 DEF RawEnd
  <1>9. RawInv'
    <2>1. RawEnd <= clock'.watermark /\ clock'.watermark \in Nat /\ RawEnd \in Nat
      BY <1>7 DEF CausalClock, ClockOK
    <2>2. \A i \in DOMAIN raw : raw[i].bar.t \in Nat /\ raw[i].bar.t <= RawEnd
      BY <1>4, RawEndIs DEF FrameInv, OpenClockInv
    <2>3. \A i \in DOMAIN raw : raw[i].bar.t <= clock'.watermark
      BY <2>1, <2>2
    <2> QED BY <1>2, <1>4, <2>3 DEF RawInv
  <1>10. DaysInv' /\ HeldInv'
    BY <1>2, <1>4, <1>8 DEF DaysInv, HeldInv, Closed
  <1>11. DayInv'
    <2>1. objects'[at'].trades = trades
      BY <1>2 DEF trades
    <2>2. queue' \subseteq trades
      BY <1>1, <1>5
    <2>3. \A u \in S \cup {m}, v \in queue' : TradeBefore(u, v)
      BY <1>1, <1>5
    <2> QED BY <1>6, <1>7, <1>8, <2>1, <2>2, <2>3 DEF DayInv
  <1> QED BY <1>9, <1>10, <1>11 DEF CausalInv

\* The bars of a closed day, put after those of the days before.
LEMMA CloseRaw ==
    ASSUME FrameAssumption, FrameInv, CausalInv, phase = "clock",
           NEW c, CausalClock(c, RawEnd, objects[at].trades), c.members = << >>,
           NEW nb, Sequence(nb), DOMAIN nb = DOMAIN c.bars,
           \A i \in DOMAIN c.bars : nb[i] = [day |-> Day, bar |-> c.bars[i]]
    PROVE  LET r == raw \o nb
           IN /\ Timed(c.bars) /\ Timed(BarTimes(nb))
              /\ \A i \in DOMAIN c.bars : BarTimes(nb)[i] = [day |-> Day, t |-> c.bars[i].t]
              /\ Sequence(r) /\ Timed(BarTimes(r))
              /\ \A i \in DOMAIN r : Knowable(r[i].bar) /\ r[i].bar.t <= c.watermark
              /\ \A i \in DOMAIN r : \E j \in 1 .. at : r[i].day = objects[j].day
              /\ \A j \in 1 .. at : DayDone(r, objects[j])
  <1> DEFINE r == raw \o nb
             l == Len(raw)
             w == Len(c.bars)
             trades == objects[at].trades
  <1>1. RawInv /\ DaysInv
    BY DEF CausalInv
  <1>2. /\ at \in Nat /\ Len(objects) = at /\ Closed = at - 1 /\ at \in 1 .. at /\ Day = objects[at].day
        /\ \A i, j \in 1 .. at : i # j => objects[i].day # objects[j].day
    <2>1. /\ days \in DayLists /\ at \in DOMAIN days /\ Sequence(objects) /\ Len(objects) = at
          /\ \A j \in DOMAIN objects : j \in DOMAIN days /\ objects[j].day = days[j]
      BY DEF FrameInv, ObjectsInv
    <2>2. /\ Len(days) \in Nat /\ DOMAIN days = 1 .. Len(days) /\ \A i \in DOMAIN days : days[i] \in Nat
          /\ \A i, j \in DOMAIN days : i < j => days[i] < days[j]
      BY <2>1, DaysFacts
    <2>3. DOMAIN objects = 1 .. at /\ at \in Nat /\ at \in 1 .. at
      BY <2>1, <2>2, SequenceFacts
    <2>4. ASSUME NEW i \in 1 .. at, NEW j \in 1 .. at, i # j PROVE objects[i].day # objects[j].day
      <3>1. i \in DOMAIN days /\ j \in DOMAIN days /\ objects[i].day = days[i] /\ objects[j].day = days[j]
        BY <2>1, <2>3
      <3>2. i < j \/ j < i
        BY <2>4
      <3>3. days[i] \in Nat /\ days[j] \in Nat /\ (i < j => days[i] < days[j]) /\ (j < i => days[j] < days[i])
        BY <2>2, <3>1
      <3> QED BY <3>1, <3>2, <3>3
    <2> QED BY <2>1, <2>3, <2>4 DEF Day, Closed
  <1>3. /\ Sequence(raw) /\ l \in Nat /\ DOMAIN raw = 1 .. l
        /\ \A i \in DOMAIN raw : raw[i].bar.t \in Nat /\ raw[i].bar.t <= RawEnd
        /\ RawEnd \in Nat
    BY <1>1, RawEndIs DEF FrameInv, OpenClockInv, RawInv
  <1>4. /\ ClockOK(c) /\ RawEnd <= c.watermark /\ c.watermark \in Nat /\ IsBars(c.bars)
        /\ \A i \in DOMAIN c.bars : RawEnd <= c.bars[i].t /\ Knowable(c.bars[i])
        /\ \A i \in DOMAIN c.bars : c.bars[i].t <= c.watermark
        /\ Spread(Parts(c)) = trades /\ Ordered(Parts(c))
    BY DEF CausalClock, ClockOK
  <1>5. Sequence(c.bars) /\ w \in Nat /\ DOMAIN c.bars = 1 .. w
    BY <1>4, SequenceFacts DEF IsBars
  <1> HIDE DEF l, w, trades
  <1>6. /\ DOMAIN nb = 1 .. w /\ Sequence(nb) /\ Len(nb) = w
        /\ \A i \in 1 .. w : nb[i] = [day |-> Day, bar |-> c.bars[i]]
    <2>1. DOMAIN nb = 1 .. w /\ \A i \in 1 .. w : nb[i] = [day |-> Day, bar |-> c.bars[i]]
      BY <1>5
    <2> DEFINE x == Len(nb)
    <2>2. x \in Nat /\ DOMAIN nb = 1 .. x
      BY SequenceFacts
    <2> HIDE DEF x
    <2>3. x = w
      <3>1. 1 .. x = 1 .. w
        BY <2>1, <2>2
      <3> QED BY <1>5, <2>2, <3>1
    <2> QED BY <2>1, <2>3 DEF x
  <1>7. /\ Sequence(r) /\ DOMAIN r = 1 .. l + w
        /\ \A i \in 1 .. l : r[i] = raw[i]
        /\ \A i \in 1 .. w : r[l + i] = [day |-> Day, bar |-> c.bars[i]]
    <2>1. /\ Sequence(r) /\ DOMAIN r = 1 .. Len(raw) + Len(nb)
          /\ \A i \in 1 .. Len(raw) : r[i] = raw[i]
          /\ \A i \in 1 .. Len(nb) : r[Len(raw) + i] = nb[i]
      <3>1. Sequence(raw) /\ Sequence(nb)
        BY <1>3
      <3> QED BY <3>1, Concatenating
    <2> HIDE DEF r
    <2> QED BY <1>6, <2>1 DEF l
  <1>8. \A i \in DOMAIN c.bars : BarTimes(nb)[i] = [day |-> Day, t |-> c.bars[i].t]
    <2>1. \A i \in DOMAIN nb : BarTimes(nb)[i] = [day |-> nb[i].day, t |-> nb[i].bar.t]
      BY <1>6, TimesAre
    <2>2. \A i \in DOMAIN c.bars : nb[i].day = Day /\ nb[i].bar = c.bars[i]
      BY <1>5, <1>6
    <2> QED BY <2>1, <2>2
  <1>9. Timed(c.bars)
    BY <1>4 DEF IsBars, IsBar, Timed
  <1>10. Timed(BarTimes(nb))
    <2>1. Sequence(BarTimes(nb)) /\ DOMAIN BarTimes(nb) = DOMAIN c.bars
      BY <1>5, <1>6, TimesAre
    <2>2. \A i \in DOMAIN c.bars : BarTimes(nb)[i].t = c.bars[i].t
      <3> DEFINE f == BarTimes(nb)
      <3>1. \A i \in DOMAIN c.bars : f[i] = [day |-> Day, t |-> c.bars[i].t]
        BY <1>8
      <3> HIDE DEF f
      <3>2. ASSUME NEW i \in DOMAIN c.bars PROVE f[i].t = c.bars[i].t
        <4>1. f[i] = [day |-> Day, t |-> c.bars[i].t]
          BY <3>1
        <4> QED BY <4>1
      <3> QED BY <3>2 DEF f
    <2> QED BY <1>9, <2>1, <2>2 DEF Timed
  <1>11. Timed(BarTimes(r))
    <2>1. Timed(BarTimes(raw))
      BY <1>1 DEF RawInv
    <2>2. \A i \in DOMAIN BarTimes(raw), j \in DOMAIN BarTimes(nb) :
             BarTimes(raw)[i].t <= BarTimes(nb)[j].t
      <3> TAKE i \in DOMAIN BarTimes(raw), j \in DOMAIN BarTimes(nb)
      <3>1. i \in DOMAIN raw /\ BarTimes(raw)[i].t = raw[i].bar.t
        <4>1. /\ DOMAIN BarTimes(raw) = DOMAIN raw
              /\ \A k \in DOMAIN raw : BarTimes(raw)[k] = [day |-> raw[k].day, t |-> raw[k].bar.t]
          BY <1>3, TimesAre
        <4> QED BY <4>1
      <3>2. j \in DOMAIN c.bars /\ BarTimes(nb)[j].t = c.bars[j].t
        <4>1. DOMAIN BarTimes(nb) = DOMAIN nb
          BY <1>6, TimesAre
        <4> QED BY <1>5, <1>6, <1>8, <4>1
      <3>3. raw[i].bar.t \in Nat /\ raw[i].bar.t <= RawEnd /\ RawEnd <= c.bars[j].t
            /\ c.bars[j].t \in Nat /\ RawEnd \in Nat
        BY <1>3, <1>4, <1>9, <3>1, <3>2 DEF Timed
      <3>4. raw[i].bar.t <= c.bars[j].t
        BY <3>3
      <3> QED BY <3>1, <3>2, <3>4
    <2>3. Timed(BarTimes(raw) \o BarTimes(nb))
      BY <1>10, <2>1, <2>2, JoinTimed
    <2> QED BY <1>3, <1>6, <2>3, TimesOfTwo
  <1> HIDE DEF r
  <1>12. \A i \in DOMAIN r : \/ i \in 1 .. l /\ r[i] = raw[i]
                             \/ /\ i - l \in 1 .. w /\ l + (i - l) = i
                                /\ r[i] = [day |-> Day, bar |-> c.bars[i - l]]
    <2> TAKE i \in DOMAIN r
    <2>1. CASE i \in 1 .. l
      BY <1>7, <2>1
    <2>2. CASE i \notin 1 .. l
      <3> DEFINE k == i - l
      <3>1. k \in 1 .. w /\ l + k = i
        BY <1>3, <1>5, <1>7, <2>2
      <3> HIDE DEF k
      <3>2. r[l + k] = [day |-> Day, bar |-> c.bars[k]]
        BY <1>7, <3>1
      <3> QED BY <3>1, <3>2 DEF k
    <2> QED BY <2>1, <2>2
  <1>13. \A i \in DOMAIN r : Knowable(r[i].bar) /\ r[i].bar.t <= c.watermark
    <2> TAKE i \in DOMAIN r
    <2>1. CASE i \in 1 .. l /\ r[i] = raw[i]
      <3>1. raw[i].bar.t \in Nat /\ raw[i].bar.t <= RawEnd /\ Knowable(raw[i].bar)
        BY <1>1, <1>3, <2>1 DEF RawInv
      <3>2. raw[i].bar.t <= c.watermark
        BY <1>3, <1>4, <3>1
      <3> QED BY <2>1, <3>1, <3>2
    <2>2. CASE i - l \in 1 .. w /\ r[i] = [day |-> Day, bar |-> c.bars[i - l]]
      <3>1. r[i].bar = c.bars[i - l] /\ i - l \in DOMAIN c.bars
        BY <1>5, <2>2
      <3> QED BY <1>4, <3>1
    <2> QED BY <1>12, <2>1, <2>2
  <1>14. \A i \in DOMAIN r : \E j \in 1 .. at : r[i].day = objects[j].day
    <2> TAKE i \in DOMAIN r
    <2>1. CASE i \in 1 .. l /\ r[i] = raw[i]
      <3>1. PICK j \in 1 .. at - 1 : raw[i].day = objects[j].day
        BY <1>1, <1>2, <1>3, <2>1 DEF DaysInv
      <3>2. j \in 1 .. at
        BY <1>2, <3>1
      <3> QED BY <2>1, <3>1, <3>2
    <2>2. CASE r[i] = [day |-> Day, bar |-> c.bars[i - l]]
      BY <1>2, <2>2
    <2> QED BY <1>12, <2>1, <2>2
  <1>15. ASSUME NEW j \in 1 .. at, j # at PROVE DayDone(r, objects[j])
    <2> DEFINE o == objects[j]
               own == {i \in DOMAIN raw : raw[i].day = o.day}
    <2>1. j \in 1 .. at - 1
      BY <1>2, <1>15
    <2>2. DayDone(raw, o)
      BY <1>1, <1>2, <2>1 DEF DaysInv
    <2>3. Day # o.day
      BY <1>2, <1>15
    <2>4. \A i \in DOMAIN raw : i \in DOMAIN r /\ r[i] = raw[i]
      BY <1>3, <1>5, <1>7
    <2>5. \A i \in DOMAIN r : r[i].day = o.day => i \in DOMAIN raw
      BY <1>3, <1>12, <2>3
    <2> HIDE DEF o
    <2>6. own = {i \in DOMAIN r : r[i].day = o.day}
      BY <2>4, <2>5
    <2>7. \A i \in own : r[i] = raw[i]
      BY <2>4
    <2> HIDE DEF own
    <2>8. {ToSet(r[i].bar.members) : i \in own} = {ToSet(raw[i].bar.members) : i \in own}
      BY <2>7
    <2> QED BY <2>2, <2>6, <2>7, <2>8 DEF DayDone, o, own
  <1>16. DayDone(r, objects[at])
    <2> DEFINE own == {i \in DOMAIN r : r[i].day = objects[at].day}
               p == Parts(c)
    <2>1. \A i \in DOMAIN raw : raw[i].day # Day
      <3> TAKE i \in DOMAIN raw
      <3>1. PICK j \in 1 .. at - 1 : raw[i].day = objects[j].day
        BY <1>1, <1>2 DEF DaysInv
      <3>2. j \in 1 .. at /\ j # at
        BY <1>2, <3>1
      <3> QED BY <1>2, <3>1, <3>2
    <2>2. /\ DOMAIN p = 1 .. w + 1 /\ \A k \in 1 .. w : p[k] = c.bars[k].members
          /\ p[w + 1] = << >>
      BY <1>5, PartsAre DEF w
    <2> HIDE DEF p
    <2>3. ASSUME NEW i \in own
          PROVE  i - l \in DOMAIN p /\ i \in Int /\ r[i].bar.members = p[i - l]
      <3>1. i \notin 1 .. l \/ r[i] # raw[i]
        BY <1>2, <1>3, <2>1
      <3>2. /\ i - l \in 1 .. w /\ l + (i - l) = i
            /\ r[i] = [day |-> Day, bar |-> c.bars[i - l]]
        BY <1>12, <3>1
      <3>3. i \in Int
        BY <1>7
      <3>4. i - l \in 1 .. w + 1
        BY <1>3, <1>5, <3>2
      <3> QED BY <2>2, <3>2, <3>3, <3>4
    <2>4. ASSUME NEW k \in 1 .. w PROVE l + k \in own /\ r[l + k].bar.members = p[k]
      <3>1. l + k \in DOMAIN r
        BY <1>3, <1>5, <1>7
      <3>2. r[l + k] = [day |-> Day, bar |-> c.bars[k]]
        BY <1>7
      <3>3. r[l + k].day = Day /\ r[l + k].bar.members = c.bars[k].members
        BY <3>2
      <3> QED BY <1>2, <2>2, <3>1, <3>3
    <2> HIDE DEF own
    <2>5. UNION {ToSet(r[i].bar.members) : i \in own} = trades
      <3>1. ASSUME NEW i \in own, NEW x \in ToSet(r[i].bar.members) PROVE x \in trades
        BY <1>4, <2>3, <3>1 DEF Spread, p
      <3>2. ASSUME NEW x \in trades PROVE \E i \in own : x \in ToSet(r[i].bar.members)
        <4>1. PICK k \in DOMAIN p : x \in ToSet(p[k])
          BY <1>4, <3>2 DEF Spread, p
        <4>2. k # w + 1
          BY <2>2, <4>1, EmptySequence DEF ToSet
        <4>3. k \in 1 .. w
          BY <1>5, <2>2, <4>2
        <4> QED BY <2>4, <4>1, <4>3
      <3> QED BY <3>1, <3>2
    <2>6. ASSUME NEW i \in own, NEW j \in own, NEW k \in DOMAIN r[i].bar.members,
                 NEW h \in DOMAIN r[j].bar.members, i < j \/ (i = j /\ k < h)
          PROVE  TradeBefore(r[i].bar.members[k], r[j].bar.members[h])
      <3>1. /\ i - l \in DOMAIN p /\ r[i].bar.members = p[i - l] /\ i \in Int
            /\ j - l \in DOMAIN p /\ r[j].bar.members = p[j - l] /\ j \in Int
        BY <2>3
      <3>2. i - l < j - l \/ (i - l = j - l /\ k < h)
        BY <1>3, <2>6, <3>1
      <3>3. Ordered(p)
        BY <1>4 DEF p
      <3> QED BY <3>1, <3>2, <3>3 DEF Ordered
    <2> QED BY <2>5, <2>6 DEF DayDone, own, trades
  <1>17. \A j \in 1 .. at : DayDone(r, objects[j])
    BY <1>15, <1>16
  <1> QED BY <1>5, <1>6, <1>7, <1>8, <1>9, <1>10, <1>11, <1>13, <1>14, <1>17 DEF r

LEMMA FrontAndLast ==
    ASSUME NEW s, Sequence(s), s # << >>
    PROVE  /\ Sequence(Front(s)) /\ Sequence(<<Last(s)>>) /\ s = Front(s) \o <<Last(s)>>
           /\ Len(Front(s)) = Len(s) - 1 /\ Len(<<Last(s)>>) = 1
  <1> DEFINE l == Len(s)
             f == Front(s)
             x == Last(s)
             g == <<x>>
  <1>1. l \in Nat /\ l # 0 /\ DOMAIN s = 1 .. l
    BY SequenceFacts
  <1>2. x = s[l]
    BY DEF Last
  <1>3. Sequence(f) /\ Len(f) = l - 1 /\ \A k \in 1 .. l - 1 : f[k] = s[k]
    <2>1. PICK S : s \in Seq(S)
      BY DEF Sequence
    <2>2. f = SubSeq(s, 1, l - 1)
      BY DEF Front
    <2>3. f \in Seq(S) /\ Len(f) = l - 1 /\ \A k \in 1 .. l - 1 : f[k] = s[k]
      BY <1>1, <2>1, <2>2
    <2> QED BY <2>3 DEF Sequence
  <1> HIDE DEF f, x
  <1>4. Sequence(g) /\ Len(g) = 1 /\ g[1] = x
    <2>1. g \in Seq({x}) /\ Len(g) = 1 /\ g[1] = x
      OBVIOUS
    <2> QED BY <2>1 DEF Sequence
  <1> HIDE DEF g, l
  <1>5. Joins(s, f, g)
    <2>1. Len(s) = Len(f) + Len(g)
      BY <1>1, <1>3, <1>4 DEF l
    <2>2. \A i \in 1 .. Len(f) : s[i] = f[i]
      BY <1>3
    <2>3. \A i \in 1 .. Len(g) : s[Len(f) + i] = g[i]
      <3>1. \A i \in 1 .. 1 : i = 1
        OBVIOUS
      <3>2. (l - 1) + 1 = l
        BY <1>1
      <3> QED BY <1>2, <1>3, <1>4, <3>1, <3>2
    <2> QED BY <1>3, <1>4, <2>1, <2>2, <2>3 DEF Joins
  <1>6. s = f \o g
    BY <1>5, Pieces
  <1> QED BY <1>3, <1>4, <1>6 DEF f, g, x, l

\* The bars cb come after every bar so far.
Follow(cb) ==
    /\ IsBars(cb) /\ Timed(cb)
    /\ \A i \in DOMAIN raw, j \in DOMAIN cb : raw[i].bar.t <= cb[j].t

Sequences4(m, g, f, x) == Sequence(m) /\ Sequence(g) /\ Sequence(f) /\ Sequence(x)

LEMMA Regrouping ==
    ASSUME NEW m, NEW g, NEW f, NEW x, Sequences4(m, g, f, x)
    PROVE  (m \o (g \o f)) \o x = (m \o g) \o (f \o x)
  <1>0. Sequence(m) /\ Sequence(g) /\ Sequence(f) /\ Sequence(x)
    BY DEF Sequences4
  <1>1. Sequence(m \o g)
    BY <1>0, Concatenating
  <1>2. (m \o g) \o f = m \o (g \o f)
    BY <1>0, Associating
  <1> DEFINE mg == m \o g
  <1> HIDE DEF mg
  <1>3. (mg \o f) \o x = mg \o (f \o x)
    BY <1>0, <1>1, Associating DEF mg
  <1> QED BY <1>2, <1>3, Zenon DEF mg

\* The decisions of a closed day carry on those of the days before.
LEMMA CloseHeld ==
    ASSUME FrameAssumption, FrameInv, CausalInv, phase = "clock",
           NEW cb, Follow(cb), NEW nb, Sequence(nb), OnDay(BarTimes(nb), cb, Day),
           Coalesce(cb) # << >>, ~ (lastT # None /\ Head(Coalesce(cb)).t <= lastT)
    PROVE  LET bars == Coalesce(cb)
               es == Decisions(bars)
               held == IF Superseded(bars) THEN << >> ELSE carry
               st == ClassifyAll(held \o Front(es))
           IN IsCoalesced(EntryTimes(st.decided) \o BarTimes(<<Last(es)>>), BarTimes(raw \o nb))
  <1> DEFINE bars == Coalesce(cb)
             es == Decisions(bars)
             held == IF Superseded(bars) THEN << >> ELSE carry
             front == Front(es)
             tail == <<Last(es)>>
             all == held \o front
             b == BarTimes(raw)
             d == BarTimes(nb)
             m == EntryTimes(decided)
             h == BarTimes(carry)
             e == BarTimes(es)
             g == BarTimes(held)
             f == BarTimes(front)
             x == BarTimes(tail)
  <1>0. /\ IsBars(cb) /\ Timed(cb)
        /\ \A i \in DOMAIN raw, j \in DOMAIN cb : raw[i].bar.t <= cb[j].t
    BY DEF Follow
  <1>1. RawInv /\ HeldInv
    BY DEF CausalInv
  <1>2. Sequence(carry) /\ Sequence(decided) /\ Sequence(raw)
    BY <1>1 DEF FrameInv, DecidedInv, AreDecisions, EntriesMade, RawInv
  <1>3. /\ Sequence(bars) /\ \A k \in DOMAIN bars : IsBar(bars[k])
        /\ \A k, j \in DOMAIN bars : k < j => bars[k].t < bars[j].t
    BY <1>0, CoalesceIs
  <1>4. IsCoalesced(bars, cb)
    BY <1>0, CoalescedIs
  <1>5. bars # << >> /\ ~ (lastT # None /\ Head(bars).t <= lastT)
    OBVIOUS
  <1> HIDE DEF bars
  <1>6. Len(bars) \in Nat /\ Len(bars) # 0 /\ DOMAIN bars = 1 .. Len(bars) /\ 1 \in DOMAIN bars
    BY <1>3, <1>5, SequenceFacts
  <1>7. cb # << >> /\ 1 \in DOMAIN cb /\ bars[1].t = cb[1].t
    <2>1. cb # << >>
      <3>1. PICK i \in DOMAIN cb : bars[1] = cb[i]
        BY <1>4, <1>6 DEF IsCoalesced
      <3> QED BY <3>1, EmptySequence
    <2> QED BY <1>0, <1>4, <2>1, FirstCoalesced
  <1>8. /\ Sequence(es) /\ DOMAIN es = DOMAIN bars
        /\ \A k \in DOMAIN bars : es[k].bar = bars[k] /\ es[k].day = Day
    BY <1>3, DecisionsAre DEF FrameInv
  <1> HIDE DEF es
  <1>9. es # << >>
    BY <1>6, <1>8, EmptySequence
  <1>10. /\ Sequence(e) /\ DOMAIN e = DOMAIN bars
         /\ \A k \in DOMAIN bars : e[k] = [day |-> Day, t |-> bars[k].t]
    <2>1. /\ Sequence(e) /\ DOMAIN e = DOMAIN es
          /\ \A k \in DOMAIN es : e[k] = [day |-> es[k].day, t |-> es[k].bar.t]
      BY <1>8, TimesAre
    <2> HIDE DEF e
    <2> QED BY <1>8, <2>1
  <1>11. /\ Sequence(d) /\ DOMAIN d = DOMAIN cb
         /\ \A i \in DOMAIN cb : d[i] = [day |-> Day, t |-> cb[i].t]
    BY DEF OnDay
  <1>12. OnDay(d, cb, Day)
    OBVIOUS
  <1>13. Timed(b)
    BY <1>1 DEF RawInv
  <1>14. /\ DOMAIN b = DOMAIN raw
         /\ \A i \in DOMAIN raw : b[i] = [day |-> raw[i].day, t |-> raw[i].bar.t]
    BY <1>2, TimesAre
  <1>15. /\ Sequence(h) /\ Len(h) = Len(carry)
         /\ \A k \in DOMAIN carry : h[k] = [day |-> carry[k].day, t |-> carry[k].bar.t]
    BY <1>2, TimesAre
  <1>16. Sequence(m)
    BY <1>2, TimesAre
  <1>17. Sequence(front) /\ Sequence(tail) /\ es = front \o tail
    BY <1>8, <1>9, FrontAndLast
  <1>18. Sequence(held)
    BY <1>2, EmptySequence
  <1>19. held = IF carry # << >> /\ bars[1].t = carry[1].bar.t THEN << >> ELSE carry
    BY DEF Superseded
  <1>20. e = f \o x /\ Sequence(f) /\ Sequence(x) /\ Sequence(g)
    BY <1>17, <1>18, TimesOfTwo, TimesAre
  <1>21. EntryTimes(ClassifyAll(all).decided) = m \o (g \o f)
    <2>1. Sequence(all)
      BY <1>17, <1>18, Concatenating
    <2>2. EntryTimes(ClassifyAll(all).decided) = m \o BarTimes(all)
      BY <1>2, <2>1, ClassifyAdds
    <2>3. BarTimes(all) = g \o f
      BY <1>17, <1>18, TimesOfTwo
    <2> QED BY <2>2, <2>3
  <1>22. BarTimes(raw \o nb) = b \o d
    BY <1>2, TimesOfTwo
  <1>23. g = IF carry # << >> /\ bars[1].t = carry[1].bar.t THEN << >> ELSE h
    <2> HIDE DEF held
    <2>1. CASE carry # << >> /\ bars[1].t = carry[1].bar.t
      BY <1>19, <2>1, EmptyTimes
    <2>2. CASE ~ (carry # << >> /\ bars[1].t = carry[1].bar.t)
      BY <1>19, <2>2
    <2> QED BY <2>1, <2>2
  <1>24. IsCoalesced(m \o h, b)
    BY <1>1 DEF HeldInv
  <1> HIDE DEF b, d, m, h, e, g, f, x, all, held, front, tail
  <1>25. Timed(d) /\ IsCoalesced(e, d)
    <2>1. OnDay(e, bars, Day)
      BY <1>10 DEF OnDay
    <2> QED BY <1>0, <1>4, <1>12, <2>1, ImageCoalesced
  <1>26. d # << >> /\ 1 \in DOMAIN d /\ d[1].t = cb[1].t /\ e[1].t = bars[1].t
    <2>1. d[1] = [day |-> Day, t |-> cb[1].t] /\ 1 \in DOMAIN d
      BY <1>7, <1>11
    <2>2. e[1] = [day |-> Day, t |-> bars[1].t]
      BY <1>6, <1>10
    <2> QED BY <2>1, <2>2, EmptySequence
  <1>27. \A i \in DOMAIN b : b[i].t <= d[1].t
    <2> TAKE i \in DOMAIN b
    <2>1. b[i].t = raw[i].bar.t /\ i \in DOMAIN raw
      BY <1>14
    <2>2. raw[i].bar.t <= cb[1].t
      BY <1>0, <1>7, <2>1
    <2> QED BY <1>26, <2>1, <2>2
  <1>28. h # << >> => Len(h) = 1
    <2>1. carry = << >> => Len(carry) = 0
      BY EmptySequence
    <2>2. Len(h) = 0 => h = << >>
      BY <1>15, SequenceFacts
    <2> QED BY <1>1, <1>15, <2>1, <2>2 DEF HeldInv
  <1>29. h = << >> <=> carry = << >>
    <2>1. Len(h) = 0 <=> h = << >>
      BY <1>15, SequenceFacts, EmptySequence
    <2>2. Len(carry) = 0 <=> carry = << >>
      BY <1>2, SequenceFacts, EmptySequence
    <2> QED BY <1>15, <2>1, <2>2
  <1>30. carry # << >> => h[1].t = carry[1].bar.t
    <2>1. ASSUME carry # << >> PROVE 1 \in DOMAIN carry
      <3> DEFINE w == Len(carry)
      <3>1. w = 1 /\ DOMAIN carry = 1 .. w
        BY <1>1, <1>2, <2>1, SequenceFacts DEF HeldInv
      <3> HIDE DEF w
      <3> QED BY <3>1
    <2>2. ASSUME carry # << >> PROVE h[1] = [day |-> carry[1].day, t |-> carry[1].bar.t]
      BY <1>15, <2>1, <2>2
    <2> QED BY <2>2
  <1>31. ASSUME h = << >> PROVE \A i \in DOMAIN b : b[i].t < d[1].t
    <2> TAKE i \in DOMAIN b
    <2>1. /\ i \in DOMAIN raw /\ b[i].t = raw[i].bar.t /\ raw # << >>
          /\ raw[i].bar.t \in Nat /\ raw[i].bar.t <= RawEnd /\ RawEnd \in Nat
      BY <1>1, <1>14, RawEndIs, EmptySequence DEF FrameInv, OpenClockInv
    <2>2. lastT = RawEnd
      BY <1>1, <1>29, <1>31, <2>1 DEF HeldInv
    <2>3. lastT # None
      BY <2>1, <2>2 DEF FrameAssumption
    <2>4. Head(bars) = bars[1] /\ bars[1].t \in Nat
      BY <1>3, <1>6 DEF IsBar
    <2>5. RawEnd < bars[1].t
      BY <1>5, <2>1, <2>2, <2>3, <2>4
    <2>6. raw[i].bar.t < bars[1].t
      BY <2>1, <2>4, <2>5
    <2> QED BY <1>7, <1>26, <2>1, <2>6
  <1>32. g = IF h # << >> /\ h[1].t = e[1].t THEN << >> ELSE h
    BY <1>23, <1>26, <1>29, <1>30
  <1>33. IsCoalesced((m \o g) \o e, b \o d)
    BY <1>13, <1>15, <1>16, <1>24, <1>25, <1>26, <1>27, <1>28, <1>31, <1>32, CarryOn
  <1>34. (m \o (g \o f)) \o x = (m \o g) \o e
    <2>1. Sequences4(m, g, f, x)
      BY <1>16, <1>20 DEF Sequences4
    <2>2. (m \o (g \o f)) \o x = (m \o g) \o (f \o x)
      BY <2>1, Regrouping
    <2>3. e = f \o x
      BY <1>20
    <2> QED BY <2>2, <2>3, Zenon
  <1> QED BY <1>21, <1>22, <1>33, <1>34 DEF all, held, front, tail, b, d, m, g, x, f, e, es, bars

LEMMA CausalCloseDay ==
    ASSUME FrameAssumption, FrameInv, CausalInv, CloseDay
    PROVE  CausalInv'
  <1> DEFINE closed == FinishClock(clock, cap, Day)
             cb == closed.bars
             bars == Coalesce(cb)
             es == Decisions(bars)
             held == IF Superseded(bars) THEN << >> ELSE carry
             st == ClassifyAll(held \o Front(es))
             nb == [i \in DOMAIN cb |-> [day |-> Day, bar |-> cb[i]]]
             r == raw \o nb
  <1>1. /\ phase = "clock" /\ queue = {} /\ objects' = objects /\ raw' = r
        /\ clock' = [closed EXCEPT !.bars = << >>]
        /\ IF bars = << >>
           THEN Advance /\ UNCHANGED <<carry, lastT, decided>>
           ELSE /\ carry' = <<Last(es)>> /\ decided' = st.decided
                /\ IF lastT # None /\ Head(bars).t <= lastT
                   THEN Fail /\ at' = at
                   ELSE IF st.broken \/ Regressed(bars) THEN Misfeed /\ at' = at ELSE Advance
    BY DEF CloseDay, inputVars
  <1>2. /\ Day \in Nat /\ cap \in Nat \ {0} /\ Len(objects) = at /\ ClockOK(clock)
    <2>1. /\ cap \in Nat \ {0} /\ days \in DayLists /\ at \in DOMAIN days /\ Len(objects) = at
          /\ ClockOK(clock)
      BY <1>1 DEF FrameInv, ObjectsInv, OpenClockInv, FrameAssumption
    <2> QED BY <2>1, DaysFacts DEF Day
  <1>3. RawInv /\ DaysInv /\ DayInv /\ HeldInv
    BY <1>1 DEF CausalInv
  <1>4. CausalClock(closed, RawEnd, objects[at].trades) /\ closed.members = << >>
    <2>1. CausalClock(clock, RawEnd, objects[at].trades)
      <3>1. objects[at].trades \ queue = objects[at].trades
        BY <1>1
      <3> QED BY <1>1, <1>3, <3>1 DEF DayInv
    <2> QED BY <1>2, <2>1, FinishCausal
  <1>5. ClockFields(closed) /\ IsBars(cb) /\ \A i \in DOMAIN cb : RawEnd <= cb[i].t
    BY <1>4 DEF CausalClock, ClockOK
  <1>6. clock'.watermark = closed.watermark
    BY <1>1, <1>5 DEF ClockFields
  <1> HIDE DEF closed, cb
  <1>7. /\ Sequence(nb) /\ DOMAIN nb = DOMAIN cb
        /\ \A i \in DOMAIN cb : nb[i] = [day |-> Day, bar |-> cb[i]]
    <2> DEFINE w == Len(cb)
    <2>1. w \in Nat /\ DOMAIN cb = 1 .. w
      BY <1>5, SequenceFacts DEF IsBars
    <2> HIDE DEF w
    <2>2. /\ DOMAIN nb = 1 .. w /\ nb = [i \in 1 .. w |-> nb[i]]
          /\ \A i \in DOMAIN cb : nb[i] = [day |-> Day, bar |-> cb[i]]
      BY <2>1
    <2> HIDE DEF nb
    <2>3. Sequence(nb)
      BY <2>1, <2>2, Sequenced
    <2> QED BY <2>1, <2>2, <2>3
  <1> HIDE DEF nb
  <1>8. /\ Timed(cb) /\ Timed(BarTimes(nb))
        /\ \A i \in DOMAIN cb : BarTimes(nb)[i] = [day |-> Day, t |-> cb[i].t]
        /\ Sequence(r) /\ Timed(BarTimes(r))
        /\ \A i \in DOMAIN r : Knowable(r[i].bar) /\ r[i].bar.t <= closed.watermark
        /\ \A i \in DOMAIN r : \E j \in 1 .. at : r[i].day = objects[j].day
        /\ \A j \in 1 .. at : DayDone(r, objects[j])
    BY <1>1, <1>4, <1>7, CloseRaw DEF cb
  <1> HIDE DEF r
  <1>9. RawInv'
    BY <1>1, <1>6, <1>8 DEF RawInv
  <1>10. SUFFICES ASSUME phase' \notin {"failed", "misfed"} PROVE CausalInv'
    BY DEF CausalInv
  <1>11. Advance /\ phase' \in {"open", "segment"}
    <2> HIDE DEF bars, st, es
    <2>1. Advance
      BY <1>1, <1>10 DEF Fail, Misfeed
    <2> QED BY <2>1 DEF Advance
  <1>12. DaysInv'
    <2>1. Closed' = at
      BY <1>1, <1>2, <1>11 DEF Closed
    <2> QED BY <1>1, <1>8, <2>1 DEF DaysInv
  <1>13. DayInv'
    BY <1>11 DEF DayInv
  <1>14. HeldInv'
    <2>1. CASE bars = << >>
      <3>1. cb = << >>
        <4>1. SUFFICES ASSUME cb # << >> PROVE FALSE
          OBVIOUS
        <4>2. IsCoalesced(bars, cb)
          BY <1>8, CoalescedIs
        <4>3. Len(bars) # 0
          BY <1>8, <4>1, <4>2, LastCoalesced
        <4> QED BY <2>1, <4>3, EmptySequence
      <3>2. nb = << >>
        <4>1. Len(nb) \in Nat /\ DOMAIN nb = 1 .. Len(nb) /\ DOMAIN nb = {}
          BY <1>7, <3>1, EmptySequence, SequenceFacts
        <4>2. Len(nb) = 0
          BY <4>1
        <4> QED BY <1>7, <4>2, SequenceFacts
      <3>3. raw' = raw
        <4>1. PICK A : raw \in Seq(A)
          BY <1>3 DEF RawInv, Sequence
        <4>2. raw \o << >> = raw
          BY <4>1
        <4> QED BY <1>1, <3>2, <4>2 DEF r
      <3>4. UNCHANGED <<carry, lastT, decided>>
        BY <1>1, <2>1
      <3> QED BY <1>3, <3>3, <3>4 DEF HeldInv, RawEnd
    <2>2. CASE bars # << >>
      <3>1. ~ (lastT # None /\ Head(bars).t <= lastT)
        <4> HIDE DEF bars, st, es
        <4> QED BY <1>1, <1>10, <2>2 DEF Fail
      <3>2. Follow(cb)
        <4>1. \A i \in DOMAIN raw, j \in DOMAIN cb : raw[i].bar.t <= cb[j].t
          <5> TAKE i \in DOMAIN raw, j \in DOMAIN cb
          <5>1. raw[i].bar.t \in Nat /\ raw[i].bar.t <= RawEnd /\ RawEnd \in Nat
            BY <1>2, <1>3, RawEndIs
          <5>2. RawEnd <= cb[j].t /\ cb[j].t \in Nat
            BY <1>5, <1>8 DEF Timed
          <5> QED BY <5>1, <5>2
        <4> QED BY <1>5, <1>8, <4>1 DEF Follow
      <3>3. OnDay(BarTimes(nb), cb, Day)
        <4>1. Sequence(BarTimes(nb)) /\ DOMAIN BarTimes(nb) = DOMAIN nb
          BY <1>7, TimesAre
        <4> QED BY <1>7, <1>8, <4>1 DEF OnDay
      <3>4. IsCoalesced(EntryTimes(st.decided) \o BarTimes(<<Last(es)>>), BarTimes(raw \o nb))
        BY <1>1, <1>7, <2>2, <3>1, <3>2, <3>3, CloseHeld
      <3>5. carry' = <<Last(es)>> /\ decided' = st.decided
        BY <1>1, <2>2
      <3> DEFINE x == Last(es)
      <3> HIDE DEF st, x
      <3>6. IsCoalesced(EntryTimes(decided') \o BarTimes(carry'), BarTimes(raw'))
        BY <1>1, <3>4, <3>5 DEF r, x
      <3>7. carry' # << >> /\ Len(carry') = 1
        <4>1. carry' = <<x>>
          BY <3>5 DEF x
        <4> QED BY <4>1
      <3> QED BY <3>6, <3>7 DEF HeldInv
    <2> QED BY <2>1, <2>2
  <1> QED BY <1>9, <1>12, <1>13, <1>14 DEF CausalInv

\* The decision held back is of the last bar.
LEMMA HeldIsLast ==
    ASSUME RawInv, HeldInv, ClockOK(clock), Sequence(carry), Sequence(decided), carry # << >>
    PROVE  raw # << >> /\ carry[1].bar.t = RawEnd /\ Head(carry).bar.t = RawEnd
  <1> DEFINE m == EntryTimes(decided)
             h == BarTimes(carry)
             b == BarTimes(raw)
             q == m \o h
             l == Len(raw)
             w == Len(m)
  <1>1. Sequence(m) /\ Sequence(h) /\ Len(h) = Len(carry)
        /\ \A k \in DOMAIN carry : h[k] = [day |-> carry[k].day, t |-> carry[k].bar.t]
    BY TimesAre
  <1>2. Len(h) = 1 /\ 1 \in DOMAIN carry
    <2> DEFINE z == Len(carry)
    <2>1. z = 1 /\ DOMAIN carry = 1 .. z
      BY SequenceFacts DEF HeldInv
    <2>2. Len(h) = z
      BY <1>1
    <2> HIDE DEF z, h
    <2> QED BY <2>1, <2>2
  <1>3. h[1] = [day |-> carry[1].day, t |-> carry[1].bar.t]
    BY <1>1, <1>2
  <1>4. /\ w \in Nat /\ Len(q) = w + 1 /\ q[w + 1] = h[1] /\ w + 1 \in DOMAIN q
    <2>1. /\ Len(q) = Len(m) + Len(h) /\ Len(m) \in Nat /\ DOMAIN q = 1 .. Len(m) + Len(h)
          /\ \A i \in 1 .. Len(h) : q[Len(m) + i] = h[i]
      <3>1. Sequence(m) /\ Sequence(h)
        BY <1>1
      <3> QED BY <3>1, Concatenating
    <2> HIDE DEF q, h, m
    <2> QED BY <1>2, <2>1
  <1>5. Timed(b) /\ IsCoalesced(q, b)
    BY DEF RawInv, HeldInv
  <1>6. b # << >> /\ raw # << >>
    <2> HIDE DEF q, b
    <2>1. PICK i \in DOMAIN b : q[w + 1] = b[i]
      BY <1>4, <1>5 DEF IsCoalesced
    <2>2. b # << >>
      BY <2>1, EmptySequence
    <2> QED BY <2>2, EmptyTimes DEF b
  <1>7. /\ l \in DOMAIN raw /\ Len(b) = l
        /\ b[l] = [day |-> raw[l].day, t |-> raw[l].bar.t]
    <2>1. l \in DOMAIN raw
      BY <1>6, RawEndIs
    <2> QED BY <2>1, TimesAre DEF RawInv
  <1> HIDE DEF q, b, h
  <1>8. q[Len(q)] = b[Len(b)]
    BY <1>5, <1>6, LastCoalesced
  <1>9. h[1] = b[l]
    BY <1>4, <1>7, <1>8
  <1>10. carry[1].bar.t = raw[l].bar.t
    BY <1>3, <1>7, <1>9
  <1>11. Head(carry) = carry[1]
    BY DEF Sequence
  <1> QED BY <1>6, <1>10, <1>11 DEF RawEnd

\* The error on a watermark that goes back across a day is never raised, as its
\* comment in _build_frame says.
LEMMA NeverRegresses ==
    ASSUME FrameAssumption, FrameInv, CausalInv, phase = "clock", queue = {}
    PROVE  LET bars == Coalesce(FinishClock(clock, cap, Day).bars)
           IN bars # << >> => ~ Regressed(bars)
  <1> DEFINE closed == FinishClock(clock, cap, Day)
             cb == closed.bars
             bars == Coalesce(cb)
  <1>1. RawInv /\ DayInv /\ HeldInv /\ ClockOK(clock) /\ Sequence(carry) /\ Sequence(decided)
    BY DEF CausalInv, FrameInv, DecidedInv, AreDecisions, EntriesMade, OpenClockInv
  <1>2. Day \in Nat /\ cap \in Nat \ {0}
    <2>1. cap \in Nat \ {0} /\ days \in DayLists /\ at \in DOMAIN days
      BY DEF FrameInv, ObjectsInv, FrameAssumption
    <2> QED BY <2>1, DaysFacts DEF Day
  <1>3. CausalClock(closed, RawEnd, objects[at].trades)
    <2>1. CausalClock(clock, RawEnd, objects[at].trades)
      <3>1. objects[at].trades \ queue = objects[at].trades
        OBVIOUS
      <3> QED BY <1>1, <3>1 DEF DayInv
    <2> QED BY <1>2, <2>1, FinishCausal
  <1>4. IsBars(cb) /\ RawEnd \in Nat /\ \A i \in DOMAIN cb : RawEnd <= cb[i].t
    BY <1>3 DEF CausalClock, ClockOK
  <1> HIDE DEF closed, cb
  <1>5. SUFFICES ASSUME bars # << >>, carry # << >> PROVE ~ Head(bars).t < Head(carry).bar.t
    BY DEF Regressed, closed, cb
  <1>6. Sequence(bars) /\ \A k \in DOMAIN bars : IsBar(bars[k])
    BY <1>4, CoalesceIs
  <1>7. Timed(cb)
    BY <1>4 DEF IsBars, IsBar, Timed
  <1>8. IsCoalesced(bars, cb)
    BY <1>7, CoalescedIs
  <1> HIDE DEF bars
  <1>9. 1 \in DOMAIN bars /\ Head(bars) = bars[1]
    <2>1. Len(bars) \in Nat /\ Len(bars) # 0 /\ DOMAIN bars = 1 .. Len(bars)
      BY <1>5, <1>6, SequenceFacts
    <2> QED BY <2>1
  <1>10. PICK i \in DOMAIN cb : bars[1] = cb[i]
    BY <1>8, <1>9 DEF IsCoalesced
  <1>11. Head(carry).bar.t = RawEnd
    BY <1>1, <1>5, HeldIsLast
  <1>12. RawEnd <= Head(bars).t /\ Head(bars).t \in Nat
    BY <1>4, <1>6, <1>9, <1>10 DEF IsBar
  <1> QED BY <1>4, <1>11, <1>12

LEMMA CausalEndSegment ==
    ASSUME FrameAssumption, FrameInv, CausalInv, EndSegment
    PROVE  CausalInv'
  <1>1. /\ phase = "segment" /\ UNCHANGED <<objects, clock, raw>>
        /\ decided' = ClassifyAll(carry).decided /\ carry' = << >>
        /\ lastT' = IF carry = << >> THEN lastT ELSE Head(carry).bar.t
        /\ phase' \in {"misfed", "finish", "open"}
    BY DEF EndSegment, inputVars
  <1>2. Sequence(carry) /\ Sequence(decided) /\ ClockOK(clock)
    BY DEF FrameInv, DecidedInv, AreDecisions, EntriesMade, OpenClockInv
  <1>3. RawInv /\ DaysInv /\ HeldInv
    BY <1>1 DEF CausalInv
  <1>4. RawInv'
    BY <1>1, <1>3 DEF RawInv
  <1>5. DaysInv' /\ DayInv'
    BY <1>1, <1>3 DEF DaysInv, DayInv, Closed
  <1> DEFINE m == EntryTimes(decided)
             h == BarTimes(carry)
             b == BarTimes(raw)
             q == m \o h
  <1>6. Sequence(m) /\ Sequence(h) /\ Len(h) = Len(carry)
        /\ \A k \in DOMAIN carry : h[k] = [day |-> carry[k].day, t |-> carry[k].bar.t]
    BY <1>2, TimesAre
  <1>7. IsCoalesced(EntryTimes(decided') \o BarTimes(carry'), BarTimes(raw'))
    <2>1. EntryTimes(decided') = q
      BY <1>1, <1>2, ClassifyAdds
    <2>2. BarTimes(carry') = << >>
      BY <1>1, EmptyTimes
    <2>3. q \o << >> = q
      <3>1. Sequence(q)
        BY <1>6, Concatenating
      <3> HIDE DEF q
      <3>2. PICK A : q \in Seq(A)
        BY <3>1 DEF Sequence
      <3> QED BY <3>2
    <2>4. IsCoalesced(q, b)
      BY <1>3 DEF HeldInv
    <2> HIDE DEF q, b
    <2>5. raw' = raw
      BY <1>1
    <2> QED BY <2>1, <2>2, <2>3, <2>4, <2>5 DEF b
  <1>8. ASSUME raw # << >> PROVE lastT' = RawEnd
    <2>1. CASE carry = << >>
      BY <1>1, <1>3, <1>8, <2>1 DEF HeldInv
    <2>2. CASE carry # << >>
      BY <1>1, <1>2, <1>3, <2>2, HeldIsLast
    <2> QED BY <2>1, <2>2
  <1>9. HeldInv'
    <2>1. RawEnd' = RawEnd /\ raw' = raw
      BY <1>1 DEF RawEnd
    <2> QED BY <1>1, <1>7, <1>8, <2>1 DEF HeldInv
  <1> QED BY <1>4, <1>5, <1>9 DEF CausalInv

LEMMA CausalInvStep ==
    ASSUME FrameAssumption, FrameInv, CausalInv, [Next]_vars
    PROVE  CausalInv'
  <1>1. CASE Finish
    BY <1>1 DEF Finish, inputVars, CausalInv, RawInv, DaysInv, DayInv, HeldInv, RawEnd, Closed
  <1>2. CASE UNCHANGED vars
    BY <1>2 DEF vars, inputVars, CausalInv, RawInv, DaysInv, DayInv, HeldInv, RawEnd, Closed
  <1> QED BY <1>1, <1>2, CausalOpenDay, CausalPushTrade, CausalCloseDay, CausalEndSegment DEF Next

\* Until a stage refuses its input, the bars of the days before partition their
\* trades, the clock of the open day has seen its first trades and never goes
\* back, and what was decided coalesces every bar (ArrivalTimeBarClock,
\* coalesce_by_decision_time and the chained watermark of _build_frame).
THEOREM CausalInvariant == ASSUME FrameAssumption PROVE Spec => []CausalInv
  <1>1. Init => CausalInv
    BY CausalInvInit
  <1>2. FrameInv /\ CausalInv /\ [Next]_vars => CausalInv'
    BY CausalInvStep
  <1>3. Spec => []FrameInv
    BY FrameInvariant
  <1> QED BY <1>1, <1>2, <1>3, PTL DEF Spec

\* Nothing is decided before it is knowable: the bars partition each day's
\* trades in clock order, each after its members' receipt and its cap, in times
\* that never go back, and one instant is one decision (_build_frame).
THEOREM DecisionsAreCausalTheorem == ASSUME FrameAssumption PROVE Spec => []DecisionsAreCausal
  <1>1. ASSUME FrameInv, CausalInv PROVE DecisionsAreCausal
    <2> SUFFICES ASSUME phase \in {"open", "segment", "finish"}
                 PROVE  DecisionsAreCausal
      BY DEF DecisionsAreCausal
    <2>1. RawInv /\ DaysInv /\ HeldInv
      BY <1>1 DEF CausalInv
    <2>2. /\ Sequence(objects) /\ DOMAIN objects = 1 .. Len(objects)
          /\ Sequence(carry) /\ Sequence(decided) /\ Sequence(raw)
      BY <1>1, <2>1, SequenceFacts
         DEF FrameInv, ObjectsInv, DecidedInv, AreDecisions, EntriesMade, RawInv
    <2>3. \A i \in DOMAIN raw :
             /\ \A m \in ToSet(raw[i].bar.members) : m.recv <= raw[i].bar.t
             /\ raw[i].bar.fire # NoTime => raw[i].bar.fire <= raw[i].bar.t
      BY <2>1 DEF RawInv, Knowable
    <2>4. \A i, j \in DOMAIN raw : i <= j => raw[i].bar.t <= raw[j].bar.t
      <3> DEFINE b == BarTimes(raw)
      <3>1. /\ DOMAIN b = DOMAIN raw
            /\ \A i \in DOMAIN raw : b[i] = [day |-> raw[i].day, t |-> raw[i].bar.t]
        BY <2>2, TimesAre
      <3>2. Timed(b)
        BY <2>1 DEF RawInv
      <3> HIDE DEF b
      <3>3. \A i \in DOMAIN raw : b[i].t = raw[i].bar.t
        BY <3>1
      <3> QED BY <3>1, <3>2, <3>3 DEF Timed
    <2>5. ASSUME NEW o \in ToSet(objects) PROVE DayDone(raw, o)
      <3>1. PICK j \in DOMAIN objects : o = objects[j]
        BY DEF ToSet
      <3>2. j \in 1 .. Closed
        BY <2>2, <3>1 DEF Closed
      <3> QED BY <2>1, <3>1, <3>2 DEF DaysInv
    <2>6. EntryTimes(decided) \o BarTimes(carry) = Coalesce(BarTimes(raw))
      BY <2>1, OneCoalesced DEF RawInv, HeldInv
    <2> QED BY <2>3, <2>4, <2>5, <2>6
            DEF DecisionsAreCausal, DayDone, BarTimes, EntryTimes
  <1>2. Spec => []FrameInv
    BY FrameInvariant
  <1>3. Spec => []CausalInv
    BY CausalInvariant
  <1> QED BY <1>1, <1>2, <1>3, PTL
=============================================================================
