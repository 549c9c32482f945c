----------------------------- MODULE SumTheorems ------------------------------
(***************************************************************************)
(* Finite sets of natural numbers, by induction over their subsets: their  *)
(* bounds, their members in order, and what SumFunctionOnSet of the        *)
(* community modules returns.  The segments of a day and the bars of a     *)
(* frame are positions in order; the durations of a replay and the bytes a *)
(* backfill spends are sums.                                               *)
(***************************************************************************)
EXTENDS Integers, Sequences, Functions, FiniteSetsExt, Positions, TLAPS, FiniteSetTheorems,
        WellFoundedInduction

LEMMA LeastOfNat ==
    ASSUME NEW S, S \subseteq Nat, S # {}
    PROVE  \E m \in S : \A x \in S : m <= x
  <1>1. PICK m \in S : \A x \in S : ~ (<<x, m>> \in OpToRel(<, Nat))
    BY NatLessThanWellFounded, WFMin, Zenon
  <1>2. ASSUME NEW x \in S PROVE m <= x
    <2>1. x \in Nat /\ m \in Nat
      OBVIOUS
    <2>2. ASSUME x < m PROVE FALSE
      <3>1. <<x, m>> \in OpToRel(<, Nat)
        BY <2>1, <2>2 DEF OpToRel
      <3> QED BY <1>1, <3>1
    <2> QED BY <2>1, <2>2
  <1> QED BY <1>2

LEMMA PositionsAreFinite ==
    ASSUME NEW l \in Nat, NEW S, S \subseteq 1 .. l
    PROVE  IsFiniteSet(S)
  <1>1. 1 \in Int /\ l \in Int
    OBVIOUS
  <1>2. IsFiniteSet(1 .. l)
    BY <1>1, FS_Interval
  <1> QED BY <1>2, FS_Subset

\* A set that holds every subset all of whose proper subsets it holds holds
\* all the subsets of a finite set.
LEMMA SubsetInduction ==
    ASSUME NEW S, IsFiniteSet(S), NEW G,
           \A T \in SUBSET S : (\A U \in SUBSET T : U # T => U \in G) => T \in G
    PROVE  SUBSET S \subseteq G
  <1> DEFINE bad == {k \in Nat : \E T \in SUBSET S : Cardinality(T) = k /\ T \notin G}
  <1>1. ASSUME NEW T \in SUBSET S
        PROVE  /\ IsFiniteSet(T) /\ Cardinality(T) \in Nat
               /\ \A U \in SUBSET T : U # T => Cardinality(U) < Cardinality(T)
    <2>1. IsFiniteSet(T) /\ Cardinality(T) \in Nat
      BY FS_Subset, FS_CardinalityType
    <2>2. ASSUME NEW U \in SUBSET T, U # T PROVE Cardinality(U) < Cardinality(T)
      <3>1. Cardinality(U) <= Cardinality(T) /\ Cardinality(T) # Cardinality(U)
        BY <2>1, <2>2, FS_Subset
      <3>2. Cardinality(U) \in Nat
        BY <2>1, FS_Subset, FS_CardinalityType
      <3> QED BY <2>1, <3>1, <3>2
    <2> QED BY <2>1, <2>2
  <1>2. bad = {}
    <2>1. SUFFICES ASSUME bad # {} PROVE FALSE
      OBVIOUS
    <2>2. bad \subseteq Nat
      OBVIOUS
    <2>3. PICK k \in bad : \A j \in bad : k <= j
      <3> HIDE DEF bad
      <3> QED BY <2>1, <2>2, LeastOfNat
    <2>4. PICK T \in SUBSET S : Cardinality(T) = k /\ T \notin G
      OBVIOUS
    <2>5. ASSUME NEW U \in SUBSET T, U # T PROVE U \in G
      <3>1. Cardinality(U) \in Nat /\ Cardinality(U) < k
        BY <1>1, <2>4, <2>5
      <3>2. k \in Nat
        BY <2>2
      <3>3. Cardinality(U) \notin bad
        <4> HIDE DEF bad
        <4> QED BY <2>3, <3>1, <3>2
      <3> QED BY <3>1, <3>3
    <2> QED BY <2>4, <2>5
  <1> QED BY <1>1, <1>2

LEMMA MaxOfFinite ==
    ASSUME NEW S, IsFiniteSet(S), S \subseteq Nat, S # {}
    PROVE  Max(S) \in S /\ \A x \in S : x <= Max(S)
  <1> DEFINE good == {T \in SUBSET S : T # {} => \E m \in T : \A x \in T : x <= m}
  <1>1. ASSUME NEW T \in SUBSET S, \A U \in SUBSET T : U # T => U \in good
        PROVE  T \in good
    <2>1. SUFFICES ASSUME T # {} PROVE \E m \in T : \A x \in T : x <= m
      OBVIOUS
    <2>2. PICK y \in T : TRUE
      BY <2>1
    <2>3. CASE T \ {y} = {}
      <3>1. \A x \in T : x <= y
        BY <2>2, <2>3
      <3> QED BY <2>2, <3>1
    <2>4. CASE T \ {y} # {}
      <3> DEFINE U == T \ {y}
      <3>0. U \in SUBSET T /\ U # T /\ U # {}
        BY <2>2, <2>4
      <3>1. PICK m \in U : \A x \in U : x <= m
        <4> HIDE DEF U
        <4> QED BY <1>1, <3>0
      <3>2. m \in Nat /\ y \in Nat /\ T \subseteq Nat
        OBVIOUS
      <3>3. CASE m <= y
        <4>1. \A x \in T : x <= y
          BY <3>1, <3>2, <3>3
        <4> QED BY <2>2, <4>1
      <3>4. CASE y <= m
        BY <3>1, <3>2, <3>4
      <3> QED BY <3>2, <3>3, <3>4
    <2> QED BY <2>3, <2>4
  <1> HIDE DEF good
  <1>2. S \in good
    BY <1>1, SubsetInduction
  <1>3. \E m \in S : \A x \in S : x <= m
    BY <1>2 DEF good
  <1>4. \E m \in S : \A x \in S : m >= x
    BY <1>3
  <1>5. Max(S) \in S /\ \A x \in S : Max(S) >= x
    BY <1>4 DEF Max
  <1> QED BY <1>5

LEMMA MinOfNat ==
    ASSUME NEW S, S \subseteq Nat, S # {}
    PROVE  Min(S) \in S /\ \A x \in S : Min(S) <= x
  BY LeastOfNat DEF Min

LEMMA MaxIs ==
    ASSUME NEW S, S \subseteq Nat, NEW m \in S, \A x \in S : x <= m
    PROVE  Max(S) = m
  <1>1. \A y \in S : m >= y
    OBVIOUS
  <1>2. Max(S) \in S /\ \A y \in S : Max(S) >= y
    BY <1>1 DEF Max
  <1>3. m \in Nat /\ Max(S) \in Nat /\ Max(S) >= m /\ Max(S) <= m
    BY <1>2
  <1> QED BY <1>3

LEMMA MinIs ==
    ASSUME NEW S, S \subseteq Nat, NEW m \in S, \A x \in S : m <= x
    PROVE  Min(S) = m
  <1>1. Min(S) \in S /\ \A y \in S : Min(S) <= y
    BY DEF Min
  <1>2. m \in Nat /\ Min(S) \in Nat /\ Min(S) <= m /\ m <= Min(S)
    BY <1>1
  <1> QED BY <1>2

-----------------------------------------------------------------------------
(* Sequences and positions in them *)

\* A sequence of anything.
Sequence(s) == \E S : s \in Seq(S)

LEMMA SequenceFacts ==
    ASSUME NEW s, Sequence(s)
    PROVE  /\ Len(s) \in Nat /\ DOMAIN s = 1 .. Len(s)
           /\ s = << >> <=> Len(s) = 0
  BY DEF Sequence

Rank(S, i) == Cardinality({j \in S : j < i})

LEMMA RanksGrow ==
    ASSUME NEW S, S \subseteq Nat, IsFiniteSet(S), NEW i \in S, NEW j \in S
    PROVE  /\ Rank(S, i) \in Nat /\ Rank(S, i) < Cardinality(S) /\ Cardinality(S) \in Nat
           /\ i < j => Rank(S, i) < Rank(S, j)
  <1> DEFINE Below(T, x) == {y \in T : y < x}
  <1>1. ASSUME NEW T, IsFiniteSet(T), NEW U, U \subseteq T, NEW x \in T, x \notin U
        PROVE  /\ IsFiniteSet(U) /\ Cardinality(U) \in Nat /\ Cardinality(T) \in Nat
               /\ Cardinality(U) < Cardinality(T)
    <2>1. IsFiniteSet(U) /\ Cardinality(U) <= Cardinality(T)
          /\ (Cardinality(T) = Cardinality(U) => T = U)
      BY <1>1, FS_Subset
    <2>2. Cardinality(U) \in Nat /\ Cardinality(T) \in Nat
      BY <1>1, <2>1, FS_CardinalityType
    <2>3. T # U
      BY <1>1
    <2> QED BY <2>1, <2>2, <2>3
  <1>2. \A x \in S : ~ x < x /\ Below(S, x) \subseteq S /\ x \notin Below(S, x)
    OBVIOUS
  <1>3. ASSUME i < j PROVE Below(S, i) \subseteq Below(S, j) /\ i \in Below(S, j)
    <2>1. \A x \in S : x < i => x < j
      <3>1. \A x \in S : x \in Int
        OBVIOUS
      <3> QED BY <1>3, <3>1
    <2>2. Below(S, i) \subseteq Below(S, j)
      BY <2>1
    <2>3. i \in Below(S, j)
      BY <1>3
    <2> QED BY <2>2, <2>3
  <1>4. IsFiniteSet(Below(S, j))
    BY <1>2, FS_Subset
  <1> HIDE DEF Below
  <1>5. Cardinality(Below(S, i)) \in Nat /\ Cardinality(Below(S, i)) < Cardinality(S)
        /\ Cardinality(S) \in Nat
    BY <1>1, <1>2
  <1>6. i < j => Cardinality(Below(S, i)) < Cardinality(Below(S, j))
    BY <1>1, <1>2, <1>3, <1>4
  <1> QED BY <1>5, <1>6 DEF Rank, Below

LEMMA EveryRank ==
    ASSUME NEW S, S \subseteq Nat, IsFiniteSet(S)
    PROVE  \A k \in 0 .. Cardinality(S) - 1 : \E i \in S : Rank(S, i) = k
  <1> DEFINE good == {T \in SUBSET S : \A k \in 0 .. Cardinality(T) - 1 : \E i \in T : Rank(T, i) = k}
  <1>1. ASSUME NEW T \in SUBSET S, \A U \in SUBSET T : U # T => U \in good
        PROVE  T \in good
    <2>0. IsFiniteSet(T) /\ T \subseteq Nat /\ Cardinality(T) \in Nat
      <3>1. IsFiniteSet(T)
        BY FS_Subset
      <3> QED BY <3>1, FS_CardinalityType
    <2>1. CASE T = {}
      <3>1. Cardinality(T) = 0
        BY <2>1, FS_EmptySet
      <3>2. 0 .. Cardinality(T) - 1 = {}
        BY <3>1
      <3> QED BY <3>2
    <2>2. CASE T # {}
      <3> DEFINE m == Max(T)
                 U == T \ {m}
      <3>1. m \in T /\ \A x \in T : x <= m
        BY <2>0, <2>2, MaxOfFinite
      <3>2. U \in good /\ Cardinality(U) = Cardinality(T) - 1
        <4>1. U \in SUBSET T /\ U # T
          BY <3>1
        <4>2. Cardinality(U) = Cardinality(T) - 1
          <5> HIDE DEF m
          <5> QED BY <2>0, <3>1, FS_RemoveElement
        <4> HIDE DEF good
        <4> QED BY <1>1, <4>1, <4>2
      <3> HIDE DEF m
      <3>0. m \in Nat /\ \A x \in T : x \in Nat
        BY <2>0, <3>1
      <3>3. {j \in T : j < m} = U
        <4>1. \A x \in T : x < m <=> x # m
          BY <3>0, <3>1
        <4> QED BY <4>1
      <3>4. \A i \in U : {j \in T : j < i} = {j \in U : j < i}
        <4>1. \A i \in U : ~ m < i
          BY <3>0, <3>1
        <4> QED BY <4>1
      <3>5. ASSUME NEW k \in 0 .. Cardinality(T) - 1 PROVE \E i \in T : Rank(T, i) = k
        <4>1. CASE k = Cardinality(U)
          BY <3>1, <3>3, <4>1 DEF Rank
        <4>2. CASE k # Cardinality(U)
          <5>1. k \in 0 .. Cardinality(U) - 1
            BY <2>0, <3>2, <4>2
          <5>2. PICK i \in U : Rank(U, i) = k
            BY <3>2, <5>1
          <5> QED BY <3>4, <5>2 DEF Rank
        <4> QED BY <4>1, <4>2
      <3> QED BY <3>5
    <2> QED BY <2>1, <2>2
  <1>2. S \in good
    <2> HIDE DEF good
    <2>1. SUBSET S \subseteq good
      BY <1>1, SubsetInduction
    <2> QED BY <2>1
  <1> QED BY <1>2

\* InOrder lists the positions once each, in their order.
LEMMA InOrderIs ==
    ASSUME NEW S, S \subseteq Nat, IsFiniteSet(S)
    PROVE  /\ Sequence(InOrder(S)) /\ Len(InOrder(S)) = Cardinality(S)
           /\ DOMAIN InOrder(S) = 1 .. Cardinality(S) /\ Cardinality(S) \in Nat
           /\ \A k \in DOMAIN InOrder(S) : InOrder(S)[k] \in S
           /\ \A k, m \in DOMAIN InOrder(S) : k < m => InOrder(S)[k] < InOrder(S)[m]
           /\ \A i \in S : \E k \in DOMAIN InOrder(S) : InOrder(S)[k] = i
  <1> DEFINE s == InOrder(S)
             c == Cardinality(S)
  <1>0. c \in Nat
    BY FS_CardinalityType
  <1>1. s = [k \in 1 .. c |-> CHOOSE i \in S : Rank(S, i) = k - 1]
    BY DEF InOrder, Rank
  <1> HIDE DEF s, c
  <1>2. ASSUME NEW k \in 1 .. c PROVE s[k] \in S /\ Rank(S, s[k]) = k - 1
    <2>1. k - 1 \in 0 .. c - 1
      BY <1>0
    <2>2. \E i \in S : Rank(S, i) = k - 1
      BY <2>1, EveryRank DEF c
    <2>3. s[k] = CHOOSE i \in S : Rank(S, i) = k - 1
      BY <1>1
    <2> QED BY <2>2, <2>3
  <1>3. s \in Seq(S) /\ DOMAIN s = 1 .. c
    BY <1>0, <1>1, <1>2
  <1>4. Sequence(s) /\ Len(s) = c
    BY <1>0, <1>3 DEF Sequence
  <1>5. ASSUME NEW k \in 1 .. c, NEW m \in 1 .. c, k < m PROVE s[k] < s[m]
    <2>1. s[k] \in S /\ s[m] \in S /\ s[k] \in Nat /\ s[m] \in Nat
      BY <1>2
    <2>2. Rank(S, s[k]) < Rank(S, s[m])
      BY <1>2, <1>5
    <2>3. ~ s[m] < s[k] /\ s[m] # s[k]
      <3>1. s[m] < s[k] => Rank(S, s[m]) < Rank(S, s[k])
        BY <2>1, RanksGrow
      <3>2. Rank(S, s[k]) \in Nat /\ Rank(S, s[m]) \in Nat
        BY <2>1, RanksGrow
      <3> QED BY <2>2, <3>1, <3>2
    <2> QED BY <2>1, <2>3
  <1>6. ASSUME NEW i \in S PROVE \E k \in 1 .. c : s[k] = i
    <2>1. Rank(S, i) \in Nat /\ Rank(S, i) < c
      BY RanksGrow DEF c
    <2> DEFINE k == Rank(S, i) + 1
    <2>2. k \in 1 .. c /\ k - 1 = Rank(S, i)
      BY <1>0, <2>1
    <2> HIDE DEF k
    <2>3. s[k] \in S /\ Rank(S, s[k]) = Rank(S, i) /\ s[k] \in Nat /\ i \in Nat
      BY <1>2, <2>2
    <2>4. ~ s[k] < i /\ ~ i < s[k]
      <3>1. (s[k] < i => Rank(S, s[k]) < Rank(S, i)) /\ (i < s[k] => Rank(S, i) < Rank(S, s[k]))
        BY <2>3, RanksGrow
      <3> QED BY <2>1, <2>3, <3>1
    <2> QED BY <2>2, <2>3, <2>4
  <1> QED BY <1>0, <1>2, <1>3, <1>4, <1>5, <1>6 DEF s, c

-----------------------------------------------------------------------------
(* Sums *)

Picked(s) == CHOOSE x \in s : TRUE

\* G sums f over every subset of S, taking the elements in the order of Picked.
SumsUp(f, S, G) ==
    G = [s \in SUBSET S |-> IF s = {} THEN 0 ELSE f[Picked(s)] + G[s \ {Picked(s)}]]

LEMMA SumDef ==
    ASSUME NEW f, NEW S
    PROVE  SumFunctionOnSet(f, S) = (CHOOSE G : SumsUp(f, S, G))[S]
  BY DEF SumFunctionOnSet, FoldFunctionOnSet, MapThenFoldSet, SumsUp, Picked

LEMMA PickedIn == ASSUME NEW s, s # {} PROVE Picked(s) \in s
  BY DEF Picked

\* The elements of a subset decide its sum.
LEMMA SumsAgree ==
    ASSUME NEW S, IsFiniteSet(S), NEW T, S \subseteq T, NEW f, NEW g,
           \A x \in S : f[x] = g[x],
           NEW G, SumsUp(f, S, G), NEW H, SumsUp(g, T, H)
    PROVE  \A s \in SUBSET S : G[s] = H[s]
  <1> DEFINE good == {s \in SUBSET S : G[s] = H[s]}
  <1>1. ASSUME NEW s \in SUBSET S, \A u \in SUBSET s : u # s => u \in good
        PROVE  s \in good
    <2>1. CASE s = {}
      <3>1. G[s] = 0 /\ H[s] = 0
        BY <2>1 DEF SumsUp
      <3> QED BY <3>1
    <2>2. CASE s # {}
      <3>1. Picked(s) \in s /\ s \ {Picked(s)} \in SUBSET s /\ s \ {Picked(s)} # s
        BY <2>2, PickedIn
      <3>2. G[s] = f[Picked(s)] + G[s \ {Picked(s)}]
        BY <2>2 DEF SumsUp
      <3>3. H[s] = g[Picked(s)] + H[s \ {Picked(s)}]
        BY <2>2 DEF SumsUp
      <3>4. G[s \ {Picked(s)}] = H[s \ {Picked(s)}] /\ f[Picked(s)] = g[Picked(s)]
        BY <1>1, <3>1
      <3> QED BY <3>2, <3>3, <3>4
    <2> QED BY <2>1, <2>2
  <1> HIDE DEF good
  <1>2. SUBSET S \subseteq good
    BY <1>1, SubsetInduction
  <1> QED BY <1>2 DEF good

LEMMA SumExists ==
    ASSUME NEW S, IsFiniteSet(S), NEW f
    PROVE  \A T \in SUBSET S : \E G : SumsUp(f, T, G)
  <1> DEFINE The(T) == CHOOSE G : SumsUp(f, T, G)
             good == {T \in SUBSET S : SumsUp(f, T, The(T))}
  <1>1. ASSUME NEW T \in SUBSET S, \A U \in SUBSET T : U # T => U \in good
        PROVE  T \in good
    <2> DEFINE rest(s) == s \ {Picked(s)}
               G == [s \in SUBSET T |-> IF s = {} THEN 0
                                        ELSE f[Picked(s)] + The(rest(s))[rest(s)]]
    <2>1. ASSUME NEW s \in SUBSET T, s # {}
          PROVE  rest(s) \in SUBSET T /\ rest(s) # T /\ rest(s) \in good
      <3>1. Picked(s) \in s
        BY <2>1, PickedIn
      <3>2. rest(s) \in SUBSET T /\ rest(s) # T
        BY <3>1
      <3> HIDE DEF good
      <3> QED BY <1>1, <3>2
    <2>2. ASSUME NEW s \in SUBSET T, s # {}
          PROVE  G[s] = f[Picked(s)] + G[rest(s)]
      <3>1. G[s] = f[Picked(s)] + The(rest(s))[rest(s)]
        BY <2>2
      <3>2. The(rest(s))[rest(s)] = G[rest(s)]
        <4>1. SumsUp(f, rest(s), The(rest(s)))
          BY <2>1, <2>2
        <4>2. CASE rest(s) = {}
          <5>1. The(rest(s))[rest(s)] = 0
            <6> HIDE DEF The
            <6> QED BY <4>1, <4>2 DEF SumsUp
          <5>2. G[rest(s)] = 0
            BY <4>2
          <5> QED BY <5>1, <5>2
        <4>3. CASE rest(s) # {}
          <5> DEFINE u == rest(s)
          <5>1. u \in SUBSET T /\ u # {}
            BY <2>1, <2>2, <4>3
          <5>2. SumsUp(f, rest(u), The(rest(u))) /\ SumsUp(f, u, The(u))
            BY <2>1, <4>1, <5>1
          <5>3. IsFiniteSet(rest(u)) /\ rest(u) \subseteq u
            BY <5>1, FS_Subset
          <5>4. The(rest(u))[rest(u)] = The(u)[rest(u)]
            <6> HIDE DEF The, u
            <6> QED BY <5>2, <5>3, SumsAgree
          <5>5. The(u)[u] = f[Picked(u)] + The(u)[rest(u)]
            <6> HIDE DEF The, u
            <6> QED BY <5>1, <5>2 DEF SumsUp
          <5>6. G[u] = f[Picked(u)] + The(rest(u))[rest(u)]
            <6> HIDE DEF The, u
            <6> QED BY <5>1
          <5> QED BY <5>4, <5>5, <5>6
        <4> QED BY <4>2, <4>3
      <3> HIDE DEF G
      <3> QED BY <3>1, <3>2
    <2>3. SumsUp(f, T, G)
      <3> DEFINE H == [s \in SUBSET T |-> IF s = {} THEN 0 ELSE f[Picked(s)] + G[rest(s)]]
      <3>1. ASSUME NEW s \in SUBSET T PROVE G[s] = H[s]
        <4>1. CASE s = {}
          BY <4>1
        <4>2. CASE s # {}
          <5> HIDE DEF G
          <5> QED BY <2>2, <4>2
        <4> QED BY <4>1, <4>2
      <3>2. G = H
        BY <3>1
      <3> HIDE DEF G
      <3> QED BY <3>2 DEF SumsUp
    <2>4. SumsUp(f, T, The(T))
      <3> HIDE DEF G
      <3> QED BY <2>3
    <2> HIDE DEF The
    <2> QED BY <2>4
  <1> HIDE DEF good
  <1>2. SUBSET S \subseteq good
    BY <1>1, SubsetInduction
  <1> QED BY <1>2 DEF good

\* What the sum is built from: its function over all the subsets.
LEMMA SumsOverSubsets ==
    ASSUME NEW S, IsFiniteSet(S), NEW f
    PROVE  /\ SumsUp(f, S, CHOOSE G : SumsUp(f, S, G))
           /\ \A T \in SUBSET S : SumFunctionOnSet(f, T) = (CHOOSE G : SumsUp(f, S, G))[T]
  <1> DEFINE The(T) == CHOOSE G : SumsUp(f, T, G)
  <1>1. ASSUME NEW T \in SUBSET S PROVE SumsUp(f, T, The(T))
    BY SumExists
  <1>2. ASSUME NEW T \in SUBSET S PROVE The(T)[T] = The(S)[T]
    <2>1. IsFiniteSet(T) /\ T \in SUBSET T
      BY FS_Subset
    <2>2. SumsUp(f, T, The(T)) /\ SumsUp(f, S, The(S))
      BY <1>1
    <2> HIDE DEF The
    <2> QED BY <2>1, <2>2, SumsAgree
  <1> QED BY <1>1, <1>2, SumDef

LEMMA SumEmpty == ASSUME NEW f PROVE SumFunctionOnSet(f, {}) = 0
  <1> DEFINE G == CHOOSE G : SumsUp(f, {}, G)
  <1>1. IsFiniteSet({})
    BY FS_EmptySet
  <1>2. SumsUp(f, {}, G)
    BY <1>1, SumsOverSubsets
  <1>3. SumFunctionOnSet(f, {}) = G[{}]
    BY SumDef
  <1> HIDE DEF G
  <1> QED BY <1>2, <1>3 DEF SumsUp

LEMMA SumSame ==
    ASSUME NEW S, IsFiniteSet(S), NEW f, NEW g, \A x \in S : f[x] = g[x]
    PROVE  SumFunctionOnSet(f, S) = SumFunctionOnSet(g, S)
  <1> DEFINE F == CHOOSE G : SumsUp(f, S, G)
             H == CHOOSE G : SumsUp(g, S, G)
  <1>1. SumsUp(f, S, F) /\ SumsUp(g, S, H)
    BY SumsOverSubsets
  <1>2. SumFunctionOnSet(f, S) = F[S] /\ SumFunctionOnSet(g, S) = H[S]
    BY SumDef
  <1> HIDE DEF F, H
  <1>3. F[S] = H[S]
    BY <1>1, SumsAgree
  <1> QED BY <1>2, <1>3

\* A sum of naturals is one, and any of its terms can be taken out.
THEOREM SumOfNaturals ==
    ASSUME NEW S, IsFiniteSet(S), NEW f, \A x \in S : f[x] \in Nat
    PROVE  /\ SumFunctionOnSet(f, S) \in Nat
           /\ \A x \in S : SumFunctionOnSet(f, S) = f[x] + SumFunctionOnSet(f, S \ {x})
  <1> DEFINE G == CHOOSE G : SumsUp(f, S, G)
             good == {T \in SUBSET S : /\ G[T] \in Nat
                                       /\ \A x \in T : G[T] = f[x] + G[T \ {x}]}
  <1>1. SumsUp(f, S, G)
    BY SumsOverSubsets
  <1>2. \A T \in SUBSET S : SumFunctionOnSet(f, T) = G[T]
    BY SumsOverSubsets
  <1> HIDE DEF G
  <1>3. ASSUME NEW T \in SUBSET S, \A U \in SUBSET T : U # T => U \in good
        PROVE  T \in good
    <2>1. CASE T = {}
      BY <1>1, <2>1 DEF SumsUp
    <2>2. CASE T # {}
      <3> DEFINE y == Picked(T)
      <3>1. y \in T
        BY <2>2, PickedIn
      <3>2. G[T] = f[y] + G[T \ {y}]
        BY <1>1, <2>2 DEF SumsUp
      <3> HIDE DEF y
      <3>3. f[y] \in Nat /\ G[T \ {y}] \in Nat
        BY <1>3, <3>1
      <3>4. ASSUME NEW x \in T PROVE G[T] = f[x] + G[T \ {x}]
        <4>1. CASE x = y
          BY <3>2, <4>1
        <4>2. CASE x # y
          <5> DEFINE U == T \ {y}
                     V == T \ {x}
                     W == T \ {x, y}
          <5>1. U \in good /\ V \in good /\ W \in good
            BY <1>3, <3>1
          <5>2. U \ {x} = W /\ V \ {y} = W /\ x \in U /\ y \in V
            BY <3>1, <4>2
          <5>3. G[U] = f[x] + G[W] /\ G[V] = f[y] + G[W] /\ G[W] \in Nat
            BY <5>1, <5>2
          <5>4. f[x] \in Nat
            OBVIOUS
          <5> HIDE DEF U, V, W
          <5>5. G[T] = f[y] + G[U]
            BY <3>2 DEF U
          <5>6. G[T] = f[x] + G[V]
            BY <3>3, <5>3, <5>4, <5>5
          <5> QED BY <5>6 DEF V
        <4> QED BY <4>1, <4>2
      <3>5. G[T] \in Nat
        BY <3>2, <3>3
      <3> QED BY <3>4, <3>5
    <2> QED BY <2>1, <2>2
  <1>4. S \in good
    <2> HIDE DEF good
    <2>1. SUBSET S \subseteq good
      BY <1>3, SubsetInduction
    <2> QED BY <2>1
  <1> QED BY <1>2, <1>4

LEMMA SumInsert ==
    ASSUME NEW S, IsFiniteSet(S), NEW x, x \notin S,
           NEW f, \A y \in S \cup {x} : f[y] \in Nat
    PROVE  SumFunctionOnSet(f, S \cup {x}) = f[x] + SumFunctionOnSet(f, S)
  <1>1. IsFiniteSet(S \cup {x}) /\ (S \cup {x}) \ {x} = S
    BY FS_AddElement
  <1> QED BY <1>1, SumOfNaturals
=============================================================================
