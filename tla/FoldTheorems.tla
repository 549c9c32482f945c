----------------------------- MODULE FoldTheorems ------------------------------
(***************************************************************************)
(* What a fold over a finite set returns, for any operation: a module that *)
(* instantiates this one gives the operation, the choice of the element    *)
(* that is folded last, and what holds of the state after some elements;   *)
(* c is whatever else they depend on.                                      *)
(***************************************************************************)
EXTENDS Integers, SumTheorems

CONSTANTS
    Op(_, _, _),     \* Op(c, x, i): the state x after the element i
    Pick(_, _),      \* Pick(c, Q): the element of Q that is folded last
    Holds(_, _, _)   \* Holds(c, x, Q): of the state x after the elements Q

\* G folds every subset of S.
IsFold(c, base, S, G) ==
    G = [Q \in SUBSET S |-> IF Q = {} THEN base
                            ELSE Op(c, G[Q \ {Pick(c, Q)}], Pick(c, Q))]

Fold(c, base, S) == (CHOOSE G : IsFold(c, base, S, G))[S]

\* The elements of a subset decide its fold.
LEMMA FoldsAgree ==
    ASSUME NEW c, NEW base, NEW S, IsFiniteSet(S), NEW T, S \subseteq T,
           \A Q \in SUBSET S : Q # {} => Pick(c, Q) \in Q,
           NEW G, IsFold(c, base, S, G), NEW H, IsFold(c, base, T, H)
    PROVE  \A Q \in SUBSET S : G[Q] = H[Q]
  <1> DEFINE good == {Q \in SUBSET S : G[Q] = H[Q]}
  <1>1. ASSUME NEW s \in SUBSET S, \A u \in SUBSET s : u # s => u \in good
        PROVE  s \in good
    <2> DEFINE last == Pick(c, s)
    <2>1. CASE s = {}
      <3>1. G[s] = base /\ H[s] = base
        BY <2>1 DEF IsFold
      <3> QED BY <3>1
    <2>2. CASE s # {}
      <3>1. last \in s /\ s \ {last} \in SUBSET s /\ s \ {last} # s
        BY <2>2
      <3>2. G[s] = Op(c, G[s \ {last}], last)
        BY <2>2 DEF IsFold
      <3>3. H[s] = Op(c, H[s \ {last}], last)
        BY <2>2 DEF IsFold
      <3>4. G[s \ {last}] = H[s \ {last}]
        BY <1>1, <3>1
      <3> QED BY <3>2, <3>3, <3>4
    <2> QED BY <2>1, <2>2
  <1> HIDE DEF good
  <1>2. SUBSET S \subseteq good
    BY <1>1, SubsetInduction
  <1> QED BY <1>2 DEF good

LEMMA FoldExists ==
    ASSUME NEW c, NEW base, NEW S, IsFiniteSet(S),
           \A Q \in SUBSET S : Q # {} => Pick(c, Q) \in Q
    PROVE  \A T \in SUBSET S : \E G : IsFold(c, base, T, G)
  <1> DEFINE The(T) == CHOOSE G : IsFold(c, base, T, G)
             good == {T \in SUBSET S : IsFold(c, base, T, The(T))}
             rest(s) == s \ {Pick(c, s)}
  <1>1. ASSUME NEW T \in SUBSET S, \A U \in SUBSET T : U # T => U \in good
        PROVE  T \in good
    <2> DEFINE G == [s \in SUBSET T |-> IF s = {} THEN base
                                        ELSE Op(c, The(rest(s))[rest(s)], Pick(c, s))]
    <2>1. ASSUME NEW s \in SUBSET T, s # {}
          PROVE  rest(s) \in SUBSET T /\ rest(s) # T /\ rest(s) \in good
      <3>1. Pick(c, s) \in s
        BY <2>1
      <3>2. rest(s) \in SUBSET T /\ rest(s) # T
        BY <3>1
      <3> HIDE DEF good
      <3> QED BY <1>1, <3>2
    <2>2. ASSUME NEW s \in SUBSET T, s # {}
          PROVE  G[s] = Op(c, G[rest(s)], Pick(c, s))
      <3>1. G[s] = Op(c, The(rest(s))[rest(s)], Pick(c, s))
        BY <2>2
      <3>2. The(rest(s))[rest(s)] = G[rest(s)]
        <4>1. IsFold(c, base, rest(s), The(rest(s)))
          BY <2>1, <2>2
        <4>2. CASE rest(s) = {}
          <5>1. The(rest(s))[rest(s)] = base
            <6> HIDE DEF The, rest
            <6> QED BY <4>1, <4>2 DEF IsFold
          <5>2. G[rest(s)] = base
            BY <4>2
          <5> QED BY <5>1, <5>2
        <4>3. CASE rest(s) # {}
          <5> DEFINE u == rest(s)
          <5>1. u \in SUBSET T /\ u # {}
            BY <2>1, <2>2, <4>3
          <5>2. IsFold(c, base, rest(u), The(rest(u))) /\ IsFold(c, base, u, The(u))
            BY <2>1, <4>1, <5>1
          <5>3. IsFiniteSet(rest(u)) /\ rest(u) \subseteq u /\ u \in SUBSET S
            <6> HIDE DEF u
            <6> QED BY <5>1, FS_Subset
          <5>4. The(rest(u))[rest(u)] = The(u)[rest(u)]
            <6>1. \A Q \in SUBSET rest(u) : Q # {} => Pick(c, Q) \in Q
              <7> HIDE DEF u, rest
              <7> QED BY <5>3
            <6> HIDE DEF The, u, rest
            <6> QED BY <5>2, <5>3, <6>1, FoldsAgree
          <5>5. The(u)[u] = Op(c, The(u)[rest(u)], Pick(c, u))
            <6> HIDE DEF The, u
            <6> QED BY <5>1, <5>2 DEF IsFold
          <5>6. G[u] = Op(c, The(rest(u))[rest(u)], Pick(c, u))
            <6> HIDE DEF The, u
            <6> QED BY <5>1
          <5> QED BY <5>4, <5>5, <5>6
        <4> QED BY <4>2, <4>3
      <3> HIDE DEF G
      <3> QED BY <3>1, <3>2
    <2>3. IsFold(c, base, T, G)
      <3> DEFINE H == [s \in SUBSET T |-> IF s = {} THEN base
                                          ELSE Op(c, G[s \ {Pick(c, s)}], Pick(c, s))]
      <3>1. ASSUME NEW s \in SUBSET T PROVE G[s] = H[s]
        <4>1. CASE s = {}
          BY <4>1
        <4>2. CASE s # {}
          <5> HIDE DEF G
          <5> QED BY <2>2, <4>2
        <4> QED BY <4>1, <4>2
      <3>2. G = H
        BY <3>1
      <3> HIDE DEF G
      <3> QED BY <3>2 DEF IsFold
    <2>4. IsFold(c, base, T, The(T))
      <3> HIDE DEF G
      <3> QED BY <2>3
    <2> HIDE DEF The
    <2> QED BY <2>4
  <1> HIDE DEF good
  <1>2. SUBSET S \subseteq good
    BY <1>1, SubsetInduction
  <1> QED BY <1>2 DEF good

LEMMA FoldOfFinite ==
    ASSUME NEW c, NEW base, NEW S, IsFiniteSet(S),
           \A Q \in SUBSET S : Q # {} => Pick(c, Q) \in Q
    PROVE  /\ Fold(c, base, {}) = base
           /\ S # {} => Fold(c, base, S) = Op(c, Fold(c, base, S \ {Pick(c, S)}), Pick(c, S))
  <1> DEFINE The(T) == CHOOSE G : IsFold(c, base, T, G)
             R == S \ {Pick(c, S)}
  <1>1. ASSUME NEW T \in SUBSET S PROVE IsFold(c, base, T, The(T)) /\ Fold(c, base, T) = The(T)[T]
    BY FoldExists DEF Fold
  <1>2. The({})[{}] = base
    <2>1. IsFold(c, base, {}, The({}))
      BY <1>1
    <2> HIDE DEF The
    <2> QED BY <2>1 DEF IsFold
  <1>3. ASSUME S # {} PROVE Fold(c, base, S) = Op(c, Fold(c, base, R), Pick(c, S))
    <2>1. R \in SUBSET S /\ IsFiniteSet(R)
      BY FS_Subset
    <2>2. The(R)[R] = The(S)[R]
      <3>1. \A Q \in SUBSET R : Q # {} => Pick(c, Q) \in Q
        BY <2>1
      <3>2. IsFold(c, base, R, The(R)) /\ IsFold(c, base, S, The(S))
        BY <1>1, <2>1
      <3> HIDE DEF The, R
      <3> QED BY <2>1, <3>1, <3>2, FoldsAgree
    <2>3. The(S)[S] = Op(c, The(S)[R], Pick(c, S))
      <3>1. IsFold(c, base, S, The(S))
        BY <1>1
      <3> HIDE DEF The
      <3> QED BY <1>3, <3>1 DEF IsFold
    <2>4. Fold(c, base, S) = The(S)[S] /\ Fold(c, base, R) = The(R)[R]
      BY <1>1, <2>1
    <2> HIDE DEF The, R
    <2> QED BY <2>2, <2>3, <2>4
  <1>4. Fold(c, base, {}) = base
    BY <1>1, <1>2
  <1> QED BY <1>3, <1>4

\* A fold over positions is the fold of the others and then the one picked.
THEOREM FoldIs ==
    ASSUME NEW c, NEW base, NEW S, \E l \in Nat : S \subseteq 1 .. l,
           \A Q \in SUBSET S : Q # {} => Pick(c, Q) \in Q
    PROVE  /\ Fold(c, base, {}) = base
           /\ S # {} => Fold(c, base, S) = Op(c, Fold(c, base, S \ {Pick(c, S)}), Pick(c, S))
  <1>1. IsFiniteSet(S)
    BY PositionsAreFinite
  <1> QED BY <1>1, FoldOfFinite

\* What every element preserves holds of the fold.
THEOREM FoldKeeps ==
    ASSUME NEW c, NEW base, NEW S, \E l \in Nat : S \subseteq 1 .. l,
           \A Q \in SUBSET S : Q # {} => Pick(c, Q) \in Q,
           Holds(c, base, {}),
           ASSUME NEW Q \in SUBSET S, Q # {}, NEW x, Holds(c, x, Q \ {Pick(c, Q)})
           PROVE  Holds(c, Op(c, x, Pick(c, Q)), Q)
    PROVE  Holds(c, Fold(c, base, S), S)
  <1> DEFINE good == {Q \in SUBSET S : Holds(c, Fold(c, base, Q), Q)}
  <1>0. IsFiniteSet(S)
    BY PositionsAreFinite
  <1>1. ASSUME NEW Q \in SUBSET S, \A U \in SUBSET Q : U # Q => U \in good
        PROVE  Q \in good
    <2>1. CASE Q = {}
      <3>1. Fold(c, base, {}) = base
        BY FoldIs
      <3> QED BY <2>1, <3>1
    <2>2. CASE Q # {}
      <3> DEFINE R == Q \ {Pick(c, Q)}
      <3>1. IsFiniteSet(Q) /\ \A P \in SUBSET Q : P # {} => Pick(c, P) \in P
        BY <1>0, FS_Subset
      <3>2. R \in SUBSET Q /\ R # Q
        BY <2>2
      <3>3. Holds(c, Fold(c, base, R), R)
        BY <1>1, <3>2
      <3>4. Fold(c, base, Q) = Op(c, Fold(c, base, R), Pick(c, Q))
        BY <2>2, <3>1, FoldOfFinite
      <3> QED BY <2>2, <3>3, <3>4
    <2> QED BY <2>1, <2>2
  <1> HIDE DEF good
  <1>2. SUBSET S \subseteq good
    BY <1>0, <1>1, SubsetInduction
  <1> QED BY <1>2 DEF good

\* The same of a sequence, whose positions are folded in their order.
THEOREM LeftFoldIs ==
    ASSUME NEW c, NEW base, NEW l \in Nat,
           \A Q \in SUBSET (1 .. l) : Q # {} => Pick(c, Q) \in Q /\ \A i \in Q : i <= Pick(c, Q)
    PROVE  /\ Fold(c, base, 1 .. 0) = base
           /\ \A k \in 1 .. l : Fold(c, base, 1 .. k) = Op(c, Fold(c, base, 1 .. k - 1), k)
  <1>1. ASSUME NEW S, S \in SUBSET (1 .. l)
        PROVE  IsFiniteSet(S) /\ \A Q \in SUBSET S : Q # {} => Pick(c, Q) \in Q
    BY <1>1, PositionsAreFinite
  <1>2. Fold(c, base, 1 .. 0) = base
    <2>1. Fold(c, base, {}) = base
      BY <1>1, FoldOfFinite
    <2>2. 1 .. 0 = {}
      OBVIOUS
    <2> QED BY <2>1, <2>2
  <1>3. ASSUME NEW k \in 1 .. l PROVE Fold(c, base, 1 .. k) = Op(c, Fold(c, base, 1 .. k - 1), k)
    <2> DEFINE S == 1 .. k
    <2>1. S \in SUBSET (1 .. l) /\ k \in S /\ k \in Nat /\ \A i \in S : i \in Nat /\ i <= k
      OBVIOUS
    <2>2. S \ {k} = 1 .. k - 1
      OBVIOUS
    <2>3. Pick(c, S) = k
      <3> HIDE DEF S
      <3>1. Pick(c, S) \in S /\ k <= Pick(c, S)
        BY <2>1
      <3>2. Pick(c, S) \in Nat /\ Pick(c, S) <= k /\ k \in Nat
        BY <2>1, <3>1
      <3> QED BY <3>1, <3>2
    <2>4. Fold(c, base, S) = Op(c, Fold(c, base, S \ {Pick(c, S)}), Pick(c, S))
      <3> HIDE DEF S
      <3> QED BY <1>1, <2>1, FoldOfFinite
    <2> QED BY <2>2, <2>3, <2>4
  <1> QED BY <1>2, <1>3

\* What every step over the positions of a sequence preserves holds at its end.
THEOREM LeftFoldKeeps ==
    ASSUME NEW c, NEW base, NEW l \in Nat,
           \A Q \in SUBSET (1 .. l) : Q # {} => Pick(c, Q) \in Q /\ \A i \in Q : i <= Pick(c, Q),
           Holds(c, base, 0),
           ASSUME NEW k \in 1 .. l, NEW x, Holds(c, x, k - 1) PROVE Holds(c, Op(c, x, k), k)
    PROVE  Holds(c, Fold(c, base, 1 .. l), l)
  <1> DEFINE bad == {k \in Nat : k <= l /\ ~ Holds(c, Fold(c, base, 1 .. k), k)}
  <1>1. bad = {}
    <2>1. SUFFICES ASSUME bad # {} PROVE FALSE
      OBVIOUS
    <2>2. PICK k \in bad : \A j \in bad : k <= j
      <3>1. bad \subseteq Nat
        OBVIOUS
      <3> HIDE DEF bad
      <3> QED BY <2>1, <3>1, LeastOfNat
    <2>3. k \in Nat /\ k <= l /\ ~ Holds(c, Fold(c, base, 1 .. k), k)
      OBVIOUS
    <2>4. k # 0
      <3>1. Fold(c, base, 1 .. 0) = base
        BY LeftFoldIs
      <3> QED BY <2>3, <3>1
    <2>5. k \in 1 .. l /\ k - 1 \in Nat /\ k - 1 <= l /\ ~ k <= k - 1
      BY <2>3, <2>4
    <2>6. Holds(c, Fold(c, base, 1 .. k - 1), k - 1)
      <3>1. k - 1 \notin bad
        <4> HIDE DEF bad
        <4> QED BY <2>2, <2>5
      <3> QED BY <2>5, <3>1
    <2>7. Fold(c, base, 1 .. k) = Op(c, Fold(c, base, 1 .. k - 1), k)
      BY <2>5, LeftFoldIs
    <2> QED BY <2>3, <2>5, <2>6, <2>7
  <1> QED BY <1>1
=============================================================================
