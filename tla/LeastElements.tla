--------------------------- MODULE LeastElements ---------------------------
(***************************************************************************)
(* What the proofs use in place of induction: a set of finite sets has a   *)
(* least one, and a set of naturals a least number.  A property that fails *)
(* somewhere fails at a least place, and holds before it.                  *)
(***************************************************************************)
EXTENDS FiniteSetTheorems, TLAPS

LEMMA LeastFiniteSet ==
  ASSUME NEW S, NEW F, F \subseteq FiniteSubsetsOf(S), F # {}
  PROVE  \E A \in F : \A B \in F : B \subseteq A => B = A
  <1>1. PICK A \in F : \A B \in F : ~(<<B, A>> \in StrictSubsetOrdering(S))
    BY FS_StrictSubsetOrderingWellFounded, WFMin
  <1>2. \A B \in F : B \subseteq A => B = A
    BY <1>1, Zenon DEF StrictSubsetOrdering, FiniteSubsetsOf
  <1> QED
    BY <1>2

LEMMA LeastNatural ==
  ASSUME NEW T, T \subseteq Nat, T # {}
  PROVE  \E n \in T : \A m \in T : n <= m
  <1> DEFINE F == {0..n : n \in T}
  <1>1. F \subseteq FiniteSubsetsOf(Nat)
    <2> SUFFICES ASSUME NEW n \in T PROVE 0..n \in FiniteSubsetsOf(Nat)
      OBVIOUS
    <2> QED
      BY FS_Interval DEF FiniteSubsetsOf
  <1>2. PICK A \in F : \A B \in F : B \subseteq A => B = A
    <2>1. F # {}
      OBVIOUS
    <2> HIDE DEF F
    <2> QED
      BY <1>1, <2>1, LeastFiniteSet
  <1>3. PICK n \in T : A = 0..n
    OBVIOUS
  <1>4. ASSUME NEW m \in T, m < n PROVE FALSE
    <2>1. 0..m \in F /\ 0..m \subseteq A
      BY <1>3, <1>4
    <2>2. 0..m = 0..n
      BY <1>2, <1>3, <2>1
    <2>3. n \in 0..m
      BY <2>2
    <2> QED
      BY <1>4, <2>3
  <1> QED
    BY <1>4

-----------------------------------------------------------------------------
(* Folds.  A value is computed from a finite set one element after the     *)
(* other, in the order in which `pick' takes them.                         *)

IsFold(f, S, base, pick, step) ==
    f = [T \in SUBSET S |-> IF T = {} THEN base ELSE step[<<pick[T], f[T \ {pick[T]}]>>]]

Picks(pick, S) == \A T \in SUBSET S : T # {} => pick[T] \in T

LEMMA FoldsAgree ==
  ASSUME NEW S, IsFiniteSet(S), NEW base, NEW pick, Picks(pick, S), NEW step,
         NEW A \in SUBSET S, NEW f, IsFold(f, A, base, pick, step),
         NEW B \in SUBSET S, NEW g, IsFold(g, B, base, pick, step),
         NEW U \in SUBSET (A \cap B)
  PROVE  f[U] = g[U]
  <1> DEFINE Fails == {T \in SUBSET (A \cap B) : f[T] # g[T]}
  <1> SUFFICES ASSUME Fails # {} PROVE FALSE
    OBVIOUS
  <1>1. PICK T \in Fails : \A R \in Fails : R \subseteq T => R = T
    <2>1. Fails \subseteq FiniteSubsetsOf(S)
      BY FS_Subset DEF FiniteSubsetsOf
    <2> HIDE DEF Fails
    <2> QED
      BY <2>1, LeastFiniteSet
  <1>2. T \in SUBSET A /\ T \in SUBSET B /\ f[T] # g[T]
    OBVIOUS
  <1>3. /\ f[T] = IF T = {} THEN base ELSE step[<<pick[T], f[T \ {pick[T]}]>>]
        /\ g[T] = IF T = {} THEN base ELSE step[<<pick[T], g[T \ {pick[T]}]>>]
    BY <1>2 DEF IsFold
  <1>4. T # {} /\ pick[T] \in T
    BY <1>2, <1>3 DEF Picks
  <1>5. f[T \ {pick[T]}] = g[T \ {pick[T]}]
    <2>1. T \ {pick[T]} \notin Fails
      <3>1. T \ {pick[T]} \subseteq T /\ T \ {pick[T]} # T
        BY <1>4
      <3> HIDE DEF Fails
      <3> QED
        BY <1>1, <3>1
    <2> QED
      BY <2>1
  <1> QED
    BY <1>2, <1>3, <1>4, <1>5

LEMMA FoldExists ==
  ASSUME NEW S, IsFiniteSet(S), NEW pick, Picks(pick, S),
         NEW D, NEW base \in D, NEW step \in [S \X D -> D]
  PROVE  \E f \in [SUBSET S -> D] : IsFold(f, S, base, pick, step)
  <1> DEFINE Folds(T) == {f \in [SUBSET T -> D] : IsFold(f, T, base, pick, step)}
             Fails == {T \in SUBSET S : Folds(T) = {}}
  <1> SUFFICES ASSUME Fails # {} PROVE FALSE
    <2>1. Folds(S) # {}
      OBVIOUS
    <2> QED
      BY <2>1
  <1>1. PICK T \in Fails : \A R \in Fails : R \subseteq T => R = T
    <2>1. Fails \subseteq FiniteSubsetsOf(S)
      BY FS_Subset DEF FiniteSubsetsOf
    <2> HIDE DEF Fails
    <2> QED
      BY <2>1, LeastFiniteSet
  <1>2. T \in SUBSET S /\ Folds(T) = {}
    OBVIOUS
  <1>3. \A U \in SUBSET T : U # T => Folds(U) # {}
    <2> SUFFICES ASSUME NEW U \in SUBSET T, U # T PROVE Folds(U) # {}
      OBVIOUS
    <2>1. U \in SUBSET S /\ U \notin Fails
      <3> HIDE DEF Fails
      <3> QED
        BY <1>1, <1>2
    <2> QED
      BY <2>1
  <1> DEFINE F(U) == CHOOSE f \in Folds(U) : TRUE
             Before(U) == U \ {pick[U]}
             g == [U \in SUBSET T |->
                      IF U = {} THEN base ELSE step[<<pick[U], F(Before(U))[Before(U)]>>]]
  <1>4. \A U \in SUBSET T : U # T => F(U) \in Folds(U)
    <2> HIDE DEF Folds
    <2> QED
      BY <1>3
  <1>5. \A U \in SUBSET T : U # T =>
          F(U) \in [SUBSET U -> D] /\ IsFold(F(U), U, base, pick, step)
    <2> SUFFICES ASSUME NEW U \in SUBSET T, U # T
                 PROVE  F(U) \in [SUBSET U -> D] /\ IsFold(F(U), U, base, pick, step)
      OBVIOUS
    <2>1. F(U) \in Folds(U)
      BY <1>4
    <2> HIDE DEF F
    <2> QED
      BY <2>1
  <1> HIDE DEF F, Folds, Fails
  <1>6. \A U \in SUBSET T : U # {} => /\ pick[U] \in U /\ pick[U] \in S
                                      /\ Before(U) \in SUBSET T /\ Before(U) # T
                                      /\ Before(U) \in SUBSET U
    BY <1>2 DEF Picks
  <1>7. ASSUME NEW U \in SUBSET T, U # T PROVE g[U] = F(U)[U]
    <2>1. F(U)[U] = IF U = {} THEN base ELSE step[<<pick[U], F(U)[Before(U)]>>]
      <3>1. IsFold(F(U), U, base, pick, step) /\ U \in SUBSET U
        BY <1>5, <1>7
      <3> QED
        BY <3>1 DEF IsFold
    <2>2. CASE U = {}
      BY <2>1, <2>2
    <2>3. CASE U # {}
      <3>1. Before(U) \in SUBSET T /\ Before(U) # T /\ Before(U) \in SUBSET U
        BY <1>6, <2>3
      <3> HIDE DEF Before
      <3>2. /\ IsFold(F(U), U, base, pick, step)
            /\ IsFold(F(Before(U)), Before(U), base, pick, step)
            /\ U \in SUBSET S /\ Before(U) \in SUBSET S
            /\ Before(U) \in SUBSET (U \cap Before(U))
        BY <1>2, <1>5, <1>7, <3>1
      <3>3. F(U)[Before(U)] = F(Before(U))[Before(U)]
        BY <3>2, FoldsAgree
      <3>4. g[U] = step[<<pick[U], F(Before(U))[Before(U)]>>]
        BY <2>3
      <3> QED
        BY <2>1, <2>3, <3>3, <3>4
    <2> QED
      BY <2>2, <2>3
  <1>8. IsFold(g, T, base, pick, step)
    <2>1. ASSUME NEW U \in SUBSET T, U # {}
          PROVE  g[U] = step[<<pick[U], g[Before(U)]>>]
      <3>1. g[U] = step[<<pick[U], F(Before(U))[Before(U)]>>]
        BY <2>1
      <3>2. Before(U) \in SUBSET T /\ Before(U) # T
        BY <1>6, <2>1
      <3> HIDE DEF g, Before
      <3>3. g[Before(U)] = F(Before(U))[Before(U)]
        BY <1>7, <3>2
      <3> QED
        BY <3>1, <3>3
    <2>2. {} \in SUBSET T => g[{}] = base
      OBVIOUS
    <2>3. g = [U \in SUBSET T |-> g[U]]
      OBVIOUS
    <2>4. \A U \in SUBSET T : g[U] = IF U = {} THEN base ELSE step[<<pick[U], g[U \ {pick[U]}]>>]
      <3> HIDE DEF g
      <3> QED
        BY <2>1, <2>2
    <2> HIDE DEF g
    <2> QED
      BY <2>3, <2>4, Zenon DEF IsFold
  <1>9. g \in [SUBSET T -> D]
    <2>1. ASSUME NEW U \in SUBSET T, U # {}
          PROVE  step[<<pick[U], F(Before(U))[Before(U)]>>] \in D
      <3>1. pick[U] \in S /\ Before(U) \in SUBSET T /\ Before(U) # T
        BY <1>6, <2>1
      <3> HIDE DEF Before
      <3>2. F(Before(U)) \in [SUBSET Before(U) -> D]
        BY <1>5, <3>1
      <3>3. F(Before(U))[Before(U)] \in D
        BY <3>2
      <3> QED
        BY <3>1, <3>3
    <2> QED
      BY <2>1
  <1> QED
    BY <1>2, <1>8, <1>9 DEF Folds
=============================================================================
